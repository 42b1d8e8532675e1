------------------------- MODULE MCPlanningPipeline -------------------------
(***************************************************************************)
(* Small instances of PlanningPipeline.                                    *)
(***************************************************************************)
EXTENDS PlanningPipeline, TLC
=============================================================================
