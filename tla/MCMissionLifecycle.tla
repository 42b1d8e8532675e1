------------------------- MODULE MCMissionLifecycle -------------------------
(***************************************************************************)
(* Small instances of MissionLifecycle.                                    *)
(***************************************************************************)
EXTENDS MissionLifecycle, TLC
=============================================================================
