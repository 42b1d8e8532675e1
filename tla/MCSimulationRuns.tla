-------------------------- MODULE MCSimulationRuns --------------------------
(***************************************************************************)
(* Small instances of SimulationRuns.                                      *)
(***************************************************************************)
EXTENDS SimulationRuns, TLC
=============================================================================
