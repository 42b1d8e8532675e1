--------------------------- MODULE MCReplayStream ---------------------------
(***************************************************************************)
(* Small instances of ReplayStream.                                        *)
(***************************************************************************)
EXTENDS ReplayStream, TLC
=============================================================================
