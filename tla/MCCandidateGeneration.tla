----------------------- MODULE MCCandidateGeneration -----------------------
(***************************************************************************)
(* An index of five chunks of three procedures for CandidateGeneration:    *)
(* one procedure crowds the others out, and one chunk allows nothing.      *)
(***************************************************************************)
EXTENDS CandidateGeneration

FiveChunks   == <<"oxygen", "oxygen", "power", "oxygen", "rover">>
FiveAllowed  == <<{"ration"}, {}, {"repair", "reduce"}, {"ration", "reduce"}, {"delay"}>>
=============================================================================
