--------------------------- MODULE PublishedIndex ---------------------------
(***************************************************************************)
(* What the procedure index promises, whoever builds it and whatever fails *)
(* meanwhile.  The index file holds a whole index: everything that one     *)
(* build read, and nothing else, embedded by one model.  A server serves   *)
(* the index that was published when it started, and that only if the      *)
(* server's own model made it; nothing changes under a server that runs.   *)
(***************************************************************************)

CONSTANTS Sources,     \* what a build can have read
          Models,
          Nothing

VARIABLES published, serving, using

vars == <<published, serving, using>>

Whole(models) == [source : Sources, model : models]

Init == published = Nothing /\ serving = Nothing /\ using = Nothing

Publish ==
  /\ published' \in Whole(Models)
  /\ UNCHANGED <<serving, using>>

\* A server may also come up without an index.
Start ==
  /\ using = Nothing
  /\ using' \in Models
  /\ serving' \in {Nothing} \cup ({published} \cap Whole({using'}))
  /\ UNCHANGED published

Stop ==
  /\ serving' = Nothing /\ using' = Nothing
  /\ UNCHANGED published

Next == Publish \/ Start \/ Stop

Spec == Init /\ [][Next]_vars
=============================================================================
