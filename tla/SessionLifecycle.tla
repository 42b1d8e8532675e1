-------------------------- MODULE SessionLifecycle --------------------------
(***************************************************************************)
(* What the mission lifecycle promises about a session, with no locks,     *)
(* files, crashes or clock: the six states of MissionSessionStatus, the    *)
(* transitions of the transition matrix, at most one baseline run per      *)
(* session, launched only while TRIGGERING, and the linkage of that run.   *)
(***************************************************************************)
CONSTANTS Sessions, Runs, NoRun, Nobody

VARIABLES status,     \* [Sessions -> MissionSessionStatus or "ABSENT"]
          baseline,   \* [Sessions -> the linked baseline run or NoRun]
          owner       \* [Runs -> the session the run was launched for]

vars == <<status, baseline, owner>>

Launched(s) == \E r \in Runs : owner[r] = s

Init ==
  /\ status = [s \in Sessions |-> "ABSENT"]
  /\ baseline = [s \in Sessions |-> NoRun]
  /\ owner = [r \in Runs |-> Nobody]

Move(s, from, to) ==
  /\ status[s] \in from
  /\ status' = [status EXCEPT ![s] = to]

Create(s) ==
  /\ Move(s, {"ABSENT"}, "READY")
  /\ UNCHANGED <<baseline, owner>>

Trigger(s) ==
  /\ Move(s, {"READY"}, "TRIGGERING")
  /\ UNCHANGED <<baseline, owner>>

\* The one baseline run of a session.
Launch(s, r) ==
  /\ status[s] = "TRIGGERING"
  /\ ~Launched(s)
  /\ owner[r] = Nobody
  /\ owner' = [owner EXCEPT ![r] = s]
  /\ UNCHANGED <<status, baseline>>

Link(s, r) ==
  /\ owner[r] = s
  /\ Move(s, {"TRIGGERING"}, "BASELINE_READY")
  /\ baseline' = [baseline EXCEPT ![s] = r]
  /\ UNCHANGED owner

\* ERROR keeps the run when the run completed with no telemetry.
Fail(s) ==
  /\ Move(s, {"TRIGGERING"}, "ERROR")
  /\ \/ UNCHANGED baseline
     \/ \E r \in Runs : /\ owner[r] = s
                        /\ baseline' = [baseline EXCEPT ![s] = r]
  /\ UNCHANGED owner

StartReplay(s) ==
  /\ Move(s, {"BASELINE_READY", "COMPLETED"}, "REPLAYING")
  /\ UNCHANGED <<baseline, owner>>

Complete(s) ==
  /\ Move(s, {"REPLAYING"}, "COMPLETED")
  /\ UNCHANGED <<baseline, owner>>

Next ==
  \E s \in Sessions :
    \/ Create(s) \/ Trigger(s) \/ Fail(s) \/ StartReplay(s) \/ Complete(s)
    \/ \E r \in Runs : Launch(s, r) \/ Link(s, r)

Spec == Init /\ [][Next]_vars
=============================================================================
