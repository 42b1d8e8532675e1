-------------------------- MODULE PlanningPipeline --------------------------
(***************************************************************************)
(* generate_and_simulate (mission_plan_simulation_service.py) over         *)
(* generate_candidate (mission_planning_service.py), PlanningAttemptStore  *)
(* and PlanningValidationStore.                                            *)
(*                                                                         *)
(* The mission underneath is SessionLifecycle, which MissionLifecycle      *)
(* implements: sessions are created, triggered, replayed and restarted by  *)
(* others while an operation awaits the session lock, retrieval and the    *)
(* planner, or the simulator.  What it does between two of these awaits is *)
(* one action; a storage error may cut it after any write, and a crash     *)
(* there leaves the same files.  A call refused by a guard changes nothing *)
(* and is no action.                                                       *)
(***************************************************************************)
EXTENDS Naturals, FiniteSets

CONSTANTS Sessions, Runs, NoRun, Nobody,
          Operations,         \* calls of generate_and_simulate in flight
          Attempts, NoAttempt,
          MaxFaults, MaxCrashes, MaxCancels     \* bounds

ASSUME PipelineAssumption ==
  /\ NoRun \notin Runs /\ Nobody \notin Sessions /\ NoAttempt \notin Attempts
  /\ MaxFaults \in Nat /\ MaxCrashes \in Nat /\ MaxCancels \in Nat

VARIABLES
  status, baseline, owner,    \* of the lifecycle
  guard,       \* sessions in _active_sessions of both services
  op,          \* [Operations -> Operation]
  attempt,     \* [Attempts -> Attempt]: planning_attempt.json
  validation,  \* [Attempts -> Validation]: the validation record
  candidate,   \* [Runs -> Candidate]: runs launched for an attempt
  answer,      \* [Attempts -> what the caller was answered]
  faults, crashes, cancels

mission == <<status, baseline, owner>>
budget  == <<faults, crashes, cancels>>
vars    == <<status, baseline, owner, guard, op, attempt, validation, candidate,
             answer, faults, crashes, cancels>>

Lifecycle == INSTANCE SessionLifecycle

Outcome == {"STABILIZED", "FAILURE", "REJECTED"}

\* read: the baseline the operation found in the session.
Operation == [pc      : {"idle", "loading", "planning", "simulating"},
              session : Sessions \cup {Nobody},
              read    : Runs \cup {NoRun},
              attempt : Attempts \cup {NoAttempt},
              run     : Runs \cup {NoRun}]

Idle == [pc |-> "idle", session |-> Nobody, read |-> NoRun,
         attempt |-> NoAttempt, run |-> NoRun]

Attempt == [session : Sessions \cup {Nobody}, baseline : Runs \cup {NoRun}]

NoRecord == [session |-> Nobody, baseline |-> NoRun]

Validation ==
  [status   : {"none", "SIMULATING", "SIMULATION_COMPLETE", "ERROR"},
   baseline : Runs \cup {NoRun}, run : Runs \cup {NoRun}]

NoValidation == [status |-> "none", baseline |-> NoRun, run |-> NoRun]

Terminal == {"SIMULATION_COMPLETE", "ERROR"}

Candidate == [attempt : Attempts \cup {NoAttempt},
              result  : Outcome \cup {"none", "failed"}]

NotLaunched == [attempt |-> NoAttempt, result |-> "none"]

Answer == {"none", "ok", "error", "integrity", "storage", "cancelled"}

TypeOK ==
  /\ status \in [Sessions -> {"ABSENT", "READY", "TRIGGERING", "BASELINE_READY",
                              "REPLAYING", "COMPLETED", "ERROR"}]
  /\ baseline \in [Sessions -> Runs \cup {NoRun}]
  /\ owner \in [Runs -> Sessions \cup {Nobody}]
  /\ guard \in SUBSET Sessions
  /\ op \in [Operations -> Operation]
  /\ attempt \in [Attempts -> Attempt]
  /\ validation \in [Attempts -> Validation]
  /\ candidate \in [Runs -> Candidate]
  /\ answer \in [Attempts -> Answer]
  /\ faults \in Nat /\ crashes \in Nat /\ cancels \in Nat

Init ==
  /\ Lifecycle!Init
  /\ guard = {}
  /\ op = [o \in Operations |-> Idle]
  /\ attempt = [a \in Attempts |-> NoRecord]
  /\ validation = [a \in Attempts |-> NoValidation]
  /\ candidate = [r \in Runs |-> NotLaunched]
  /\ answer = [a \in Attempts |-> "none"]
  /\ faults = 0 /\ crashes = 0 /\ cancels = 0

----------------------------------------------------------------------------
(* The guards of the two services *)

\* A definition followed by one that differs in a detail is a mutant of it: the
\* first of the two is the one with the bug.

FreeAlways(s) == TRUE

Free(s) == s \notin guard

Begin(o, s) ==
  /\ op[o].pc = "idle" /\ Free(s)
  /\ guard' = guard \cup {s}
  /\ op' = [op EXCEPT ![o] = [Idle EXCEPT !.pc = "loading", !.session = s]]
  /\ UNCHANGED <<mission, attempt, validation, candidate, answer, budget>>

EndStartingOver(o) ==
  /\ op' = [op EXCEPT ![o] = [Idle EXCEPT !.pc = "loading", !.session = op[o].session]]
  /\ UNCHANGED guard

\* The finally clauses: the operation is over and the guards are released.
End(o) ==
  /\ op' = [op EXCEPT ![o] = Idle]
  /\ guard' = guard \ {op[o].session}

Tell(a, what) == answer' = [answer EXCEPT ![a] = what]

\* A storage error: a read or write that fails, or a read-back after a write.
Fault == faults < MaxFaults /\ faults' = faults + 1

----------------------------------------------------------------------------
(* generate_candidate *)

Eligible == {"REPLAYING", "COMPLETED"}

\* The session lock is there; session and baseline result are read at once.
LoadContext(o) ==
  LET s == op[o].session
  IN  /\ op[o].pc = "loading" /\ status[s] \in Eligible
      /\ op' = [op EXCEPT ![o] =
                  [@ EXCEPT !.pc = "planning", !.read = baseline[s]]]
      /\ UNCHANGED <<mission, guard, attempt, validation, candidate, answer, budget>>

\* The mission is not replayed, retrieval or the planner fail or time out, or
\* the candidate is not grounded: nothing has been written.
GenerationFails(o) ==
  /\ op[o].pc \in {"loading", "planning"}
  /\ End(o)
  /\ UNCHANGED <<mission, attempt, validation, candidate, answer, budget>>

NewAttemptSwapped(o) == [session |-> op[o].read, baseline |-> op[o].session]

NewAttempt(o) == [session |-> op[o].session, baseline |-> op[o].read]

Simulating(o) == [status |-> "SIMULATING", baseline |-> op[o].read, run |-> NoRun]

NewIdTrusted(a) == TRUE

\* create_attempt makes the directory of the attempt, and refuses one that exists.
NewId(a) == attempt[a] = NoRecord /\ answer[a] = "none"

Unused(r) == owner[r] = Nobody /\ candidate[r] = NotLaunched

\* The planner answered: the attempt is stored, the baseline checked against
\* it, the SIMULATING record stored, and the candidate run launched.
LaunchCandidate(o, a, r) ==
  /\ op[o].pc = "planning" /\ NewId(a)
  /\ Unused(r)
  /\ attempt' = [attempt EXCEPT ![a] = NewAttempt(o)]
  /\ validation' = [validation EXCEPT ![a] = Simulating(o)]
  /\ candidate' = [candidate EXCEPT ![r].attempt = a]
  /\ op' = [op EXCEPT ![o] =
              [@ EXCEPT !.pc = "simulating", !.attempt = a, !.run = r]]
  /\ UNCHANGED <<mission, guard, answer, budget>>

\* A storage error on the way, or a baseline that fails its checks: the attempt
\* is there or not, and the SIMULATING record when only its read-back failed.
LaunchFails(o, a) ==
  /\ op[o].pc = "planning" /\ NewId(a)
  /\ Fault
  /\ \/ UNCHANGED <<attempt, validation>>
     \/ /\ attempt' = [attempt EXCEPT ![a] = NewAttempt(o)]
        /\ \/ UNCHANGED validation
           \/ validation' = [validation EXCEPT ![a] = Simulating(o)]
  /\ Tell(a, "storage")
  /\ End(o)
  /\ UNCHANGED <<mission, candidate, crashes, cancels>>

----------------------------------------------------------------------------
(* The candidate's simulation *)

CompleteUnlinked(a, r) == [validation[a] EXCEPT !.status = "SIMULATION_COMPLETE"]

Complete(a, r) ==
  [validation[a] EXCEPT !.status = "SIMULATION_COMPLETE", !.run = r]

\* _best_effort_error_transition: its own failure is swallowed.
NoErrorTransition(a) == UNCHANGED <<validation, faults>>

ErrorTransition(a) ==
  LET failed == [validation EXCEPT ![a].status = "ERROR"]
  IN  IF validation[a].status # "SIMULATING" THEN UNCHANGED <<validation, faults>>
      ELSE \/ validation' = failed /\ UNCHANGED faults
           \/ Fault /\ (UNCHANGED validation \/ validation' = failed)

\* The simulator stores no telemetry for a plan that it rejects.
HasTelemetry(outcome) == outcome # "REJECTED"

\* run_simulation returns: _validate_run_linkage passes, the record becomes
\* SIMULATION_COMPLETE, and it is the response.
CandidateAccepted(o, outcome) ==
  LET a == op[o].attempt
      r == op[o].run
  IN  /\ op[o].pc = "simulating" /\ HasTelemetry(outcome)
      /\ candidate' = [candidate EXCEPT ![r].result = outcome]
      /\ \/ /\ validation' = [validation EXCEPT ![a] = Complete(a, r)]
            /\ Tell(a, "ok") /\ UNCHANGED faults
         \/ /\ Fault /\ Tell(a, "storage")
            /\ \/ UNCHANGED validation
               \/ validation' = [validation EXCEPT ![a] = Complete(a, r)]
      /\ End(o)
      /\ UNCHANGED <<mission, attempt, crashes, cancels>>

\* It does not pass: an integrity error, and no transition of the record.
CandidateUnlinked(o, outcome) ==
  /\ op[o].pc = "simulating"
  /\ \/ ~ HasTelemetry(outcome) /\ UNCHANGED faults
     \/ Fault
  /\ candidate' = [candidate EXCEPT ![op[o].run].result = outcome]
  /\ Tell(op[o].attempt, "integrity")
  /\ End(o)
  /\ UNCHANGED <<mission, attempt, validation, crashes, cancels>>

\* run_simulation or read_metadata raise anything else.
SimulationFails(o) ==
  /\ op[o].pc = "simulating"
  /\ candidate' = [candidate EXCEPT ![op[o].run].result = "failed"]
  /\ ErrorTransition(op[o].attempt)
  /\ Tell(op[o].attempt, "error")
  /\ End(o)
  /\ UNCHANGED <<mission, attempt, crashes, cancels>>

\* The task is cancelled at one of its awaits.
Cancel(o) ==
  /\ op[o].pc # "idle"
  /\ cancels < MaxCancels /\ cancels' = cancels + 1
  /\ IF op[o].pc = "simulating"
     THEN /\ candidate' = [candidate EXCEPT ![op[o].run].result = "failed"]
          /\ ErrorTransition(op[o].attempt)
          /\ Tell(op[o].attempt, "cancelled")
     ELSE UNCHANGED <<candidate, validation, answer, faults>>
  /\ End(o)
  /\ UNCHANGED <<mission, attempt, crashes>>

----------------------------------------------------------------------------
\* Only reconcile_interrupted_sessions runs at startup: planning records stay.
Crash ==
  /\ crashes < MaxCrashes /\ crashes' = crashes + 1
  /\ op' = [o \in Operations |-> Idle]
  /\ guard' = {}
  /\ UNCHANGED <<mission, attempt, validation, candidate, answer, faults, cancels>>

\* The lifecycle service; run ids are never used twice.
MissionStep ==
  /\ Lifecycle!Next
  /\ \A r \in Runs : owner'[r] # owner[r] => candidate[r] = NotLaunched
  /\ UNCHANGED <<guard, op, attempt, validation, candidate, answer, budget>>

Proceed(o) ==
  \/ LoadContext(o) \/ GenerationFails(o) \/ SimulationFails(o)
  \/ \E a \in Attempts, r \in Runs : LaunchCandidate(o, a, r)
  \/ \E a \in Attempts : LaunchFails(o, a)
  \/ \E outcome \in Outcome :
       CandidateAccepted(o, outcome) \/ CandidateUnlinked(o, outcome)

Next ==
  \/ \E o \in Operations :
       Proceed(o) \/ Cancel(o) \/ \E s \in Sessions : Begin(o, s)
  \/ Crash \/ MissionStep

Spec == Init /\ [][Next]_vars

\* The session lock is fair, planner and simulator have timeouts.
FairSpec == Spec /\ \A o \in Operations : WF_vars(Proceed(o))

----------------------------------------------------------------------------
(* Properties *)

\* A session has one planning operation at a time, and a session that has none
\* is free: no failure, cancellation or crash leaves a guard behind.
GuardsAccounted ==
  /\ \A o, p \in Operations :
       op[o].pc # "idle" /\ op[p].pc # "idle" /\ op[o].session = op[p].session
         => o = p
  /\ guard = {op[o].session : o \in {x \in Operations : op[x].pc # "idle"}}

\* A complete record compares the run that was launched for its attempt with
\* the baseline its session has, also after replays and restarts meanwhile.
ComparisonLinked ==
  \A a \in Attempts :
    validation[a].status = "SIMULATION_COMPLETE" =>
      LET v == validation[a]
      IN  /\ v.run \in Runs /\ candidate[v.run].attempt = a
          /\ candidate[v.run].result \in Outcome
          /\ v.baseline = attempt[a].baseline /\ v.baseline # v.run
          /\ v.baseline = baseline[attempt[a].session]
          /\ owner[v.baseline] = attempt[a].session

\* What the caller was answered is what the stored record says.  With no storage
\* error left to blame, a failed or cancelled simulation is stored as ERROR.
AnswerMatchesRecord ==
  \A a \in Attempts :
    /\ answer[a] = "ok" => validation[a].status = "SIMULATION_COMPLETE"
    /\ answer[a] \in {"error", "cancelled"} /\ faults = 0 =>
         validation[a].status = "ERROR"

\* The outcome of an attempt is stored once and never overwritten.
TerminalIsFinal ==
  [][\A a \in Attempts :
       validation[a].status \in Terminal => validation'[a] = validation[a]]_vars

\* An operation does not hold its session for ever.
OperationsEnd == \A o \in Operations : op[o].pc # "idle" ~> op[o].pc = "idle"

\* STABILIZED, FAILURE and REJECTED are answered with the complete record.
OutcomesAccepted ==
  \A r \in Runs :
    candidate[r].result \in Outcome => answer[candidate[r].attempt] = "ok"
=============================================================================
