--------------------------- MODULE SimulationRuns ---------------------------
(***************************************************************************)
(* SimulationService.run_simulation over RunStore and SimulatorClient: the *)
(* run directory, the semaphore, and the simulator as a child process.     *)
(*                                                                         *)
(* What a call does between two awaits is one action; a storage error may  *)
(* cut it after any of its writes, and the state it then leaves is also    *)
(* the one a crash at that point leaves.  The simulator writes result.json *)
(* in place while the backend waits; it may hang, and it outlives a crash  *)
(* of the backend.                                                         *)
(***************************************************************************)
EXTENDS Naturals, FiniteSets

CONSTANTS Runs,            \* run ids (uuid4, created exclusively)
          NoRun,
          Calls,           \* calls of run_simulation in flight at one time
          Capacity,        \* max_concurrent_runs
          MaxFaults, MaxCrashes, MaxCancels     \* bounds

ASSUME RunsAssumption ==
  /\ NoRun \notin Runs
  /\ Capacity \in Nat \ {0}
  /\ MaxFaults \in Nat /\ MaxCrashes \in Nat /\ MaxCancels \in Nat

VARIABLES
  run,       \* [Runs -> RunDir]: the run directory
  proc,      \* [Runs -> Process]: the simulator started for the run
  call,      \* [Calls -> Call]
  permits,   \* free permits of the semaphore
  tickets,   \* arrival order at the semaphore: its waiters are a queue
  answer,    \* [Runs -> what the caller was answered]
  faults, crashes, cancels

vars   == <<run, proc, call, permits, tickets, answer, faults, crashes, cancels>>
budget == <<faults, crashes, cancels>>

\* meta is the status of metadata.json; "absent": a directory without one.
\* A result is "bad" when it is truncated, no JSON or against the contract.
RunDir == [meta   : {"none", "absent", "created", "completed", "failed"},
           logs   : BOOLEAN,
           result : {"absent", "bad", "valid"}]

NoDir == [meta |-> "none", logs |-> FALSE, result |-> "absent"]

\* killed: SIGKILL sent, the process has not ended yet; orphan: the backend
\* that started it is gone.
Process == {"none", "alive", "killed", "exit0", "exit1", "orphan"}

Answer == {"none", "ok", "error", "storage", "cancelled"}

Call == [pc     : {"idle", "queued", "spawning", "running", "draining"},
         run    : Runs \cup {NoRun},
         ticket : Nat,
         why    : {"none", "timeout", "cancel"}]

Idle == [pc |-> "idle", run |-> NoRun, ticket |-> 0, why |-> "none"]

TypeOK ==
  /\ run \in [Runs -> RunDir]
  /\ proc \in [Runs -> Process]
  /\ call \in [Calls -> Call]
  /\ permits \in 0 .. Capacity
  /\ tickets \in Nat
  /\ answer \in [Runs -> Answer]
  /\ faults \in Nat /\ crashes \in Nat /\ cancels \in Nat

Init ==
  /\ run = [r \in Runs |-> NoDir]
  /\ proc = [r \in Runs |-> "none"]
  /\ call = [c \in Calls |-> Idle]
  /\ permits = Capacity
  /\ tickets = 0
  /\ answer = [r \in Runs |-> "none"]
  /\ faults = 0 /\ crashes = 0 /\ cancels = 0

----------------------------------------------------------------------------
(* Run directories *)

\* A definition followed by one that differs in a detail is a mutant of it.

\* What write_stdout, write_stderr and write_completed_metadata leave, and
\* what the caller is answered.
Completed(dir) == {<<[dir EXCEPT !.logs = TRUE, !.meta = "completed"], "ok">>}

\* _finalize_failure: logs when there is process evidence, then the metadata.
FailedUnmarked(dir, evidence) ==
  {<<[dir EXCEPT !.logs = evidence], "error">>}

Failed(dir, evidence) ==
  {<<[dir EXCEPT !.logs = evidence, !.meta = "failed"], "error">>}

CutShort(dir, evidence) ==
  {<<[dir EXCEPT !.logs = l], "storage">> : l \in {FALSE, evidence}}

\* The run r is over: its directory and the answer are one of outcomes, or a
\* storage error cuts the writes to dir short.
Conclude(r, dir, outcomes, evidence) ==
  LET Leave(o) == /\ run' = [run EXCEPT ![r] = o[1]]
                  /\ answer' = [answer EXCEPT ![r] = o[2]]
  IN  \/ /\ \E o \in outcomes : Leave(o)
         /\ UNCHANGED faults
      \/ /\ faults < MaxFaults /\ faults' = faults + 1
         /\ \E o \in CutShort(dir, evidence) : Leave(o)

Close(c, outcomes, evidence) ==
  /\ Conclude(call[c].run, run[call[c].run], outcomes, evidence)
  /\ call' = [call EXCEPT ![c] = Idle]

\* CancelledError passes run_simulation: no except clause, nothing is written.
CloseCancelled(c) ==
  /\ call' = [call EXCEPT ![c] = Idle]
  /\ answer' = [answer EXCEPT ![call[c].run] = "cancelled"]
  /\ UNCHANGED run

----------------------------------------------------------------------------
(* run_simulation up to the semaphore *)

Workspace == [NoDir EXCEPT !.meta = "created"]

\* create_workspace, then the checks of SimulatorClient.run, then the queue.
Submit(c, r) ==
  /\ call[c].pc = "idle" /\ run[r].meta = "none"
  /\ run' = [run EXCEPT ![r] = Workspace]
  /\ call' = [call EXCEPT ![c] =
                [Idle EXCEPT !.pc = "queued", !.run = r, !.ticket = tickets]]
  /\ tickets' = tickets + 1
  /\ UNCHANGED <<proc, permits, answer, budget>>

\* The workspace cannot be written: a directory with no metadata is left.
WorkspaceFails(c, r) ==
  /\ call[c].pc = "idle" /\ run[r].meta = "none"
  /\ faults < MaxFaults /\ faults' = faults + 1
  /\ run' = [run EXCEPT ![r] = [NoDir EXCEPT !.meta = "absent"]]
  /\ answer' = [answer EXCEPT ![r] = "storage"]
  /\ UNCHANGED <<proc, call, permits, tickets, crashes, cancels>>

\* _ensure_binary_available, _validate_workspace_preconditions, _build_command.
PreconditionFails(c, r) ==
  /\ call[c].pc = "idle" /\ run[r].meta = "none"
  /\ Conclude(r, Workspace, Failed(Workspace, FALSE), FALSE)
  /\ UNCHANGED <<proc, call, permits, tickets, crashes, cancels>>

----------------------------------------------------------------------------
(* The semaphore *)

FirstInQueue(c) ==
  /\ call[c].pc = "queued"
  /\ \A d \in Calls : call[d].pc = "queued" => call[c].ticket <= call[d].ticket

Acquire(c) ==
  /\ FirstInQueue(c) /\ permits > 0
  /\ permits' = permits - 1
  /\ call' = [call EXCEPT ![c] = [@ EXCEPT !.pc = "spawning"]]
  /\ UNCHANGED <<run, proc, tickets, answer, budget>>

ReleaseForgotten == UNCHANGED permits

ReleaseTwice == permits' = permits + 2

Release == permits' = permits + 1

----------------------------------------------------------------------------
(* The child process *)

Spawned(c) ==
  /\ call[c].pc = "spawning"
  /\ proc' = [proc EXCEPT ![call[c].run] = "alive"]
  /\ call' = [call EXCEPT ![c] = [@ EXCEPT !.pc = "running"]]
  /\ UNCHANGED <<run, permits, tickets, answer, budget>>

SpawnFails(c) ==
  /\ call[c].pc = "spawning"
  /\ Release
  /\ Close(c, Failed(run[call[c].run], FALSE), FALSE)
  /\ UNCHANGED <<proc, tickets, crashes, cancels>>

Exited(r) == proc[r] \in {"exit0", "exit1"}

\* communicate() returns: exit code, then _load_and_validate_result.
Finish(c) ==
  LET r == call[c].run
  IN  /\ call[c].pc = "running" /\ Exited(r)
      /\ Release
      /\ Close(c, IF proc[r] = "exit0" /\ run[r].result = "valid"
                  THEN Completed(run[r]) ELSE Failed(run[r], TRUE), TRUE)
      /\ UNCHANGED <<proc, tickets, crashes, cancels>>

KillNobody(r) == UNCHANGED proc

Kill(r) ==
  proc' = [proc EXCEPT ![r] = IF @ = "alive" THEN "killed" ELSE @]

\* wait_for gives up.  The process may just have ended on its own.
Timeout(c) ==
  /\ call[c].pc = "running"
  /\ Kill(call[c].run)
  /\ call' = [call EXCEPT ![c] = [@ EXCEPT !.pc = "draining", !.why = "timeout"]]
  /\ UNCHANGED <<run, permits, tickets, answer, budget>>

\* _kill_and_drain waits until the process is gone.
DrainedAtOnce(c) == TRUE

Drained(c) == Exited(call[c].run)

DrainEnds(c) ==
  /\ call[c].pc = "draining" /\ Drained(c)
  /\ Release
  /\ IF call[c].why = "timeout"
     THEN Close(c, Failed(run[call[c].run], TRUE), TRUE)
     ELSE CloseCancelled(c) /\ UNCHANGED faults
  /\ UNCHANGED <<proc, tickets, crashes, cancels>>

----------------------------------------------------------------------------
(* Cancellation *)

\* In the queue there is nothing to undo.  During the spawn asyncio ends the
\* child itself before it lets the cancellation through.
CancelEarly(c) ==
  /\ call[c].pc \in {"queued", "spawning"}
  /\ IF call[c].pc = "spawning" THEN Release ELSE UNCHANGED permits
  /\ CloseCancelled(c)
  /\ UNCHANGED <<proc, faults>>

\* A running process is killed and waited for, also after its timeout; one
\* that has ended needs neither.
CancelSupervised(c) ==
  LET r == call[c].run
  IN  /\ \/ call[c].pc = "running"
         \/ call[c].pc = "draining" /\ call[c].why = "timeout"
      /\ UNCHANGED faults
      /\ IF Exited(r)
         THEN Release /\ CloseCancelled(c) /\ UNCHANGED proc
         ELSE /\ Kill(r)
              /\ call' = [call EXCEPT ![c] =
                            [@ EXCEPT !.pc = "draining", !.why = "cancel"]]
              /\ UNCHANGED <<run, permits, answer>>

\* A second cancellation ends the wait for a process that was killed.
CancelDrain(c) ==
  /\ call[c].pc = "draining" /\ call[c].why = "cancel"
  /\ Release
  /\ CloseCancelled(c)
  /\ UNCHANGED <<proc, faults>>

Cancel(c) ==
  /\ cancels < MaxCancels /\ cancels' = cancels + 1
  /\ CancelEarly(c) \/ CancelSupervised(c) \/ CancelDrain(c)
  /\ UNCHANGED <<tickets, crashes>>

----------------------------------------------------------------------------
(* The simulator *)

\* writeResult opens result.json and fills it in place, at worst while the
\* SIGKILL is on its way.  A "bad" file may be complete and break the contract.
SimulatorWrites(r) ==
  /\ proc[r] \in {"alive", "killed", "orphan"}
  /\ \/ run[r].result = "absent" /\ run' = [run EXCEPT ![r].result = "bad"]
     \/ run[r].result = "bad" /\ run' = [run EXCEPT ![r].result = "valid"]
  /\ UNCHANGED <<proc, call, permits, tickets, answer, budget>>

\* main returns 0 only after writeResult; a killed process ends with a signal.
SimulatorExits(r) ==
  /\ \/ proc[r] \in {"alive", "orphan"} /\ run[r].result # "absent"
          /\ proc' = [proc EXCEPT ![r] = "exit0"]
     \/ proc[r] \in {"alive", "orphan"} /\ proc' = [proc EXCEPT ![r] = "exit1"]
  /\ UNCHANGED <<run, call, permits, tickets, answer, budget>>

KilledExits(r) ==
  /\ proc[r] = "killed"
  /\ proc' = [proc EXCEPT ![r] = "exit1"]
  /\ UNCHANGED <<run, call, permits, tickets, answer, budget>>

\* The backend ends and starts again: an empty queue and a new semaphore.
Crash ==
  /\ crashes < MaxCrashes /\ crashes' = crashes + 1
  /\ call' = [c \in Calls |-> Idle]
  /\ permits' = Capacity
  /\ proc' = [r \in Runs |-> IF proc[r] = "alive" THEN "orphan" ELSE proc[r]]
  /\ UNCHANGED <<run, tickets, answer, faults, cancels>>

----------------------------------------------------------------------------
\* What the event loop runs for a call, its timer included.
Serve(c) ==
  \/ Acquire(c) \/ Spawned(c) \/ SpawnFails(c) \/ Finish(c) \/ Timeout(c)
  \/ DrainEnds(c)

Next ==
  \/ \E c \in Calls :
       \/ Serve(c) \/ Cancel(c)
       \/ \E r \in Runs :
            Submit(c, r) \/ WorkspaceFails(c, r) \/ PreconditionFails(c, r)
  \/ \E r \in Runs : SimulatorWrites(r) \/ SimulatorExits(r) \/ KilledExits(r)
  \/ Crash

Spec == Init /\ [][Next]_vars

\* The event loop runs what is ready, timers included, and a killed process
\* ends.  Nothing says that the simulator ends on its own.
FairSpec ==
  /\ Spec
  /\ \A c \in Calls : WF_vars(Serve(c))
  /\ \A r \in Runs : WF_vars(KilledExits(r))

----------------------------------------------------------------------------
(* Properties *)

Holding == {c \in Calls : call[c].pc \in {"spawning", "running", "draining"}}

\* However a call ends, its permit comes back once: no permit is lost, and
\* there are never more simulators than the semaphore allows.
PermitsAccounted ==
  /\ permits + Cardinality(Holding) = Capacity
  /\ Cardinality({r \in Runs : proc[r] = "alive"}) <= Capacity

\* No cancellation or timeout leaves a simulator behind: one that runs is
\* awaited by the call that started it, until the backend itself is gone.
NoStrayProcess ==
  \A r \in Runs :
    proc[r] = "alive" => \E c \in Calls : call[c].run = r /\ call[c].pc = "running"

\* Permits and processes belong together however the calls end.
ResourcesHeld == PermitsAccounted /\ NoStrayProcess

\* What the caller was answered is what the run directory says: 200 only for
\* a completed run with its result and logs, a simulator error only for a
\* failed one, and only a cancellation or a storage error leaves a run that
\* was answered without closing metadata.
AnswerMatchesRun ==
  \A r \in Runs :
    /\ answer[r] = "ok" => run[r].meta = "completed"
    /\ answer[r] = "error" => run[r].meta = "failed"
    /\ answer[r] \in {"storage", "cancelled"} => run[r].meta \in {"absent", "created"}
    /\ run[r].meta = "completed" => run[r].result = "valid" /\ run[r].logs

\* Once its closing metadata is written a run never changes, also not by a
\* late write of its simulator: the hashes in it stay true.
ClosedRunsFrozen ==
  [][\A r \in Runs :
       run[r].meta \in {"completed", "failed"} => run'[r] = run[r]]_vars

\* Every call is answered, queued behind hanging simulators or not.
CallsAnswered == \A c \in Calls : call[c].pc # "idle" ~> call[c].pc = "idle"
=============================================================================
