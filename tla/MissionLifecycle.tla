-------------------------- MODULE MissionLifecycle --------------------------
(***************************************************************************)
(* MissionLifecycleService over SessionStore, with the part of             *)
(* TelemetryReplayService that persists COMPLETED and the startup          *)
(* reconciliation of main.py.                                              *)
(*                                                                         *)
(* One backend process runs the handlers as coroutines.  A handler yields  *)
(* only at an await, so a handler that writes once under the session lock  *)
(* and never awaits is one action.  trigger_accident awaits the simulator  *)
(* and writes session.json before and after, so it is cut at each write:   *)
(* a crash can fall between any two of them.  session.json is replaced     *)
(* atomically; the write, or the read-back after it, may fail.             *)
(***************************************************************************)
EXTENDS MissionSession, ReplayClock, FiniteSets

CONSTANTS Sessions,            \* session ids (uuid4 is never reused)
          Requests,            \* handler slots: calls in flight at one time
          Nobody,              \* no lock holder, no owner, no session
          SampleCounts,        \* lengths of a baseline's telemetry_history
          RequestedIntervals,  \* interval_ms of a replay request
          MinInterval, MaxInterval,      \* replay_{min,max}_interval_ms
          MaxTime, MaxCrashes, MaxFaults, MaxStepBacks   \* bounds

ASSUME LifecycleAssumption ==
  /\ Nobody \notin Sessions \cup Requests
  /\ SampleCounts \subseteq Nat
  /\ RequestedIntervals \subseteq Nat
  /\ MinInterval \in Nat \ {0} /\ MaxInterval \in Nat
  /\ MinInterval <= MaxInterval
  /\ MaxTime \in Nat \ {0}
  /\ MaxCrashes \in Nat /\ MaxFaults \in Nat /\ MaxStepBacks \in Nat

VARIABLES
  disk,       \* [Sessions -> SessionRecord]: session.json of each session
  runs,       \* [Runs -> RunRecord]: run metadata and its result
  lock,       \* [Sessions -> Requests or Nobody]: asyncio.Lock per session
  req,        \* [Requests -> Request]: the handlers in flight
  server,     \* "down", "starting" (lifespan startup) or "up"
  todo,       \* sessions the startup reconciliation has still to visit
  now,        \* the wall clock, datetime.now(utc)
  crashes, faults, stepBacks,     \* how much of each bound is used
  acked,      \* [Sessions -> the run of a 200 trigger response, or NoRun]
  shown       \* [Sessions -> samples of this replay served to readers]

storage == <<disk, runs>>
budget  == <<crashes, faults, stepBacks>>
seen    == <<acked, shown>>
vars    == <<disk, runs, lock, req, server, todo, now, crashes, faults,
             stepBacks, acked, shown>>

RunRecord == [status  : {"none", "created", "completed", "failed"},
              owner   : Sessions \cup {Nobody},
              samples : Nat]

NoRunRecord == [status |-> "none", owner |-> Nobody, samples |-> 0]

Op == {"trigger", "replay", "poll"}

Request == [pc      : {"idle", "waiting", "launching", "running", "finishing"},
            op      : Op \cup {"none"},
            session : Sessions \cup {Nobody},
            snap    : SessionRecord,      \* the local `triggering`
            run     : Runs \cup {NoRun},
            outcome : {"pending", "completed", "failed", "cancelled"}]

IdleRequest == [pc |-> "idle", op |-> "none", session |-> Nobody,
                snap |-> NoSession, run |-> NoRun, outcome |-> "pending"]

TypeOK ==
  /\ disk \in [Sessions -> SessionRecord]
  /\ runs \in [Runs -> RunRecord]
  /\ lock \in [Sessions -> Requests \cup {Nobody}]
  /\ req \in [Requests -> Request]
  /\ server \in {"down", "starting", "up"}
  /\ todo \in SUBSET Sessions
  /\ now \in Nat \ {0}
  /\ crashes \in Nat /\ faults \in Nat /\ stepBacks \in Nat
  /\ acked \in [Sessions -> Runs \cup {NoRun}]
  /\ shown \in [Sessions -> Nat]

Init ==
  /\ disk = [s \in Sessions |-> NoSession]
  /\ runs = [r \in Runs |-> NoRunRecord]
  /\ lock = [s \in Sessions |-> Nobody]
  /\ req = [q \in Requests |-> IdleRequest]
  /\ server = "down"
  /\ todo = {}
  /\ now = 1
  /\ crashes = 0 /\ faults = 0 /\ stepBacks = 0
  /\ acked = [s \in Sessions |-> NoRun]
  /\ shown = [s \in Sessions |-> 0]

----------------------------------------------------------------------------
(* SessionStore *)

\* read_session returns the record; otherwise it raises not found or corrupt.
Readable(s) == Valid(disk[s])

StoreFault == {"write_failed", "readback_failed"}

\* replace_session: read, compare with the expected status and updated_at,
\* write, and read back what was written.
ReplaceOutcome(s, expectedStatus, expectedUpdated, rec) ==
  IF ~Readable(s) THEN {"corrupt"}
  ELSE IF disk[s].status # expectedStatus \/ disk[s].updated # expectedUpdated
       THEN {"conflict"}
       ELSE {IF Valid(rec) THEN "ok" ELSE "written_corrupt"}
              \cup (IF faults < MaxFaults THEN StoreFault ELSE {})

Written == {"ok", "written_corrupt", "readback_failed"}

StoreReplace(s, rec, outcome) ==
  /\ disk' = IF outcome \in Written THEN [disk EXCEPT ![s] = rec] ELSE disk
  /\ faults' = IF outcome \in StoreFault THEN faults + 1 ELSE faults

\* The session lock is free and the handler is first to take it.
CanEnter(q, op) ==
  /\ server = "up"
  /\ req[q].pc = "waiting" /\ req[q].op = op
  /\ lock[req[q].session] = Nobody

Return(q) == req' = [req EXCEPT ![q] = IdleRequest]

\* The end of `async with lock_session(...)` around an awaiting handler.
LeaveHoldingLock(q) == Return(q) /\ UNCHANGED lock

Leave(q) ==
  /\ lock' = [lock EXCEPT ![req[q].session] = Nobody]
  /\ Return(q)

----------------------------------------------------------------------------
(* Sessions and calls *)

\* create_session.  A failed write removes the directory: nothing is left.
CreateSession(s) ==
  /\ server = "up"
  /\ disk[s] = NoSession
  /\ disk' = [disk EXCEPT ![s] = NewSession(now)]
  /\ UNCHANGED <<runs, lock, req, server, todo, now, budget, seen>>

\* A call reaches its handler and queues for the lock of its session.
Arrive(q, op, s) ==
  /\ server = "up"
  /\ req[q].pc = "idle"
  /\ req' = [req EXCEPT ![q] =
               [IdleRequest EXCEPT !.pc = "waiting", !.op = op, !.session = s]]
  /\ UNCHANGED <<storage, lock, server, todo, now, budget, seen>>

\* The task is cancelled while it waits for the lock, or its first read fails.
CancelWaiting(q) ==
  /\ req[q].pc = "waiting"
  /\ Return(q)
  /\ UNCHANGED <<storage, lock, server, todo, now, budget, seen>>

----------------------------------------------------------------------------
(* trigger_accident *)

TriggerRefused(q) ==
  /\ CanEnter(q, "trigger")
  /\ ~ (Readable(req[q].session) /\ disk[req[q].session].status = "READY")
  /\ Return(q)
  /\ UNCHANGED <<storage, lock, server, todo, now, budget, seen>>

\* The handler keeps the lock and the record it wrote across the await.
BeginRunUnlocked(q, rec) ==
  /\ req' = [req EXCEPT ![q] = [@ EXCEPT !.pc = "launching", !.snap = rec]]
  /\ UNCHANGED lock

BeginRun(q, rec) ==
  /\ lock' = [lock EXCEPT ![req[q].session] = q]
  /\ req' = [req EXCEPT ![q] = [@ EXCEPT !.pc = "launching", !.snap = rec]]

\* READY -> TRIGGERING.  A failed replace leaves through the exception.
TriggerBegin(q) ==
  LET s   == req[q].session
      rec == AsTriggering(disk[s], now)
  IN  /\ CanEnter(q, "trigger")
      /\ Readable(s) /\ disk[s].status = "READY"
      /\ \E o \in ReplaceOutcome(s, "READY", disk[s].updated, rec) :
           /\ StoreReplace(s, rec, o)
           /\ IF o = "ok" THEN BeginRun(q, rec) ELSE Return(q) /\ UNCHANGED lock
      /\ UNCHANGED <<runs, server, todo, now, crashes, stepBacks, seen>>

\* run_simulation creates the run workspace and starts the simulator.
LaunchRun(q, r) ==
  /\ req[q].pc = "launching"
  /\ runs[r].status = "none"
  /\ runs' = [runs EXCEPT ![r] =
                 [@ EXCEPT !.status = "created", !.owner = req[q].session]]
  /\ req' = [req EXCEPT ![q] = [@ EXCEPT !.pc = "running", !.run = r]]
  /\ UNCHANGED <<disk, lock, server, todo, now, budget, seen>>

\* No workspace: unknown scenario, or its files cannot be written.
LaunchFails(q) ==
  /\ req[q].pc = "launching"
  /\ req' = [req EXCEPT ![q] = [@ EXCEPT !.pc = "finishing", !.outcome = "failed"]]
  /\ UNCHANGED <<storage, lock, server, todo, now, budget, seen>>

RunCompletes(q) ==
  /\ req[q].pc = "running"
  /\ \E n \in SampleCounts :
       runs' = [runs EXCEPT ![req[q].run] =
                                [@ EXCEPT !.status = "completed", !.samples = n]]
  /\ req' = [req EXCEPT ![q] = [@ EXCEPT !.pc = "finishing", !.outcome = "completed"]]
  /\ UNCHANGED <<disk, lock, server, todo, now, budget, seen>>

\* Timeout, exit code, missing or invalid output; and when the metadata
\* cannot be rewritten the run stays "created".
RunFails(q) ==
  /\ req[q].pc = "running"
  /\ \/ /\ runs' = [runs EXCEPT ![req[q].run] = [@ EXCEPT !.status = "failed"]]
        /\ UNCHANGED faults
     \/ /\ faults < MaxFaults
        /\ faults' = faults + 1
        /\ UNCHANGED runs
  /\ req' = [req EXCEPT ![q] = [@ EXCEPT !.pc = "finishing", !.outcome = "failed"]]
  /\ UNCHANGED <<disk, lock, server, todo, now, crashes, stepBacks, seen>>

\* The task is cancelled while it awaits the simulator.
RunCancelled(q) ==
  /\ req[q].pc = "running"
  /\ req' = [req EXCEPT ![q] = [@ EXCEPT !.pc = "finishing", !.outcome = "cancelled"]]
  /\ UNCHANGED <<storage, lock, server, todo, now, budget, seen>>

\* An OSError no layer converts (mkdir in create_workspace and in
\* write_bytes_atomic): neither except clause of trigger_accident matches.
RunRaises(q) ==
  /\ req[q].pc \in {"launching", "running"}
  /\ faults < MaxFaults
  /\ faults' = faults + 1
  /\ Leave(q)
  /\ UNCHANGED <<storage, server, todo, now, crashes, stepBacks, seen>>

\* The record the trigger ends with.
TriggerResult(q) ==
  LET snap == req[q].snap
      run  == req[q].run
  IN  CASE req[q].outcome = "completed" /\ runs[run].samples > 0 ->
             AsBaselineReady(snap, now, run, runs[run].samples)
        [] req[q].outcome = "completed" /\ runs[run].samples = 0 ->
             AsEmptyTelemetryError(snap, now, run)
        [] req[q].outcome = "cancelled" ->
             AsTriggerError(snap, now, "MISSION_TRIGGER_CANCELLED")
        [] OTHER -> AsTriggerError(snap, now, "infrastructure")

\* The response names the run only after the replace was read back.
AnswerUnconfirmed(q, rec, o) ==
  acked' = IF rec.status = "BASELINE_READY"
           THEN [acked EXCEPT ![req[q].session] = rec.run] ELSE acked

Answer(q, rec, o) ==
  acked' = IF o = "ok" /\ rec.status = "BASELINE_READY"
           THEN [acked EXCEPT ![req[q].session] = rec.run] ELSE acked

\* The second write, and the lock is released whatever came of it.
TriggerEnd(q) ==
  LET s   == req[q].session
      rec == TriggerResult(q)
  IN  /\ req[q].pc = "finishing"
      /\ \E o \in ReplaceOutcome(s, "TRIGGERING", req[q].snap.updated, rec) :
           StoreReplace(s, rec, o) /\ Answer(q, rec, o)
      /\ Leave(q)
      /\ UNCHANGED <<runs, server, todo, now, crashes, stepBacks, shown>>

----------------------------------------------------------------------------
(* start_replay *)

ReplayAllowedWhileRunning(s, interval, restart) ==
  /\ Readable(s)
  /\ MinInterval <= interval /\ interval <= MaxInterval
  /\ \/ disk[s].status = "BASELINE_READY"
     \/ disk[s].status \in {"REPLAYING", "COMPLETED"} /\ restart

ReplayAllowedAfterError(s, interval, restart) ==
  /\ Readable(s)
  /\ MinInterval <= interval /\ interval <= MaxInterval
  /\ \/ disk[s].status = "BASELINE_READY"
     \/ disk[s].status \in {"COMPLETED", "ERROR"} /\ restart

ReplayAllowed(s, interval, restart) ==
  /\ Readable(s)
  /\ MinInterval <= interval /\ interval <= MaxInterval
  /\ \/ disk[s].status = "BASELINE_READY"
     \/ disk[s].status = "COMPLETED" /\ restart

ReplayRefused(q, interval, restart) ==
  /\ CanEnter(q, "replay")
  /\ ~ ReplayAllowed(req[q].session, interval, restart)
  /\ Return(q)
  /\ UNCHANGED <<storage, lock, server, todo, now, budget, seen>>

\* BASELINE_READY or, with restart=true, COMPLETED -> REPLAYING.
StartReplay(q, interval, restart) ==
  LET s   == req[q].session
      rec == AsReplaying(disk[s], now, interval)
  IN  /\ CanEnter(q, "replay")
      /\ ReplayAllowed(s, interval, restart)
      /\ \E o \in ReplaceOutcome(s, disk[s].status, disk[s].updated, rec) :
           /\ StoreReplace(s, rec, o)
           /\ shown' = IF o \in Written THEN [shown EXCEPT ![s] = 0] ELSE shown
      /\ Return(q)
      /\ UNCHANGED <<runs, lock, server, todo, now, crashes, stepBacks, acked>>

----------------------------------------------------------------------------
(* get_current_telemetry and get_due_events: _load_replay_context *)

\* The linked result is there and is the one the session names.
ResultMatches(s) ==
  LET run == disk[s].run
  IN  /\ run \in Runs
      /\ runs[run].status = "completed"
      /\ runs[run].samples = disk[s].count

PollAllowed(s) ==
  /\ Readable(s)
  /\ disk[s].status \in {"REPLAYING", "COMPLETED"}
  /\ ResultMatches(s)

PollRefused(q) ==
  /\ CanEnter(q, "poll")
  /\ ~ PollAllowed(req[q].session)
  /\ Return(q)
  /\ UNCHANGED <<storage, lock, server, todo, now, budget, seen>>

Elapsed(s) == ElapsedUs(disk[s].started, now)

Due(s) == ReplayComplete(Elapsed(s), disk[s].interval, disk[s].count)

\* A COMPLETED session is served its last sample whatever the clock says.
CurrentIndex(s) ==
  IF disk[s].status = "COMPLETED" THEN disk[s].count - 1
  ELSE SampleIndex(Elapsed(s), disk[s].interval, disk[s].count)

\* A reader is served; the first to find the replay over persists COMPLETED.
Poll(q) ==
  LET s   == req[q].session
      rec == AsCompleted(disk[s], now)
      serve == shown' = [shown EXCEPT ![s] = CurrentIndex(s) + 1]
  IN  /\ CanEnter(q, "poll")
      /\ PollAllowed(s)
      /\ IF disk[s].status = "REPLAYING" /\ Due(s)
         THEN \E o \in ReplaceOutcome(s, "REPLAYING", disk[s].updated, rec) :
                /\ StoreReplace(s, rec, o)
                /\ IF o = "ok" THEN serve ELSE UNCHANGED shown
         ELSE serve /\ UNCHANGED <<disk, faults>>
      /\ Return(q)
      /\ UNCHANGED <<runs, lock, server, todo, now, crashes, stepBacks, acked>>

----------------------------------------------------------------------------
(* Process crash and startup *)

\* Handlers, locks and the simulator's supervisor die with the process.
Crash ==
  /\ server # "down" /\ crashes < MaxCrashes
  /\ crashes' = crashes + 1
  /\ server' = "down"
  /\ todo' = {}
  /\ req' = [q \in Requests |-> IdleRequest]
  /\ lock' = [s \in Sessions |-> Nobody]
  /\ UNCHANGED <<storage, now, faults, stepBacks, seen>>

\* The lifespan starts: list_session_ids.
StartServer ==
  /\ server = "down"
  /\ server' = "starting"
  /\ todo' = {s \in Sessions : disk[s] # NoSession}
  /\ UNCHANGED <<storage, lock, req, now, budget, seen>>

InterruptedIfLinked(s) ==
  Readable(s) /\ disk[s].status = "TRIGGERING" /\ disk[s].run # NoRun

Interrupted(s) == Readable(s) /\ disk[s].status = "TRIGGERING"

\* Only TRIGGERING is recovered.  A record that cannot be read, if only this
\* once, is counted and left as it is.
ReconcileSkip(s) ==
  /\ server = "starting" /\ s \in todo
  /\ \/ ~ Interrupted(s) /\ UNCHANGED faults
     \/ faults < MaxFaults /\ faults' = faults + 1
  /\ todo' = todo \ {s}
  /\ UNCHANGED <<storage, lock, req, server, now, crashes, stepBacks, seen>>

\* A conflict is counted too; storage and corruption errors of the replace
\* are not caught, and the startup of the application fails.
ReconcileInterrupted(s) ==
  LET rec == AsTriggerError(disk[s], now, "MISSION_TRIGGER_INTERRUPTED")
  IN  /\ server = "starting" /\ s \in todo
      /\ Interrupted(s)
      /\ \E o \in ReplaceOutcome(s, "TRIGGERING", disk[s].updated, rec) :
           /\ StoreReplace(s, rec, o)
           /\ IF o \in {"ok", "conflict"}
              THEN todo' = todo \ {s} /\ UNCHANGED server
              ELSE todo' = {} /\ server' = "down"
      /\ UNCHANGED <<runs, lock, req, now, crashes, stepBacks, seen>>

StartupDone ==
  /\ server = "starting" /\ todo = {}
  /\ server' = "up"
  /\ UNCHANGED <<storage, lock, req, todo, now, budget, seen>>

----------------------------------------------------------------------------
(* The wall clock *)

Tick ==
  /\ now < MaxTime
  /\ now' = now + 1
  /\ UNCHANGED <<storage, lock, req, server, todo, budget, seen>>

\* The host's clock is set back: datetime.now is not monotonic.
StepBack ==
  /\ stepBacks < MaxStepBacks
  /\ stepBacks' = stepBacks + 1
  /\ \E t \in 1 .. (now - 1) : now' = t
  /\ UNCHANGED <<storage, lock, req, server, todo, crashes, faults, seen>>

----------------------------------------------------------------------------
\* What the handler q does once it runs.
Handler(q) ==
  \/ TriggerRefused(q) \/ TriggerBegin(q) \/ LaunchFails(q)
  \/ RunCompletes(q) \/ RunFails(q) \/ TriggerEnd(q)
  \/ PollRefused(q) \/ Poll(q)
  \/ \E r \in Runs : LaunchRun(q, r)
  \/ \E interval \in RequestedIntervals, restart \in BOOLEAN :
       \/ ReplayRefused(q, interval, restart)
       \/ StartReplay(q, interval, restart)

Startup ==
  \/ StartServer \/ StartupDone
  \/ \E s \in Sessions : ReconcileSkip(s) \/ ReconcileInterrupted(s)

Environment ==
  \/ Crash \/ Tick \/ StepBack
  \/ \E s \in Sessions : CreateSession(s)
  \/ \E q \in Requests :
       \/ CancelWaiting(q) \/ RunCancelled(q) \/ RunRaises(q)
       \/ \E op \in Op, s \in Sessions : Arrive(q, op, s)

Next == Startup \/ Environment \/ \E q \in Requests : Handler(q)

Spec == Init /\ [][Next]_vars

\* The event loop runs what is ready, the simulator is killed at its timeout,
\* and the service is started whenever it is down.
Fairness ==
  /\ WF_vars(Startup)
  /\ \A q \in Requests : WF_vars(Handler(q))

FairSpec == Spec /\ Fairness

----------------------------------------------------------------------------
(* Properties *)

\* A session that offers a replay names a run that was launched for it, that
\* completed, and whose telemetry has as many samples as the session says:
\* what _verify_linked_result re-checks on every read.
BaselineLinked ==
  \A s \in Sessions :
    disk[s].status \in {"BASELINE_READY", "REPLAYING", "COMPLETED"} =>
      ResultMatches(s) /\ runs[disk[s].run].owner = s

\* Two triggers, a cancelled trigger, a crash or a reconciliation never lead
\* to a second baseline run of one session.
OneBaselineRun ==
  \A q, r \in Runs :
    runs[q].owner = runs[r].owner /\ runs[q].owner # Nobody => q = r

\* Once a client was told that a run is the baseline of a session, the session
\* names that run for good, whatever crashes, faults and replays follow.
AckedBaselineDurable ==
  \A s \in Sessions :
    acked[s] # NoRun =>
      /\ disk[s].run = acked[s]
      /\ disk[s].status \in {"BASELINE_READY", "REPLAYING", "COMPLETED"}

\* A handler between the two writes of trigger_accident holds the lock of its
\* session, and session.json still is the record it wrote: the comparison in
\* its second replace cannot raise a conflict.
TriggerOwnsSession ==
  \A q \in Requests :
    req[q].pc \in {"launching", "running", "finishing"} =>
      /\ lock[req[q].session] = q
      /\ disk[req[q].session] = req[q].snap
      /\ req[q].snap.status = "TRIGGERING"

\* Every session.json can be read: each record the services write passes the
\* validation of MissionSession, which model_copy leaves to the next reader.
RecordsReadable == \A s \in Sessions : disk[s] # NoSession => Readable(s)

\* So it is while the wall clock was not set back, whatever else went wrong.
SessionsReadable == stepBacks = 0 => RecordsReadable

\* With such a clock COMPLETED is never persisted before the last sample is
\* due, one interval after the other from the start of this replay.
CompletedIsDue ==
  stepBacks = 0 =>
    \A s \in Sessions :
      disk[s].status = "COMPLETED" =>
        now >= disk[s].started + (disk[s].count - 1) * disk[s].interval

\* TRIGGERING means that the baseline is being computed: while the server
\* serves, some handler holds the lock of a TRIGGERING session.
TriggeringInProgress ==
  \A s \in Sessions :
    server = "up" /\ disk[s].status = "TRIGGERING" => lock[s] # Nobody

\* No storage operation has failed and the clock was not set back.
HostIsSound == faults = 0 /\ stepBacks = 0

\* While the clock was not set back, readers are never taken back to an earlier
\* sample but by a replay restart.
ReplayNeverGoesBack ==
  [][stepBacks' = 0 =>
       \A s \in Sessions :
         shown'[s] < shown[s] =>
           disk[s].status = "COMPLETED" /\ disk'[s].status = "REPLAYING"]_vars

\* On a sound host a triggered session does not stay TRIGGERING: the run ends,
\* or the process does and the next startup recovers the session.
TriggeringEnds ==
  \A s \in Sessions :
    disk[s].status = "TRIGGERING" ~> disk[s].status # "TRIGGERING" \/ ~ HostIsSound

\* A call that waits for its session lock is answered, or dies with its task.
CallsReturn ==
  \A q \in Requests : req[q].pc = "waiting" ~> req[q].pc = "idle"

\* The abstract lifecycle, read off session.json and the run directories.
Promise ==
  INSTANCE SessionLifecycle WITH
    status   <- [s \in Sessions |-> disk[s].status],
    baseline <- [s \in Sessions |-> disk[s].run],
    owner    <- [r \in Runs |-> runs[r].owner]

KeepsPromise == Promise!Spec
=============================================================================
