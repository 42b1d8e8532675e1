----------------------- MODULE MissionLifecycleProofs -----------------------
(***************************************************************************)
(* Proofs about MissionLifecycle for every set of sessions, handler slots  *)
(* and runs, every interval range and every bound.                         *)
(***************************************************************************)
EXTENDS MissionLifecycle, TLAPS

----------------------------------------------------------------------------
(* The replay clock *)

\* The division that finds a sample rounds down.
LEMMA Rounding ==
  ASSUME NEW a \in Nat, NEW b \in Nat \ {0}
  PROVE  a \div b \in Nat /\ b * (a \div b) <= a /\ a < b * (a \div b + 1)
OBVIOUS

LEMMA TimesMonotone ==
  ASSUME NEW a \in Int, NEW b \in Int, a <= b, NEW c \in Nat
  PROVE  c * a <= c * b
OBVIOUS

LEMMA IndexInRange ==
  ASSUME NEW e \in Nat, NEW interval \in Nat \ {0}, NEW n \in Nat \ {0}
  PROVE  SampleIndex(e, interval, n) \in 0 .. n - 1
BY Rounding DEF SampleIndex

\* Time takes the index forward only, and a complete replay stays complete.
THEOREM ClockMonotone ==
  ASSUME NEW e \in Nat, NEW f \in Nat, e <= f,
         NEW interval \in Nat \ {0}, NEW n \in Nat
  PROVE  /\ SampleIndex(e, interval, n) <= SampleIndex(f, interval, n)
         /\ ReplayComplete(e, interval, n) => ReplayComplete(f, interval, n)
<1>1. e \div interval <= f \div interval
  <2> DEFINE x == e \div interval
             y == f \div interval
  <2>1. /\ x \in Nat /\ interval * x <= e
        /\ y \in Nat /\ f < interval * (y + 1)
    BY Rounding
  <2>2. CASE y < x
    <3>1. interval * (y + 1) <= interval * x
      BY <2>1, <2>2, TimesMonotone
    <3>2. interval * (y + 1) \in Int /\ interval * x \in Int
      BY <2>1
    <3>. QED
      BY <2>1, <3>1, <3>2
  <2>. QED
    BY <2>1, <2>2
<1>2. e \div interval \in Nat /\ f \div interval \in Nat
  BY Rounding
<1>3. SampleIndex(e, interval, n) <= SampleIndex(f, interval, n)
  BY <1>1, <1>2 DEF SampleIndex
<1>4. interval * (n - 1) \in Int
  OBVIOUS
<1>. QED
  BY <1>3, <1>4 DEF ReplayComplete

----------------------------------------------------------------------------
(* Lemmas about the records *)

\* Every record the services write is a record: what model_copy returns keeps
\* the fields' types.
LEMMA RecordsTyped ==
  ASSUME NEW rec \in SessionRecord, NEW t \in Nat, NEW n \in Nat
  PROVE  /\ NewSession(t) \in SessionRecord
         /\ AsTriggering(rec, t) \in SessionRecord
         /\ AsReplaying(rec, t, n) \in SessionRecord
         /\ AsCompleted(rec, t) \in SessionRecord
BY DEF SessionRecord, NewSession, NoSession, AsTriggering, AsReplaying,
       AsCompleted, NoTime, MissionSessionStatus, Absent

LEMMA ErrorTyped ==
  ASSUME NEW rec \in SessionRecord, NEW t \in Nat, NEW code \in ErrorCode
  PROVE  AsTriggerError(rec, t, code) \in SessionRecord
BY DEF SessionRecord, AsTriggerError, ErrorCode, MissionSessionStatus

LEMMA LinkedTyped ==
  ASSUME NEW rec \in SessionRecord, NEW t \in Nat, NEW r \in Runs, NEW n \in Nat
  PROVE  /\ AsBaselineReady(rec, t, r, n) \in SessionRecord
         /\ AsEmptyTelemetryError(rec, t, r) \in SessionRecord
BY DEF SessionRecord, AsBaselineReady, AsEmptyTelemetryError, ErrorCode,
       MissionSessionStatus

\* What a trigger that ran the simulator ends with.
LEMMA LinkedFields ==
  ASSUME NEW rec \in SessionRecord, NEW t, NEW r, NEW n
  PROVE  /\ AsBaselineReady(rec, t, r, n).status = "BASELINE_READY"
         /\ AsBaselineReady(rec, t, r, n).run = r
         /\ AsBaselineReady(rec, t, r, n).count = n
         /\ AsEmptyTelemetryError(rec, t, r).status = "ERROR"
         /\ AsEmptyTelemetryError(rec, t, r).run = r
BY DEF SessionRecord, AsBaselineReady, AsEmptyTelemetryError

LEMMA NoSessionTyped == NoSession \in SessionRecord
BY DEF SessionRecord, NoSession, NoTime, Absent

----------------------------------------------------------------------------
(* The inductive invariant *)

Inside == {"launching", "running", "finishing"}

\* Handlers exist only while the server serves.
NoHandlerWhenDown ==
  server # "up" => /\ \A q \in Requests : req[q] = IdleRequest
                   /\ \A s \in Sessions : lock[s] = Nobody

RequestsNamed ==
  \A q \in Requests : req[q].pc # "idle" => req[q].session \in Sessions

\* Where a trigger stands, in its locals and in the run directory.
TriggerProgress ==
  \A q \in Requests :
    /\ req[q].pc = "launching" =>
         \A r \in Runs : runs[r].owner # req[q].session
    /\ req[q].pc = "running" =>
         /\ req[q].run \in Runs
         /\ runs[req[q].run].owner = req[q].session
         /\ runs[req[q].run].status = "created"
    /\ req[q].pc = "finishing" =>
         /\ req[q].outcome # "pending"
         /\ req[q].outcome = "completed" =>
              /\ req[q].run \in Runs
              /\ runs[req[q].run].owner = req[q].session
              /\ runs[req[q].run].status = "completed"

\* A run has an owner once it exists; a session that was not triggered has none.
RunsOwned ==
  /\ \A r \in Runs : runs[r].status = "none" <=> runs[r].owner = Nobody
  /\ \A s \in Sessions :
       disk[s].status \in {Absent, "READY"} =>
         \A r \in Runs : runs[r].owner # s

IInv ==
  /\ TypeOK
  /\ NoHandlerWhenDown
  /\ RequestsNamed
  /\ TriggerOwnsSession
  /\ TriggerProgress
  /\ RunsOwned
  /\ OneBaselineRun
  /\ BaselineLinked
  /\ AckedBaselineDurable

----------------------------------------------------------------------------
(* Type correctness *)

LEMMA IdleRequestTyped == IdleRequest \in Request
BY NoSessionTyped DEF IdleRequest, Request

\* The updates of a handler's locals and of a run's metadata keep their types.
LEMMA LocalsTyped ==
  ASSUME NEW x \in Request
  PROVE  /\ \A rec \in SessionRecord :
              [x EXCEPT !.pc = "launching", !.snap = rec] \in Request
         /\ \A r \in Runs : [x EXCEPT !.pc = "running", !.run = r] \in Request
         /\ \A o \in {"completed", "failed", "cancelled"} :
              [x EXCEPT !.pc = "finishing", !.outcome = o] \in Request
BY DEF Request

\* What a handler's locals hold after the first write and after the run.
LEMMA LocalsFields ==
  ASSUME NEW x \in Request, NEW rec, NEW o
  PROVE  /\ LET y == [x EXCEPT !.pc = "launching", !.snap = rec]
            IN  /\ y.pc = "launching" /\ y.snap = rec
                /\ y.session = x.session /\ y.run = x.run
         /\ LET y == [x EXCEPT !.pc = "finishing", !.outcome = o]
            IN  /\ y.pc = "finishing" /\ y.outcome = o
                /\ y.session = x.session /\ y.snap = x.snap /\ y.run = x.run
BY DEF Request

LEMMA MetadataTyped ==
  ASSUME NEW x \in RunRecord
  PROVE  /\ \A s \in Sessions :
              [x EXCEPT !.status = "created", !.owner = s] \in RunRecord
         /\ \A n \in Nat :
              [x EXCEPT !.status = "completed", !.samples = n] \in RunRecord
         /\ [x EXCEPT !.status = "failed"] \in RunRecord
BY DEF RunRecord

LEMMA StoreTyped ==
  ASSUME TypeOK, NEW s \in Sessions, NEW rec \in SessionRecord, NEW o,
         StoreReplace(s, rec, o)
  PROVE  disk' \in [Sessions -> SessionRecord] /\ faults' \in Nat
BY DEF TypeOK, StoreReplace

LEMMA ReturnTyped ==
  ASSUME TypeOK, NEW q \in Requests, Return(q)
  PROVE  req' \in [Requests -> Request]
BY IdleRequestTyped DEF TypeOK, Return

LEMMA InitTyped == Init => TypeOK
BY NoSessionTyped, IdleRequestTyped, LifecycleAssumption
   DEF Init, TypeOK, NoRunRecord, RunRecord

\* The state variables keep their types in every step of the service.
LEMMA NextTyped == TypeOK /\ RequestsNamed /\ TriggerProgress /\ [Next]_vars => TypeOK'
<1> SUFFICES ASSUME TypeOK, RequestsNamed, TriggerProgress, [Next]_vars
             PROVE  TypeOK'
  OBVIOUS
<1> USE LifecycleAssumption
<1>1. ASSUME NEW s \in Sessions, CreateSession(s)
      PROVE  TypeOK'
  <2>1. NewSession(now) \in SessionRecord
    BY RecordsTyped, NoSessionTyped DEF TypeOK
  <2>. QED BY <1>1, <2>1 DEF CreateSession, TypeOK, budget, seen
<1>2. ASSUME NEW q \in Requests, NEW op \in Op, NEW s \in Sessions, Arrive(q, op, s)
      PROVE  TypeOK'
  BY <1>2, IdleRequestTyped
     DEF Arrive, TypeOK, storage, budget, seen, IdleRequest, Request
<1>3. ASSUME NEW q \in Requests, CancelWaiting(q) \/ TriggerRefused(q) \/ PollRefused(q)
      PROVE  TypeOK'
  BY <1>3, ReturnTyped
     DEF CancelWaiting, TriggerRefused, PollRefused, TypeOK, storage, budget, seen
<1>4. ASSUME NEW q \in Requests, TriggerBegin(q)
      PROVE  TypeOK'
  <2>1. req[q].session \in Sessions
    BY <1>4 DEF TriggerBegin, CanEnter, RequestsNamed
  <2>2. AsTriggering(disk[req[q].session], now) \in SessionRecord
    BY <2>1, RecordsTyped DEF TypeOK
  <2>. DEFINE s == req[q].session
              rec == AsTriggering(disk[s], now)
  <2>3. PICK o : /\ StoreReplace(s, rec, o)
                 /\ IF o = "ok"
                    THEN /\ lock' = [lock EXCEPT ![s] = q]
                         /\ req' = [req EXCEPT ![q] = [@ EXCEPT !.pc = "launching", !.snap = rec]]
                    ELSE Return(q) /\ UNCHANGED lock
    BY <1>4 DEF TriggerBegin, BeginRun
  <2>. HIDE DEF rec
  <2>4. disk' \in [Sessions -> SessionRecord] /\ faults' \in Nat
    BY <2>1, <2>2, <2>3, StoreTyped DEF rec
  <2>5. req' \in [Requests -> Request] /\ lock' \in [Sessions -> Requests \cup {Nobody}]
    <3>1. CASE o = "ok"
      <4>1. [req[q] EXCEPT !.pc = "launching", !.snap = rec] \in Request
        BY <2>2, LocalsTyped DEF TypeOK, rec
      <4>. QED BY <3>1, <4>1, <2>3 DEF TypeOK
    <3>2. CASE o # "ok"
      BY <3>2, <2>3, ReturnTyped DEF TypeOK
    <3>. QED BY <3>1, <3>2
  <2>. QED BY <1>4, <2>4, <2>5 DEF TriggerBegin, TypeOK, seen
<1>5. ASSUME NEW q \in Requests, NEW r \in Runs, LaunchRun(q, r)
      PROVE  TypeOK'
  <2>1. req[q].session \in Sessions
    BY <1>5 DEF LaunchRun, RequestsNamed
  <2>2. [runs[r] EXCEPT !.status = "created", !.owner = req[q].session] \in RunRecord
    BY <2>1, MetadataTyped DEF TypeOK
  <2>3. [req[q] EXCEPT !.pc = "running", !.run = r] \in Request
    BY LocalsTyped DEF TypeOK
  <2>. QED BY <1>5, <2>2, <2>3 DEF LaunchRun, TypeOK, budget, seen
<1>6. ASSUME NEW q \in Requests, LaunchFails(q) \/ RunCancelled(q)
      PROVE  TypeOK'
  <2>1. \A o \in {"failed", "cancelled"} :
          [req[q] EXCEPT !.pc = "finishing", !.outcome = o] \in Request
    BY LocalsTyped DEF TypeOK
  <2>. QED BY <1>6, <2>1 DEF LaunchFails, RunCancelled, TypeOK, storage, budget, seen
<1>7. ASSUME NEW q \in Requests, RunCompletes(q)
      PROVE  TypeOK'
  <2>1. [req[q] EXCEPT !.pc = "finishing", !.outcome = "completed"] \in Request
    BY LocalsTyped DEF TypeOK
  <2>2. req[q].run \in Runs
    BY <1>7 DEF RunCompletes, TriggerProgress
  <2>3. PICK n \in SampleCounts :
          runs' = [runs EXCEPT ![req[q].run] =
                     [@ EXCEPT !.status = "completed", !.samples = n]]
    BY <1>7 DEF RunCompletes
  <2>4. [runs[req[q].run] EXCEPT !.status = "completed", !.samples = n] \in RunRecord
    BY <2>2, MetadataTyped DEF TypeOK
  <2>. QED BY <1>7, <2>1, <2>3, <2>4 DEF RunCompletes, TypeOK, budget, seen
<1>8. ASSUME NEW q \in Requests, RunFails(q)
      PROVE  TypeOK'
  <2>1. [req[q] EXCEPT !.pc = "finishing", !.outcome = "failed"] \in Request
    BY LocalsTyped DEF TypeOK
  <2>2. req[q].run \in Runs
    BY <1>8 DEF RunFails, TriggerProgress
  <2>3. [runs[req[q].run] EXCEPT !.status = "failed"] \in RunRecord
    BY <2>2, MetadataTyped DEF TypeOK
  <2>. QED BY <1>8, <2>1, <2>3 DEF RunFails, TypeOK, seen
<1>9. ASSUME NEW q \in Requests, RunRaises(q)
      PROVE  TypeOK'
  <2>1. req' \in [Requests -> Request]
    BY <1>9, ReturnTyped DEF Leave, RunRaises
  <2>2. lock' = [lock EXCEPT ![req[q].session] = Nobody] /\ faults' = faults + 1
    BY <1>9 DEF Leave, RunRaises
  <2>3. lock' \in [Sessions -> Requests \cup {Nobody}]
    BY <2>2 DEF TypeOK
  <2>4. faults' \in Nat
    BY <2>2 DEF TypeOK
  <2>. QED BY <1>9, <2>1, <2>3, <2>4 DEF RunRaises, TypeOK, storage, seen
<1>10. ASSUME NEW q \in Requests, TriggerEnd(q)
       PROVE  TypeOK'
  <2>. DEFINE s == req[q].session
              rec == TriggerResult(q)
  <2>1. s \in Sessions
    BY <1>10 DEF TriggerEnd, RequestsNamed
  <2>2. rec \in SessionRecord
    <3>1. req[q].snap \in SessionRecord /\ now \in Nat
      BY DEF TypeOK, Request
    <3>2. CASE req[q].outcome = "completed"
      <4>1. req[q].run \in Runs
        BY <1>10, <3>2 DEF TriggerEnd, TriggerProgress
      <4>2. runs[req[q].run].samples \in Nat
        BY <4>1 DEF TypeOK, RunRecord
      <4>3. \/ rec = AsBaselineReady(req[q].snap, now, req[q].run,
                                      runs[req[q].run].samples)
            \/ rec = AsEmptyTelemetryError(req[q].snap, now, req[q].run)
        BY <3>2, <4>2 DEF TriggerResult
      <4>. HIDE DEF rec
      <4>. QED BY <3>1, <4>1, <4>2, <4>3, LinkedTyped
    <3>3. CASE req[q].outcome # "completed"
      BY <3>1, <3>3, ErrorTyped DEF TriggerResult, ErrorCode
    <3>. QED BY <3>2, <3>3
  <2>3. PICK o : /\ StoreReplace(s, rec, o)
                 /\ acked' = IF o = "ok" /\ rec.status = "BASELINE_READY"
                             THEN [acked EXCEPT ![s] = rec.run] ELSE acked
    BY <1>10 DEF Answer, TriggerEnd
  <2>. HIDE DEF rec
  <2>4. acked' \in [Sessions -> Runs \cup {NoRun}]
    BY <2>1, <2>2, <2>3 DEF TypeOK, SessionRecord
  <2>5. disk' \in [Sessions -> SessionRecord] /\ faults' \in Nat
    BY <2>1, <2>2, <2>3, StoreTyped DEF rec
  <2>6. lock' \in [Sessions -> Requests \cup {Nobody}]
    BY <1>10 DEF Leave, TriggerEnd, TypeOK
  <2>. QED BY <1>10, <2>4, <2>5, <2>6, ReturnTyped DEF Leave, TriggerEnd, TypeOK
<1>11. ASSUME NEW q \in Requests, NEW i \in RequestedIntervals, NEW b \in BOOLEAN,
              ReplayRefused(q, i, b) \/ StartReplay(q, i, b)
       PROVE  TypeOK'
  <2>1. CASE ReplayRefused(q, i, b)
    BY <2>1, ReturnTyped DEF ReplayRefused, TypeOK, storage, budget, seen
  <2>2. CASE StartReplay(q, i, b)
    <3>. DEFINE s == req[q].session
                rec == AsReplaying(disk[s], now, i)
    <3>1. s \in Sessions
      BY <2>2 DEF StartReplay, CanEnter, RequestsNamed
    <3>2. rec \in SessionRecord
      BY <3>1, RecordsTyped DEF TypeOK
    <3>3. PICK o : /\ StoreReplace(s, rec, o)
                   /\ shown' = IF o \in Written THEN [shown EXCEPT ![s] = 0] ELSE shown
      BY <2>2 DEF StartReplay
    <3>. HIDE DEF rec
    <3>4. shown' \in [Sessions -> Nat]
      BY <3>3 DEF TypeOK
    <3>5. disk' \in [Sessions -> SessionRecord] /\ faults' \in Nat
      BY <3>1, <3>2, <3>3, StoreTyped DEF rec
    <3>. QED BY <2>2, <3>4, <3>5, ReturnTyped DEF StartReplay, TypeOK
  <2>. QED BY <1>11, <2>1, <2>2
<1>12. ASSUME NEW q \in Requests, Poll(q)
       PROVE  TypeOK'
  <2>. DEFINE s == req[q].session
              rec == AsCompleted(disk[s], now)
              served == [shown EXCEPT ![s] = CurrentIndex(s) + 1]
  <2>1. s \in Sessions
    BY <1>12 DEF Poll, CanEnter, RequestsNamed
  <2>2. rec \in SessionRecord
    BY <2>1, RecordsTyped DEF TypeOK
  <2>3. CurrentIndex(s) + 1 \in Nat
    <3>1. disk[s].count \in Nat \ {0} /\ disk[s].interval \in Nat \ {0}
      BY <1>12, <2>1 DEF Poll, PollAllowed, Readable, Valid, FieldsMatchStatus,
         HasBaseline, TypeOK, SessionRecord
    <3>2. Elapsed(s) \in Nat
      BY <2>1 DEF Elapsed, ElapsedUs, TypeOK, SessionRecord
    <3>3. SampleIndex(Elapsed(s), disk[s].interval, disk[s].count)
            \in 0 .. (disk[s].count - 1)
      BY <3>1, <3>2, IndexInRange
    <3>. QED BY <3>1, <3>3 DEF CurrentIndex
  <2>4. served \in [Sessions -> Nat]
    BY <2>3 DEF TypeOK
  <2>. HIDE DEF rec, served
  <2>5. CASE disk[s].status = "REPLAYING" /\ Due(s)
    <3>1. PICK o : StoreReplace(s, rec, o) /\ shown' \in {served, shown}
      BY <1>12, <2>5 DEF Poll, rec, served
    <3>2. disk' \in [Sessions -> SessionRecord] /\ faults' \in Nat
      BY <2>1, <2>2, <3>1, StoreTyped
    <3>. QED BY <1>12, <2>4, <3>1, <3>2, ReturnTyped DEF Poll, TypeOK
  <2>6. CASE ~ (disk[s].status = "REPLAYING" /\ Due(s))
    BY <1>12, <2>4, <2>6, ReturnTyped DEF Poll, TypeOK, served
  <2>. QED BY <2>5, <2>6
<1>13. CASE Crash
  BY <1>13, IdleRequestTyped DEF Crash, TypeOK, storage, seen
<1>14. CASE StartServer \/ StartupDone \/ Tick \/ StepBack
  BY <1>14 DEF StartServer, StartupDone, Tick, StepBack, TypeOK, storage, budget, seen
<1>15. ASSUME NEW s \in Sessions, ReconcileSkip(s)
       PROVE  TypeOK'
  BY <1>15 DEF ReconcileSkip, TypeOK, storage, budget, seen
<1>16. ASSUME NEW s \in Sessions, ReconcileInterrupted(s)
       PROVE  TypeOK'
  <2>. DEFINE rec == AsTriggerError(disk[s], now, "MISSION_TRIGGER_INTERRUPTED")
  <2>1. rec \in SessionRecord
    BY ErrorTyped DEF TypeOK, ErrorCode
  <2>2. PICK o : /\ StoreReplace(s, rec, o)
                 /\ todo' \in SUBSET Sessions
                 /\ server' \in {"down", "starting", "up"}
    BY <1>16 DEF ReconcileInterrupted, TypeOK
  <2>. HIDE DEF rec
  <2>3. disk' \in [Sessions -> SessionRecord] /\ faults' \in Nat
    BY <2>1, <2>2, StoreTyped
  <2>. QED BY <1>16, <2>2, <2>3 DEF ReconcileInterrupted, TypeOK, seen
<1>17. CASE UNCHANGED vars
  BY <1>17 DEF vars, TypeOK
<1>. QED
  BY <1>1, <1>2, <1>3, <1>4, <1>5, <1>6, <1>7, <1>8, <1>9, <1>10, <1>11, <1>12,
     <1>13, <1>14, <1>15, <1>16, <1>17
     DEF Next, Startup, Environment, Handler

----------------------------------------------------------------------------
(* The invariant is inductive *)

LEMMA InitInv == Init => IInv
<1> SUFFICES ASSUME Init PROVE IInv
  OBVIOUS
<1>1. TypeOK
  BY InitTyped
<1>2. NoHandlerWhenDown /\ RequestsNamed /\ TriggerOwnsSession /\ TriggerProgress
  BY DEF Init, NoHandlerWhenDown, RequestsNamed, TriggerOwnsSession, TriggerProgress,
         IdleRequest
<1>3. RunsOwned /\ OneBaselineRun /\ BaselineLinked /\ AckedBaselineDurable
  BY LifecycleAssumption
     DEF Init, RunsOwned, OneBaselineRun, BaselineLinked, AckedBaselineDurable,
         NoRunRecord, NoSession, Absent
<1>. QED BY <1>1, <1>2, <1>3 DEF IInv

\* A step that leaves the files, the locks and the acknowledgements alone and
\* moves no handler into the critical section keeps the invariant.
LEMMA QuietStep ==
  ASSUME IInv, TypeOK', NoHandlerWhenDown',
         UNCHANGED <<disk, runs, lock, acked>>,
         \A q \in Requests :
           \/ req'[q] = req[q]
           \/ /\ req'[q].pc \notin Inside
              /\ req'[q].pc # "idle" => req'[q].session \in Sessions
  PROVE  IInv'
<1>1. RequestsNamed' /\ TriggerOwnsSession' /\ TriggerProgress'
  BY DEF IInv, RequestsNamed, TriggerOwnsSession, TriggerProgress, Inside
<1>2. RunsOwned' /\ OneBaselineRun' /\ BaselineLinked' /\ AckedBaselineDurable'
  BY DEF IInv, RunsOwned, OneBaselineRun, BaselineLinked, AckedBaselineDurable,
         ResultMatches
<1>. QED BY <1>1, <1>2 DEF IInv

\* A step that rewrites session.json of a session whose lock is free, leaves the
\* locks and the runs alone and moves no handler into the critical section.
LEMMA FreeSessionStep ==
  ASSUME IInv, TypeOK', NoHandlerWhenDown',
         UNCHANGED <<runs, lock>>,
         NEW s \in Sessions, lock[s] = Nobody,
         \A x \in Sessions : x # s => disk'[x] = disk[x],
         \A q \in Requests : req'[q] = req[q] \/ req'[q].pc = "idle"
  PROVE  RequestsNamed' /\ TriggerOwnsSession' /\ TriggerProgress' /\ OneBaselineRun'
<1>1. RequestsNamed' /\ TriggerProgress' /\ OneBaselineRun'
  BY DEF IInv, RequestsNamed, TriggerProgress, OneBaselineRun
<1>2. TriggerOwnsSession'
  BY LifecycleAssumption DEF IInv, TriggerOwnsSession, RequestsNamed
<1>. QED BY <1>1, <1>2

\* A replay write: the session stays linked to the same run and sample count.
LEMMA RewriteStep ==
  ASSUME IInv, TypeOK', NEW q \in Requests, NEW s \in Sessions,
         lock[s] = Nobody, server = "up",
         disk[s].status \in {"BASELINE_READY", "REPLAYING", "COMPLETED"},
         Return(q), UNCHANGED <<runs, lock, server, acked>>,
         NEW rec,
         rec.status \in {"REPLAYING", "COMPLETED"},
         rec.run = disk[s].run, rec.count = disk[s].count,
         \A x \in Sessions : x # s => disk'[x] = disk[x],
         disk'[s] = rec \/ disk'[s] = disk[s]
  PROVE  IInv'
<1>1. NoHandlerWhenDown'
  BY DEF IInv, NoHandlerWhenDown
<1>2. \A x \in Requests : req'[x] = req[x] \/ req'[x].pc = "idle"
  BY DEF Return, IInv, TypeOK, IdleRequest
<1>3. RequestsNamed' /\ TriggerOwnsSession' /\ TriggerProgress' /\ OneBaselineRun'
  BY <1>1, <1>2, FreeSessionStep
<1>4. RunsOwned'
  BY DEF IInv, RunsOwned, Absent
<1>5. BaselineLinked'
  BY DEF IInv, BaselineLinked, ResultMatches
<1>6. AckedBaselineDurable'
  BY DEF IInv, AckedBaselineDurable
<1>. QED BY <1>1, <1>3, <1>4, <1>5, <1>6 DEF IInv

LEMMA NextInv == IInv /\ [Next]_vars => IInv'
<1> SUFFICES ASSUME IInv, [Next]_vars PROVE IInv'
  OBVIOUS
<1>0. TypeOK'
  BY NextTyped DEF IInv
<1> USE NoRunAssumption, LifecycleAssumption
<1>1. ASSUME NEW s \in Sessions, CreateSession(s)
      PROVE  IInv'
  <2>1. NoHandlerWhenDown'
    BY <1>1 DEF CreateSession, IInv, NoHandlerWhenDown
  <2>2. TriggerOwnsSession'
    BY <1>1 DEF CreateSession, IInv, TypeOK, TriggerOwnsSession, NoSession, Absent
  <2>3. RunsOwned'
    BY <1>1 DEF CreateSession, IInv, TypeOK, RunsOwned, NewSession, NoSession
  <2>4. BaselineLinked' /\ AckedBaselineDurable'
    BY <1>1 DEF CreateSession, IInv, TypeOK, BaselineLinked, AckedBaselineDurable,
       ResultMatches, NewSession, NoSession, Absent, seen
  <2>. QED BY <1>0, <1>1, <2>1, <2>2, <2>3, <2>4
       DEF CreateSession, IInv, RequestsNamed, TriggerProgress, OneBaselineRun
<1>2. ASSUME NEW q \in Requests, NEW op \in Op, NEW s \in Sessions, Arrive(q, op, s)
      PROVE  IInv'
  <2>1. NoHandlerWhenDown'
    BY <1>2 DEF Arrive, IInv, NoHandlerWhenDown
  <2>2. \A x \in Requests :
          req'[x] = req[x] \/ (req'[x].pc = "waiting" /\ req'[x].session = s)
    BY <1>2 DEF Arrive, IInv, TypeOK, IdleRequest
  <2>. QED BY <1>0, <1>2, <2>1, <2>2, QuietStep DEF Arrive, storage, seen, Inside
<1>3. ASSUME NEW q \in Requests,
             \/ CancelWaiting(q) \/ TriggerRefused(q) \/ PollRefused(q)
             \/ \E i \in RequestedIntervals, b \in BOOLEAN : ReplayRefused(q, i, b)
      PROVE  IInv'
  <2>1. Return(q) /\ UNCHANGED <<disk, runs, lock, server, acked>>
    BY <1>3 DEF CancelWaiting, TriggerRefused, PollRefused, ReplayRefused, storage, seen
  <2>2. NoHandlerWhenDown'
    BY <2>1 DEF IInv, NoHandlerWhenDown, TypeOK, Return
  <2>3. \A x \in Requests : req'[x] = req[x] \/ req'[x].pc = "idle"
    BY <2>1 DEF Return, IInv, TypeOK, IdleRequest
  <2>. QED BY <1>0, <2>1, <2>2, <2>3, QuietStep DEF Inside
<1>4. ASSUME NEW q \in Requests, TriggerBegin(q)
      PROVE  IInv'
  <2>. DEFINE s == req[q].session
              rec == AsTriggering(disk[s], now)
  <2>1. PICK o : /\ StoreReplace(s, rec, o)
                 /\ IF o = "ok"
                    THEN /\ lock' = [lock EXCEPT ![s] = q]
                         /\ req' = [req EXCEPT ![q] =
                                      [@ EXCEPT !.pc = "launching", !.snap = rec]]
                    ELSE Return(q) /\ UNCHANGED lock
    BY <1>4 DEF TriggerBegin, BeginRun
  <2>2. /\ s \in Sessions /\ lock[s] = Nobody /\ disk[s].status = "READY"
        /\ req[q].pc = "waiting" /\ server = "up"
        /\ UNCHANGED <<runs, server, acked>>
    BY <1>4 DEF TriggerBegin, CanEnter, IInv, RequestsNamed, seen
  <2>3. rec.status = "TRIGGERING"
    BY <2>2 DEF IInv, TypeOK, SessionRecord, AsTriggering
  <2>. HIDE DEF rec
  <2>4. /\ \A x \in Sessions : x # s => disk'[x] = disk[x]
        /\ disk'[s] = rec \/ disk'[s] = disk[s]
        /\ o = "ok" => disk'[s] = rec
    BY <2>1, <2>2 DEF StoreReplace, Written, IInv, TypeOK
  <2>5. NoHandlerWhenDown'
    BY <2>2 DEF IInv, NoHandlerWhenDown
  <2>6. RunsOwned' /\ OneBaselineRun'
    BY <2>2, <2>3, <2>4 DEF IInv, RunsOwned, OneBaselineRun, Absent
  <2>7. BaselineLinked' /\ AckedBaselineDurable'
    BY <2>2, <2>3, <2>4 DEF IInv, BaselineLinked, AckedBaselineDurable, ResultMatches
  <2>8. CASE o = "ok"
    <3>1. /\ req'[q].pc = "launching" /\ req'[q].snap = rec
          /\ req'[q].session = s /\ req'[q].run = req[q].run
          /\ lock'[s] = q
          /\ \A x \in Requests : x # q => req'[x] = req[x]
          /\ \A x \in Sessions : x # s => lock'[x] = lock[x]
      <4>1. req' = [req EXCEPT ![q] =
                      [req[q] EXCEPT !.pc = "launching", !.snap = rec]]
        BY <2>1, <2>8
      <4>2. lock' = [lock EXCEPT ![s] = q]
        BY <2>1, <2>8
      <4>. QED BY <2>2, <4>1, <4>2, LocalsFields DEF IInv, TypeOK
    <3>2. RequestsNamed'
      BY <2>2, <3>1 DEF IInv, RequestsNamed
    <3>3. TriggerOwnsSession'
      BY <2>2, <2>3, <2>4, <2>8, <3>1 DEF IInv, TriggerOwnsSession, RequestsNamed
    <3>4. TriggerProgress'
      BY <2>2, <3>1 DEF IInv, TriggerProgress, RunsOwned
    <3>. QED BY <1>0, <2>5, <2>6, <2>7, <3>2, <3>3, <3>4 DEF IInv
  <2>9. CASE o # "ok"
    <3>1. UNCHANGED lock /\ \A x \in Requests : req'[x] = req[x] \/ req'[x].pc = "idle"
      BY <2>1, <2>9 DEF Return, IInv, TypeOK, IdleRequest
    <3>. QED BY <1>0, <2>2, <2>4, <2>5, <2>6, <2>7, <3>1, FreeSessionStep DEF IInv
  <2>. QED BY <2>8, <2>9
<1>5. ASSUME NEW q \in Requests, NEW r \in Runs, LaunchRun(q, r)
      PROVE  IInv'
  <2>. DEFINE s == req[q].session
  <2>1. /\ s \in Sessions /\ lock[s] = q /\ disk[s].status = "TRIGGERING"
        /\ \A x \in Runs : runs[x].owner # s
        /\ runs[r].status = "none" /\ runs[r].owner = Nobody
    BY <1>5 DEF LaunchRun, IInv, RequestsNamed, TriggerOwnsSession, TriggerProgress,
       RunsOwned
  <2>2. /\ runs'[r].status = "created" /\ runs'[r].owner = s
        /\ \A x \in Runs : x # r => runs'[x] = runs[x]
    BY <1>5 DEF LaunchRun, IInv, TypeOK, RunRecord
  <2>3. /\ req'[q].pc = "running" /\ req'[q].run = r
        /\ req'[q].session = s /\ req'[q].snap = req[q].snap
        /\ \A x \in Requests : x # q => req'[x] = req[x]
    BY <1>5 DEF LaunchRun, IInv, TypeOK, Request
  <2>4. UNCHANGED <<disk, lock, server, acked>>
    BY <1>5 DEF LaunchRun, seen
  <2>5. NoHandlerWhenDown' /\ RequestsNamed'
    BY <1>5, <2>1, <2>3, <2>4
       DEF LaunchRun, IInv, NoHandlerWhenDown, RequestsNamed, IdleRequest
  <2>6. TriggerOwnsSession'
    BY <1>5, <2>1, <2>3, <2>4 DEF LaunchRun, IInv, TriggerOwnsSession
  <2>7. TriggerProgress'
    <3>1. ASSUME NEW x \in Requests, x # q, req[x].pc \in Inside
          PROVE  req[x].session # s /\ req[x].session \in Sessions
      BY <2>1, <3>1 DEF IInv, TriggerOwnsSession, RequestsNamed, Inside
    <3>. QED BY <2>1, <2>2, <2>3, <3>1 DEF IInv, TriggerProgress, Inside
  <2>8. RunsOwned' /\ OneBaselineRun'
    BY <2>1, <2>2, <2>4 DEF IInv, RunsOwned, OneBaselineRun, Absent
  <2>9. BaselineLinked' /\ AckedBaselineDurable'
    BY <2>1, <2>2, <2>4 DEF IInv, BaselineLinked, AckedBaselineDurable, ResultMatches
  <2>. QED BY <1>0, <2>5, <2>6, <2>7, <2>8, <2>9 DEF IInv
<1>6. ASSUME NEW q \in Requests, LaunchFails(q) \/ RunCancelled(q)
      PROVE  IInv'
  <2>1. /\ req[q].pc \in Inside /\ req'[q].pc = "finishing"
        /\ req'[q].outcome \in {"failed", "cancelled"}
        /\ req'[q].session = req[q].session /\ req'[q].snap = req[q].snap
        /\ \A x \in Requests : x # q => req'[x] = req[x]
    <3>1. PICK o \in {"failed", "cancelled"} :
            req' = [req EXCEPT ![q] =
                      [req[q] EXCEPT !.pc = "finishing", !.outcome = o]]
      BY <1>6 DEF LaunchFails, RunCancelled
    <3>. QED BY <1>6, <3>1, LocalsFields
             DEF LaunchFails, RunCancelled, IInv, TypeOK, Inside
  <2>2. UNCHANGED <<disk, runs, lock, server, acked>>
    BY <1>6 DEF LaunchFails, RunCancelled, storage, seen
  <2>3. NoHandlerWhenDown' /\ RequestsNamed'
    BY <2>1, <2>2 DEF IInv, NoHandlerWhenDown, RequestsNamed, IdleRequest, Inside
  <2>4. TriggerOwnsSession' /\ TriggerProgress'
    BY <2>1, <2>2 DEF IInv, TriggerOwnsSession, TriggerProgress, Inside
  <2>5. RunsOwned' /\ OneBaselineRun' /\ BaselineLinked' /\ AckedBaselineDurable'
    BY <2>2 DEF IInv, RunsOwned, OneBaselineRun, BaselineLinked,
       AckedBaselineDurable, ResultMatches
  <2>. QED BY <1>0, <2>3, <2>4, <2>5 DEF IInv
<1>7. ASSUME NEW q \in Requests, RunCompletes(q) \/ RunFails(q)
      PROVE  IInv'
  <2>. DEFINE r == req[q].run
  <2>1. /\ r \in Runs /\ req[q].pc = "running"
        /\ runs[r].owner = req[q].session /\ runs[r].status = "created"
    BY <1>7 DEF RunCompletes, RunFails, IInv, TriggerProgress
  <2>2. /\ req'[q].pc = "finishing"
        /\ req'[q].outcome \in {"completed", "failed"}
        /\ req'[q].session = req[q].session /\ req'[q].snap = req[q].snap
        /\ req'[q].run = r
        /\ \A x \in Requests : x # q => req'[x] = req[x]
    <3>1. PICK o \in {"completed", "failed"} :
            req' = [req EXCEPT ![q] =
                      [req[q] EXCEPT !.pc = "finishing", !.outcome = o]]
      BY <1>7 DEF RunCompletes, RunFails
    <3>. QED BY <3>1, LocalsFields DEF IInv, TypeOK
  <2>3. /\ \A x \in Runs : x # r => runs'[x] = runs[x]
        /\ runs'[r].owner = runs[r].owner
        /\ runs'[r].status \in {"created", "completed", "failed"}
        /\ req'[q].outcome = "completed" => runs'[r].status = "completed"
    <3>1. CASE RunCompletes(q)
      BY <2>1, <3>1 DEF RunCompletes, IInv, TypeOK, RunRecord
    <3>2. CASE RunFails(q)
      <4>1. CASE runs' = [runs EXCEPT ![r] = [@ EXCEPT !.status = "failed"]]
        BY <2>1, <3>2, <4>1 DEF RunFails, IInv, TypeOK, RunRecord, Request
      <4>2. CASE UNCHANGED runs
        BY <2>1, <3>2, <4>2 DEF RunFails, IInv, TypeOK, Request
      <4>. QED BY <3>2, <4>1, <4>2 DEF RunFails
    <3>. QED BY <1>7, <3>1, <3>2
  <2>4. UNCHANGED <<disk, lock, server, acked>>
    BY <1>7 DEF RunCompletes, RunFails, seen
  <2>5. NoHandlerWhenDown' /\ RequestsNamed' /\ TriggerOwnsSession'
    BY <2>1, <2>2, <2>4
       DEF IInv, NoHandlerWhenDown, RequestsNamed, TriggerOwnsSession, IdleRequest
  <2>6. TriggerProgress'
    <3>1. ASSUME NEW x \in Requests, x # q, req[x].pc = "running" \/ req[x].outcome = "completed",
                 req[x].pc \in {"running", "finishing"}
          PROVE  req[x].run # r
      BY <2>1, <3>1 DEF IInv, TriggerOwnsSession, TriggerProgress
    <3>. QED BY <2>1, <2>2, <2>3, <3>1 DEF IInv, TriggerProgress
  <2>7. RunsOwned' /\ OneBaselineRun'
    BY <2>1, <2>3, <2>4 DEF IInv, RunsOwned, OneBaselineRun
  <2>8. BaselineLinked' /\ AckedBaselineDurable'
    BY <2>1, <2>3, <2>4 DEF IInv, BaselineLinked, AckedBaselineDurable, ResultMatches
  <2>. QED BY <1>0, <2>5, <2>6, <2>7, <2>8 DEF IInv
<1>8. ASSUME NEW q \in Requests, RunRaises(q)
      PROVE  IInv'
  <2>1. /\ req[q].pc \in Inside /\ req[q].session \in Sessions
        /\ lock[req[q].session] = q
    BY <1>8 DEF RunRaises, IInv, RequestsNamed, TriggerOwnsSession, Inside
  <2>2. /\ req'[q] = IdleRequest
        /\ \A x \in Requests : x # q => req'[x] = req[x]
        /\ lock'[req[q].session] = Nobody
        /\ \A x \in Sessions : x # req[q].session => lock'[x] = lock[x]
        /\ UNCHANGED <<disk, runs, server, acked>>
    BY <1>8, <2>1 DEF Leave, RunRaises, Return, IInv, TypeOK, storage, seen
  <2>3. NoHandlerWhenDown' /\ RequestsNamed'
    BY <2>1, <2>2 DEF IInv, NoHandlerWhenDown, RequestsNamed, IdleRequest
  <2>4. TriggerOwnsSession' /\ TriggerProgress'
    BY <2>1, <2>2
       DEF IInv, TriggerOwnsSession, TriggerProgress, RequestsNamed, IdleRequest
  <2>5. RunsOwned' /\ OneBaselineRun' /\ BaselineLinked' /\ AckedBaselineDurable'
    BY <2>2 DEF IInv, RunsOwned, OneBaselineRun, BaselineLinked,
       AckedBaselineDurable, ResultMatches
  <2>. QED BY <1>0, <2>3, <2>4, <2>5 DEF IInv
<1>9. ASSUME NEW q \in Requests, TriggerEnd(q)
      PROVE  IInv'
  <2>. DEFINE s == req[q].session
              rec == TriggerResult(q)
              linked == rec.status = "BASELINE_READY"
  <2>1. PICK o : /\ o \in ReplaceOutcome(s, "TRIGGERING", req[q].snap.updated, rec)
                 /\ StoreReplace(s, rec, o)
                 /\ acked' = IF o = "ok" /\ linked
                             THEN [acked EXCEPT ![s] = rec.run] ELSE acked
    BY <1>9 DEF Answer, TriggerEnd
  <2>2. /\ s \in Sessions /\ lock[s] = q /\ disk[s] = req[q].snap
        /\ disk[s].status = "TRIGGERING"
        /\ req[q].pc = "finishing" /\ server = "up"
        /\ acked[s] = NoRun
    BY <1>9 DEF TriggerEnd, IInv, RequestsNamed, TriggerOwnsSession, NoHandlerWhenDown,
       IdleRequest, AckedBaselineDurable
  <2>3. /\ rec.status \in {"BASELINE_READY", "ERROR"}
        /\ linked => /\ rec.run \in Runs /\ rec.run = req[q].run
                     /\ runs[rec.run].owner = s
                     /\ runs[rec.run].status = "completed"
                     /\ runs[rec.run].samples = rec.count
    <3>1. req[q].snap \in SessionRecord
      BY DEF IInv, TypeOK, Request
    <3>2. CASE req[q].outcome = "completed"
      <4>1. /\ req[q].run \in Runs /\ runs[req[q].run].owner = s
            /\ runs[req[q].run].status = "completed"
        BY <2>2, <3>2 DEF IInv, TriggerProgress
      <4>2. runs[req[q].run].samples \in Nat
        BY <4>1 DEF IInv, TypeOK, RunRecord
      <4>3. \/ rec = AsBaselineReady(req[q].snap, now, req[q].run,
                                      runs[req[q].run].samples)
            \/ rec = AsEmptyTelemetryError(req[q].snap, now, req[q].run)
        BY <3>2, <4>2 DEF TriggerResult
      <4>. HIDE DEF rec
      <4>. QED BY <2>2, <3>1, <4>1, <4>3, LinkedFields
    <3>3. CASE req[q].outcome # "completed"
      <4>1. PICK code : rec = AsTriggerError(req[q].snap, now, code)
        BY <3>3 DEF TriggerResult
      <4>. HIDE DEF rec
      <4>. QED BY <3>1, <4>1 DEF AsTriggerError, SessionRecord
    <3>. QED BY <3>2, <3>3
  <2>. HIDE DEF rec
  <2>4. /\ \A x \in Sessions : x # s => disk'[x] = disk[x]
        /\ disk'[s] = rec \/ disk'[s] = disk[s]
        /\ o = "ok" => disk'[s] = rec
    BY <2>1, <2>2 DEF StoreReplace, Written, IInv, TypeOK
  <2>5. /\ req'[q] = IdleRequest
        /\ \A x \in Requests : x # q => req'[x] = req[x]
        /\ lock'[s] = Nobody
        /\ \A x \in Sessions : x # s => lock'[x] = lock[x]
        /\ UNCHANGED <<runs, server>>
    BY <1>9, <2>2 DEF Leave, TriggerEnd, Return, IInv, TypeOK
  <2>6. /\ \A x \in Sessions : x # s => acked'[x] = acked[x]
        /\ acked'[s] # NoRun => o = "ok" /\ linked /\ acked'[s] = rec.run
    BY <2>1, <2>2 DEF IInv, TypeOK
  <2>7. NoHandlerWhenDown' /\ RequestsNamed'
    BY <2>2, <2>5 DEF IInv, NoHandlerWhenDown, RequestsNamed, IdleRequest
  <2>8. TriggerOwnsSession' /\ TriggerProgress'
    BY <2>2, <2>4, <2>5
       DEF IInv, TriggerOwnsSession, TriggerProgress, RequestsNamed, IdleRequest
  <2>9. RunsOwned' /\ OneBaselineRun'
    BY <2>2, <2>3, <2>4, <2>5 DEF IInv, RunsOwned, OneBaselineRun, Absent
  <2>10. BaselineLinked'
    BY <2>2, <2>3, <2>4, <2>5 DEF IInv, BaselineLinked, ResultMatches
  <2>11. AckedBaselineDurable'
    BY <2>2, <2>4, <2>6 DEF IInv, AckedBaselineDurable
  <2>. QED BY <1>0, <2>7, <2>8, <2>9, <2>10, <2>11 DEF IInv
<1>10. ASSUME NEW q \in Requests, NEW i \in RequestedIntervals, NEW b \in BOOLEAN,
              StartReplay(q, i, b)
       PROVE  IInv'
  <2>. DEFINE s == req[q].session
              rec == AsReplaying(disk[s], now, i)
  <2>1. /\ s \in Sessions /\ lock[s] = Nobody /\ server = "up"
        /\ disk[s].status \in {"BASELINE_READY", "COMPLETED"}
        /\ Return(q) /\ UNCHANGED <<runs, lock, server, acked>>
    BY <1>10 DEF StartReplay, CanEnter, ReplayAllowed, IInv, RequestsNamed
  <2>2. /\ rec.status = "REPLAYING" /\ rec.run = disk[s].run
        /\ rec.count = disk[s].count
    BY <2>1 DEF AsReplaying, IInv, TypeOK, SessionRecord
  <2>3. PICK o : StoreReplace(s, rec, o)
    BY <1>10 DEF StartReplay
  <2>. HIDE DEF rec
  <2>4. /\ \A x \in Sessions : x # s => disk'[x] = disk[x]
        /\ disk'[s] = rec \/ disk'[s] = disk[s]
    BY <2>1, <2>3 DEF StoreReplace, IInv, TypeOK
  <2>. QED BY <1>0, <2>1, <2>2, <2>4, RewriteStep
<1>11. ASSUME NEW q \in Requests, Poll(q)
       PROVE  IInv'
  <2>. DEFINE s == req[q].session
              rec == AsCompleted(disk[s], now)
  <2>1. /\ s \in Sessions /\ lock[s] = Nobody /\ server = "up"
        /\ disk[s].status \in {"REPLAYING", "COMPLETED"}
        /\ Return(q) /\ UNCHANGED <<runs, lock, server, acked>>
    BY <1>11 DEF Poll, CanEnter, PollAllowed, IInv, RequestsNamed
  <2>2. /\ rec.status = "COMPLETED" /\ rec.run = disk[s].run
        /\ rec.count = disk[s].count
    BY <2>1 DEF AsCompleted, IInv, TypeOK, SessionRecord
  <2>3. UNCHANGED disk \/ \E o : StoreReplace(s, rec, o)
    BY <1>11 DEF Poll
  <2>. HIDE DEF rec
  <2>4. /\ \A x \in Sessions : x # s => disk'[x] = disk[x]
        /\ disk'[s] = rec \/ disk'[s] = disk[s]
    BY <2>1, <2>3 DEF StoreReplace, IInv, TypeOK
  <2>. QED BY <1>0, <2>1, <2>2, <2>4, RewriteStep
<1>12. CASE Crash
  <2>1. /\ \A q \in Requests : req'[q] = IdleRequest
        /\ \A s \in Sessions : lock'[s] = Nobody
        /\ UNCHANGED <<disk, runs, acked>>
    BY <1>12 DEF Crash, storage, seen
  <2>2. NoHandlerWhenDown' /\ RequestsNamed' /\ TriggerOwnsSession' /\ TriggerProgress'
    BY <2>1 DEF NoHandlerWhenDown, RequestsNamed, TriggerOwnsSession,
       TriggerProgress, IdleRequest
  <2>3. RunsOwned' /\ OneBaselineRun' /\ BaselineLinked' /\ AckedBaselineDurable'
    BY <2>1 DEF IInv, RunsOwned, OneBaselineRun, BaselineLinked,
       AckedBaselineDurable, ResultMatches
  <2>. QED BY <1>0, <2>2, <2>3 DEF IInv
<1>13. CASE \/ StartServer \/ StartupDone \/ Tick \/ StepBack
            \/ \E s \in Sessions : ReconcileSkip(s)
  <2>1. /\ UNCHANGED <<disk, runs, lock, req, acked>>
        /\ server' = server \/ server # "up"
    BY <1>13 DEF StartServer, StartupDone, Tick, StepBack, ReconcileSkip, storage, seen
  <2>2. NoHandlerWhenDown'
    BY <2>1 DEF IInv, NoHandlerWhenDown
  <2>. QED BY <1>0, <2>1, <2>2, QuietStep
<1>14. ASSUME NEW s \in Sessions, ReconcileInterrupted(s)
       PROVE  IInv'
  <2>. DEFINE rec == AsTriggerError(disk[s], now, "MISSION_TRIGGER_INTERRUPTED")
  <2>1. /\ server = "starting" /\ server' # "up" /\ disk[s].status = "TRIGGERING"
        /\ UNCHANGED <<runs, lock, req, acked>>
    BY <1>14 DEF Interrupted, ReconcileInterrupted, seen
  <2>2. rec.status = "ERROR"
    BY DEF AsTriggerError, IInv, TypeOK, SessionRecord
  <2>3. PICK o : StoreReplace(s, rec, o)
    BY <1>14 DEF ReconcileInterrupted
  <2>. HIDE DEF rec
  <2>4. /\ \A x \in Sessions : x # s => disk'[x] = disk[x]
        /\ disk'[s] = rec \/ disk'[s] = disk[s]
    BY <2>3 DEF StoreReplace, IInv, TypeOK
  <2>5. NoHandlerWhenDown' /\ lock[s] = Nobody
    BY <2>1 DEF IInv, NoHandlerWhenDown
  <2>6. RequestsNamed' /\ TriggerOwnsSession' /\ TriggerProgress' /\ OneBaselineRun'
    BY <1>0, <2>1, <2>4, <2>5, FreeSessionStep
  <2>7. RunsOwned'
    BY <2>1, <2>2, <2>4 DEF IInv, RunsOwned, Absent
  <2>8. BaselineLinked' /\ AckedBaselineDurable'
    BY <2>1, <2>2, <2>4 DEF IInv, BaselineLinked, AckedBaselineDurable, ResultMatches
  <2>. QED BY <1>0, <2>5, <2>6, <2>7, <2>8 DEF IInv
<1>15. CASE UNCHANGED vars
  BY <1>0, <1>15, QuietStep DEF vars, IInv, NoHandlerWhenDown
<1>. QED
  BY <1>1, <1>2, <1>3, <1>4, <1>5, <1>6, <1>7, <1>8, <1>9, <1>10, <1>11, <1>12,
     <1>13, <1>14, <1>15
     DEF Next, Startup, Environment, Handler

----------------------------------------------------------------------------
(* Theorems *)

\* IInv holds in every state the service reaches.
LEMMA Inductive == Spec => []IInv
BY InitInv, NextInv, PTL DEF Spec

\* Every state variable keeps its type, in particular every record written to
\* session.json, for any number of sessions, handlers and runs.
THEOREM TypeCorrect == Spec => []TypeOK
BY Inductive, PTL DEF IInv

\* A session that offers a replay names a completed run launched for it, with
\* the sample count it stores: mission_lifecycle_service.py and the replay
\* service never unlink it, through crashes, faults and clock steps.
THEOREM BaselineIsLinked == Spec => []BaselineLinked
BY Inductive, PTL DEF IInv

\* No session ever gets two baseline runs.
THEOREM BaselineRunIsUnique == Spec => []OneBaselineRun
BY Inductive, PTL DEF IInv

\* A baseline the client was told of stays the session's baseline.
THEOREM AckedBaselineStays == Spec => []AckedBaselineDurable
BY Inductive, PTL DEF IInv

\* Between its two writes trigger_accident holds the lock, and session.json is
\* the record it wrote: its second replace never raises a conflict.
THEOREM TriggerIsExclusive == Spec => []TriggerOwnsSession
BY Inductive, PTL DEF IInv

----------------------------------------------------------------------------
(* Implementation of the abstract lifecycle *)

LEMMA PromiseInit == Init => Promise!Init
BY DEF Init, Promise!Init, NoSession, NoRunRecord, Absent

\* The mapped variables stay what they are when the status, the run and the
\* owner of every record do.
LEMMA Stutter ==
  ASSUME \A s \in Sessions : disk'[s].status = disk[s].status /\ disk'[s].run = disk[s].run,
         \A r \in Runs : runs'[r].owner = runs[r].owner
  PROVE  UNCHANGED Promise!vars
BY DEF Promise!vars

\* One session moves from a status to another.
LEMMA Moves ==
  ASSUME NEW s \in Sessions, NEW from, NEW to,
         disk[s].status \in from, disk'[s].status = to,
         \A x \in Sessions : x # s => disk'[x] = disk[x]
  PROVE  Promise!Move(s, from, to)
BY DEF Promise!Move

\* A step that leaves every run alone and rewrites one record without changing
\* its run.
LEMMA KeepsLinks ==
  ASSUME NEW s \in Sessions, disk'[s].run = disk[s].run, UNCHANGED runs,
         \A x \in Sessions : x # s => disk'[x] = disk[x]
  PROVE  /\ UNCHANGED [x \in Sessions |-> disk[x].run]
         /\ UNCHANGED [r \in Runs |-> runs[r].owner]
OBVIOUS

LEMMA LinksRun ==
  ASSUME NEW s \in Sessions, NEW r, disk'[s].run = r,
         \A x \in Sessions : x # s => disk'[x] = disk[x]
  PROVE  [x \in Sessions |-> disk[x].run]'
           = [[x \in Sessions |-> disk[x].run] EXCEPT ![s] = r]
OBVIOUS

\* A step of one session is a step of the abstraction.
LEMMA AbstractStep ==
  ASSUME NEW s \in Sessions,
         \/ Promise!Create(s) \/ Promise!Trigger(s) \/ Promise!Fail(s)
         \/ Promise!StartReplay(s) \/ Promise!Complete(s)
         \/ \E r \in Runs : Promise!Launch(s, r) \/ Promise!Link(s, r)
  PROVE  Promise!Next
BY DEF Promise!Next

\* Every step of the service is a step of SessionLifecycle or does not show.
LEMMA PromiseNext ==
  IInv /\ IInv' /\ [Next]_vars => [Promise!Next]_(Promise!vars)
<1> SUFFICES ASSUME IInv, [Next]_vars, IInv'
             PROVE  Promise!Next \/ UNCHANGED Promise!vars
  OBVIOUS
<1>1. ASSUME NEW s \in Sessions, CreateSession(s)
      PROVE  Promise!Next
  <2>1. /\ disk[s].status = Absent /\ disk[s].run = NoRun
        /\ disk'[s].status = "READY" /\ disk'[s].run = NoRun
        /\ \A x \in Sessions : x # s => disk'[x] = disk[x]
        /\ UNCHANGED runs
    BY <1>1 DEF CreateSession, IInv, TypeOK, NewSession, NoSession
  <2>2. Promise!Create(s)
    BY <2>1, Moves, KeepsLinks DEF Promise!Create, Absent
  <2>. QED BY <2>2, AbstractStep
<1>2. ASSUME UNCHANGED <<disk, runs>>
      PROVE  UNCHANGED Promise!vars
  BY <1>2, Stutter
<1>3. ASSUME NEW q \in Requests, TriggerBegin(q)
      PROVE  Promise!Next \/ UNCHANGED Promise!vars
  <2>0. PICK s \in Sessions : s = req[q].session
    BY <1>3 DEF TriggerBegin, CanEnter, IInv, RequestsNamed
  <2>. DEFINE rec == AsTriggering(disk[s], now)
  <2>1. PICK o : StoreReplace(s, rec, o)
    BY <2>0, <1>3 DEF TriggerBegin
  <2>2. s \in Sessions /\ disk[s].status = "READY" /\ UNCHANGED runs
    BY <2>0, <1>3 DEF TriggerBegin, CanEnter, IInv, RequestsNamed
  <2>3. rec.status = "TRIGGERING" /\ rec.run = disk[s].run
    BY <2>2 DEF IInv, TypeOK, SessionRecord, AsTriggering
  <2>. HIDE DEF rec
  <2>4. CASE o \in Written
    <3>1. disk'[s] = rec /\ \A x \in Sessions : x # s => disk'[x] = disk[x]
      BY <2>1, <2>2, <2>4 DEF StoreReplace, IInv, TypeOK
    <3>2. Promise!Trigger(s)
      BY <2>2, <2>3, <3>1, Moves, KeepsLinks DEF Promise!Trigger
    <3>. QED BY <2>2, <3>2, AbstractStep
  <2>5. CASE o \notin Written
    BY <1>2, <2>1, <2>2, <2>5 DEF StoreReplace
  <2>. QED BY <2>4, <2>5
<1>4. ASSUME NEW q \in Requests, NEW r \in Runs, LaunchRun(q, r)
      PROVE  Promise!Next
  <2>. DEFINE s == req[q].session
  <2>1. /\ s \in Sessions /\ disk[s].status = "TRIGGERING"
        /\ \A x \in Runs : runs[x].owner # s
        /\ runs[r].owner = Nobody
        /\ UNCHANGED disk
    BY <1>4 DEF LaunchRun, IInv, RequestsNamed, TriggerOwnsSession, TriggerProgress,
       RunsOwned
  <2>2. runs'[r].owner = s /\ \A x \in Runs : x # r => runs'[x] = runs[x]
    BY <1>4 DEF LaunchRun, IInv, TypeOK, RunRecord
  <2>3. Promise!Launch(s, r)
    BY <2>1, <2>2 DEF Promise!Launch, Promise!Launched
  <2>. QED BY <2>1, <2>3, AbstractStep
<1>5. ASSUME NEW q \in Requests, RunCompletes(q) \/ RunFails(q)
      PROVE  UNCHANGED Promise!vars
  <2>1. \A r \in Runs : runs'[r].owner = runs[r].owner
    <3>1. \A x \in RunRecord, n \in Nat :
            /\ [x EXCEPT !.status = "completed", !.samples = n].owner = x.owner
            /\ [x EXCEPT !.status = "failed"].owner = x.owner
      BY DEF RunRecord
    <3>2. CASE RunCompletes(q)
      BY <3>1, <3>2, LifecycleAssumption DEF RunCompletes, IInv, TypeOK
    <3>3. CASE RunFails(q)
      <4>1. CASE runs' = [runs EXCEPT ![req[q].run] = [runs[req[q].run] EXCEPT !.status = "failed"]]
        BY <3>1, <4>1, LifecycleAssumption DEF IInv, TypeOK
      <4>2. CASE UNCHANGED runs
        BY <4>2
      <4>. QED BY <3>3, <4>1, <4>2 DEF RunFails
    <3>. QED BY <1>5, <3>2, <3>3
  <2>. QED BY <1>5, <2>1, Stutter DEF RunCompletes, RunFails
<1>6. ASSUME NEW q \in Requests, TriggerEnd(q)
      PROVE  Promise!Next \/ UNCHANGED Promise!vars
  <2>0. PICK s \in Sessions : s = req[q].session
    BY <1>6 DEF TriggerEnd, IInv, RequestsNamed
  <2>. DEFINE rec == TriggerResult(q)
              r == req[q].run
  <2>1. PICK o : StoreReplace(s, rec, o)
    BY <2>0, <1>6 DEF TriggerEnd
  <2>2. /\ s \in Sessions /\ disk[s] = req[q].snap /\ UNCHANGED runs
        /\ disk[s].status = "TRIGGERING"
    BY <2>0, <1>6 DEF TriggerEnd, IInv, RequestsNamed, TriggerOwnsSession
  <2>3. \/ /\ rec.status = "BASELINE_READY" /\ rec.run = r
           /\ r \in Runs /\ runs[r].owner = s
        \/ /\ rec.status = "ERROR"
           /\ \/ rec.run = disk[s].run
              \/ rec.run = r /\ r \in Runs /\ runs[r].owner = s
    <3>1. req[q].snap \in SessionRecord
      BY DEF IInv, TypeOK, Request
    <3>2. CASE req[q].outcome = "completed"
      <4>1. r \in Runs /\ runs[r].owner = s
        BY <1>6, <2>0, <3>2 DEF TriggerEnd, IInv, TriggerProgress
      <4>2. runs[r].samples \in Nat
        BY <4>1 DEF IInv, TypeOK, RunRecord
      <4>3. \/ rec = AsBaselineReady(req[q].snap, now, r, runs[r].samples)
            \/ rec = AsEmptyTelemetryError(req[q].snap, now, r)
        BY <3>2, <4>2 DEF TriggerResult
      <4>. HIDE DEF rec
      <4>4. \/ rec.status = "BASELINE_READY" /\ rec.run = r
            \/ rec.status = "ERROR" /\ rec.run = r
        BY <3>1, <4>3, LinkedFields
      <4>. QED BY <4>1, <4>4
    <3>3. CASE req[q].outcome # "completed"
      <4>1. PICK code : rec = AsTriggerError(req[q].snap, now, code)
        BY <3>3 DEF TriggerResult
      <4>. HIDE DEF rec
      <4>. QED BY <2>2, <3>1, <4>1 DEF AsTriggerError, SessionRecord
    <3>. QED BY <3>2, <3>3
  <2>. HIDE DEF rec
  <2>4. CASE o \in Written
    <3>1. /\ disk'[s] = rec /\ \A x \in Sessions : x # s => disk'[x] = disk[x]
          /\ disk' = [disk EXCEPT ![s] = rec]
      BY <2>1, <2>2, <2>4 DEF StoreReplace, IInv, TypeOK
    <3>2. CASE rec.status = "BASELINE_READY"
      <4>1. PICK x \in Runs : rec.run = x /\ runs[x].owner = s
        BY <2>3, <3>2
      <4>2. Promise!Move(s, {"TRIGGERING"}, "BASELINE_READY")
        BY <2>2, <3>1, <3>2, Moves
      <4>3. Promise!Link(s, x)
        BY <2>2, <3>1, <4>1, <4>2, LinksRun DEF Promise!Link
      <4>. QED BY <4>3, AbstractStep
    <3>3. CASE rec.status = "ERROR"
      <4>1. Promise!Fail(s)
        <5>1. Promise!Move(s, {"TRIGGERING"}, "ERROR")
          BY <2>2, <3>1, <3>3, Moves
        <5>2. CASE rec.run = disk[s].run
          BY <2>2, <3>1, <5>1, <5>2, KeepsLinks DEF Promise!Fail
        <5>3. CASE rec.run = r /\ r \in Runs /\ runs[r].owner = s
          BY <2>2, <3>1, <5>1, <5>3, LinksRun DEF Promise!Fail
        <5>. QED BY <2>3, <3>3, <5>2, <5>3
      <4>. QED BY <2>2, <4>1, AbstractStep
    <3>. QED BY <2>3, <3>2, <3>3
  <2>5. CASE o \notin Written
    BY <1>2, <2>1, <2>2, <2>5 DEF StoreReplace
  <2>. QED BY <2>4, <2>5
<1>7. ASSUME NEW q \in Requests, NEW i \in RequestedIntervals, NEW b \in BOOLEAN,
             StartReplay(q, i, b)
      PROVE  Promise!Next \/ UNCHANGED Promise!vars
  <2>0. PICK s \in Sessions : s = req[q].session
    BY <1>7 DEF StartReplay, CanEnter, IInv, RequestsNamed
  <2>. DEFINE rec == AsReplaying(disk[s], now, i)
  <2>1. PICK o : StoreReplace(s, rec, o)
    BY <2>0, <1>7 DEF StartReplay
  <2>2. /\ s \in Sessions /\ UNCHANGED runs
        /\ disk[s].status \in {"BASELINE_READY", "COMPLETED"}
    BY <2>0, <1>7 DEF StartReplay, CanEnter, ReplayAllowed, IInv, RequestsNamed
  <2>3. rec.status = "REPLAYING" /\ rec.run = disk[s].run
    BY <2>2 DEF IInv, TypeOK, SessionRecord, AsReplaying
  <2>. HIDE DEF rec
  <2>4. CASE o \in Written
    <3>1. disk'[s] = rec /\ \A x \in Sessions : x # s => disk'[x] = disk[x]
      BY <2>1, <2>2, <2>4 DEF StoreReplace, IInv, TypeOK
    <3>2. Promise!StartReplay(s)
      BY <2>2, <2>3, <3>1, Moves, KeepsLinks DEF Promise!StartReplay
    <3>. QED BY <2>2, <3>2, AbstractStep
  <2>5. CASE o \notin Written
    BY <1>2, <2>1, <2>2, <2>5 DEF StoreReplace
  <2>. QED BY <2>4, <2>5
<1>8. ASSUME NEW q \in Requests, Poll(q)
      PROVE  Promise!Next \/ UNCHANGED Promise!vars
  <2>0. PICK s \in Sessions : s = req[q].session
    BY <1>8 DEF Poll, CanEnter, IInv, RequestsNamed
  <2>. DEFINE rec == AsCompleted(disk[s], now)
  <2>1. s \in Sessions /\ UNCHANGED runs
    BY <2>0, <1>8 DEF Poll, CanEnter, IInv, RequestsNamed
  <2>2. rec.status = "COMPLETED" /\ rec.run = disk[s].run
    BY <2>0, <2>1 DEF IInv, TypeOK, SessionRecord, AsCompleted
  <2>3. \/ UNCHANGED disk
        \/ disk[s].status = "REPLAYING" /\ \E o : StoreReplace(s, rec, o)
    BY <1>8, <2>0 DEF Poll
  <2>. HIDE DEF rec
  <2>4. \/ UNCHANGED disk
        \/ disk[s].status = "REPLAYING" /\ disk' = [disk EXCEPT ![s] = rec]
    BY <2>3 DEF StoreReplace
  <2>5. CASE UNCHANGED disk
    BY <1>2, <2>1, <2>5
  <2>6. CASE disk[s].status = "REPLAYING" /\ disk' = [disk EXCEPT ![s] = rec]
    <3>1. disk'[s] = rec /\ \A x \in Sessions : x # s => disk'[x] = disk[x]
      BY <2>1, <2>6 DEF IInv, TypeOK
    <3>2. Promise!Complete(s)
      BY <2>1, <2>2, <2>6, <3>1, Moves, KeepsLinks DEF Promise!Complete
    <3>. QED BY <2>1, <3>2, AbstractStep
  <2>. QED BY <2>4, <2>5, <2>6
<1>9. ASSUME NEW s \in Sessions, ReconcileInterrupted(s)
      PROVE  Promise!Next \/ UNCHANGED Promise!vars
  <2>. DEFINE rec == AsTriggerError(disk[s], now, "MISSION_TRIGGER_INTERRUPTED")
  <2>1. PICK o : StoreReplace(s, rec, o)
    BY <1>9 DEF ReconcileInterrupted
  <2>2. UNCHANGED runs /\ disk[s].status = "TRIGGERING"
    BY <1>9 DEF Interrupted, ReconcileInterrupted
  <2>3. rec.status = "ERROR" /\ rec.run = disk[s].run
    BY DEF IInv, TypeOK, SessionRecord, AsTriggerError
  <2>. HIDE DEF rec
  <2>4. CASE o \in Written
    <3>1. disk'[s] = rec /\ \A x \in Sessions : x # s => disk'[x] = disk[x]
      BY <2>1, <2>4 DEF StoreReplace, IInv, TypeOK
    <3>2. Promise!Fail(s)
      BY <2>2, <2>3, <3>1, Moves, KeepsLinks DEF Promise!Fail
    <3>. QED BY <3>2, AbstractStep
  <2>5. CASE o \notin Written
    BY <1>2, <2>1, <2>2, <2>5 DEF StoreReplace
  <2>. QED BY <2>4, <2>5
<1>10. ASSUME NEW q \in Requests,
              \/ TriggerRefused(q) \/ LaunchFails(q) \/ PollRefused(q)
              \/ CancelWaiting(q) \/ RunCancelled(q) \/ RunRaises(q)
              \/ \E op \in Op, s \in Sessions : Arrive(q, op, s)
              \/ \E i \in RequestedIntervals, b \in BOOLEAN : ReplayRefused(q, i, b)
       PROVE  UNCHANGED Promise!vars
  BY <1>2, <1>10 DEF TriggerRefused, LaunchFails, PollRefused, CancelWaiting,
     RunCancelled, RunRaises, Arrive, ReplayRefused, storage
<1>11. CASE \/ Crash \/ StartServer \/ StartupDone \/ Tick \/ StepBack
            \/ \E s \in Sessions : ReconcileSkip(s)
            \/ UNCHANGED vars
  BY <1>2, <1>11 DEF Crash, StartServer, StartupDone, Tick, StepBack, ReconcileSkip,
     storage, vars
<1>. QED
  BY <1>1, <1>3, <1>4, <1>5, <1>6, <1>7, <1>8, <1>9, <1>10, <1>11
     DEF Next, Startup, Environment, Handler

\* The service over its files keeps the promise of SessionLifecycle: the
\* transition matrix, one run per session, launched only while TRIGGERING.
THEOREM Implements == Spec => KeepsPromise
<1>1. IInv /\ IInv' /\ [Next]_vars => [Promise!Next]_(Promise!vars)
  BY PromiseNext
<1>. QED BY <1>1, PromiseInit, Inductive, PTL DEF Spec, KeepsPromise, Promise!Spec

----------------------------------------------------------------------------
(* While the wall clock has not been set back *)

\* The instants of a record lie in the past.
Past(rec, t) ==
  /\ rec.created <= t /\ rec.updated <= t
  /\ rec.triggered <= t /\ rec.started <= t

ReplayWasDue(rec, t) ==
  rec.status = "COMPLETED" => t >= rec.started + (rec.count - 1) * rec.interval

GoodRecord(rec, t) == Valid(rec) /\ Past(rec, t) /\ ReplayWasDue(rec, t)

ClockInv ==
  stepBacks = 0 =>
    \A s \in Sessions : disk[s] = NoSession \/ GoodRecord(disk[s], now)

LEMMA NewIsGood ==
  ASSUME NEW t \in Nat \ {0}
  PROVE  GoodRecord(NewSession(t), t)
BY DEF GoodRecord, Valid, FieldsMatchStatus, TimesOrdered, NoBaseline, NoReplay, Past,
       ReplayWasDue, NewSession, NoSession, NoTime

\* The record trigger_accident writes first, and those it may end with.
LEMMA TriggeringIsGood ==
  ASSUME NEW rec \in SessionRecord, NEW t \in Nat \ {0},
         GoodRecord(rec, t), rec.status = "READY"
  PROVE  GoodRecord(AsTriggering(rec, t), t)
BY DEF GoodRecord, Valid, FieldsMatchStatus, TimesOrdered, NoBaseline, NoReplay, Past,
       ReplayWasDue, AsTriggering, SessionRecord, NoTime

LEMMA TriggerResultIsGood ==
  ASSUME NEW rec \in SessionRecord, NEW t \in Nat \ {0},
         GoodRecord(rec, t), rec.status = "TRIGGERING"
  PROVE  /\ \A code \in ErrorCode : GoodRecord(AsTriggerError(rec, t, code), t)
         /\ \A r \in Runs : GoodRecord(AsEmptyTelemetryError(rec, t, r), t)
         /\ \A r \in Runs, n \in Nat \ {0} : GoodRecord(AsBaselineReady(rec, t, r, n), t)
<1> USE DEF GoodRecord, Valid, FieldsMatchStatus, TimesOrdered, NoBaseline, NoReplay,
            Past, ReplayWasDue, SessionRecord, NoTime
<1>1. \A code \in ErrorCode : GoodRecord(AsTriggerError(rec, t, code), t)
  BY DEF AsTriggerError, ErrorCode
<1>2. \A r \in Runs : GoodRecord(AsEmptyTelemetryError(rec, t, r), t)
  BY DEF AsEmptyTelemetryError
<1>3. \A r \in Runs, n \in Nat \ {0} : GoodRecord(AsBaselineReady(rec, t, r, n), t)
  BY NoRunAssumption DEF AsBaselineReady, HasBaseline
<1>. QED BY <1>1, <1>2, <1>3

LEMMA ReplayingIsGood ==
  ASSUME NEW rec \in SessionRecord, NEW t \in Nat \ {0}, NEW i \in Nat \ {0},
         GoodRecord(rec, t), rec.status \in {"BASELINE_READY", "COMPLETED"}
  PROVE  GoodRecord(AsReplaying(rec, t, i), t)
BY DEF GoodRecord, Valid, FieldsMatchStatus, TimesOrdered, HasBaseline, Past,
       ReplayWasDue, AsReplaying, SessionRecord, NoTime

LEMMA CompletedIsGood ==
  ASSUME NEW rec \in SessionRecord, NEW t \in Nat \ {0},
         GoodRecord(rec, t), rec.status = "REPLAYING",
         ReplayComplete(ElapsedUs(rec.started, t), rec.interval, rec.count)
  PROVE  GoodRecord(AsCompleted(rec, t), t)
<1>1. t - rec.started >= rec.interval * (rec.count - 1)
  BY DEF ReplayComplete, ElapsedUs, GoodRecord, Past, SessionRecord
<1>2. rec.interval * (rec.count - 1) = (rec.count - 1) * rec.interval
  BY DEF SessionRecord
<1>3. t >= rec.started + (rec.count - 1) * rec.interval
  BY <1>1, <1>2 DEF SessionRecord
<1>. QED BY <1>3 DEF GoodRecord, Valid, FieldsMatchStatus, TimesOrdered, HasBaseline,
     Past, ReplayWasDue, AsCompleted, SessionRecord, NoTime

\* A step that writes at most one record, a good one, under a still clock.
LEMMA GoodWrite ==
  ASSUME ClockInv, TypeOK, UNCHANGED <<now, stepBacks>>,
         NEW s \in Sessions, NEW rec, GoodRecord(rec, now),
         \/ UNCHANGED disk
         \/ disk' = [disk EXCEPT ![s] = rec]
         \/ \E o : StoreReplace(s, rec, o)
  PROVE  ClockInv'
BY DEF ClockInv, StoreReplace, TypeOK

\* Only a step of the host's clock is counted as one.
LEMMA ClockCounted ==
  ASSUME [Next]_vars
  PROVE  UNCHANGED stepBacks \/ StepBack
<1>1. ASSUME NEW q \in Requests, Handler(q) PROVE UNCHANGED stepBacks
  BY <1>1 DEF Handler, TriggerRefused, TriggerBegin, LaunchFails, RunCompletes, RunFails,
     TriggerEnd, PollRefused, Poll, LaunchRun, ReplayRefused, StartReplay, budget
<1>2. CASE Startup
  BY <1>2 DEF Startup, StartServer, StartupDone, ReconcileSkip, ReconcileInterrupted,
     budget
<1>3. CASE Environment
  BY <1>3 DEF Environment, Crash, Tick, CreateSession, CancelWaiting, RunCancelled,
     RunRaises, Arrive, budget
<1>4. CASE UNCHANGED vars
  BY <1>4 DEF vars
<1>. QED BY <1>1, <1>2, <1>3, <1>4 DEF Next

LEMMA ClockNext == IInv /\ ClockInv /\ [Next]_vars => ClockInv'
<1> SUFFICES ASSUME IInv, ClockInv, [Next]_vars, stepBacks = 0 PROVE ClockInv'
  <2>1. ASSUME StepBack, TypeOK, stepBacks # 0 PROVE stepBacks' # 0
    BY <2>1 DEF StepBack, TypeOK
  <2>. QED BY <2>1, ClockCounted DEF ClockInv, IInv
<1>0. TypeOK /\ now \in Nat \ {0} /\ disk \in [Sessions -> SessionRecord]
  BY DEF IInv, TypeOK
<1> USE LifecycleAssumption
<1>1. ASSUME NEW s \in Sessions, CreateSession(s)
      PROVE  ClockInv'
  BY <1>0, <1>1, NewIsGood, GoodWrite DEF CreateSession, budget
<1>2. ASSUME NEW q \in Requests, TriggerBegin(q)
      PROVE  ClockInv'
  <2>1. PICK s \in Sessions : s = req[q].session
    BY <1>2 DEF TriggerBegin, CanEnter, IInv, RequestsNamed
  <2>2. disk[s].status = "READY" /\ GoodRecord(disk[s], now)
    BY <1>2, <2>1 DEF TriggerBegin, ClockInv, NoSession, Absent
  <2>3. GoodRecord(AsTriggering(disk[s], now), now)
    BY <1>0, <2>2, TriggeringIsGood
  <2>4. \E o : StoreReplace(s, AsTriggering(disk[s], now), o)
    BY <1>2, <2>1 DEF TriggerBegin
  <2>. QED BY <1>0, <1>2, <2>3, <2>4, GoodWrite DEF TriggerBegin
<1>3. ASSUME NEW q \in Requests, TriggerEnd(q)
      PROVE  ClockInv'
  <2>1. PICK s \in Sessions : s = req[q].session
    BY <1>3 DEF TriggerEnd, IInv, RequestsNamed
  <2>2. disk[s] = req[q].snap /\ disk[s].status = "TRIGGERING"
    BY <1>3, <2>1 DEF TriggerEnd, IInv, TriggerOwnsSession
  <2>3. GoodRecord(req[q].snap, now) /\ req[q].snap \in SessionRecord
    BY <1>0, <2>2 DEF ClockInv, NoSession, Absent
  <2>4. GoodRecord(TriggerResult(q), now)
    <3>1. CASE req[q].outcome = "completed"
      <4>1. req[q].run \in Runs
        BY <1>3, <3>1 DEF TriggerEnd, IInv, TriggerProgress
      <4>2. runs[req[q].run].samples \in Nat
        BY <1>0, <4>1 DEF TypeOK, RunRecord
      <4>3. CASE runs[req[q].run].samples > 0
        <5>1. TriggerResult(q) = AsBaselineReady(req[q].snap, now, req[q].run,
                                                 runs[req[q].run].samples)
          BY <3>1, <4>3 DEF TriggerResult
        <5>. QED BY <1>0, <2>2, <2>3, <4>1, <4>2, <4>3, <5>1, TriggerResultIsGood
      <4>4. CASE runs[req[q].run].samples = 0
        <5>1. TriggerResult(q) = AsEmptyTelemetryError(req[q].snap, now, req[q].run)
          BY <3>1, <4>4 DEF TriggerResult
        <5>. QED BY <1>0, <2>2, <2>3, <4>1, <5>1, TriggerResultIsGood
      <4>. QED BY <4>2, <4>3, <4>4
    <3>2. CASE req[q].outcome # "completed"
      <4>1. \E code \in ErrorCode :
              TriggerResult(q) = AsTriggerError(req[q].snap, now, code)
        BY <3>2 DEF TriggerResult, ErrorCode
      <4>. QED BY <1>0, <2>2, <2>3, <4>1, TriggerResultIsGood
    <3>. QED BY <3>1, <3>2
  <2>5. \E o : StoreReplace(s, TriggerResult(q), o)
    BY <1>3, <2>1 DEF TriggerEnd
  <2>. QED BY <1>0, <1>3, <2>4, <2>5, GoodWrite DEF TriggerEnd
<1>4. ASSUME NEW q \in Requests, NEW i \in RequestedIntervals, NEW b \in BOOLEAN,
             StartReplay(q, i, b)
      PROVE  ClockInv'
  <2>1. PICK s \in Sessions : s = req[q].session
    BY <1>4 DEF StartReplay, CanEnter, IInv, RequestsNamed
  <2>2. /\ disk[s].status \in {"BASELINE_READY", "COMPLETED"}
        /\ GoodRecord(disk[s], now) /\ i \in Nat \ {0}
    <3>1. ReplayAllowed(s, i, b)
      BY <1>4, <2>1 DEF StartReplay
    <3>2. disk[s].status \in {"BASELINE_READY", "COMPLETED"} /\ MinInterval <= i
      BY <3>1 DEF ReplayAllowed
    <3>3. i \in Nat /\ MinInterval \in Nat \ {0}
      OBVIOUS
    <3>. QED BY <3>2, <3>3 DEF ClockInv, NoSession, Absent
  <2>3. GoodRecord(AsReplaying(disk[s], now, i), now)
    BY <1>0, <2>2, ReplayingIsGood
  <2>4. \E o : StoreReplace(s, AsReplaying(disk[s], now, i), o)
    BY <1>4, <2>1 DEF StartReplay
  <2>. QED BY <1>0, <1>4, <2>3, <2>4, GoodWrite DEF StartReplay
<1>5. ASSUME NEW q \in Requests, Poll(q)
      PROVE  ClockInv'
  <2>1. PICK s \in Sessions : s = req[q].session
    BY <1>5 DEF Poll, CanEnter, IInv, RequestsNamed
  <2>2. CASE disk[s].status = "REPLAYING" /\ Due(s)
    <3>1. GoodRecord(disk[s], now)
      BY <2>2 DEF ClockInv, NoSession, Absent
    <3>2. GoodRecord(AsCompleted(disk[s], now), now)
      BY <1>0, <2>2, <3>1, CompletedIsGood DEF Due, Elapsed
    <3>3. \E o : StoreReplace(s, AsCompleted(disk[s], now), o)
      BY <1>5, <2>1, <2>2 DEF Poll
    <3>. QED BY <1>0, <1>5, <3>2, <3>3, GoodWrite DEF Poll
  <2>3. CASE ~ (disk[s].status = "REPLAYING" /\ Due(s))
    BY <1>5, <2>1, <2>3 DEF Poll, ClockInv
  <2>. QED BY <2>2, <2>3
<1>6. ASSUME NEW s \in Sessions, ReconcileInterrupted(s)
      PROVE  ClockInv'
  <2>1. disk[s].status = "TRIGGERING" /\ GoodRecord(disk[s], now)
    BY <1>6 DEF Interrupted, ReconcileInterrupted, ClockInv, NoSession, Absent
  <2>2. GoodRecord(AsTriggerError(disk[s], now, "MISSION_TRIGGER_INTERRUPTED"), now)
    BY <1>0, <2>1, TriggerResultIsGood DEF ErrorCode
  <2>. QED BY <1>0, <1>6, <2>2, GoodWrite DEF ReconcileInterrupted
<1>7. CASE Tick
  <2>1. now' = now + 1 /\ UNCHANGED <<disk, stepBacks>>
    BY <1>7 DEF Tick, storage, budget
  <2>2. \A rec \in SessionRecord : GoodRecord(rec, now) => GoodRecord(rec, now + 1)
    <3>1. \A rec \in SessionRecord : Past(rec, now) => Past(rec, now + 1)
      BY <1>0 DEF Past, SessionRecord
    <3>2. \A rec \in SessionRecord : ReplayWasDue(rec, now) => ReplayWasDue(rec, now + 1)
      <4>1. SUFFICES ASSUME NEW rec \in SessionRecord, rec.status = "COMPLETED",
                            now >= rec.started + (rec.count - 1) * rec.interval
                     PROVE  now + 1 >= rec.started + (rec.count - 1) * rec.interval
        BY DEF ReplayWasDue
      <4>2. rec.started + (rec.count - 1) * rec.interval \in Int
        BY DEF SessionRecord
      <4>. QED BY <1>0, <4>1, <4>2
    <3>. QED BY <3>1, <3>2 DEF GoodRecord
  <2>. QED BY <1>0, <2>1, <2>2 DEF ClockInv
<1>8. CASE StepBack
  BY <1>8 DEF StepBack, ClockInv
<1>9. ASSUME UNCHANGED <<disk, now, stepBacks>>
      PROVE  ClockInv'
  BY <1>9 DEF ClockInv
<1>10. ASSUME NEW q \in Requests,
              \/ TriggerRefused(q) \/ LaunchFails(q) \/ PollRefused(q)
              \/ CancelWaiting(q) \/ RunCancelled(q) \/ RunRaises(q)
              \/ RunCompletes(q) \/ RunFails(q)
              \/ \E r \in Runs : LaunchRun(q, r)
              \/ \E op \in Op, s \in Sessions : Arrive(q, op, s)
              \/ \E i \in RequestedIntervals, b \in BOOLEAN : ReplayRefused(q, i, b)
       PROVE  ClockInv'
  BY <1>9, <1>10 DEF TriggerRefused, LaunchFails, PollRefused, CancelWaiting,
     RunCancelled, RunRaises, RunCompletes, RunFails, LaunchRun, Arrive,
     ReplayRefused, storage, budget
<1>11. CASE \/ Crash \/ StartServer \/ StartupDone \/ UNCHANGED vars
            \/ \E s \in Sessions : ReconcileSkip(s)
  BY <1>9, <1>11 DEF Crash, StartServer, StartupDone, ReconcileSkip, storage, budget,
     vars
<1>. QED
  BY <1>1, <1>2, <1>3, <1>4, <1>5, <1>6, <1>7, <1>8, <1>10, <1>11
     DEF Next, Startup, Environment, Handler

LEMMA ClockInductive == Spec => []ClockInv
<1>1. Init => ClockInv
  BY DEF Init, ClockInv
<1>2. IInv /\ ClockInv /\ [Next]_vars => ClockInv'
  BY ClockNext
<1>. QED BY <1>1, <1>2, Inductive, PTL DEF Spec

\* While the wall clock is never set back, no sequence of writes, faults and
\* crashes leaves a session.json that MissionSession refuses to load.
THEOREM ReadableUnderMonotonicClock == Spec => []SessionsReadable
<1>1. ClockInv => SessionsReadable
  BY DEF ClockInv, SessionsReadable, RecordsReadable, Readable, GoodRecord
<1>. QED BY <1>1, ClockInductive, PTL

\* While the wall clock is never set back, COMPLETED is persisted only once the
\* last sample of the replay was due.
THEOREM CompletedOnlyWhenDue == Spec => []CompletedIsDue
<1>1. ClockInv => CompletedIsDue
  BY DEF ClockInv, CompletedIsDue, GoodRecord, ReplayWasDue, NoSession, Absent
<1>. QED BY <1>1, ClockInductive, PTL

----------------------------------------------------------------------------
(* What readers have been served *)

\* Before a replay nobody was served; then nobody was served a sample that is
\* not due yet.
ReaderInv ==
  stepBacks = 0 =>
    \A s \in Sessions :
      shown[s] # 0 => /\ disk[s].status \in {"REPLAYING", "COMPLETED"}
                      /\ shown[s] <= CurrentIndex(s) + 1

RestartOnly ==
  \A s \in Sessions :
    shown'[s] < shown[s] => disk[s].status = "COMPLETED" /\ disk'[s].status = "REPLAYING"

\* The index of a replay: in range, and carried forward by the clock.
LEMMA CurrentIndexForward ==
  ASSUME IInv, ClockInv, stepBacks = 0, NEW s \in Sessions,
         disk[s].status \in {"REPLAYING", "COMPLETED"}
  PROVE  /\ CurrentIndex(s) \in 0 .. disk[s].count - 1
         /\ now' \in Nat /\ now <= now' /\ disk'[s] = disk[s] =>
              CurrentIndex(s)' \in Int /\ CurrentIndex(s) <= CurrentIndex(s)'
<1>1. /\ disk[s] \in SessionRecord /\ now \in Nat
      /\ GoodRecord(disk[s], now)
  BY DEF IInv, TypeOK, ClockInv, NoSession, Absent
<1>2. disk[s].count \in Nat \ {0} /\ disk[s].interval \in Nat \ {0}
      /\ disk[s].started \in Nat /\ disk[s].started <= now
  BY <1>1 DEF GoodRecord, Valid, FieldsMatchStatus, HasBaseline, Past, SessionRecord
<1>3. Elapsed(s) \in Nat
  BY <1>1, <1>2 DEF Elapsed, ElapsedUs
<1>4. CurrentIndex(s) \in 0 .. disk[s].count - 1
  <2>1. SampleIndex(Elapsed(s), disk[s].interval, disk[s].count) \in 0 .. disk[s].count - 1
    BY <1>2, <1>3, IndexInRange
  <2>. QED BY <1>2, <2>1 DEF CurrentIndex
<1>5. ASSUME now' \in Nat, now <= now', disk'[s] = disk[s]
      PROVE  CurrentIndex(s)' \in Int /\ CurrentIndex(s) <= CurrentIndex(s)'
  <2>1. Elapsed(s)' \in Nat /\ Elapsed(s) <= Elapsed(s)'
    BY <1>1, <1>2, <1>5 DEF Elapsed, ElapsedUs
  <2>2. SampleIndex(Elapsed(s), disk[s].interval, disk[s].count)
          <= SampleIndex(Elapsed(s)', disk[s].interval, disk[s].count)
    BY <1>2, <1>3, <2>1, ClockMonotone
  <2>3. SampleIndex(Elapsed(s)', disk[s].interval, disk[s].count) \in Int
    BY <1>2, <2>1, IndexInRange
  <2>. QED BY <1>2, <1>4, <1>5, <2>2, <2>3 DEF CurrentIndex
<1>. QED BY <1>4, <1>5

\* A step of a still clock that serves no reader and rewrites no replay.
LEMMA UnservedStep ==
  ASSUME IInv, ClockInv, ReaderInv, stepBacks = 0, UNCHANGED <<stepBacks, shown>>,
         now' \in Nat, now <= now',
         \A s \in Sessions :
           disk[s].status \in {"REPLAYING", "COMPLETED"} => disk'[s] = disk[s]
  PROVE  ReaderInv' /\ RestartOnly
<1>1. \A s \in Sessions : shown[s] \in Nat
  BY DEF IInv, TypeOK
<1>2. RestartOnly
  BY <1>1 DEF RestartOnly
<1>3. ASSUME NEW s \in Sessions, shown[s] # 0
      PROVE  /\ disk'[s].status \in {"REPLAYING", "COMPLETED"}
             /\ shown[s] <= CurrentIndex(s)' + 1
  <2>1. /\ disk[s].status \in {"REPLAYING", "COMPLETED"}
        /\ shown[s] <= CurrentIndex(s) + 1
    BY <1>3 DEF ReaderInv
  <2>2. CurrentIndex(s) \in Int /\ CurrentIndex(s)' \in Int
        /\ CurrentIndex(s) <= CurrentIndex(s)'
    BY <2>1, CurrentIndexForward, <1>1 DEF IInv, TypeOK
  <2>. QED BY <1>1, <2>1, <2>2
<1>. QED BY <1>2, <1>3 DEF ReaderInv

LEMMA ReaderNext ==
  ASSUME IInv, ClockInv, ReaderInv, [Next]_vars, stepBacks' = 0
  PROVE  ReaderInv' /\ RestartOnly
<1>0. /\ stepBacks = 0 /\ UNCHANGED stepBacks /\ ~ StepBack
      /\ now \in Nat /\ \A s \in Sessions : shown[s] \in Nat
      /\ disk \in [Sessions -> SessionRecord]
      /\ shown \in [Sessions -> Nat]
  <2>1. TypeOK
    BY DEF IInv
  <2>2. StepBack => stepBacks' # 0
    BY <2>1 DEF StepBack, TypeOK
  <2>. QED BY <2>1, <2>2, ClockCounted DEF TypeOK
<1>1. ASSUME NEW s \in Sessions, CreateSession(s)
      PROVE  ReaderInv' /\ RestartOnly
  <2>1. /\ UNCHANGED <<now, shown>> /\ disk[s].status = Absent
        /\ \A x \in Sessions : x # s => disk'[x] = disk[x]
    BY <1>0, <1>1 DEF CreateSession, seen, NoSession
  <2>. QED BY <1>0, <2>1, UnservedStep DEF Absent
<1>2. ASSUME NEW q \in Requests, TriggerBegin(q)
      PROVE  ReaderInv' /\ RestartOnly
  <2>1. /\ UNCHANGED <<now, shown>> /\ disk[req[q].session].status = "READY"
        /\ \A x \in Sessions : x # req[q].session => disk'[x] = disk[x]
    BY <1>0, <1>2 DEF TriggerBegin, StoreReplace, seen
  <2>. QED BY <1>0, <2>1, UnservedStep
<1>3. ASSUME NEW q \in Requests, TriggerEnd(q)
      PROVE  ReaderInv' /\ RestartOnly
  <2>1. disk[req[q].session].status = "TRIGGERING"
    BY <1>3 DEF TriggerEnd, IInv, TriggerOwnsSession
  <2>2. /\ UNCHANGED <<now, shown>>
        /\ \A x \in Sessions : x # req[q].session => disk'[x] = disk[x]
    BY <1>0, <1>3 DEF TriggerEnd, StoreReplace
  <2>. QED BY <1>0, <2>1, <2>2, UnservedStep
<1>4. ASSUME NEW s \in Sessions, ReconcileInterrupted(s)
      PROVE  ReaderInv' /\ RestartOnly
  <2>1. /\ UNCHANGED <<now, shown>> /\ disk[s].status = "TRIGGERING"
        /\ \A x \in Sessions : x # s => disk'[x] = disk[x]
    BY <1>0, <1>4 DEF ReconcileInterrupted, Interrupted, StoreReplace, seen
  <2>. QED BY <1>0, <2>1, UnservedStep
<1>5. ASSUME NEW q \in Requests, NEW i \in RequestedIntervals, NEW b \in BOOLEAN,
             StartReplay(q, i, b)
      PROVE  ReaderInv' /\ RestartOnly
  <2>1. PICK s \in Sessions : s = req[q].session
    BY <1>5 DEF StartReplay, CanEnter, IInv, RequestsNamed
  <2>. DEFINE rec == AsReplaying(disk[s], now, i)
  <2>2. PICK o : /\ StoreReplace(s, rec, o)
                 /\ shown' = IF o \in Written THEN [shown EXCEPT ![s] = 0] ELSE shown
    BY <1>5, <2>1 DEF StartReplay
  <2>3. UNCHANGED now /\ disk[s].status \in {"BASELINE_READY", "COMPLETED"}
    BY <1>5, <2>1 DEF StartReplay, ReplayAllowed
  <2>4. rec.status = "REPLAYING"
    BY <1>0 DEF AsReplaying, SessionRecord
  <2>. HIDE DEF rec
  <2>5. CASE o \in Written
    <3>1. /\ disk'[s] = rec /\ shown'[s] = 0
          /\ \A x \in Sessions : x # s => disk'[x] = disk[x] /\ shown'[x] = shown[x]
      BY <1>0, <2>2, <2>5 DEF StoreReplace
    <3>2. \A x \in Sessions : x # s => CurrentIndex(x)' = CurrentIndex(x)
      BY <2>3, <3>1 DEF CurrentIndex, Elapsed
    <3>3. ReaderInv'
      BY <1>0, <3>1, <3>2 DEF ReaderInv
    <3>4. disk[s].status = "BASELINE_READY" => shown[s] = 0
      BY <1>0 DEF ReaderInv
    <3>. QED BY <1>0, <2>3, <2>4, <3>1, <3>3, <3>4 DEF RestartOnly
  <2>6. CASE o \notin Written
    BY <1>0, <2>2, <2>3, <2>6, UnservedStep DEF StoreReplace
  <2>. QED BY <2>5, <2>6
<1>6. ASSUME NEW q \in Requests, Poll(q)
      PROVE  ReaderInv' /\ RestartOnly
  <2>1. PICK s \in Sessions : s = req[q].session
    BY <1>6 DEF Poll, CanEnter, IInv, RequestsNamed
  <2>2. UNCHANGED now /\ disk[s].status \in {"REPLAYING", "COMPLETED"}
    BY <1>6, <2>1 DEF Poll, PollAllowed
  <2>3. CurrentIndex(s) \in 0 .. disk[s].count - 1
    BY <1>0, <2>2, CurrentIndexForward
  <2>4. disk[s].count \in Nat
    BY <1>0 DEF SessionRecord
  <2>5. shown[s] <= CurrentIndex(s) + 1
    BY <1>0, <2>2, <2>3 DEF ReaderInv
  \* What is written keeps the index in place: COMPLETED stands for the last.
  <2>6. /\ \A x \in Sessions : x # s => disk'[x] = disk[x] /\ shown'[x] = shown[x]
        /\ disk'[s].status \in {"REPLAYING", "COMPLETED"}
        /\ CurrentIndex(s)' \in Int /\ CurrentIndex(s) <= CurrentIndex(s)'
        /\ shown'[s] \in {shown[s], CurrentIndex(s) + 1}
    <3>. DEFINE rec == AsCompleted(disk[s], now)
    <3>1. rec.status = "COMPLETED" /\ rec.count = disk[s].count
      BY <1>0 DEF AsCompleted, SessionRecord
    <3>2. \/ UNCHANGED disk
          \/ disk' = [disk EXCEPT ![s] = rec]
      BY <1>6, <2>1 DEF Poll, StoreReplace
    <3>3. \/ UNCHANGED shown
          \/ shown' = [shown EXCEPT ![s] = CurrentIndex(s) + 1]
      BY <1>6, <2>1 DEF Poll
    <3>. HIDE DEF rec
    <3>4. \A x \in Sessions : x # s => disk'[x] = disk[x] /\ shown'[x] = shown[x]
      BY <1>0, <3>2, <3>3
    <3>5. shown'[s] \in {shown[s], CurrentIndex(s) + 1}
      BY <1>0, <3>3
    <3>6. CASE disk'[s] = disk[s]
      BY <1>0, <2>2, <3>4, <3>5, <3>6, CurrentIndexForward
    <3>7. CASE disk'[s] = rec
      <4>1. CurrentIndex(s)' = disk[s].count - 1
        BY <3>1, <3>7 DEF CurrentIndex
      <4>. QED BY <2>3, <2>4, <3>1, <3>4, <3>5, <3>7, <4>1
    <3>. QED BY <1>0, <3>2, <3>6, <3>7
  <2>7. \A x \in Sessions : x # s => CurrentIndex(x)' = CurrentIndex(x)
    BY <2>2, <2>6 DEF CurrentIndex, Elapsed
  <2>8. shown'[s] <= CurrentIndex(s)' + 1 /\ shown[s] <= shown'[s]
    BY <1>0, <2>3, <2>5, <2>6
  <2>9. ReaderInv'
    BY <1>0, <2>6, <2>7, <2>8 DEF ReaderInv
  <2>10. RestartOnly
    BY <1>0, <2>3, <2>6, <2>8 DEF RestartOnly
  <2>. QED BY <2>9, <2>10
<1>7. CASE Tick
  BY <1>0, <1>7, UnservedStep DEF Tick, storage, seen
<1>8. ASSUME UNCHANGED <<disk, now, shown>>
      PROVE  ReaderInv' /\ RestartOnly
  BY <1>0, <1>8, UnservedStep
<1>9. ASSUME NEW q \in Requests,
             \/ TriggerRefused(q) \/ LaunchFails(q) \/ PollRefused(q)
             \/ CancelWaiting(q) \/ RunCancelled(q) \/ RunRaises(q)
             \/ RunCompletes(q) \/ RunFails(q)
             \/ \E r \in Runs : LaunchRun(q, r)
             \/ \E op \in Op, s \in Sessions : Arrive(q, op, s)
             \/ \E i \in RequestedIntervals, b \in BOOLEAN : ReplayRefused(q, i, b)
      PROVE  ReaderInv' /\ RestartOnly
  BY <1>8, <1>9 DEF TriggerRefused, LaunchFails, PollRefused, CancelWaiting,
     RunCancelled, RunRaises, RunCompletes, RunFails, LaunchRun, Arrive,
     ReplayRefused, storage, seen
<1>10. CASE \/ Crash \/ StartServer \/ StartupDone \/ UNCHANGED vars
            \/ \E s \in Sessions : ReconcileSkip(s)
  BY <1>8, <1>10 DEF Crash, StartServer, StartupDone, ReconcileSkip, storage, seen, vars
<1>. QED
  BY <1>0, <1>1, <1>2, <1>3, <1>4, <1>5, <1>6, <1>7, <1>9, <1>10
     DEF Next, Startup, Environment, Handler

\* While the wall clock is never set back, polls, faults, crashes and two
\* readers at once never take a reader back: only a replay restart does.
THEOREM ReadersGoForward == Spec => ReplayNeverGoesBack
<1>1. Init => ReaderInv
  BY DEF Init, ReaderInv
<1>2. stepBacks' # 0 => ReaderInv'
  BY DEF ReaderInv
<1>3. /\ IInv /\ ClockInv /\ ReaderInv /\ [Next]_vars => ReaderInv'
      /\ IInv /\ ClockInv /\ ReaderInv /\ [Next]_vars =>
           [stepBacks' = 0 =>
              \A s \in Sessions :
                shown'[s] < shown[s] =>
                  disk[s].status = "COMPLETED" /\ disk'[s].status = "REPLAYING"]_vars
  BY <1>2, ReaderNext DEF RestartOnly
<1>. QED BY <1>1, <1>3, Inductive, ClockInductive, PTL DEF Spec, ReplayNeverGoesBack
=============================================================================
