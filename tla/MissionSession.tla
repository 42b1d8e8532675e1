--------------------------- MODULE MissionSession ---------------------------
(***************************************************************************)
(* The persisted MissionSession record (app/schemas/mission.py) and the    *)
(* copies of it the lifecycle and replay services write.  A record is what *)
(* session.json holds; None is NoTime, NoRun, 0 or "none" by field.  The   *)
(* baseline outcome is written and cleared exactly where the sample count  *)
(* is (the empty-telemetry error apart), so `count` stands for both.       *)
(***************************************************************************)
EXTENDS Naturals

CONSTANTS Runs,     \* run ids the run store can allocate
          NoRun     \* baseline_run_id is None

ASSUME NoRunAssumption == NoRun \notin Runs

NoTime == 0

MissionSessionStatus ==
  {"READY", "TRIGGERING", "BASELINE_READY", "REPLAYING", "COMPLETED", "ERROR"}

\* "infrastructure" is the code of whichever AresBackendError was raised.
ErrorCode == {"MISSION_TRIGGER_CANCELLED", "MISSION_TRIGGER_INTERRUPTED",
              "BASELINE_TELEMETRY_EMPTY", "infrastructure"}

\* A session directory without a session.json: read_session finds nothing.
Absent == "ABSENT"

SessionRecord ==
  [status    : MissionSessionStatus \cup {Absent},
   created   : Nat,
   updated   : Nat,
   triggered : Nat,
   run       : Runs \cup {NoRun},
   count     : Nat,
   started   : Nat,
   interval  : Nat,
   error     : ErrorCode \cup {"none"}]

NoSession ==
  [status |-> Absent, created |-> NoTime, updated |-> NoTime,
   triggered |-> NoTime, run |-> NoRun, count |-> 0, started |-> NoTime,
   interval |-> 0, error |-> "none"]

HasBaseline(rec) ==
  rec.triggered # NoTime /\ rec.run # NoRun /\ rec.count > 0

NoBaseline(rec) == rec.run = NoRun /\ rec.count = 0

NoReplay(rec) == rec.started = NoTime /\ rec.interval = 0

TimesOrdered(rec) ==
  /\ rec.updated >= rec.created
  /\ rec.triggered # NoTime => rec.triggered >= rec.created
  /\ rec.started # NoTime =>
       rec.triggered # NoTime /\ rec.started >= rec.triggered

FieldsMatchStatus(rec) ==
  CASE rec.status = "READY" ->
         rec.triggered = NoTime /\ NoBaseline(rec) /\ NoReplay(rec)
           /\ rec.error = "none"
    [] rec.status = "TRIGGERING" ->
         rec.triggered # NoTime /\ NoBaseline(rec) /\ NoReplay(rec)
           /\ rec.error = "none"
    [] rec.status = "BASELINE_READY" ->
         HasBaseline(rec) /\ NoReplay(rec) /\ rec.error = "none"
    [] rec.status \in {"REPLAYING", "COMPLETED"} ->
         HasBaseline(rec) /\ rec.started # NoTime /\ rec.interval > 0
           /\ rec.error = "none"
    [] rec.status = "ERROR" -> rec.error # "none"
    [] OTHER -> FALSE

\* MissionSession.model_validate: what read_session accepts.
Valid(rec) == FieldsMatchStatus(rec) /\ TimesOrdered(rec)

----------------------------------------------------------------------------
\* The records the services write.  model_copy(update=...) does not validate.
\* A definition followed by one that differs in a detail is a mutant of it: the
\* form a slip in the code would give it, for which a property must fail.

NewSession(now) ==
  [NoSession EXCEPT !.status = "READY", !.created = now, !.updated = now]

AsTriggering(rec, now) ==
  [rec EXCEPT !.status = "TRIGGERING", !.triggered = now, !.updated = now,
              !.error = "none"]

AsBaselineReadyLastIndex(rec, now, run, count) ==
  [rec EXCEPT !.status = "BASELINE_READY", !.updated = now, !.run = run,
              !.count = count - 1, !.error = "none"]

AsBaselineReady(rec, now, run, count) ==
  [rec EXCEPT !.status = "BASELINE_READY", !.updated = now, !.run = run,
              !.count = count, !.error = "none"]

AsTriggerErrorUnmapped(rec, now, code) ==
  [rec EXCEPT !.status = "ERROR", !.updated = now, !.error = "OSError"]

AsTriggerErrorRetryable(rec, now, code) ==
  [rec EXCEPT !.status = "READY", !.updated = now, !.triggered = NoTime]

AsTriggerError(rec, now, code) ==
  [rec EXCEPT !.status = "ERROR", !.updated = now, !.error = code]

AsEmptyTelemetryError(rec, now, run) ==
  [rec EXCEPT !.status = "ERROR", !.updated = now, !.run = run, !.count = 0,
              !.error = "BASELINE_TELEMETRY_EMPTY"]

AsReplaying(rec, now, interval) ==
  [rec EXCEPT !.status = "REPLAYING", !.started = now, !.interval = interval,
              !.updated = now, !.error = "none"]

AsCompleted(rec, now) ==
  [rec EXCEPT !.status = "COMPLETED", !.updated = now, !.error = "none"]
=============================================================================
