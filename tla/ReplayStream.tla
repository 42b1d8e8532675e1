---------------------------- MODULE ReplayStream ----------------------------
(***************************************************************************)
(* The event streams of one replay: stream_replay (api/routes/missions.py),*)
(* ReplayStreamLimiter, StreamLease and generate_replay_stream             *)
(* (api/sse.py) over TelemetryReplayService.get_due_events.                *)
(*                                                                         *)
(* The session is what MissionLifecycle leaves of it while it replays:     *)
(* REPLAYING or COMPLETED since `started`, restarted only when COMPLETED.  *)
(* A batch is computed in one step and sent one event at a time: between   *)
(* two events the client may leave, the clock runs and the replay may be   *)
(* restarted.  The clock counts quanta of QuantumUs microseconds.          *)
(***************************************************************************)
EXTENDS ReplayClock, FiniteSets

CONSTANTS Clients,
          Capacity,            \* max_replay_streams
          SampleCount,         \* N: ids 0..N-1 are samples, N is `complete`
          IntervalMs, HeartbeatMs, QuantumUs,
          MaxTime, MaxRestarts, MaxFaults, MaxCrashes, MaxLeaves   \* bounds

ASSUME StreamAssumption ==
  /\ Capacity \in Nat \ {0} /\ SampleCount \in Nat \ {0}
  /\ IntervalMs \in Nat \ {0} /\ HeartbeatMs \in Nat \ {0}
  /\ QuantumUs \in Nat \ {0}
  /\ MaxTime \in Nat /\ MaxRestarts \in Nat /\ MaxFaults \in Nat
  /\ MaxCrashes \in Nat /\ MaxLeaves \in Nat

VARIABLES
  session,    \* [status, started, gen]: gen counts the restarts
  now,
  active,     \* ReplayStreamLimiter._active
  conn,       \* [Clients -> Connection]: the server's side of a stream
  last,       \* [Clients -> the last event id the client received, or -1]
  gone,       \* [Clients -> has the client closed its connection?]
  faults, crashes, leaves

vars   == <<session, now, active, conn, last, gone, faults, crashes, leaves>>
budget == <<faults, crashes, leaves>>

EventId == 0 .. SampleCount          \* SampleCount is the `complete` event
NoEvent == -1

\* queue: the events of the batch still to be sent; wake: end of the sleep.
Connection ==
  [pc       : {"closed", "accepted", "responding", "sending", "sleeping",
               "abandoned"},
   lastId   : {NoEvent} \cup EventId \cup {SampleCount + 1},
   queue    : SUBSET EventId,
   terminal : BOOLEAN,
   wake     : Nat,
   gen      : Nat]

Closed == [pc |-> "closed", lastId |-> NoEvent, queue |-> {}, terminal |-> FALSE,
           wake |-> 0, gen |-> 0]

TypeOK ==
  /\ session \in [status : {"REPLAYING", "COMPLETED"}, started : Nat, gen : Nat]
  /\ now \in Nat /\ active \in Nat
  /\ conn \in [Clients -> Connection]
  /\ last \in [Clients -> {NoEvent} \cup EventId]
  /\ gone \in [Clients -> BOOLEAN]
  /\ faults \in Nat /\ crashes \in Nat /\ leaves \in Nat

Init ==
  /\ session = [status |-> "REPLAYING", started |-> 0, gen |-> 0]
  /\ now = 0
  /\ active = 0
  /\ conn = [c \in Clients |-> Closed]
  /\ last = [c \in Clients |-> NoEvent]
  /\ gone = [c \in Clients |-> FALSE]
  /\ faults = 0 /\ crashes = 0 /\ leaves = 0

----------------------------------------------------------------------------
(* get_due_events *)

Position ==
  IF session.status = "COMPLETED"
  THEN [index |-> SampleCount - 1, complete |-> TRUE, delayMs |-> 0]
  ELSE PositionAt(session.started * QuantumUs, now * QuantumUs, IntervalMs, SampleCount)

\* _build_event_batch: the due samples after lastId, and `complete` at the end.
DueEventsAfterIndex(lastId, pos) ==
  IF lastId >= SampleCount THEN {}
  ELSE ((lastId + 1) .. (pos.index + 1)) \cap EventId

DueEventsSamplesOnly(lastId, pos) == (lastId + 1) .. pos.index

DueEventsLatestOnly(lastId, pos) ==
  IF lastId >= SampleCount THEN {}
  ELSE (IF lastId < pos.index THEN pos.index ELSE lastId + 1)
         .. (IF pos.complete THEN SampleCount ELSE pos.index)

DueEvents(lastId, pos) ==
  IF lastId >= SampleCount THEN {}
  ELSE (lastId + 1) .. (IF pos.complete THEN SampleCount ELSE pos.index)

\* The whole ms the generator sleeps when nothing is due, cut at a heartbeat.
SleepMsUntilSample(pos) == pos.delayMs

SleepMs(pos) == IF pos.delayMs < HeartbeatMs THEN pos.delayMs ELSE HeartbeatMs

\* The connection once the batch for its lastId is computed.  With events to
\* send there is no sleep; without, the sleep is counted from here.
WithBatch(k, pos, pc) ==
  LET due == DueEvents(k.lastId, pos)
  IN  [k EXCEPT !.pc = pc, !.queue = due,
                !.terminal = pos.complete \/ k.lastId >= SampleCount,
                !.wake = IF due # {} THEN now
                         ELSE now + (SleepMs(pos) * UsPerMs) \div QuantumUs,
                !.gen = session.gen]

\* The read that finds the replay over persists COMPLETED before it answers.
PersistLate == UNCHANGED session

PersistCompleted ==
  session' = IF Position.complete THEN [session EXCEPT !.status = "COMPLETED"]
             ELSE session

----------------------------------------------------------------------------
(* The limiter *)

\* The lease is released, once, and the connection is over.
CloseKeepingSlot(c) ==
  /\ conn' = [conn EXCEPT ![c] = Closed]
  /\ UNCHANGED active

CloseTwice(c) ==
  /\ conn' = [conn EXCEPT ![c] = Closed]
  /\ active' = active - 2

Close(c) ==
  /\ conn' = [conn EXCEPT ![c] = Closed]
  /\ active' = active - 1

\* try_acquire.  A new client has no Last-Event-ID, a reconnecting one sends
\* the last id it received, and a header may name an id past the end.
Connect(c, id) ==
  /\ conn[c].pc = "closed"
  /\ active < Capacity
  /\ active' = active + 1
  /\ conn' = [conn EXCEPT ![c] = [Closed EXCEPT !.pc = "accepted", !.lastId = id]]
  /\ last' = [last EXCEPT ![c] = IF id = NoEvent THEN NoEvent ELSE @]
  /\ gone' = [gone EXCEPT ![c] = FALSE]
  /\ UNCHANGED <<session, now, budget>>

----------------------------------------------------------------------------
(* stream_replay: the first batch, before the response starts *)

Preflight(c) ==
  /\ conn[c].pc = "accepted" /\ conn[c].lastId <= SampleCount
  /\ conn' = [conn EXCEPT ![c] = WithBatch(@, Position, "responding")]
  /\ PersistCompleted
  /\ UNCHANGED <<now, active, last, gone, budget>>

\* 400 for the header, or an error of the session, its result or the store.
PreflightFails(c) ==
  /\ conn[c].pc = "accepted"
  /\ \/ conn[c].lastId > SampleCount /\ UNCHANGED faults
     \/ faults < MaxFaults /\ faults' = faults + 1
  /\ Close(c)
  /\ UNCHANGED <<session, now, last, gone, crashes, leaves>>

\* The generator takes its first step whether or not its client is still there;
\* what it does for a client that is gone are NoticeGone and Abandon.
StartStream(c) ==
  /\ conn[c].pc = "responding"
  /\ conn' = [conn EXCEPT ![c] = [@ EXCEPT !.pc = "sending"]]
  /\ UNCHANGED <<session, now, active, last, gone, budget>>

----------------------------------------------------------------------------
(* generate_replay_stream *)

NextEvent(c) == CHOOSE i \in conn[c].queue : \A j \in conn[c].queue : i <= j

\* One event is yielded; it is lost when the client left after the check.
SendEvent(c) ==
  /\ conn[c].pc = "sending" /\ conn[c].queue # {} /\ ~gone[c]
  /\ LET i == NextEvent(c)
     IN  /\ conn' = [conn EXCEPT ![c] =
                       [@ EXCEPT !.lastId = i, !.queue = conn[c].queue \ {i}]]
         /\ \/ /\ last' = [last EXCEPT ![c] = i]
               /\ UNCHANGED <<gone, leaves>>
            \/ /\ leaves < MaxLeaves /\ leaves' = leaves + 1
               /\ gone' = [gone EXCEPT ![c] = TRUE]
               /\ UNCHANGED last
  /\ UNCHANGED <<session, now, active, faults, crashes>>

\* The end of a batch: the stream is over, or sleeps until the next poll.
EndBatch(c) ==
  /\ conn[c].pc = "sending" /\ conn[c].queue = {} /\ ~gone[c]
  /\ IF conn[c].terminal
     THEN Close(c)
     ELSE /\ conn' = [conn EXCEPT ![c] = [@ EXCEPT !.pc = "sleeping"]]
          /\ UNCHANGED active
  /\ UNCHANGED <<session, now, last, gone, budget>>

\* After the sleep the stream polls again with the last id it sent.
Poll(c) ==
  /\ conn[c].pc = "sleeping" /\ now >= conn[c].wake /\ ~gone[c]
  /\ conn' = [conn EXCEPT ![c] = WithBatch(@, Position, "sending")]
  /\ PersistCompleted
  /\ UNCHANGED <<now, active, last, gone, budget>>

\* An error after the headers ends the stream.
PollFails(c) ==
  /\ conn[c].pc = "sleeping" /\ now >= conn[c].wake
  /\ faults < MaxFaults /\ faults' = faults + 1
  /\ Close(c)
  /\ UNCHANGED <<session, now, last, gone, crashes, leaves>>

\* is_disconnected, or the task is cancelled inside the generator.
NoticeGone(c) ==
  /\ conn[c].pc \in {"sending", "sleeping"} /\ gone[c]
  /\ Close(c)
  /\ UNCHANGED <<session, now, last, gone, budget>>

\* The response is cancelled while the generator is suspended at a yield: of
\* an event, or of the heartbeat that follows a sleep.
Abandon(c) ==
  /\ gone[c]
  /\ \/ conn[c].pc = "sending"
     \/ conn[c].pc = "sleeping" /\ now >= conn[c].wake
  /\ conn' = [conn EXCEPT ![c] = [@ EXCEPT !.pc = "abandoned"]]
  /\ UNCHANGED <<session, now, active, last, gone, budget>>

\* The event loop closes the abandoned generator: its finally runs.
Finalize(c) ==
  /\ conn[c].pc = "abandoned"
  /\ Close(c)
  /\ UNCHANGED <<session, now, last, gone, budget>>

----------------------------------------------------------------------------
(* Clients, other readers, the lifecycle and the clock *)

ClientLeaves(c) ==
  /\ conn[c].pc # "closed" /\ ~gone[c]
  /\ leaves < MaxLeaves /\ leaves' = leaves + 1
  /\ gone' = [gone EXCEPT ![c] = TRUE]
  /\ UNCHANGED <<session, now, active, conn, last, faults, crashes>>

\* get_current_telemetry completes the replay too.
OtherReader ==
  /\ Position.complete /\ session.status = "REPLAYING"
  /\ PersistCompleted
  /\ UNCHANGED <<now, active, conn, last, gone, budget>>

ReplayQuanta == ((SampleCount - 1) * IntervalMs * UsPerMs) \div QuantumUs

\* start_replay with restart=true; the guard on MaxTime is a bound.
Restart ==
  /\ session.status = "COMPLETED" /\ session.gen < MaxRestarts
  /\ now + ReplayQuanta < MaxTime
  /\ session' = [status |-> "REPLAYING", started |-> now, gen |-> session.gen + 1]
  /\ UNCHANGED <<now, active, conn, last, gone, budget>>

\* The process ends and starts again; the session is on disk.
Crash ==
  /\ crashes < MaxCrashes /\ crashes' = crashes + 1
  /\ conn' = [c \in Clients |-> Closed]
  /\ active' = 0
  /\ UNCHANGED <<session, now, last, gone, faults, leaves>>

Tick ==
  /\ now < MaxTime
  /\ now' = now + 1
  /\ UNCHANGED <<session, active, conn, last, gone, budget>>

----------------------------------------------------------------------------
\* What the server's event loop runs for the stream of c.
Stream(c) ==
  \/ Preflight(c) \/ PreflightFails(c) \/ StartStream(c)
  \/ SendEvent(c) \/ EndBatch(c) \/ Poll(c) \/ PollFails(c)
  \/ NoticeGone(c) \/ Finalize(c)

Next ==
  \/ \E c \in Clients :
       \/ Stream(c) \/ Abandon(c) \/ ClientLeaves(c)
       \/ \E id \in {last[c], NoEvent, SampleCount + 1} : Connect(c, id)
  \/ OtherReader \/ Restart \/ Crash \/ Tick

Spec == Init /\ [][Next]_vars

\* The loop runs what is ready and time passes.  Nobody has to connect.
FairSpec == Spec /\ WF_vars(Tick) /\ \A c \in Clients : WF_vars(Stream(c))

----------------------------------------------------------------------------
(* Properties *)

Open == {c \in Clients : conn[c].pc # "closed"}

\* The limiter counts the streams there are, never more than its capacity: every
\* way a stream ends, in any order with errors, cancellations, clients that leave
\* and crashes, gives its slot back, and gives it back once.
SlotsAccounted == active = Cardinality(Open) /\ active <= Capacity

\* No sample is sent before its instant in the replay it was computed for, and
\* `complete` not before the completion is persisted.
NothingEarly ==
  \A c \in Clients :
    /\ conn[c].gen = session.gen =>
         \A i \in conn[c].queue \cap 0 .. (SampleCount - 1) :
           (now - session.started) * QuantumUs >= i * IntervalMs * UsPerMs
    /\ SampleCount \in conn[c].queue =>
         session.status = "COMPLETED" \/ session.gen > conn[c].gen

\* A sleeping stream wakes within a millisecond of the next sample it has to
\* send, and at the next heartbeat at the latest.
WakesInTime ==
  \A c \in Clients :
    conn[c].pc = "sleeping" =>
      /\ (conn[c].wake - now) * QuantumUs <= HeartbeatMs * UsPerMs
      /\ conn[c].gen = session.gen =>
           (conn[c].wake - session.started) * QuantumUs
             < (conn[c].lastId + 1) * IntervalMs * UsPerMs + UsPerMs

\* The stream keeps to the schedule of the replay: it is neither ahead of the
\* clock or of the stored session, nor asleep past the next sample.
OnTime == NothingEarly /\ WakesInTime

\* Over all its connections, across restarts, faults and crashes, a client
\* that resumes gets every event once and in order: no gap, no repetition.
InOrderExactlyOnce ==
  [][\A c \in Clients :
       \/ last'[c] \in {last[c], last[c] + 1}
       \/ last'[c] = NoEvent /\ conn[c].pc = "closed"]_vars

\* With no error or crash left to end it, a stream whose client stays runs to
\* the `complete` event.
StayersHearTheEnd ==
  \A c \in Clients :
    conn[c].pc = "sending" /\ faults = MaxFaults /\ crashes = MaxCrashes ~>
      last[c] = SampleCount \/ gone[c]
=============================================================================
