------------------------- MODULE ReplayStreamProofs -------------------------
(***************************************************************************)
(* Proofs about ReplayStream for every set of clients, every capacity,     *)
(* number of samples, interval, heartbeat and resolution of the clock, and *)
(* every number of restarts, errors, crashes and clients that leave.       *)
(***************************************************************************)
EXTENDS ReplayStream, FiniteSetTheorems, TLAPS

----------------------------------------------------------------------------
(* The replay clock *)

\* The division that finds a sample rounds down.
LEMMA Rounding ==
  ASSUME NEW a \in Nat, NEW b \in Nat \ {0}
  PROVE  a \div b \in Nat /\ b * (a \div b) <= a /\ a < b * (a \div b + 1)
OBVIOUS

LEMMA TimesMonotone ==
  ASSUME NEW a \in Int, NEW b \in Int, a <= b, NEW c \in Nat
  PROVE  c * a <= c * b
OBVIOUS

\* The index is one of the samples, and its instant has come.
LEMMA IndexIsDue ==
  ASSUME NEW e \in Nat, NEW interval \in Nat \ {0}, NEW n \in Nat \ {0}
  PROVE  /\ SampleIndex(e, interval, n) \in 0 .. n - 1
         /\ interval * SampleIndex(e, interval, n) <= e
<1> DEFINE raw == e \div interval
<1>1. raw \in Nat /\ interval * raw <= e
  BY Rounding
<1>2. CASE raw < n - 1
  BY <1>1, <1>2 DEF SampleIndex
<1>3. CASE ~ (raw < n - 1)
  <2>1. interval * (n - 1) <= interval * raw
    BY <1>1, <1>3, TimesMonotone
  <2>2. SampleIndex(e, interval, n) = n - 1
    BY <1>3 DEF SampleIndex
  <2>3. interval * (n - 1) \in Int /\ interval * raw \in Int
    BY <1>1
  <2>. QED
    BY <1>1, <2>1, <2>2, <2>3
<1>. QED
  BY <1>2, <1>3

\* Until the replay is complete, the next sample's instant has not come; from
\* then on the index is that of the last sample.
LEMMA IndexIsLatest ==
  ASSUME NEW e \in Nat, NEW interval \in Nat \ {0}, NEW n \in Nat \ {0}
  PROVE  IF ReplayComplete(e, interval, n)
         THEN SampleIndex(e, interval, n) = n - 1
         ELSE /\ SampleIndex(e, interval, n) < n - 1
              /\ e < interval * (SampleIndex(e, interval, n) + 1)
<1> DEFINE raw == e \div interval
<1>1. raw \in Nat /\ interval * raw <= e /\ e < interval * (raw + 1)
  BY Rounding
<1>2. interval * (n - 1) \in Int /\ interval * raw \in Int /\ interval * (raw + 1) \in Int
  BY <1>1
<1>3. CASE raw < n - 1
  <2>1. interval * (raw + 1) <= interval * (n - 1)
    BY <1>1, <1>3, TimesMonotone
  <2>2. ~ ReplayComplete(e, interval, n)
    BY <1>1, <1>2, <2>1 DEF ReplayComplete
  <2>. QED
    BY <1>1, <1>3, <2>2 DEF SampleIndex
<1>4. CASE ~ (raw < n - 1)
  <2>1. interval * (n - 1) <= interval * raw
    BY <1>1, <1>4, TimesMonotone
  <2>2. ReplayComplete(e, interval, n)
    BY <1>1, <1>2, <2>1 DEF ReplayComplete
  <2>. QED
    BY <1>1, <1>4, <2>2 DEF SampleIndex
<1>. QED
  BY <1>3, <1>4

\* The delay ends at the next sample or within a millisecond after it, never
\* before: a reader that sleeps for it neither spins nor is late.
THEOREM DelayEndsAtSample ==
  ASSUME NEW e \in Nat, NEW interval \in Nat \ {0}, NEW n \in Nat \ {0}
  PROVE  /\ DelayMs(e, interval, n) \in Nat
         /\ ~ ReplayComplete(e, interval, n) =>
              LET next == interval * (SampleIndex(e, interval, n) + 1)
                  end  == e + DelayMs(e, interval, n) * UsPerMs
              IN  next <= end /\ end < next + UsPerMs
<1>1. CASE ReplayComplete(e, interval, n)
  BY <1>1 DEF DelayMs
<1>2. CASE ~ ReplayComplete(e, interval, n)
  <2> DEFINE next == interval * (SampleIndex(e, interval, n) + 1)
             left == next - e
  <2>1. SampleIndex(e, interval, n) \in Nat
    BY IndexIsDue
  <2>2. next \in Nat /\ e < next
    BY <1>2, <2>1, IndexIsLatest
  <2>3. left \in Nat /\ left + 999 \in Nat
    BY <2>2
  <2>4. DelayMs(e, interval, n) = (left + 999) \div 1000
    BY <1>2, <2>2 DEF DelayMs, UsPerMs
  <2> HIDE DEF left
  <2>5. (left + 999) \div 1000 \in Nat /\ left <= ((left + 999) \div 1000) * 1000
        /\ ((left + 999) \div 1000) * 1000 < left + 1000
    BY <2>3
  <2> HIDE DEF next
  <2>. QED
    BY <1>2, <2>2, <2>4, <2>5 DEF UsPerMs, left, next
<1>. QED
  BY <1>1, <1>2

----------------------------------------------------------------------------
(* The inductive invariant *)

Session == [status : {"REPLAYING", "COMPLETED"}, started : Nat, gen : Nat]

Received == {NoEvent} \cup EventId

\* The replay's age in microseconds, and the age at which sample i is due.
Age(s, t)  == (t - s.started) * QuantumUs
Instant(i) == (IntervalMs * UsPerMs) * i

\* A replay is COMPLETED when its last sample is due, not before.
SessionSound(s, t) ==
  /\ s \in Session /\ t \in Nat /\ s.started <= t
  /\ s.status = "COMPLETED" => Age(s, t) >= Instant(SampleCount - 1)

\* The batch of k goes up to the event top: what is left of it is the events
\* after the last one sent, all of them due, and if none is left to come before
\* a sleep, the sleep ends with the instant of the event after top.
Batch(k, top, s, t) ==
  /\ k.lastId <= top /\ k.queue = (k.lastId + 1) .. top
  /\ k.gen = s.gen => \A i \in k.queue \cap 0 .. (SampleCount - 1) : Age(s, t) >= Instant(i)
  /\ SampleCount \in k.queue => s.status = "COMPLETED" \/ s.gen > k.gen
  /\ (k.wake - t) * QuantumUs <= HeartbeatMs * UsPerMs
  /\ ~ k.terminal /\ k.gen = s.gen => Age(s, k.wake) < Instant(top + 1) + UsPerMs

\* A stream k of a client that received l and left if g.
StreamSound(k, l, g, s, t) ==
  /\ k.gen <= s.gen
  /\ k.pc \in {"closed", "accepted"} => k.queue = {}
  /\ k.pc \notin {"closed", "accepted"} => \E top \in Received : Batch(k, top, s, t)
  /\ k.pc = "sleeping" => k.queue = {} /\ ~ k.terminal
  /\ k.pc \notin {"closed", "abandoned"} /\ ~ g /\ k.lastId <= SampleCount => l = k.lastId

Typed ==
  /\ conn \in [Clients -> Connection]
  /\ last \in [Clients -> Received]
  /\ gone \in [Clients -> BOOLEAN]
  /\ faults \in Nat /\ crashes \in Nat /\ leaves \in Nat

StreamsSound ==
  \A c \in Clients : StreamSound(conn[c], last[c], gone[c], session, now)

Slots ==
  IsFiniteSet(Open) /\ active = Cardinality(Open) /\ active <= Capacity

SInv == Typed /\ SessionSound(session, now) /\ StreamsSound /\ Slots

\* What each step does to what a client has received.
InOrder ==
  \A c \in Clients :
    \/ last'[c] \in {last[c], last[c] + 1}
    \/ last'[c] = NoEvent /\ conn[c].pc = "closed"

Goes == SInv' /\ InOrder

----------------------------------------------------------------------------
(* Time and the session *)

\* The session goes on, is completed or is restarted, and time passes.
Onward(s, t, s2, t2) ==
  /\ s2 \in Session /\ t2 \in Nat /\ t <= t2
  /\ \/ /\ s2.gen = s.gen /\ s2.started = s.started
        /\ s.status = "COMPLETED" => s2.status = "COMPLETED"
     \/ s2.gen > s.gen

LEMMA ConstantsTyped ==
  /\ SampleCount \in Nat \ {0} /\ QuantumUs \in Nat \ {0} /\ HeartbeatMs \in Nat \ {0}
  /\ UsPerMs \in Nat \ {0} /\ IntervalMs * UsPerMs \in Nat \ {0} /\ Capacity \in Nat
  /\ \A i \in Int : Instant(i) \in Int
BY StreamAssumption DEF UsPerMs, Instant

LEMMA AgeGrows ==
  ASSUME NEW s \in Session, NEW t \in Nat, NEW u \in Nat, t <= u
  PROVE  Age(s, t) \in Int /\ Age(s, u) \in Int /\ Age(s, t) <= Age(s, u)
<1>1. s.started \in Nat
  BY DEF Session
<1>2. t - s.started \in Int /\ u - s.started \in Int /\ t - s.started <= u - s.started
  BY <1>1
<1>. QED
  BY <1>2, ConstantsTyped DEF Age

LEMMA InstantsGrow ==
  ASSUME NEW i \in Int, NEW j \in Int, i <= j
  PROVE  Instant(i) \in Int /\ Instant(j) \in Int /\ Instant(i) <= Instant(j)
BY ConstantsTyped, TimesMonotone DEF Instant

\* What a stream was promised stays true whatever session and clock do.
LEMMA StreamGoesOn ==
  ASSUME NEW k \in Connection, NEW l, NEW g, NEW s \in Session, NEW t \in Nat,
         NEW s2, NEW t2, StreamSound(k, l, g, s, t), Onward(s, t, s2, t2)
  PROVE  StreamSound(k, l, g, s2, t2)
<1>1. /\ k.gen \in Nat /\ k.wake \in Nat /\ k.lastId \in Int
      /\ s.gen \in Nat /\ s2.gen \in Nat /\ s2 \in Session /\ t2 \in Nat /\ t <= t2
  BY ConstantsTyped DEF Connection, Session, Onward, EventId, NoEvent
<1>2. k.gen <= s2.gen /\ (k.gen = s2.gen => s2.gen = s.gen)
  BY <1>1 DEF StreamSound, Onward
<1>3. ASSUME NEW top \in Received, Batch(k, top, s, t)
      PROVE  Batch(k, top, s2, t2)
  <2>1. (k.wake - t2) * QuantumUs <= HeartbeatMs * UsPerMs
    <3>1. (k.wake - t2) * QuantumUs <= (k.wake - t) * QuantumUs
      BY <1>1, ConstantsTyped
    <3>2. (k.wake - t) * QuantumUs <= HeartbeatMs * UsPerMs
      BY <1>3 DEF Batch
    <3>3. /\ (k.wake - t) * QuantumUs \in Int /\ (k.wake - t2) * QuantumUs \in Int
          /\ HeartbeatMs * UsPerMs \in Int
      BY <1>1, ConstantsTyped
    <3>. QED
      BY <3>1, <3>2, <3>3
  <2>2. CASE s2.gen = s.gen
    <3>1. s2.started = s.started /\ (s.status = "COMPLETED" => s2.status = "COMPLETED")
      BY <1>1, <2>2 DEF Onward
    <3>2. \A u : Age(s2, u) = Age(s, u)
      BY <3>1 DEF Age
    <3>3. ASSUME NEW i \in k.queue \cap 0 .. (SampleCount - 1), k.gen = s2.gen
          PROVE  Age(s2, t2) >= Instant(i)
      <4>1. Age(s, t) >= Instant(i)
        BY <1>3, <2>2, <3>3 DEF Batch
      <4>2. Instant(i) \in Int
        BY ConstantsTyped
      <4>. QED
        BY <1>1, <3>2, <4>1, <4>2, AgeGrows
    <3>. QED
      BY <1>3, <2>1, <2>2, <3>1, <3>2, <3>3 DEF Batch
  <2>3. CASE s2.gen # s.gen
    <3>1. s2.gen > k.gen /\ k.gen # s2.gen
      BY <1>1, <1>2, <2>3 DEF StreamSound, Onward
    <3>. QED
      BY <1>3, <2>1, <3>1 DEF Batch
  <2>. QED
    BY <2>2, <2>3
<1>. QED
  BY <1>2, <1>3 DEF StreamSound

----------------------------------------------------------------------------
(* get_due_events *)

\* The position read for the session: its sample is due, and unless the replay
\* is over the delay ends within a millisecond after the next one is.
LEMMA PositionSound ==
  ASSUME SessionSound(session, now)
  PROVE  /\ Position \in [index : 0 .. SampleCount - 1, complete : BOOLEAN, delayMs : Nat]
         /\ Age(session, now) >= Instant(Position.index)
         /\ Position.complete => Position.index = SampleCount - 1
         /\ ~ Position.complete =>
              /\ Age(session, now) < Instant(Position.index + 1)
              /\ Age(session, now) + Position.delayMs * UsPerMs
                   < Instant(Position.index + 1) + UsPerMs
<1>1. session.started \in Nat /\ now \in Nat /\ session.started <= now
  BY DEF SessionSound, Session
<1>2. CASE session.status = "COMPLETED"
  <2>1. Position = [index |-> SampleCount - 1, complete |-> TRUE, delayMs |-> 0]
    BY <1>2 DEF Position
  <2>. QED
    BY <1>2, <2>1, ConstantsTyped DEF SessionSound
<1>3. CASE session.status # "COMPLETED"
  <2> DEFINE e == ElapsedUs(session.started * QuantumUs, now * QuantumUs)
             d == IntervalMs * UsPerMs
             x == SampleIndex(e, d, SampleCount)
  <2>1. session.started * QuantumUs \in Nat /\ now * QuantumUs \in Nat
        /\ session.started * QuantumUs <= now * QuantumUs
    BY <1>1, ConstantsTyped
  <2>2. e = Age(session, now) /\ e \in Nat
    <3>1. now * QuantumUs - session.started * QuantumUs = (now - session.started) * QuantumUs
      BY <1>1, ConstantsTyped
    <3>. QED
      BY <2>1, <3>1 DEF Age, ElapsedUs
  <2>3. Position = [index |-> x, complete |-> ReplayComplete(e, d, SampleCount),
                    delayMs |-> DelayMs(e, d, SampleCount)]
    BY <1>3 DEF Position, PositionAt
  <2>4. d \in Nat \ {0} /\ SampleCount \in Nat \ {0}
    BY ConstantsTyped
  <2>5. Instant(x) = d * x /\ Instant(x + 1) = d * (x + 1)
    BY DEF Instant
  <2>6. ReplayComplete(e, d, SampleCount) \in BOOLEAN
    BY DEF ReplayComplete
  <2> HIDE DEF e, d
  <2>7. x \in 0 .. SampleCount - 1 /\ d * x <= e
    BY <2>2, <2>4, IndexIsDue
  <2>8. /\ DelayMs(e, d, SampleCount) \in Nat
        /\ ReplayComplete(e, d, SampleCount) => x = SampleCount - 1
    BY <2>2, <2>4, DelayEndsAtSample, IndexIsLatest
  <2>9. ~ ReplayComplete(e, d, SampleCount) =>
          e < d * (x + 1) /\ e + DelayMs(e, d, SampleCount) * UsPerMs < d * (x + 1) + UsPerMs
    BY <2>2, <2>4, DelayEndsAtSample, IndexIsLatest
  <2> HIDE DEF x
  <2>10. d * x \in Int /\ x \in Int
    BY <2>4, <2>7
  <2>. QED
    BY <2>2, <2>3, <2>5, <2>6, <2>7, <2>8, <2>9, <2>10
<1>. QED
  BY <1>2, <1>3

\* Whoever finds the replay over persists COMPLETED, and nobody else does.
LEMMA PersistSound ==
  ASSUME SessionSound(session, now), PersistCompleted
  PROVE  /\ SessionSound(session', now) /\ Onward(session, now, session', now)
         /\ session'.gen = session.gen /\ session'.started = session.started
         /\ Position.complete => session'.status = "COMPLETED"
<1>1. session \in Session /\ now \in Nat
  BY DEF SessionSound
<1>2. CASE Position.complete
  <2>1. session' = [session EXCEPT !.status = "COMPLETED"]
    BY <1>2 DEF PersistCompleted
  <2>2. session' \in Session /\ session'.status = "COMPLETED"
        /\ session'.gen = session.gen /\ session'.started = session.started
    BY <1>1, <2>1 DEF Session
  <2>3. Age(session', now) = Age(session, now) /\ Age(session, now) >= Instant(SampleCount - 1)
    BY <1>2, <2>2, PositionSound DEF Age
  <2>. QED
    BY <1>1, <2>2, <2>3 DEF SessionSound, Onward
<1>3. CASE ~ Position.complete
  BY <1>1, <1>3 DEF PersistCompleted, Onward
<1>. QED
  BY <1>2, <1>3

\* The sleep, counted in quanta of the clock, is not longer than in milliseconds.
LEMMA SleepRoundsDown ==
  ASSUME NEW ms \in Nat
  PROVE  /\ (ms * UsPerMs) \div QuantumUs \in Nat
         /\ ((ms * UsPerMs) \div QuantumUs) * QuantumUs <= ms * UsPerMs
<1>1. ms * UsPerMs \in Nat
  BY ConstantsTyped
<1>2. \A a \in Nat : a \div QuantumUs \in Nat /\ (a \div QuantumUs) * QuantumUs <= a
  BY ConstantsTyped
<1>. QED
  BY <1>1, <1>2

\* A new batch is due, and it ends or says when to look again.
LEMMA BatchSound ==
  ASSUME SessionSound(session, now), PersistCompleted,
         NEW k \in Connection, k.lastId <= SampleCount,
         NEW l, NEW g, ~ g => l = k.lastId, NEW pc \in {"responding", "sending"}
  PROVE  /\ WithBatch(k, Position, pc) \in Connection
         /\ WithBatch(k, Position, pc).pc = pc
         /\ StreamSound(WithBatch(k, Position, pc), l, g, session', now)
<1> DEFINE pos == Position
           due == DueEvents(k.lastId, pos)
           hi  == IF pos.complete THEN SampleCount ELSE pos.index
           top == IF k.lastId < hi THEN hi ELSE k.lastId
           w   == IF due # {} THEN now ELSE now + (SleepMs(pos) * UsPerMs) \div QuantumUs
           b   == WithBatch(k, pos, pc)
<1>1. session \in Session /\ now \in Nat /\ session.started \in Nat /\ session.gen \in Nat
  BY DEF SessionSound, Session
<1>2. /\ pos.index \in 0 .. SampleCount - 1 /\ pos.complete \in BOOLEAN /\ pos.delayMs \in Nat
      /\ SampleCount \in Nat \ {0}
  BY PositionSound, ConstantsTyped
<1>3. k.lastId \in Received /\ k.lastId \in Int /\ hi \in EventId /\ top \in Received
      /\ k.lastId <= top
  BY <1>2 DEF Connection, Received, EventId, NoEvent
<1>4. due = (k.lastId + 1) .. top /\ due \in SUBSET EventId
  <2>1. CASE k.lastId >= SampleCount
    BY <1>2, <1>3, <2>1 DEF DueEvents, EventId
  <2>2. CASE ~ (k.lastId >= SampleCount)
    BY <1>2, <1>3, <2>2 DEF DueEvents, EventId, Received, NoEvent
  <2>. QED
    BY <2>1, <2>2
<1>5. SleepMs(pos) \in Nat /\ SleepMs(pos) <= pos.delayMs /\ SleepMs(pos) <= HeartbeatMs
  BY <1>2, ConstantsTyped DEF SleepMs
<1>6. w \in Nat /\ (w - now) * QuantumUs <= SleepMs(pos) * UsPerMs
  <2>1. (SleepMs(pos) * UsPerMs) \div QuantumUs \in Nat
        /\ ((SleepMs(pos) * UsPerMs) \div QuantumUs) * QuantumUs <= SleepMs(pos) * UsPerMs
    BY <1>5, SleepRoundsDown
  <2>2. 0 <= SleepMs(pos) * UsPerMs
    BY <1>5, ConstantsTyped
  <2>3. (now - now) * QuantumUs = 0
    BY <1>1, ConstantsTyped
  <2> DEFINE z == (SleepMs(pos) * UsPerMs) \div QuantumUs
  <2>4. now + z \in Nat /\ (now + z) - now = z
    BY <1>1, <2>1
  <2> HIDE DEF z, due, pos
  <2>. QED
    BY <1>1, <2>1, <2>2, <2>3, <2>4 DEF z
<1>7. /\ b.pc = pc /\ b.lastId = k.lastId /\ b.queue = due /\ b.wake = w
      /\ b.gen = session.gen /\ b.terminal = (pos.complete \/ k.lastId >= SampleCount)
  BY DEF WithBatch, Connection
<1>8. b \in Connection
  <2>1. (pos.complete \/ k.lastId >= SampleCount) \in BOOLEAN
    BY <1>2
  <2>. QED
    BY <1>1, <1>4, <1>6, <2>1 DEF WithBatch, Connection
<1>9. /\ session'.gen = session.gen /\ session'.started = session.started
      /\ pos.complete => session'.status = "COMPLETED"
  BY PersistSound
<1>10. Age(session', now) = Age(session, now) /\ Age(session', w) = Age(session, w)
  BY <1>9 DEF Age
<1> HIDE DEF b, w, due
<1>11. ASSUME NEW i \in due \cap 0 .. (SampleCount - 1)
       PROVE  Age(session', now) >= Instant(i)
  <2>1. i \in Int /\ i <= pos.index
    BY <1>2, <1>3, <1>4, <1>11, PositionSound
  <2>2. Instant(i) <= Instant(pos.index) /\ Instant(i) \in Int /\ Instant(pos.index) \in Int
    BY <1>2, <2>1, InstantsGrow
  <2>3. Age(session, now) >= Instant(pos.index) /\ Age(session, now) \in Int
    BY <1>1, PositionSound, AgeGrows
  <2>. QED
    BY <1>10, <2>2, <2>3
<1>12. SampleCount \in due => session'.status = "COMPLETED"
  BY <1>2, <1>3, <1>4, <1>9
<1>13. (w - now) * QuantumUs <= HeartbeatMs * UsPerMs
  <2>1. SleepMs(pos) * UsPerMs <= HeartbeatMs * UsPerMs
    BY <1>5, ConstantsTyped
  <2>2. /\ (w - now) * QuantumUs \in Int /\ SleepMs(pos) * UsPerMs \in Int
        /\ HeartbeatMs * UsPerMs \in Int
    BY <1>1, <1>5, <1>6, ConstantsTyped
  <2>. QED
    BY <1>6, <2>1, <2>2
<1>14. ASSUME ~ (pos.complete \/ k.lastId >= SampleCount)
       PROVE  Age(session', w) < Instant(top + 1) + UsPerMs
  <2>1. hi = pos.index /\ pos.index <= top /\ top \in Int /\ ~ pos.complete
    BY <1>2, <1>3, <1>14
  <2>2. Instant(pos.index + 1) <= Instant(top + 1) /\ Instant(pos.index + 1) \in Int
        /\ Instant(top + 1) \in Int
    BY <1>2, <2>1, InstantsGrow
  <2>3. Age(session, w) = Age(session, now) + (w - now) * QuantumUs
    <3>1. w - session.started = (now - session.started) + (w - now)
      BY <1>1, <1>6
    <3>2. now - session.started \in Int /\ w - now \in Int
      BY <1>1, <1>6
    <3>3. \A x, y \in Int : (x + y) * QuantumUs = x * QuantumUs + y * QuantumUs
      BY ConstantsTyped
    <3>. QED
      BY <3>1, <3>2, <3>3 DEF Age
  <2>4. Age(session, now) + pos.delayMs * UsPerMs < Instant(pos.index + 1) + UsPerMs
    BY <2>1, PositionSound
  <2>5. SleepMs(pos) * UsPerMs <= pos.delayMs * UsPerMs
    BY <1>2, <1>5, ConstantsTyped
  <2>6. /\ Age(session, now) \in Int /\ (w - now) * QuantumUs \in Int
        /\ SleepMs(pos) * UsPerMs \in Int /\ pos.delayMs * UsPerMs \in Int /\ UsPerMs \in Int
    BY <1>1, <1>2, <1>5, <1>6, ConstantsTyped, AgeGrows
  <2>. QED
    BY <1>6, <1>10, <2>2, <2>3, <2>4, <2>5, <2>6
<1>15. Batch(b, top, session', now)
  BY <1>3, <1>4, <1>7, <1>11, <1>12, <1>13, <1>14 DEF Batch
<1>16. StreamSound(b, l, g, session', now)
  BY <1>1, <1>3, <1>7, <1>9, <1>15 DEF StreamSound
<1>. QED
  BY <1>7, <1>8, <1>16 DEF b

----------------------------------------------------------------------------
(* Steps of one stream *)

\* The limiter's count, when the stream of c becomes k.
SlotStep(c, k) ==
  \/ (conn[c].pc = "closed" <=> k.pc = "closed") /\ UNCHANGED active
  \/ /\ conn[c].pc = "closed" /\ k.pc # "closed"
     /\ active < Capacity /\ active' = active + 1
  \/ conn[c].pc # "closed" /\ k.pc = "closed" /\ active' = active - 1

LEMMA SlotsFollow ==
  ASSUME Slots, Typed, NEW c \in Clients, NEW k,
         conn' = [conn EXCEPT ![c] = k], SlotStep(c, k)
  PROVE  Slots'
<1>1. conn'[c] = k /\ \A e \in Clients : e # c => conn'[e] = conn[e]
  BY DEF Typed
<1>2. /\ IsFiniteSet(Open) /\ Cardinality(Open) \in Nat
      /\ active = Cardinality(Open) /\ active <= Capacity
  BY FS_CardinalityType DEF Slots
<1>3. CASE (conn[c].pc = "closed" <=> k.pc = "closed") /\ UNCHANGED active
  <2>1. Open' = Open
    BY <1>1, <1>3 DEF Open
  <2>. QED
    BY <1>2, <1>3, <2>1 DEF Slots
<1>4. CASE /\ conn[c].pc = "closed" /\ k.pc # "closed"
           /\ active < Capacity /\ active' = active + 1
  <2>1. Open' = Open \cup {c} /\ c \notin Open
    BY <1>1, <1>4 DEF Open
  <2>2. IsFiniteSet(Open') /\ Cardinality(Open') = Cardinality(Open) + 1
    BY <1>2, <2>1, FS_AddElement
  <2>. QED
    BY <1>2, <1>4, <2>2, ConstantsTyped DEF Slots
<1>5. CASE conn[c].pc # "closed" /\ k.pc = "closed" /\ active' = active - 1
  <2>1. Open' = Open \ {c} /\ c \in Open
    BY <1>1, <1>5 DEF Open
  <2>2. IsFiniteSet(Open') /\ Cardinality(Open') = Cardinality(Open) - 1
    BY <1>2, <2>1, FS_RemoveElement
  <2>. QED
    BY <1>2, <1>5, <2>2, ConstantsTyped DEF Slots
<1>. QED
  BY <1>3, <1>4, <1>5 DEF SlotStep

\* Nothing but the stream of c and what its client has goes on, the session
\* with it when its replay is found to be over.
LEMMA StreamStep ==
  ASSUME SInv, NEW c \in Clients,
         NEW k \in Connection, NEW l \in Received, NEW g \in BOOLEAN,
         conn' = [conn EXCEPT ![c] = k], last' = [last EXCEPT ![c] = l],
         gone' = [gone EXCEPT ![c] = g],
         StreamSound(k, l, g, session', now),
         l \in {last[c], last[c] + 1} \/ (l = NoEvent /\ conn[c].pc = "closed"),
         SlotStep(c, k),
         SessionSound(session', now), Onward(session, now, session', now), now' = now,
         faults' \in Nat, crashes' \in Nat, leaves' \in Nat
  PROVE  Goes
<1>1. /\ conn \in [Clients -> Connection] /\ last \in [Clients -> Received]
      /\ gone \in [Clients -> BOOLEAN] /\ session \in Session /\ now \in Nat
  BY DEF SInv, Typed, SessionSound
<1>2. conn'[c] = k /\ last'[c] = l /\ gone'[c] = g
  BY <1>1
<1>3. \A e \in Clients : e # c => conn'[e] = conn[e] /\ last'[e] = last[e] /\ gone'[e] = gone[e]
  BY <1>1
<1>4. Typed'
  BY <1>1 DEF Typed
<1>5. StreamsSound'
  <2>1. ASSUME NEW e \in Clients, e # c
        PROVE  StreamSound(conn[e], last[e], gone[e], session', now)
    <3>1. conn[e] \in Connection /\ StreamSound(conn[e], last[e], gone[e], session, now)
      BY <1>1 DEF SInv, StreamsSound
    <3>. QED
      BY <1>1, <3>1, StreamGoesOn
  <2>2. ASSUME NEW e \in Clients
        PROVE  StreamSound(conn'[e], last'[e], gone'[e], session', now')
    <3>1. CASE e = c
      BY <1>2, <3>1
    <3>2. CASE e # c
      BY <1>3, <2>1, <3>2
    <3>. QED
      BY <3>1, <3>2
  <2>. QED
    BY <2>2 DEF StreamsSound
<1>6. Slots'
  BY SlotsFollow DEF SInv
<1>7. InOrder
  BY <1>2, <1>3 DEF InOrder
<1>. QED
  BY <1>4, <1>5, <1>6, <1>7 DEF SInv, Goes

\* What is known of a stream, and that what is left alone is changed to itself.
LEMMA Streaming ==
  ASSUME SInv, NEW c \in Clients
  PROVE  /\ conn[c] \in Connection /\ last[c] \in Received /\ gone[c] \in BOOLEAN
         /\ StreamSound(conn[c], last[c], gone[c], session, now)
         /\ session \in Session /\ now \in Nat
         /\ SessionSound(session, now) /\ Onward(session, now, session, now)
         /\ conn = [conn EXCEPT ![c] = conn[c]] /\ last = [last EXCEPT ![c] = last[c]]
         /\ gone = [gone EXCEPT ![c] = gone[c]]
         /\ faults \in Nat /\ crashes \in Nat /\ leaves \in Nat
BY DEF SInv, Typed, StreamsSound, SessionSound, Onward

LEMMA ClosedSound ==
  ASSUME NEW s \in Session, NEW l, NEW g, NEW t
  PROVE  Closed \in Connection /\ Closed.pc = "closed" /\ StreamSound(Closed, l, g, s, t)
<1>1. Closed \in Connection
  BY ConstantsTyped DEF Closed, Connection, EventId
<1>. QED
  BY <1>1 DEF Closed, StreamSound, Session

\* Whatever ends a stream that holds a slot, if it gives the slot back.
LEMMA CloseStep ==
  ASSUME SInv, NEW c \in Clients, conn[c].pc # "closed", Close(c),
         UNCHANGED <<session, now, last, gone>>,
         faults' \in Nat, crashes' \in Nat, leaves' \in Nat
  PROVE  Goes
<1>1. Closed \in Connection /\ Closed.pc = "closed"
      /\ StreamSound(Closed, last[c], gone[c], session, now)
  BY Streaming, ClosedSound
<1>2. SlotStep(c, Closed) /\ conn' = [conn EXCEPT ![c] = Closed]
  BY <1>1 DEF Close, SlotStep
<1>. QED
  BY <1>1, <1>2, Streaming, StreamStep

\* A stream whose first batch was computed has one to send, or has sent it.
LEMMA Started ==
  ASSUME SInv, NEW c \in Clients, conn[c].pc \notin {"closed", "accepted"}
  PROVE  /\ conn[c].lastId <= SampleCount /\ conn[c].lastId \in Received
         /\ \E top \in Received : Batch(conn[c], top, session, now)
<1>1. conn[c] \in Connection /\ StreamSound(conn[c], last[c], gone[c], session, now)
  BY Streaming
<1>2. PICK top \in Received : Batch(conn[c], top, session, now)
  BY <1>1 DEF StreamSound
<1>3. conn[c].lastId <= top
  BY <1>2 DEF Batch
<1>4. conn[c].lastId \in {NoEvent} \cup EventId \cup {SampleCount + 1}
  BY <1>1 DEF Connection
<1>5. conn[c].lastId <= SampleCount /\ conn[c].lastId \in Received
  BY <1>3, <1>4, ConstantsTyped DEF Received, EventId, NoEvent
<1>. QED
  BY <1>2, <1>5

----------------------------------------------------------------------------
(* Every action *)

LEMMA InitSInv == Init => SInv
<1>. SUFFICES ASSUME Init PROVE SInv
  OBVIOUS
<1>1. session \in Session /\ session.started = 0 /\ session.status = "REPLAYING" /\ now = 0
  BY DEF Init, Session
<1>2. Typed
  <2>1. Closed \in Connection
    BY <1>1, ClosedSound
  <2>. QED
    BY <2>1 DEF Init, Typed, Received
<1>3. SessionSound(session, now)
  BY <1>1 DEF SessionSound
<1>4. StreamsSound
  BY <1>1, ClosedSound DEF Init, StreamsSound
<1>5. Slots
  <2>1. Open = {}
    BY DEF Init, Open, Closed
  <2>. QED
    BY <2>1, FS_EmptySet, ConstantsTyped DEF Init, Slots
<1>. QED
  BY <1>2, <1>3, <1>4, <1>5 DEF SInv

LEMMA ConnectGoes ==
  ASSUME SInv, NEW c \in Clients, NEW id \in {last[c], NoEvent, SampleCount + 1},
         Connect(c, id)
  PROVE  Goes
<1> DEFINE k == [Closed EXCEPT !.pc = "accepted", !.lastId = id]
           l == IF id = NoEvent THEN NoEvent ELSE last[c]
<1>1. id \in {NoEvent} \cup EventId \cup {SampleCount + 1} /\ last[c] \in Received
  BY Streaming DEF Received
<1>2. k \in Connection /\ k.pc = "accepted" /\ k.lastId = id /\ k.queue = {} /\ k.gen = 0
  BY <1>1, Streaming, ClosedSound DEF Closed, Connection
<1>3. l \in Received /\ (id <= SampleCount => l = id)
  BY <1>1, ConstantsTyped DEF Received
<1>4. StreamSound(k, l, FALSE, session, now)
  <2>1. session.gen \in Nat
    BY Streaming DEF Session
  <2>. QED
    BY <1>2, <1>3, <2>1 DEF StreamSound
<1>5. conn[c].pc = "closed" /\ SlotStep(c, k)
  BY <1>2 DEF Connect, SlotStep
<1>6. conn' = [conn EXCEPT ![c] = k] /\ last' = [last EXCEPT ![c] = l]
      /\ gone' = [gone EXCEPT ![c] = FALSE] /\ session' = session /\ now' = now
  BY Streaming DEF Connect
<1>7. faults' \in Nat /\ crashes' \in Nat /\ leaves' \in Nat
  BY Streaming DEF Connect, budget
<1>8. l \in {last[c], last[c] + 1} \/ (l = NoEvent /\ conn[c].pc = "closed")
  BY <1>5
<1> HIDE DEF k, l
<1>. QED
  BY <1>2, <1>3, <1>4, <1>5, <1>6, <1>7, <1>8, Streaming, StreamStep

\* The two that compute a batch.
LEMMA BatchGoes ==
  ASSUME SInv, NEW c \in Clients, NEW pc \in {"responding", "sending"},
         conn[c].pc \in {"accepted", "sleeping"}, conn[c].lastId <= SampleCount,
         conn' = [conn EXCEPT ![c] = WithBatch(conn[c], Position, pc)],
         PersistCompleted, UNCHANGED <<now, active, last, gone, budget>>
  PROVE  Goes
<1> DEFINE k == WithBatch(conn[c], Position, pc)
<1>1. ~ gone[c] => last[c] = conn[c].lastId
  BY Streaming DEF StreamSound
<1>2. k \in Connection /\ k.pc = pc /\ StreamSound(k, last[c], gone[c], session', now)
  BY <1>1, Streaming, BatchSound
<1>3. SessionSound(session', now) /\ Onward(session, now, session', now)
  BY Streaming, PersistSound
<1>4. conn' = [conn EXCEPT ![c] = k]
  OBVIOUS
<1> HIDE DEF k
<1>5. SlotStep(c, k)
  BY <1>2 DEF SlotStep
<1>6. faults' \in Nat /\ crashes' \in Nat /\ leaves' \in Nat
  BY Streaming DEF budget
<1>7. /\ last' = [last EXCEPT ![c] = last[c]] /\ gone' = [gone EXCEPT ![c] = gone[c]]
      /\ last[c] \in Received /\ gone[c] \in BOOLEAN /\ now' = now
  BY Streaming
<1>. QED
  BY <1>2, <1>3, <1>4, <1>5, <1>6, <1>7, StreamStep

LEMMA PreflightGoes ==
  ASSUME SInv, NEW c \in Clients, Preflight(c)
  PROVE  Goes
<1>1. conn' = [conn EXCEPT ![c] = WithBatch(conn[c], Position, "responding")]
  BY Streaming DEF Preflight
<1>. QED
  BY <1>1, BatchGoes DEF Preflight

LEMMA PollGoes ==
  ASSUME SInv, NEW c \in Clients, Poll(c)
  PROVE  Goes
<1>1. conn' = [conn EXCEPT ![c] = WithBatch(conn[c], Position, "sending")]
  BY Streaming DEF Poll
<1>2. conn[c].lastId <= SampleCount /\ conn[c].pc = "sleeping"
  BY Started DEF Poll
<1>. QED
  BY <1>1, <1>2, BatchGoes DEF Poll

LEMMA EndingsGo ==
  ASSUME SInv, NEW c \in Clients,
         PreflightFails(c) \/ PollFails(c) \/ NoticeGone(c) \/ Finalize(c)
  PROVE  Goes
<1>1. faults \in Nat /\ crashes \in Nat /\ leaves \in Nat
  BY Streaming
<1>2. conn[c].pc # "closed" /\ Close(c) /\ UNCHANGED <<session, now, last, gone>>
  BY DEF PreflightFails, PollFails, NoticeGone, Finalize
<1>3. faults' \in Nat /\ crashes' \in Nat /\ leaves' \in Nat
  BY <1>1 DEF PreflightFails, PollFails, NoticeGone, Finalize, budget
<1>. QED
  BY <1>2, <1>3, CloseStep

\* A stream that only changes its place keeps what it has.
LEMMA MoveStep ==
  ASSUME SInv, NEW c \in Clients, NEW pc \in {"sending", "sleeping", "abandoned"},
         conn[c].pc \notin {"closed", "accepted", "abandoned"},
         pc = "sleeping" => conn[c].queue = {} /\ ~ conn[c].terminal,
         conn' = [conn EXCEPT ![c] = [conn[c] EXCEPT !.pc = pc]],
         UNCHANGED <<session, now, active, last, gone, budget>>
  PROVE  Goes
<1> DEFINE k == [conn[c] EXCEPT !.pc = pc]
<1>1. conn[c] \in Connection /\ StreamSound(conn[c], last[c], gone[c], session, now)
  BY Streaming
<1>2. /\ k \in Connection /\ k.pc = pc /\ k.lastId = conn[c].lastId
      /\ k.queue = conn[c].queue /\ k.terminal = conn[c].terminal
      /\ k.wake = conn[c].wake /\ k.gen = conn[c].gen
      /\ conn' = [conn EXCEPT ![c] = k]
  BY <1>1 DEF Connection
<1> HIDE DEF k
<1>3. \A top : Batch(conn[c], top, session, now) => Batch(k, top, session, now)
  BY <1>2 DEF Batch
<1>4. StreamSound(k, last[c], gone[c], session, now)
  BY <1>1, <1>2, <1>3 DEF StreamSound
<1>5. SlotStep(c, k)
  BY <1>2 DEF SlotStep
<1>6. faults' \in Nat /\ crashes' \in Nat /\ leaves' \in Nat
  BY Streaming DEF budget
<1>7. /\ last' = [last EXCEPT ![c] = last[c]] /\ gone' = [gone EXCEPT ![c] = gone[c]]
      /\ last[c] \in Received /\ gone[c] \in BOOLEAN /\ now' = now
      /\ SessionSound(session', now) /\ Onward(session, now, session', now)
  BY Streaming
<1>8. StreamSound(k, last[c], gone[c], session', now)
  BY <1>4
<1>. QED
  BY <1>2, <1>5, <1>6, <1>7, <1>8, StreamStep

LEMMA StartStreamGoes ==
  ASSUME SInv, NEW c \in Clients, StartStream(c)
  PROVE  Goes
<1>1. conn' = [conn EXCEPT ![c] = [conn[c] EXCEPT !.pc = "sending"]]
  BY Streaming DEF StartStream
<1>. QED
  BY <1>1, MoveStep DEF StartStream

LEMMA AbandonGoes ==
  ASSUME SInv, NEW c \in Clients, Abandon(c)
  PROVE  Goes
<1>1. conn' = [conn EXCEPT ![c] = [conn[c] EXCEPT !.pc = "abandoned"]]
  BY Streaming DEF Abandon
<1>. QED
  BY <1>1, MoveStep DEF Abandon

LEMMA EndBatchGoes ==
  ASSUME SInv, NEW c \in Clients, EndBatch(c)
  PROVE  Goes
<1>1. CASE conn[c].terminal
  <2>1. faults' \in Nat /\ crashes' \in Nat /\ leaves' \in Nat
    BY Streaming DEF EndBatch, budget
  <2>. QED
    BY <1>1, <2>1, CloseStep DEF EndBatch
<1>2. CASE ~ conn[c].terminal
  <2>1. conn' = [conn EXCEPT ![c] = [conn[c] EXCEPT !.pc = "sleeping"]]
    BY <1>2, Streaming DEF EndBatch
  <2>. QED
    BY <1>2, <2>1, MoveStep DEF EndBatch
<1>. QED
  BY <1>1, <1>2

\* The next event of a batch is the one after the last that was sent.
LEMMA NextEventFollows ==
  ASSUME SInv, NEW c \in Clients, conn[c].pc = "sending", conn[c].queue # {}
  PROVE  NextEvent(c) = conn[c].lastId + 1 /\ conn[c].lastId + 1 \in conn[c].queue
<1>1. PICK top \in Received : Batch(conn[c], top, session, now)
  BY Started
<1>2. conn[c].lastId \in Int /\ top \in Int
  BY Started, ConstantsTyped DEF Received, EventId, NoEvent
<1>3. conn[c].queue = (conn[c].lastId + 1) .. top
  BY <1>1 DEF Batch
<1>4. /\ conn[c].lastId + 1 \in conn[c].queue
      /\ \A j \in conn[c].queue : conn[c].lastId + 1 <= j /\ j \in Int
  BY <1>2, <1>3
<1>5. \A i \in conn[c].queue :
        (\A j \in conn[c].queue : i <= j) => i = conn[c].lastId + 1
  BY <1>2, <1>4
<1>6. /\ NextEvent(c) \in conn[c].queue
      /\ \A j \in conn[c].queue : NextEvent(c) <= j
  BY <1>4, Zenon DEF NextEvent
<1>. QED
  BY <1>4, <1>5, <1>6

LEMMA SendEventGoes ==
  ASSUME SInv, NEW c \in Clients, SendEvent(c)
  PROVE  Goes
<1> DEFINE i == conn[c].lastId + 1
           k == [conn[c] EXCEPT !.lastId = i, !.queue = conn[c].queue \ {i}]
<1>1. conn[c] \in Connection /\ StreamSound(conn[c], last[c], gone[c], session, now)
      /\ conn[c].pc = "sending" /\ conn[c].queue # {} /\ ~ gone[c]
  BY Streaming DEF SendEvent
<1>2. NextEvent(c) = i /\ i \in conn[c].queue /\ i \in EventId
  BY <1>1, NextEventFollows DEF Connection
<1>3. /\ k \in Connection /\ k.pc = "sending" /\ k.lastId = i
      /\ k.queue = conn[c].queue \ {i} /\ k.terminal = conn[c].terminal
      /\ k.wake = conn[c].wake /\ k.gen = conn[c].gen
  BY <1>1, <1>2 DEF Connection
<1>4. conn' = [conn EXCEPT ![c] = k]
  BY <1>2, Streaming DEF SendEvent
<1>5. last[c] + 1 = i
  <2>1. last[c] = conn[c].lastId
    BY <1>1, Started DEF StreamSound
  <2>. QED
    BY <2>1
<1> HIDE DEF k
<1>6. \E top \in Received : Batch(k, top, session, now)
  <2>1. PICK top \in Received : Batch(conn[c], top, session, now)
    BY <1>1, Started
  <2>2. conn[c].lastId \in Int /\ top \in Int
    BY <1>1, Started, ConstantsTyped DEF Received, EventId, NoEvent
  <2>3. conn[c].queue = i .. top
    BY <2>1 DEF Batch
  <2>4. k.queue = (i + 1) .. top /\ i <= top
    BY <1>2, <1>3, <2>2, <2>3
  <2>5. k.queue \subseteq conn[c].queue
    BY <1>3
  <2>6. Batch(k, top, session, now)
    BY <1>3, <2>1, <2>4, <2>5 DEF Batch
  <2>. QED
    BY <2>6
<1>7. ASSUME NEW l, NEW g, ~ g => l = i
      PROVE  StreamSound(k, l, g, session, now)
  BY <1>1, <1>3, <1>6, <1>7 DEF StreamSound
<1>8. SlotStep(c, k)
  BY <1>1, <1>3 DEF SendEvent, SlotStep
<1>9. i \in Received
  BY <1>2 DEF Received
<1>10. UNCHANGED <<session, now>> /\ faults' \in Nat /\ crashes' \in Nat
  BY Streaming DEF SendEvent
<1>11. CASE last' = [last EXCEPT ![c] = i] /\ UNCHANGED <<gone, leaves>>
  <2>1. gone' = [gone EXCEPT ![c] = gone[c]] /\ leaves' \in Nat
    BY <1>11, Streaming
  <2> HIDE DEF i
  <2>. QED
    BY <1>3, <1>4, <1>5, <1>7, <1>8, <1>9, <1>10, <1>11, <2>1, Streaming, StreamStep
<1>12. CASE leaves' = leaves + 1 /\ gone' = [gone EXCEPT ![c] = TRUE] /\ UNCHANGED last
  <2>1. last' = [last EXCEPT ![c] = last[c]] /\ leaves' \in Nat
    BY <1>12, Streaming
  <2> HIDE DEF i
  <2>. QED
    BY <1>3, <1>4, <1>7, <1>8, <1>10, <1>12, <2>1, Streaming, StreamStep
<1>. QED
  BY <1>2, <1>11, <1>12 DEF SendEvent

LEMMA ClientLeavesGoes ==
  ASSUME SInv, NEW c \in Clients, ClientLeaves(c)
  PROVE  Goes
<1>1. StreamSound(conn[c], last[c], TRUE, session, now)
  BY Streaming DEF StreamSound
<1>2. SlotStep(c, conn[c]) /\ UNCHANGED <<session, now, conn, last>>
  BY DEF ClientLeaves, SlotStep
<1>3. faults' \in Nat /\ crashes' \in Nat /\ leaves' \in Nat
  BY Streaming DEF ClientLeaves
<1>4. gone' = [gone EXCEPT ![c] = TRUE]
  BY DEF ClientLeaves
<1>. QED
  BY <1>1, <1>2, <1>3, <1>4, Streaming, StreamStep

\* Session and clock go on, the streams do nothing.
LEMMA WorldStep ==
  ASSUME SInv, SessionSound(session', now'), Onward(session, now, session', now'),
         UNCHANGED <<active, conn, last, gone, budget>>
  PROVE  Goes
<1>1. \A c \in Clients : StreamSound(conn[c], last[c], gone[c], session', now')
  BY Streaming, StreamGoesOn
<1>. QED
  BY <1>1 DEF SInv, Goes, InOrder, Typed, StreamsSound, Slots, Open, budget

LEMMA OtherReaderGoes ==
  ASSUME SInv, OtherReader
  PROVE  Goes
<1>1. SessionSound(session, now) /\ PersistCompleted /\ now' = now
  BY DEF SInv, OtherReader
<1>2. SessionSound(session', now) /\ Onward(session, now, session', now)
  BY <1>1, PersistSound
<1>. QED
  BY <1>1, <1>2, WorldStep DEF OtherReader

LEMMA RestartGoes ==
  ASSUME SInv, Restart
  PROVE  Goes
<1>1. session \in Session /\ now \in Nat
  BY DEF SInv, SessionSound
<1>2. /\ session' = [status |-> "REPLAYING", started |-> now, gen |-> session.gen + 1]
      /\ now' = now
  BY DEF Restart
<1>3. SessionSound(session', now') /\ Onward(session, now, session', now')
  BY <1>1, <1>2 DEF SessionSound, Onward, Session
<1>. QED
  BY <1>3, WorldStep DEF Restart

LEMMA TickGoes ==
  ASSUME SInv, Tick
  PROVE  Goes
<1>1. /\ session \in Session /\ session' = session /\ now \in Nat /\ now' = now + 1
      /\ session.started <= now /\ session.started \in Nat
  BY DEF SInv, SessionSound, Session, Tick
<1>2. /\ Age(session, now) <= Age(session, now') /\ Age(session, now) \in Int
      /\ Age(session, now') \in Int /\ now' \in Nat
  BY <1>1, AgeGrows
<1>3. Instant(SampleCount - 1) \in Int
  BY ConstantsTyped
<1>4. SessionSound(session', now') /\ Onward(session, now, session', now')
  BY <1>1, <1>2, <1>3 DEF SInv, SessionSound, Onward
<1>. QED
  BY <1>4, WorldStep DEF Tick

LEMMA CrashGoes ==
  ASSUME SInv, Crash
  PROVE  Goes
<1>1. session \in Session /\ SessionSound(session, now) /\ Typed
  BY DEF SInv, SessionSound
<1>2. conn' = [c \in Clients |-> Closed]
      /\ UNCHANGED <<session, now, last, gone, faults, leaves>>
      /\ active' = 0 /\ crashes' = crashes + 1
  BY DEF Crash
<1>3. Closed \in Connection /\ Closed.pc = "closed"
      /\ \A c \in Clients : StreamSound(Closed, last[c], gone[c], session, now)
  BY <1>1, ClosedSound
<1>4. Typed' /\ StreamsSound' /\ InOrder
  BY <1>1, <1>2, <1>3 DEF Typed, StreamsSound, InOrder
<1>5. Slots'
  <2>1. Open' = {}
    BY <1>2, <1>3 DEF Open
  <2>. QED
    BY <1>2, <2>1, FS_EmptySet, ConstantsTyped DEF Slots
<1>. QED
  BY <1>1, <1>2, <1>4, <1>5 DEF SInv, Goes

LEMMA NextGoes == SInv /\ [Next]_vars => Goes
<1>. SUFFICES ASSUME SInv, [Next]_vars PROVE Goes
  OBVIOUS
<1>1. ASSUME NEW c \in Clients, Stream(c) PROVE Goes
  BY <1>1, PreflightGoes, StartStreamGoes, SendEventGoes, EndBatchGoes, PollGoes,
     EndingsGo DEF Stream
<1>2. ASSUME NEW c \in Clients, Abandon(c) \/ ClientLeaves(c)
      PROVE  Goes
  BY <1>2, AbandonGoes, ClientLeavesGoes
<1>3. ASSUME NEW c \in Clients, NEW id \in {last[c], NoEvent, SampleCount + 1},
             Connect(c, id)
      PROVE  Goes
  BY <1>3, ConnectGoes
<1>4. CASE OtherReader \/ Restart \/ Crash \/ Tick
  BY <1>4, OtherReaderGoes, RestartGoes, CrashGoes, TickGoes
<1>5. CASE UNCHANGED vars
  BY <1>5 DEF vars, Goes, InOrder, SInv, Typed, StreamsSound, Slots, Open
<1>. QED
  BY <1>1, <1>2, <1>3, <1>4, <1>5 DEF Next

LEMMA Invariance == Spec => []SInv
<1>1. SInv /\ [Next]_vars => SInv'
  BY NextGoes DEF Goes
<1>. QED
  BY InitSInv, <1>1, PTL DEF Spec

----------------------------------------------------------------------------
(* The theorems *)

\* Session, streams, clients and the limiter's count keep their types; the
\* count never goes below zero.
THEOREM StreamsTyped == Spec => []TypeOK
<1>1. SInv => TypeOK
  <2>. SUFFICES ASSUME SInv PROVE TypeOK
    OBVIOUS
  <2>1. active \in Nat
    BY FS_CardinalityType DEF SInv, Slots
  <2>. QED
    BY <2>1 DEF SInv, Typed, SessionSound, Session, Received, TypeOK
<1>. QED
  BY Invariance, <1>1, PTL

\* The limiter's count is that of the open streams, whatever ends them and in
\* whatever order, and there are never more streams than slots.
THEOREM SlotsKept == Spec => []SlotsAccounted
<1>1. SInv => SlotsAccounted
  BY DEF SInv, Slots, SlotsAccounted
<1>. QED
  BY Invariance, <1>1, PTL

\* No stream is ahead of the clock or of the stored session, none sleeps past the
\* next sample or the heartbeat: for every interval, heartbeat and resolution.
THEOREM StreamsOnTime == Spec => []OnTime
<1>1. SInv => OnTime
  <2>. SUFFICES ASSUME SInv PROVE OnTime
    OBVIOUS
  <2>1. ASSUME NEW i \in Int
        PROVE  i * IntervalMs * UsPerMs = Instant(i)
    BY StreamAssumption DEF Instant, UsPerMs
  <2>2. ASSUME NEW c \in Clients, conn[c].pc \notin {"closed", "accepted"}
        PROVE  \E top \in Received : Batch(conn[c], top, session, now)
    BY <2>2, Started
  <2>3. NothingEarly
    <3>1. ASSUME NEW c \in Clients, conn[c].gen = session.gen,
                 NEW i \in conn[c].queue \cap 0 .. (SampleCount - 1)
          PROVE  (now - session.started) * QuantumUs >= i * IntervalMs * UsPerMs
      <4>1. conn[c].pc \notin {"closed", "accepted"}
        BY <3>1, Streaming DEF StreamSound
      <4>2. Age(session, now) >= Instant(i)
        BY <2>2, <3>1, <4>1 DEF Batch
      <4>3. i \in Int
        BY ConstantsTyped
      <4>. QED
        BY <2>1, <4>2, <4>3 DEF Age
    <3>2. ASSUME NEW c \in Clients, SampleCount \in conn[c].queue
          PROVE  session.status = "COMPLETED" \/ session.gen > conn[c].gen
      <4>1. conn[c].pc \notin {"closed", "accepted"}
        BY <3>2, Streaming DEF StreamSound
      <4>. QED
        BY <2>2, <3>2, <4>1 DEF Batch
    <3>. QED
      BY <3>1, <3>2 DEF NothingEarly
  <2>4. ASSUME NEW c \in Clients, conn[c].pc = "sleeping"
        PROVE  /\ (conn[c].wake - now) * QuantumUs <= HeartbeatMs * UsPerMs
               /\ conn[c].gen = session.gen =>
                    (conn[c].wake - session.started) * QuantumUs
                      < (conn[c].lastId + 1) * IntervalMs * UsPerMs + UsPerMs
    <3>1. PICK top \in Received : Batch(conn[c], top, session, now)
      BY <2>2, <2>4
    <3>2. conn[c].queue = {} /\ ~ conn[c].terminal
      BY <2>4, Streaming DEF StreamSound
    <3>3. top \in Int /\ conn[c].lastId \in Int
      BY <2>4, Started, ConstantsTyped DEF Received, EventId, NoEvent
    <3>4. top = conn[c].lastId
      <4>1. conn[c].lastId <= top /\ (conn[c].lastId + 1) .. top = {}
        BY <3>1, <3>2 DEF Batch
      <4>. QED
        BY <3>3, <4>1
    <3>5. conn[c].gen = session.gen =>
            Age(session, conn[c].wake) < Instant(conn[c].lastId + 1) + UsPerMs
      BY <3>1, <3>2, <3>4 DEF Batch
    <3>6. conn[c].lastId + 1 \in Int
      BY <3>3
    <3>. QED
      BY <2>1, <3>1, <3>5, <3>6 DEF Age, Batch
  <2>. QED
    BY <2>3, <2>4 DEF OnTime, WakesInTime
<1>. QED
  BY Invariance, <1>1, PTL

\* A client that comes back with the last id it received gets every event once
\* and in order, whatever errors, crashes and restarts come between.
THEOREM EventsInOrder == Spec => InOrderExactlyOnce
<1>1. SInv /\ [Next]_vars
        => [\A c \in Clients :
              \/ last'[c] \in {last[c], last[c] + 1}
              \/ last'[c] = NoEvent /\ conn[c].pc = "closed"]_vars
  BY NextGoes DEF Goes, InOrder
<1>. QED
  BY Invariance, <1>1, PTL DEF Spec, InOrderExactlyOnce

=============================================================================
