------------------------ MODULE PlanExecutionProofs ------------------------
(***************************************************************************)
(* Proofs about PlanExecution for every roster, plan, communication window *)
(* and duration that the scenario and plan formats allow, and every course *)
(* of health, work pace and habitat.                                       *)
(***************************************************************************)
EXTENDS PlanExecution, WellFoundedInduction, TLAPS

----------------------------------------------------------------------------
(* The inductive invariant *)

\* What was started is an action of the plan, once and at its minute.
Starts ==
  /\ \A k \in DOMAIN active :
       /\ active[k].action \in DOMAIN plan
       /\ active[k].start = plan[active[k].action].start
       /\ active[k].start <= time
  /\ \A k, l \in DOMAIN active : active[k].action = active[l].action => k = l
  /\ phase = "validate" => active = <<>> /\ time = 0

Begins(i) == \E k \in DOMAIN active : active[k].action = i

\* The clock is on its grid, and what lies behind it was started.
NoneMissed ==
  phase \in {"start", "eva", "update"} =>
    /\ Accepted(plan) /\ time % StepMin = 0
    /\ \A i \in DOMAIN plan :
         /\ plan[i].start < time \/ (phase # "start" /\ plan[i].start = time)
         /\ plan[i].start % StepMin = 0
         => Begins(i)

\* The rover is held by a delay; a delay that updateActiveActions has passed and
\* left active still holds it.
Delays(k) == active[k].status = "Active" /\ plan[active[k].action].type = "delay_rover_use"

RoverHeld ==
  /\ rover.available <=> rover.until = 0
  /\ ~ rover.available => InProgress("delay_rover_use")
  /\ \A k \in DOMAIN active :
       Delays(k) /\ (phase = "update" => k < at) =>
         ~ rover.available /\ (phase = "update" => time < rover.until)

RadioOn == radio.load = "transmission" => InProgress("send_emergency_packet")

\* Nobody leaves before the plan is accepted.
NobodyOutYet == phase = "validate" => \A c \in Crew : crew[c].eva \notin OnEva

\* The hold is the time simulated since the conditions were last not met.
HoldCounted ==
  /\ phase # "done" => hold = Simulated(time - unsafeAt) - TimeStep /\ outcome = "none"
  /\ HoldUnbroken

\* Minutes of the clock that the EVA clocks have been advanced through.
Clocked == IF phase \in {"validate", "start", "eva"} THEN time ELSE time + StepMin

Ran(b) == Simulated(Clocked - b)     \* seconds simulated since minute b

\* Ingress after the repair, in seconds; before, the work clock does not count.
ReturnWork == IF Repaired THEN Seconds(clock.work) ELSE 0

Outward == Seconds(PreparationMin + EgressMin)

\* The clocks run no faster than the time simulated since the last repair was
\* started, and no work is done before the phases since some repair allow it.
RepairTimed ==
  /\ (\E c \in Crew : crew[c].eva \in OnEva) \/ clock.progress > 0 => Begun # {}
  /\ \A b \in Begun : /\ Seconds(clock.eva) <= Ran(b)
                      /\ clock.progress + ReturnWork <= Ran(b)
  /\ (\E c \in Crew : crew[c].eva = "Working") \/ clock.progress > 0 =>
       \E b \in Begun : Outward + clock.progress + ReturnWork <= Ran(b)

----------------------------------------------------------------------------
(* Least and greatest members *)

LEMMA LeastMember ==
  ASSUME NEW S, S \subseteq Nat, S # {}
  PROVE  Min(S) \in S /\ \A y \in S : Min(S) <= y
<1>. DEFINE Less == {p \in Nat \X Nat : p[1] < p[2]}
<1>0. IsWellFoundedOn(Less, Nat)
  BY NatLessThanWellFounded DEF OpToRel
<1>. HIDE DEF Less
<1>1. PICK x \in S : \A y \in S : <<y, x>> \notin Less
  BY <1>0, WFMin
<1>2. ASSUME NEW y \in S PROVE x <= y
  <2>1. x \in Nat /\ y \in Nat /\ <<y, x>> \notin Less
    BY <1>1
  <2>2. ~ (y < x)
    BY <2>1 DEF Less
  <2>. QED BY <2>1, <2>2
<1>. QED BY <1>2 DEF Min

LEMMA GreatestMember ==
  ASSUME NEW S, S \subseteq Nat, S # {}, NEW bound \in Nat, \A y \in S : y <= bound
  PROVE  Max(S) \in S /\ \A y \in S : y <= Max(S)
<1>. DEFINE Below == {bound - y : y \in S}
<1>1. Below \subseteq Nat /\ Below # {}
  <2>1. \A y \in S : bound - y \in Nat
    OBVIOUS
  <2>. QED BY <2>1
<1>2. PICK x \in S : Min(Below) = bound - x
  BY <1>1, LeastMember
<1>3. \A y \in S : bound - x <= bound - y
  BY <1>1, <1>2, LeastMember
<1>4. \A y \in S : x >= y
  BY <1>3
<1>. QED BY <1>4 DEF Max

LEMMA SmallerOfTwo ==
  ASSUME NEW a \in Int, NEW b \in Int
  PROVE  Min({a, b}) = IF a <= b THEN a ELSE b
BY DEF Min

LEMMA LargerOfTwo ==
  ASSUME NEW a \in Int, NEW b \in Int
  PROVE  Max({a, b}) = IF a <= b THEN b ELSE a
BY DEF Max

----------------------------------------------------------------------------
(* The shape of an action of the plan *)

LEMMA PlanTyped ==
  ASSUME TypeOK
  PROVE  /\ plan \in Seq(Action) /\ DOMAIN plan \subseteq Nat \ {0}
         /\ \A i \in DOMAIN plan :
              /\ plan[i].start \in Int
              /\ plan[i].type = "delay_rover_use" => plan[i].minutes \in Nat
<1>1. plan \in Seq(Action)
  BY PlanAssumption DEF TypeOK
<1>2. \A i \in DOMAIN plan : plan[i] \in Action
  BY <1>1
<1>3. \A a \in Action :
        a.start \in Int /\ (a.type = "delay_rover_use" => a.minutes \in Nat)
  BY DEF Action
<1>. QED BY <1>1, <1>2, <1>3

LEMMA Durations ==
  /\ CrewSize \in Nat \ {0} /\ Qualified \subseteq Crew
  /\ PreparationMin \in Nat /\ EgressMin \in Nat /\ IngressMin \in Nat
  /\ ReserveMin \in Nat /\ RoverReserve \in Nat /\ TransmissionMin \in Nat
  /\ HoldMin \in Nat /\ CutsNeeded \in Nat
  /\ RepairWorkMin \in Nat \ {0} /\ MaxEvaMin \in Nat \ {0}
  /\ MaxMin \in Nat \ {0} /\ TimeStep \in Nat \ {0} /\ Paces \subseteq 0 .. TimeStep
  /\ 0 \notin Crew /\ Crew \subseteq Nat
BY PlanAssumption DEF Crew

\* The three counts of a step, and minutes as seconds.
LEMMA StepCounts ==
  /\ TimeStep \in Nat \ {0} /\ StepMin \in Nat \ {0} /\ WholeMin \in Nat
  /\ Seconds(WholeMin) <= TimeStep
  /\ Seconds(RepairWorkMin) \in Nat \ {0} /\ Seconds(MaxEvaMin) \in Nat \ {0}
  /\ Paces \subseteq 0 .. TimeStep
<1>1. TimeStep \in Nat \ {0} /\ Paces \subseteq 0 .. TimeStep
      /\ RepairWorkMin \in Nat \ {0} /\ MaxEvaMin \in Nat \ {0}
  BY Durations
<1>2. TimeStep \div 60 \in Nat /\ 60 * (TimeStep \div 60) <= TimeStep
  BY <1>1
<1>3. StepMin = IF 1 <= TimeStep \div 60 THEN TimeStep \div 60 ELSE 1
  BY <1>2, LargerOfTwo DEF StepMin
<1>. QED BY <1>1, <1>2, <1>3 DEF WholeMin, Seconds

LEMMA ClocksTyped ==
  ASSUME TypeOK
  PROVE  /\ clock.eva \in Nat /\ clock.work \in Nat
         /\ clock.progress \in 0 .. Seconds(RepairWorkMin)
         /\ restored \in BOOLEAN /\ crew \in [Crew -> [eva : Eva, health : Health]]
BY DEF TypeOK

LEMMA TimeTyped ==
  ASSUME TypeOK
  PROVE  time \in Nat
<1>1. time \in 0 .. MaxMin + StepMin - 1
  BY DEF TypeOK
<1>. QED BY <1>1

LEMMA Appended ==
  ASSUME NEW T, NEW s \in Seq(T), NEW e \in T, NEW t, t = Append(s, e)
  PROVE  /\ t \in Seq(T) /\ DOMAIN s \subseteq DOMAIN t
         /\ Len(t) = Len(s) + 1 /\ Len(s) \in Nat
         /\ DOMAIN t = DOMAIN s \cup {Len(s) + 1} /\ Len(s) + 1 \notin DOMAIN s
         /\ t[Len(s) + 1] = e /\ \A k \in DOMAIN s : t[k] = s[k]
OBVIOUS

LEMMA InitTyped == Init => TypeOK
<1>1. <<>> \in Seq(ActionState) /\ 1 \in 1 .. Len(<<>>) + 1
  OBVIOUS
<1>2. [c \in Crew |-> [eva |-> "Idle", health |-> "Fit"]]
        \in [Crew -> [eva : Eva, health : Health]]
  BY DEF Eva, Health
<1>. SUFFICES ASSUME Init PROVE TypeOK
  OBVIOUS
<1>. USE Durations, StepCounts DEF Init
<1>3. plan \in Plans /\ phase \in {"validate", "start", "eva", "update", "done"}
      /\ time \in 0 .. MaxMin + StepMin - 1 /\ unsafeAt \in -StepMin .. MaxMin + StepMin - 1
  OBVIOUS
<1>4. active \in Seq(ActionState) /\ at \in 1 .. Len(active) + 1
  BY <1>1
<1>5. clock \in [eva : Nat, work : Nat, progress : 0 .. Seconds(RepairWorkMin)]
  OBVIOUS
<1>6. rover \in [charge : 0 .. Seconds(MaxEvaMin), available : BOOLEAN, until : Nat]
  OBVIOUS
<1>7. radio \in [load : {"configured", "transmission"}, elapsed : Nat, sent : BOOLEAN]
  OBVIOUS
<1>. QED BY <1>2, <1>3, <1>4, <1>5, <1>6, <1>7 DEF TypeOK

----------------------------------------------------------------------------
(* Type correctness *)

\* What starting an action appends.
LEMMA StartAppends ==
  ASSUME TypeOK, NEW i \in DOMAIN plan, time \in Nat,
         NEW c \in Crew \cup {NoCrew}, NEW status \in {"Active", "Complete", "Failed"},
         Started(i, c, status)
  PROVE  /\ active' \in Seq(ActionState) /\ Len(active') = Len(active) + 1
         /\ DOMAIN active' = DOMAIN active \cup {Len(active) + 1}
         /\ Len(active) + 1 \notin DOMAIN active
         /\ active'[Len(active) + 1] =
              [action |-> i, start |-> time, crew |-> c, status |-> status]
         /\ \A k \in DOMAIN active : active'[k] = active[k]
<1>. DEFINE new == [action |-> i, start |-> time, crew |-> c, status |-> status]
<1>1. new \in ActionState
  BY PlanTyped DEF ActionState
<1>2. active \in Seq(ActionState) /\ active' = Append(active, new)
  BY DEF TypeOK, Started
<1>. HIDE DEF new
<1>3. /\ active' \in Seq(ActionState) /\ Len(active') = Len(active) + 1
      /\ DOMAIN active' = DOMAIN active \cup {Len(active) + 1}
      /\ Len(active) + 1 \notin DOMAIN active
      /\ active'[Len(active) + 1] = new
      /\ \A k \in DOMAIN active : active'[k] = active[k]
  BY <1>1, <1>2, Appended
<1>. QED BY <1>3 DEF new

\* Every action started is of one kind, and leaves the rest of the world alone.
LEMMA StartFrame ==
  ASSUME TypeOK, NEW i \in DOMAIN plan, StartAction(i)
  PROVE  /\ phase = "start" /\ Due(i)
         /\ UNCHANGED <<plan, phase, time, at, restored, hold, outcome, unsafeAt>>
         /\ \E c \in Crew \cup {NoCrew}, status \in {"Active", "Complete", "Failed"} :
              Started(i, c, status)
<1>1. phase = "start" /\ Due(i)
      /\ UNCHANGED <<plan, phase, time, at, hold, outcome, unsafeAt>>
  BY DEF StartAction, Scheduled, verdict
<1>2. CASE StartImmediate(i)
  BY <1>1, <1>2 DEF StartImmediate
<1>3. CASE StartRepair(i)
  BY <1>1, <1>3, Durations, StepCounts DEF StartRepair, MayGo
<1>4. CASE StartDelay(i)
  BY <1>1, <1>4 DEF StartDelay
<1>5. CASE StartPacket(i)
  BY <1>1, <1>5 DEF StartPacket
<1>. QED BY <1>2, <1>3, <1>4, <1>5 DEF StartAction

LEMMA StartTyped ==
  ASSUME TypeOK, NEW i \in DOMAIN plan, StartAction(i)
  PROVE  TypeOK'
<1>1. /\ UNCHANGED <<plan, phase, time, at, restored, hold, outcome, unsafeAt>>
      /\ \E c \in Crew \cup {NoCrew}, status \in {"Active", "Complete", "Failed"} :
           Started(i, c, status)
  BY StartFrame
<1>2. time \in Nat /\ at \in 1 .. Len(active) + 1 /\ active \in Seq(ActionState)
      /\ rover \in [charge : 0 .. Seconds(MaxEvaMin), available : BOOLEAN, until : Nat]
  BY Durations, StepCounts DEF TypeOK
<1>3. active' \in Seq(ActionState) /\ at' \in 1 .. Len(active') + 1
  <2>1. active' \in Seq(ActionState) /\ Len(active') = Len(active) + 1
    BY <1>1, <1>2, StartAppends
  <2>. QED BY <1>1, <1>2, <2>1
<1>4. /\ crew' \in [Crew -> [eva : Eva, health : Health]]
      /\ clock' \in [eva : Nat, work : Nat, progress : 0 .. Seconds(RepairWorkMin)]
  <2>1. ClocksReset \in [eva : Nat, work : Nat, progress : 0 .. Seconds(RepairWorkMin)]
    BY Durations, StepCounts DEF ClocksReset
  <2>2. UNCHANGED crew \/ \E c : crew' = [crew EXCEPT ![c].eva = "Preparing"]
    BY DEF StartAction, StartImmediate, StartRepair, StartDelay, StartPacket
  <2>3. UNCHANGED clock \/ clock' = ClocksReset
    BY DEF StartAction, StartImmediate, StartRepair, StartDelay, StartPacket
  <2>4. /\ crew \in [Crew -> [eva : Eva, health : Health]]
        /\ clock \in [eva : Nat, work : Nat, progress : 0 .. Seconds(RepairWorkMin)]
    BY DEF TypeOK
  <2>5. "Preparing" \in Eva
    BY DEF Eva, OnEva, Working
  <2>6. crew' \in [Crew -> [eva : Eva, health : Health]]
    BY <2>2, <2>4, <2>5
  <2>. QED BY <2>1, <2>3, <2>4, <2>6
<1>5. rover' \in [charge : 0 .. Seconds(MaxEvaMin), available : BOOLEAN, until : Nat]
  <2>1. \/ UNCHANGED rover
        \/ /\ plan[i].type = "delay_rover_use"
           /\ rover' = [rover EXCEPT !.available = FALSE, !.until = time + plan[i].minutes]
    BY DEF StartAction, StartImmediate, StartRepair, StartDelay, StartPacket
  <2>2. plan[i].type = "delay_rover_use" => time + plan[i].minutes \in Nat
    BY <1>2, PlanTyped
  <2>. QED BY <1>2, <2>1, <2>2
<1>6. radio' \in [load : {"configured", "transmission"}, elapsed : Nat, sent : BOOLEAN]
  <2>1. \/ UNCHANGED radio
        \/ radio' = [radio EXCEPT !.load = "transmission", !.elapsed = 0]
    BY DEF StartAction, StartImmediate, StartRepair, StartDelay, StartPacket
  <2>. DEFINE Load == {"configured", "transmission"}
  <2>2. radio \in [load : Load, elapsed : Nat, sent : BOOLEAN] /\ "transmission" \in Load
    BY DEF TypeOK
  <2>. HIDE DEF Load
  <2>3. [radio EXCEPT !.load = "transmission", !.elapsed = 0]
          \in [load : Load, elapsed : Nat, sent : BOOLEAN]
    BY <2>2
  <2>4. radio' \in [load : Load, elapsed : Nat, sent : BOOLEAN]
    BY <2>1, <2>2, <2>3
  <2>. QED BY <2>4 DEF Load
<1>7. leakCuts' \in Nat
  <2>1. UNCHANGED leakCuts \/ leakCuts' = leakCuts + 1
    BY DEF StartAction, StartImmediate, StartRepair, StartDelay, StartPacket
  <2>. QED BY <2>1 DEF TypeOK
<1>. QED BY <1>1, <1>3, <1>4, <1>5, <1>6, <1>7 DEF TypeOK

LEMMA ChargeTyped ==
  ASSUME TypeOK
  PROVE  Charge \in 0 .. Seconds(MaxEvaMin)
<1>1. rover.charge \in 0 .. Seconds(MaxEvaMin)
  BY DEF TypeOK
<1>2. Max({0, rover.charge - TimeStep}) = IF 0 <= rover.charge - TimeStep
                                      THEN rover.charge - TimeStep ELSE 0
  BY <1>1, StepCounts, LargerOfTwo
<1>. QED BY <1>1, <1>2, StepCounts DEF Charge

\* One phase of the EVA, on the clocks that this step leaves.
LEMMA AdvanceTyped ==
  ASSUME TypeOK, NEW c \in Crew, NEW from, NEW to \in Eva, NEW work \in Nat,
         NEW progress \in 0 .. Seconds(RepairWorkMin), Advance(c, from, to, work, progress),
         restored' \in BOOLEAN
  PROVE  TypeOK'
<1>0. clock.eva + WholeMin \in Nat
  BY StepCounts, ClocksTyped
<1>1. /\ phase' = "update" /\ at' = 1
      /\ UNCHANGED <<plan, time, active, radio, leakCuts, hold, outcome, unsafeAt>>
  BY DEF Advance, EvaPhase, verdict
<1>2. at' \in 1 .. Len(active') + 1
  BY <1>1 DEF TypeOK
<1>3. clock' \in [eva : Nat, work : Nat, progress : 0 .. Seconds(RepairWorkMin)]
  BY <1>0 DEF Advance
<1>4. crew' \in [Crew -> [eva : Eva, health : Health]]
  <2>1. crew' = [crew EXCEPT ![c].eva = to]
    BY DEF Advance
  <2>2. crew \in [Crew -> [eva : Eva, health : Health]]
    BY DEF TypeOK
  <2>. QED BY <2>1, <2>2
<1>5. rover' \in [charge : 0 .. Seconds(MaxEvaMin), available : BOOLEAN, until : Nat]
  <2>1. rover' = [rover EXCEPT !.charge = Charge]
    BY DEF Advance
  <2>. QED BY <2>1, ChargeTyped DEF TypeOK
<1>. QED BY <1>1, <1>2, <1>3, <1>4, <1>5 DEF TypeOK

LEMMA ProgressTyped ==
  ASSUME TypeOK, NEW pace \in Paces
  PROVE  /\ Min({Seconds(RepairWorkMin), clock.progress + pace}) \in 0 .. Seconds(RepairWorkMin)
         /\ Min({Seconds(RepairWorkMin), clock.progress + pace}) <= clock.progress + TimeStep
<1>1. clock.progress \in 0 .. Seconds(RepairWorkMin)
  BY DEF TypeOK
<1>. QED BY <1>1, Durations, StepCounts, SmallerOfTwo

LEMMA WorkTyped ==
  ASSUME TypeOK, NEW c \in Crew
  PROVE  /\ Now(c).work \in Nat /\ Now(c).work <= clock.work
         /\ Now(c).eva \in {"Ingress", crew[c].eva}
BY DEF Now, TypeOK

LEMMA EvaTyped ==
  ASSUME TypeOK, EvaStep
  PROVE  TypeOK'
<1>0. clock.work \in Nat /\ clock.progress \in 0 .. Seconds(RepairWorkMin) /\ restored \in BOOLEAN
      /\ WholeMin \in Nat /\ clock.work + WholeMin \in Nat /\ 0 \in Nat
  BY StepCounts, ClocksTyped
<1>. USE DEF Eva, OnEva, Working
<1>1. CASE NobodyOut \/ AbortEva
  <2>1. /\ phase' = "update" /\ at' = 1
        /\ UNCHANGED <<plan, time, active, radio, leakCuts, hold, outcome, unsafeAt,
                       clock, rover, restored>>
    BY <1>1 DEF NobodyOut, AbortEva, EvaPhase, verdict
  <2>2. UNCHANGED crew \/ \E c : crew' = [crew EXCEPT ![c].eva = "Aborted"]
    BY <1>1 DEF NobodyOut, AbortEva
  <2>3. crew' \in [Crew -> [eva : Eva, health : Health]]
    <3>1. crew \in [Crew -> [eva : Eva, health : Health]] /\ "Aborted" \in Eva
      BY DEF TypeOK
    <3>. QED BY <2>2, <3>1
  <2>4. at' \in 1 .. Len(active') + 1
    BY <2>1 DEF TypeOK
  <2>. QED BY <2>1, <2>3, <2>4 DEF TypeOK
<1>2. ASSUME NEW c \in Crew, Prepare(c) PROVE TypeOK'
  <2>. DEFINE to == IF clock.eva + WholeMin >= PreparationMin THEN "Egress" ELSE "Preparing"
  <2>1. Advance(c, "Preparing", to, clock.work, clock.progress) /\ UNCHANGED restored
    BY <1>2 DEF Prepare
  <2>. QED BY <1>0, <2>1, AdvanceTyped
<1>3. ASSUME NEW c \in Crew, Exit(c) PROVE TypeOK'
  <2>. DEFINE over == clock.eva + WholeMin >= PreparationMin + EgressMin
              to   == IF over THEN "Working" ELSE "Egress"
              work == IF over THEN 0 ELSE clock.work
  <2>1. Advance(c, "Egress", to, work, clock.progress) /\ UNCHANGED restored
    BY <1>3 DEF Exit
  <2>. QED BY <1>0, <2>1, AdvanceTyped
<1>4. ASSUME NEW c \in Crew, Repair(c) PROVE TypeOK'
  <2>1. PICK pace \in Paces :
          LET progress == Min({Seconds(RepairWorkMin), clock.progress + pace})
              over     == progress = Seconds(RepairWorkMin)
          IN  /\ Advance(c, "Working", IF over THEN "Ingress" ELSE "Working",
                         IF over THEN 0 ELSE clock.work + WholeMin, progress)
              /\ UNCHANGED restored
    BY <1>4 DEF Repair
  <2>. DEFINE progress == Min({Seconds(RepairWorkMin), clock.progress + pace})
              over     == progress = Seconds(RepairWorkMin)
              to       == IF over THEN "Ingress" ELSE "Working"
              work     == IF over THEN 0 ELSE clock.work + WholeMin
  <2>2. progress \in 0 .. Seconds(RepairWorkMin)
    BY ProgressTyped
  <2>3. Advance(c, "Working", to, work, progress) /\ UNCHANGED restored
    BY <2>1
  <2>4. to \in Eva /\ work \in Nat
    BY <1>0
  <2>. HIDE DEF progress, to, work
  <2>. QED BY <1>0, <2>2, <2>3, <2>4, AdvanceTyped
<1>5. ASSUME NEW c \in Crew, Return(c) PROVE TypeOK'
  <2>. DEFINE work == Now(c).work + WholeMin
              over == work >= IngressMin
              to   == IF over THEN "Complete" ELSE "Ingress"
  <2>1. /\ Advance(c, "Ingress", to, work, clock.progress)
        /\ restored' = (restored \/ (over /\ clock.progress = Seconds(RepairWorkMin)))
    BY <1>5 DEF Return, Repaired
  <2>2. work \in Nat
    BY <1>0, WorkTyped
  <2>3. restored' \in BOOLEAN
    BY <2>1
  <2>. HIDE DEF work
  <2>. QED BY <1>0, <2>1, <2>2, <2>3, AdvanceTyped
<1>. QED BY <1>1, <1>2, <1>3, <1>4, <1>5 DEF EvaStep

\* What updateActiveActions does with an action leaves the others as they are.
LEMMA UpdateFrame ==
  ASSUME TypeOK, NEW k \in DOMAIN active, NEW type,
         NEW status \in {"Active", "Complete", "Aborted"}, Updated(k, type, status)
  PROVE  /\ phase = "update" /\ at' = k + 1 /\ plan[active[k].action].type = type
         /\ UNCHANGED <<plan, phase, time, crew, clock, restored, leakCuts,
                        hold, outcome, unsafeAt>>
         /\ active' \in Seq(ActionState) /\ DOMAIN active' = DOMAIN active
         /\ Len(active') = Len(active)
         /\ \A j \in DOMAIN active :
              /\ active'[j].action = active[j].action
              /\ active'[j].start = active[j].start
              /\ active'[j].crew = active[j].crew
              /\ active'[j].status = IF j = k THEN status ELSE active[j].status
         /\ k \in Pending /\ \A j \in Pending : k <= j
<1>1. /\ phase = "update" /\ at' = k + 1 /\ plan[active[k].action].type = type
      /\ UNCHANGED <<plan, phase, time, crew, clock, restored, leakCuts,
                     hold, outcome, unsafeAt>>
      /\ active' = [active EXCEPT ![k].status = status]
      /\ Pending # {} /\ k = Min(Pending)
  BY DEF Updated, verdict
<1>2. active \in Seq(ActionState)
  BY DEF TypeOK
<1>3. active[k] \in ActionState
  BY <1>2
<1>4. [active[k] EXCEPT !.status = status] \in ActionState
  BY <1>3 DEF ActionState
<1>5. Pending \subseteq Nat
  BY <1>2 DEF Pending
<1>6. k \in Pending /\ \A j \in Pending : k <= j
  BY <1>1, <1>5, LeastMember
<1>7. /\ active' \in Seq(ActionState) /\ DOMAIN active' = DOMAIN active
      /\ Len(active') = Len(active)
      /\ \A j \in DOMAIN active : j # k => active'[j] = active[j]
      /\ active'[k] = [active[k] EXCEPT !.status = status]
  BY <1>1, <1>2, <1>4
<1>8. /\ active'[k].action = active[k].action /\ active'[k].start = active[k].start
      /\ active'[k].crew = active[k].crew /\ active'[k].status = status
  BY <1>3, <1>7 DEF ActionState
<1>. QED BY <1>1, <1>6, <1>7, <1>8

LEMMA UpdateTyped ==
  ASSUME TypeOK, NEW k \in DOMAIN active,
         UpdateDelay(k) \/ UpdatePacket(k) \/ UpdateRepair(k)
  PROVE  TypeOK'
<1>0. /\ active \in Seq(ActionState) /\ WholeMin \in Nat
      /\ rover \in [charge : 0 .. Seconds(MaxEvaMin), available : BOOLEAN, until : Nat]
      /\ radio \in [load : {"configured", "transmission"}, elapsed : Nat, sent : BOOLEAN]
  BY Durations, StepCounts DEF TypeOK
<1>. DEFINE kind == plan[active[k].action].type
<1>1. PICK status \in {"Active", "Complete", "Aborted"} : Updated(k, kind, status)
  <2>1. CASE UpdateDelay(k)
    BY <2>1 DEF UpdateDelay, Updated
  <2>2. CASE UpdatePacket(k)
    BY <2>2 DEF UpdatePacket, Updated
  <2>3. CASE UpdateRepair(k)
    BY <2>3 DEF UpdateRepair, Updated
  <2>. QED BY <2>1, <2>2, <2>3
<1>2. /\ at' = k + 1 /\ active' \in Seq(ActionState) /\ Len(active') = Len(active)
      /\ UNCHANGED <<plan, phase, time, crew, clock, restored, leakCuts,
                     hold, outcome, unsafeAt>>
  BY <1>1, UpdateFrame
<1>3. at' \in 1 .. Len(active') + 1
  BY <1>0, <1>2
<1>4. rover' \in [charge : 0 .. Seconds(MaxEvaMin), available : BOOLEAN, until : Nat]
  <2>1. UNCHANGED rover \/ rover' = [rover EXCEPT !.available = TRUE, !.until = 0]
    BY DEF UpdateDelay, UpdatePacket, UpdateRepair
  <2>2. [rover EXCEPT !.available = TRUE, !.until = 0]
          \in [charge : 0 .. Seconds(MaxEvaMin), available : BOOLEAN, until : Nat]
    BY <1>0
  <2>. QED BY <1>0, <2>1, <2>2
<1>5. radio' \in [load : {"configured", "transmission"}, elapsed : Nat, sent : BOOLEAN]
  <2>. DEFINE elapsed == radio.elapsed + WholeMin
  <2>1. elapsed \in Nat
    BY <1>0
  <2>2. \/ UNCHANGED radio
        \/ radio' = Sent(elapsed)
        \/ radio' = [radio EXCEPT !.elapsed = elapsed]
    BY DEF UpdateDelay, UpdatePacket, UpdateRepair
  <2>. HIDE DEF elapsed
  <2>3. Sent(elapsed) \in [load : {"configured", "transmission"}, elapsed : Nat, sent : BOOLEAN]
    BY <2>1 DEF Sent
  <2>4. [radio EXCEPT !.elapsed = elapsed]
          \in [load : {"configured", "transmission"}, elapsed : Nat, sent : BOOLEAN]
    BY <1>0, <2>1
  <2>. QED BY <1>0, <2>2, <2>3, <2>4
<1>. QED BY <1>2, <1>3, <1>4, <1>5 DEF TypeOK

LEMMA EvaluateTyped ==
  ASSUME TypeOK, NEW habitat \in Habitat, Evaluate(habitat)
  PROVE  TypeOK'
<1>0. /\ time \in 0 .. MaxMin + StepMin - 1 /\ hold \in Nat /\ StepMin \in Nat \ {0}
      /\ MaxMin \in Nat \ {0}
      /\ crew \in [Crew -> [eva : Eva, health : Health]]
      /\ clock \in [eva : Nat, work : Nat, progress : 0 .. Seconds(RepairWorkMin)]
  BY Durations, StepCounts DEF TypeOK
<1>1. UNCHANGED <<plan, active, at, rover, radio, restored, leakCuts>>
  BY DEF Evaluate
<1>2. crew' \in [Crew -> [eva : Eva, health : Health]]
  <2>1. crew' = AfterAborts
    BY DEF Evaluate
  <2>2. \A c \in Crew : [crew[c] EXCEPT !.eva = "Ingress"] \in [eva : Eva, health : Health]
    BY <1>0 DEF Eva, OnEva
  <2>. QED BY <1>0, <2>1, <2>2 DEF AfterAborts
<1>3. clock' \in [eva : Nat, work : Nat, progress : 0 .. Seconds(RepairWorkMin)]
  <2>1. UNCHANGED clock \/ clock' = [clock EXCEPT !.work = 0]
    BY DEF Evaluate
  <2>. QED BY <1>0, <2>1
<1>4. hold' \in Nat
  <2>1. hold' \in {hold + TimeStep, 0}
    BY DEF Evaluate, Held
  <2>. QED BY <1>0, <2>1, StepCounts
<1>5. unsafeAt' \in -StepMin .. MaxMin + StepMin - 1
  <2>1. unsafeAt' \in {unsafeAt, time}
    BY DEF Evaluate
  <2>. QED BY <1>0, <2>1 DEF TypeOK
<1>6. /\ phase' \in {"validate", "start", "eva", "update", "done"}
      /\ outcome' \in {"none", "STABILIZED", "FAILURE", "REJECTED"}
  BY DEF Evaluate, TypeOK
<1>7. time' \in 0 .. MaxMin + StepMin - 1
  <2>1. UNCHANGED time \/ (time' = time + StepMin /\ ~ (time >= MaxMin))
    BY DEF Evaluate
  <2>. QED BY <1>0, <2>1
<1>. QED BY <1>1, <1>2, <1>3, <1>4, <1>5, <1>6, <1>7 DEF TypeOK

LEMMA NextTyped == TypeOK /\ [Next]_vars => TypeOK'
<1> SUFFICES ASSUME TypeOK, [Next]_vars PROVE TypeOK'
  OBVIOUS
<1>1. CASE Validate
  BY <1>1 DEF Validate, TypeOK, world
<1>2. CASE Physiology
  <2>1. PICK health \in [Crew -> Health] :
          crew' = [c \in Crew |-> [crew[c] EXCEPT !.health = health[c]]]
    BY <1>2 DEF Physiology
  <2>2. crew \in [Crew -> [eva : Eva, health : Health]]
    BY DEF TypeOK
  <2>3. \A c \in Crew : [crew[c] EXCEPT !.health = health[c]] \in [eva : Eva, health : Health]
    BY <2>2
  <2>4. crew' \in [Crew -> [eva : Eva, health : Health]]
    BY <2>1, <2>3
  <2>. QED BY <1>2, <2>4 DEF Physiology, TypeOK, world, verdict
<1>3. CASE UNCHANGED vars
  BY <1>3 DEF vars, TypeOK
<1>. QED
  BY <1>1, <1>2, <1>3, EvaTyped, StartTyped, UpdateTyped, EvaluateTyped DEF Next

\* Whatever the plan and the physics, every clock, status and load stays what
\* the C++ structures take it for, and the run ends at its last minute.
THEOREM PlanStateTyped == Spec => []TypeOK
BY InitTyped, NextTyped, PTL DEF Spec

----------------------------------------------------------------------------
(* Every action is started once, and at its minute *)

LEMMA GridStep ==
  ASSUME NEW t \in Nat, NEW d \in Nat \ {0}, t % d = 0
  PROVE  (t + d) % d = 0
<1>. DEFINE q == t \div d
            m == (t + d) \div d
            r == (t + d) % d
<1>1. /\ q \in Int /\ t = d * q
      /\ m \in Int /\ r \in 0 .. d - 1 /\ t + d = d * m + r
  OBVIOUS
<1>. HIDE DEF q, m, r
<1>2. d * (q + 1 - m) = r
  BY <1>1
<1>3. q + 1 - m = 0
  BY <1>1, <1>2
<1>. QED BY <1>1, <1>2, <1>3 DEF r

LEMMA GridGap ==
  ASSUME NEW a \in Int, NEW t \in Nat, NEW d \in Nat \ {0},
         a % d = 0, t % d = 0, a < t + d
  PROVE  a <= t
<1>. DEFINE p == a \div d
            q == t \div d
<1>1. p \in Int /\ q \in Int /\ a = d * p /\ t = d * q
  OBVIOUS
<1>. HIDE DEF p, q
<1>2. d * p < d * (q + 1)
  BY <1>1
<1>3. p <= q
  BY <1>1, <1>2
<1>4. d * p <= d * q
  BY <1>1, <1>3
<1>. QED BY <1>1, <1>4

LEMMA Division ==
  ASSUME NEW d \in Nat \ {0}, NEW m \in Int
  PROVE  \E k \in Int, x \in 0 .. d - 1 : m = d * k + x /\ m \div d = k
<1>. DEFINE q == m \div d
            r == m % d
<1>1. q \in Int /\ r \in 0 .. d - 1 /\ m = d * q + r
  OBVIOUS
<1>. HIDE DEF r
<1>. QED BY <1>1

LEMMA QuotientIsUnique ==
  ASSUME NEW d \in Nat \ {0}, NEW m \in Int, NEW k \in Int, NEW x \in 0 .. d - 1,
         m = d * k + x
  PROVE  m \div d = k
<1>. DEFINE q == m \div d
            r == m % d
<1>1. q \in Int /\ r \in 0 .. d - 1 /\ m = d * q + r
  OBVIOUS
<1>. HIDE DEF q, r
<1>2. d * (k - q) = r - x
  BY <1>1
<1>3. k - q \in Int /\ - d < d * (k - q) /\ d * (k - q) < d
  BY <1>1, <1>2
<1>4. k - q = 0
  <2>1. CASE k - q >= 1
    <3>1. d * (k - q) >= d * 1
      BY <1>1, <2>1
    <3>. QED BY <1>3, <3>1
  <2>2. CASE k - q <= -1
    <3>1. d * (k - q) <= d * (-1)
      BY <1>1, <2>2
    <3>. QED BY <1>3, <3>1
  <2>. QED BY <1>1, <2>1, <2>2
<1>. QED BY <1>1, <1>4 DEF q

\* What EVA, physiology and evaluation leave alone.
LEMMA EvaFrame ==
  ASSUME EvaStep
  PROVE  /\ phase = "eva" /\ phase' = "update" /\ at' = 1
         /\ UNCHANGED <<plan, time, active, radio, leakCuts, hold, outcome, unsafeAt>>
         /\ UNCHANGED rover \/ rover' = [rover EXCEPT !.charge = Charge]
BY DEF EvaStep, NobodyOut, AbortEva, Prepare, Exit, Repair, Return, Advance, EvaPhase,
       verdict

LEMMA StartsNext == TypeOK /\ Starts /\ [Next]_vars => Starts'
<1>. SUFFICES ASSUME TypeOK, Starts, [Next]_vars PROVE Starts'
  OBVIOUS
<1>0. time \in Nat /\ active \in Seq(ActionState) /\ StepMin \in Nat
      /\ \A k \in DOMAIN active : active[k].start \in Nat
  <2>1. time \in Nat /\ active \in Seq(ActionState) /\ StepMin \in Nat
    BY Durations, StepCounts DEF TypeOK
  <2>2. \A k \in DOMAIN active : active[k] \in ActionState
    BY <2>1
  <2>. QED BY <2>1, <2>2 DEF ActionState
<1>1. ASSUME UNCHANGED <<plan, active>>, time' \in Nat, time <= time',
             phase' # "validate" \/ UNCHANGED <<phase, time>>
      PROVE  Starts'
  BY <1>0, <1>1 DEF Starts
<1>2. ASSUME NEW i \in DOMAIN plan, StartAction(i)
      PROVE  Starts'
  <2>1. /\ phase = "start" /\ Due(i) /\ UNCHANGED <<plan, phase, time>>
        /\ \E c \in Crew \cup {NoCrew}, status \in {"Active", "Complete", "Failed"} :
             Started(i, c, status)
    BY <1>2, StartFrame
  <2>2. /\ DOMAIN active' = DOMAIN active \cup {Len(active) + 1}
        /\ Len(active) + 1 \notin DOMAIN active
        /\ active'[Len(active) + 1].action = i /\ active'[Len(active) + 1].start = time
        /\ \A k \in DOMAIN active : active'[k] = active[k]
    <3>1. PICK c \in Crew \cup {NoCrew}, status \in {"Active", "Complete", "Failed"} :
            Started(i, c, status)
      BY <2>1
    <3>2. time \in Nat
      BY <1>0
    <3>3. /\ DOMAIN active' = DOMAIN active \cup {Len(active) + 1}
          /\ Len(active) + 1 \notin DOMAIN active
          /\ active'[Len(active) + 1] =
               [action |-> i, start |-> time, crew |-> c, status |-> status]
          /\ \A k \in DOMAIN active : active'[k] = active[k]
      BY <3>1, <3>2, StartAppends
    <3>. QED BY <3>3
  <2>3. plan[i].start = time /\ \A k \in DOMAIN active : active[k].action # i
    BY <2>1 DEF Due
  <2>. QED BY <1>0, <2>1, <2>2, <2>3 DEF Starts
<1>3. ASSUME NEW k \in DOMAIN active, NEW type,
             NEW status \in {"Active", "Complete", "Aborted"}, Updated(k, type, status)
      PROVE  Starts'
  <2>1. /\ UNCHANGED <<plan, time, phase>> /\ phase = "update"
        /\ DOMAIN active' = DOMAIN active
        /\ \A j \in DOMAIN active :
             active'[j].action = active[j].action /\ active'[j].start = active[j].start
    BY <1>3, UpdateFrame
  <2>. QED BY <2>1 DEF Starts
<1>4. ASSUME NEW k \in DOMAIN active, UpdateDelay(k) \/ UpdatePacket(k) \/ UpdateRepair(k)
      PROVE  Starts'
  BY <1>3, <1>4 DEF UpdateDelay, UpdatePacket, UpdateRepair
<1>5. ASSUME NEW habitat \in Habitat, Evaluate(habitat)
      PROVE  Starts'
  <2>1. /\ UNCHANGED <<plan, active>> /\ phase' # "validate"
        /\ UNCHANGED time \/ time' = time + StepMin
    BY <1>5 DEF Evaluate
  <2>. QED BY <1>0, <1>1, <2>1
<1>6. CASE EvaStep
  BY <1>0, <1>1, <1>6, EvaFrame
<1>7. CASE Validate \/ Physiology
  BY <1>0, <1>1, <1>7 DEF Validate, Physiology
<1>8. CASE UNCHANGED vars
  BY <1>0, <1>1, <1>8 DEF vars
<1>. QED BY <1>2, <1>4, <1>5, <1>6, <1>7, <1>8 DEF Next

LEMMA NoneMissedNext == TypeOK /\ Starts /\ NoneMissed /\ [Next]_vars => NoneMissed'
<1>. SUFFICES ASSUME TypeOK, Starts, NoneMissed, [Next]_vars PROVE NoneMissed'
  OBVIOUS
<1>0. /\ time \in Nat /\ active \in Seq(ActionState) /\ StepMin \in Nat \ {0}
      /\ \A i \in DOMAIN plan : plan[i].start \in Int
  BY Durations, StepCounts, PlanTyped DEF TypeOK
<1>1. ASSUME UNCHANGED <<plan, time>>, phase \in {"start", "eva", "update"},
             phase' = "start" => phase = "start",
             phase' = "done" \/ (phase = "start" /\ phase' = "start")
               \/ phase \in {"eva", "update"},
             \A i \in DOMAIN plan : Begins(i) => Begins(i)'
      PROVE  NoneMissed'
  BY <1>1 DEF NoneMissed, Accepted, ValidAction, RoverConflict
<1>2. ASSUME NEW i \in DOMAIN plan, StartAction(i)
      PROVE  NoneMissed'
  <2>1. /\ phase = "start" /\ UNCHANGED <<plan, phase, time>>
        /\ \E c \in Crew \cup {NoCrew}, status \in {"Active", "Complete", "Failed"} :
             Started(i, c, status)
    BY <1>2, StartFrame
  <2>2. DOMAIN active \subseteq DOMAIN active'
        /\ \A k \in DOMAIN active : active'[k] = active[k]
    BY <1>0, <2>1, StartAppends
  <2>. QED BY <1>1, <2>1, <2>2 DEF Begins
<1>3. ASSUME NEW k \in DOMAIN active, NEW type,
             NEW status \in {"Active", "Complete", "Aborted"}, Updated(k, type, status)
      PROVE  NoneMissed'
  <2>1. /\ UNCHANGED <<plan, time, phase>> /\ phase = "update"
        /\ DOMAIN active' = DOMAIN active
        /\ \A j \in DOMAIN active : active'[j].action = active[j].action
    BY <1>3, UpdateFrame
  <2>. QED BY <1>1, <2>1 DEF Begins
<1>4. ASSUME NEW k \in DOMAIN active, UpdateDelay(k) \/ UpdatePacket(k) \/ UpdateRepair(k)
      PROVE  NoneMissed'
  BY <1>3, <1>4 DEF UpdateDelay, UpdatePacket, UpdateRepair
<1>5. CASE Validate
  <2>1. /\ phase = "validate" /\ UNCHANGED <<plan, active, time>> /\ time = 0
        /\ phase' \in {"start", "done"} /\ (phase' = "start" => Accepted(plan))
    BY <1>5 DEF Validate, Starts
  <2>2. Accepted(plan) => \A i \in DOMAIN plan : plan[i].start >= 0
    BY <1>0, Durations, StepCounts DEF Accepted, ValidAction
  <2>3. 0 % StepMin = 0
    BY <1>0
  <2>4. Accepted(plan)' <=> Accepted(plan)
    BY <2>1 DEF Accepted, ValidAction, RoverConflict
  <2>. QED BY <1>0, <2>1, <2>2, <2>3, <2>4 DEF NoneMissed
<1>6. CASE Physiology
  <2>1. /\ phase = "start" /\ phase' = "eva" /\ UNCHANGED <<plan, active, time>>
        /\ \A i \in DOMAIN plan : ~ Due(i)
    BY <1>6 DEF Physiology
  <2>2. \A i \in DOMAIN plan : plan[i].start = time => Begins(i)
    BY <2>1 DEF Due, Begins
  <2>3. \A i \in DOMAIN plan : Begins(i)' <=> Begins(i)
    BY <2>1 DEF Begins
  <2>4. Accepted(plan)' <=> Accepted(plan)
    BY <2>1 DEF Accepted, ValidAction, RoverConflict
  <2>. QED BY <2>1, <2>2, <2>3, <2>4 DEF NoneMissed
<1>7. CASE EvaStep
  BY <1>1, <1>7, EvaFrame DEF Begins
<1>8. ASSUME NEW habitat \in Habitat, Evaluate(habitat)
      PROVE  NoneMissed'
  <2>1. /\ phase = "update" /\ UNCHANGED <<plan, active>>
        /\ \/ phase' = "done" /\ UNCHANGED time
           \/ phase' = "start" /\ time' = time + StepMin
    BY <1>8 DEF Evaluate
  <2>2. \A i \in DOMAIN plan : Begins(i)' <=> Begins(i)
    BY <2>1 DEF Begins
  <2>3. Accepted(plan)' <=> Accepted(plan)
    BY <2>1 DEF Accepted, ValidAction, RoverConflict
  <2>4. CASE phase' = "start" /\ time' = time + StepMin
    <3>1. /\ Accepted(plan) /\ time % StepMin = 0
          /\ \A i \in DOMAIN plan :
               plan[i].start <= time /\ plan[i].start % StepMin = 0 => Begins(i)
      BY <1>0, <2>1 DEF NoneMissed
    <3>2. /\ time' % StepMin = 0
          /\ \A i \in DOMAIN plan :
               plan[i].start < time' /\ plan[i].start % StepMin = 0 => plan[i].start <= time
      <4>1. ASSUME NEW i \in DOMAIN plan, plan[i].start < time', plan[i].start % StepMin = 0
            PROVE  plan[i].start <= time
        BY <1>0, <2>4, <3>1, <4>1, GridGap
      <4>2. time' % StepMin = 0
        BY <1>0, <2>4, <3>1, GridStep
      <4>. QED BY <4>1, <4>2
    <3>. QED BY <2>1, <2>2, <2>3, <2>4, <3>1, <3>2 DEF NoneMissed
  <2>5. CASE phase' = "done"
    BY <2>5 DEF NoneMissed
  <2>. QED BY <2>1, <2>4, <2>5
<1>9. CASE UNCHANGED vars
  BY <1>9 DEF vars, NoneMissed, Begins, Accepted, ValidAction, RoverConflict
<1>. QED BY <1>2, <1>4, <1>5, <1>6, <1>7, <1>8, <1>9 DEF Next

LEMMA StartsInductive == Spec => [](TypeOK /\ Starts /\ NoneMissed)
<1>1. Init => Starts /\ NoneMissed
  BY DEF Init, Starts, NoneMissed
<1>2. TypeOK /\ Starts /\ NoneMissed /\ [Next]_vars => (Starts /\ NoneMissed)'
  BY StartsNext, NoneMissedNext
<1>. QED BY <1>1, <1>2, PlanStateTyped, PTL DEF Spec

\* Each action is started at most once and at its minute, and no minute on the
\* clock's grid is passed without its actions, also when several share it.
THEOREM StartsOnceOnTime == Spec => []StartedOnceOnTime
<1>1. TypeOK /\ Starts /\ NoneMissed => StartedOnceOnTime
  <2>. SUFFICES ASSUME TypeOK, Starts, NoneMissed PROVE StartedOnceOnTime
    OBVIOUS
  <2>1. time \in Nat /\ \A i \in DOMAIN plan : plan[i].start \in Int
    BY Durations, StepCounts, PlanTyped DEF TypeOK
  <2>. QED BY <2>1 DEF Starts, NoneMissed, Begins, StartedOnceOnTime
<1>. QED BY <1>1, StartsInductive, PTL

----------------------------------------------------------------------------
(* The rover and the transmitter are held by the actions in progress *)

LEMMA RoverFields ==
  ASSUME TypeOK
  PROVE  /\ rover.until \in Nat /\ rover.available \in BOOLEAN /\ time \in Nat
         /\ Len(active) \in Nat /\ DOMAIN active \subseteq Nat \ {0}
         /\ [rover EXCEPT !.charge = Charge].available = rover.available
         /\ [rover EXCEPT !.charge = Charge].until = rover.until
         /\ \A n \in Nat :
              /\ [rover EXCEPT !.available = FALSE, !.until = n].available = FALSE
              /\ [rover EXCEPT !.available = FALSE, !.until = n].until = n
         /\ [rover EXCEPT !.available = TRUE, !.until = 0].available = TRUE
         /\ [rover EXCEPT !.available = TRUE, !.until = 0].until = 0
<1>1. rover \in [charge : 0 .. Seconds(MaxEvaMin), available : BOOLEAN, until : Nat]
  BY DEF TypeOK
<1>2. time \in Nat /\ active \in Seq(ActionState)
  BY Durations, StepCounts DEF TypeOK
<1>3. Len(active) \in Nat /\ DOMAIN active \subseteq Nat \ {0}
  BY <1>2
<1>. QED BY <1>1, <1>2, <1>3

\* Starting an action takes the rover when, and only when, it starts a delay.
LEMMA StartHolds ==
  ASSUME TypeOK, NEW i \in DOMAIN plan, StartAction(i)
  PROVE  \E c \in Crew \cup {NoCrew}, status \in {"Active", "Complete", "Failed"} :
           /\ Started(i, c, status)
           /\ \/ /\ UNCHANGED rover
                 /\ ~ (status = "Active" /\ plan[i].type = "delay_rover_use")
              \/ /\ status = "Active" /\ plan[i].type = "delay_rover_use"
                 /\ plan[i].minutes > 0
                 /\ rover' = [rover EXCEPT !.available = FALSE,
                                           !.until = time + plan[i].minutes]
           /\ \/ UNCHANGED radio
              \/ status = "Active" /\ plan[i].type = "send_emergency_packet"
<1>1. CASE StartImmediate(i)
  BY <1>1 DEF StartImmediate
<1>2. CASE StartRepair(i)
  BY <1>2, Durations, StepCounts DEF StartRepair, MayGo
<1>3. CASE StartDelay(i)
  BY <1>3 DEF StartDelay
<1>4. CASE StartPacket(i)
  BY <1>4 DEF StartPacket
<1>. QED BY <1>1, <1>2, <1>3, <1>4 DEF StartAction

\* What updateActiveActions passes by is left as it was.
LEMMA UpdateHolds ==
  ASSUME TypeOK, NEW k \in DOMAIN active,
         UpdateDelay(k) \/ UpdatePacket(k) \/ UpdateRepair(k)
  PROVE  \E status \in {"Active", "Complete", "Aborted"} :
           /\ Updated(k, plan[active[k].action].type, status)
           /\ \/ /\ plan[active[k].action].type = "delay_rover_use"
                 /\ \/ /\ time >= rover.until /\ status = "Complete"
                       /\ rover' = [rover EXCEPT !.available = TRUE, !.until = 0]
                    \/ time < rover.until /\ status = "Active" /\ UNCHANGED rover
              \/ plan[active[k].action].type # "delay_rover_use" /\ UNCHANGED rover
           /\ \/ /\ plan[active[k].action].type = "send_emergency_packet"
                 /\ \/ status = "Active"
                    \/ radio'.load = "configured"
              \/ plan[active[k].action].type # "send_emergency_packet" /\ UNCHANGED radio
<1>0. rover.until \in Nat /\ time \in Nat
  BY RoverFields
<1>1. CASE UpdateDelay(k)
  <2>1. plan[active[k].action].type = "delay_rover_use" /\ UNCHANGED radio
    BY <1>1 DEF UpdateDelay, Updated
  <2>2. CASE time >= rover.until
    BY <1>1, <2>1, <2>2 DEF UpdateDelay
  <2>3. CASE time < rover.until
    <3>1. ~ (time >= rover.until)
      BY <1>0, <2>3
    <3>. QED BY <1>1, <2>1, <2>3, <3>1 DEF UpdateDelay
  <2>. QED BY <1>0, <2>2, <2>3
<1>2. CASE UpdatePacket(k)
  BY <1>2 DEF UpdatePacket, Updated, Sent
<1>3. CASE UpdateRepair(k)
  BY <1>3 DEF UpdateRepair, Updated
<1>. QED BY <1>1, <1>2, <1>3

LEMMA RoverHeldNext == TypeOK /\ RoverHeld /\ [Next]_vars => RoverHeld'
<1>. SUFFICES ASSUME TypeOK, RoverHeld, [Next]_vars PROVE RoverHeld'
  OBVIOUS
<1>0. /\ time \in Nat /\ rover.until \in Nat /\ rover.available \in BOOLEAN
      /\ Len(active) \in Nat
  BY RoverFields
\* Steps that leave the actions and the reservation alone.
<1>1. ASSUME UNCHANGED <<plan, active>>, rover'.available = rover.available,
             rover'.until = rover.until,
             \/ phase # "update" /\ (phase' = "update" => at' = 1)
             \/ phase = "update" /\ phase' # "update" /\ Pending = {}
             \/ UNCHANGED <<phase, at, time>>
      PROVE  RoverHeld'
  <2>1. \A k \in DOMAIN active : Delays(k)' <=> Delays(k)
    BY <1>1 DEF Delays
  <2>2. InProgress("delay_rover_use")' <=> InProgress("delay_rover_use")
    BY <1>1 DEF InProgress
  <2>3. DOMAIN active \subseteq Nat \ {0} /\ at \in Nat
    BY RoverFields DEF TypeOK
  <2>4. CASE phase # "update" /\ (phase' = "update" => at' = 1)
    BY <1>1, <2>1, <2>2, <2>3, <2>4 DEF RoverHeld
  <2>5. CASE phase = "update" /\ phase' # "update" /\ Pending = {}
    <3>1. \A k \in DOMAIN active : Delays(k) => k < at
      BY <2>3, <2>5 DEF Pending, Delays
    <3>. QED BY <1>1, <2>1, <2>2, <2>5, <3>1 DEF RoverHeld
  <2>6. CASE UNCHANGED <<phase, at, time>>
    BY <1>1, <2>1, <2>2, <2>6 DEF RoverHeld
  <2>. QED BY <1>1, <2>4, <2>5, <2>6
<1>2. ASSUME NEW i \in DOMAIN plan, StartAction(i)
      PROVE  RoverHeld'
  <2>1. phase = "start" /\ UNCHANGED <<plan, phase, time, at>>
    BY <1>2, StartFrame
  <2>2. PICK c \in Crew \cup {NoCrew}, status \in {"Active", "Complete", "Failed"} :
          /\ Started(i, c, status)
          /\ \/ /\ UNCHANGED rover
                /\ ~ (status = "Active" /\ plan[i].type = "delay_rover_use")
             \/ /\ status = "Active" /\ plan[i].type = "delay_rover_use"
                /\ plan[i].minutes > 0
                /\ rover' = [rover EXCEPT !.available = FALSE,
                                          !.until = time + plan[i].minutes]
    BY <1>2, StartHolds
  <2>0. PICK n \in Nat : n = Len(active) + 1
    BY <1>0
  <2>3. /\ DOMAIN active' = DOMAIN active \cup {n}
        /\ active'[n] = [action |-> i, start |-> time, crew |-> c, status |-> status]
        /\ \A k \in DOMAIN active : active'[k] = active[k]
    <3>1. Started(i, c, status)
      BY <2>2
    <3>2. /\ DOMAIN active' = DOMAIN active \cup {Len(active) + 1}
          /\ active'[Len(active) + 1] =
               [action |-> i, start |-> time, crew |-> c, status |-> status]
          /\ \A k \in DOMAIN active : active'[k] = active[k]
      BY <1>0, <3>1, StartAppends
    <3>. QED BY <2>0, <3>2
  <2>4. /\ \A k \in DOMAIN active : Delays(k)' <=> Delays(k)
        /\ Delays(n)' <=> (status = "Active" /\ plan[i].type = "delay_rover_use")
    <3>1. active'[n].action = i /\ active'[n].status = status
      BY <2>3
    <3>2. Delays(n)' <=> (status = "Active" /\ plan[i].type = "delay_rover_use")
      BY <2>1, <3>1 DEF Delays
    <3>3. ASSUME NEW k \in DOMAIN active PROVE Delays(k)' <=> Delays(k)
      BY <2>1, <2>3 DEF Delays
    <3>. QED BY <3>2, <3>3
  <2>5. InProgress("delay_rover_use")' <=>
          InProgress("delay_rover_use")
            \/ (status = "Active" /\ plan[i].type = "delay_rover_use")
    BY <2>1, <2>3 DEF InProgress
  <2>6. CASE UNCHANGED rover /\ ~ (status = "Active" /\ plan[i].type = "delay_rover_use")
    <3>1. /\ rover.available <=> rover.until = 0
          /\ ~ rover.available => InProgress("delay_rover_use")
          /\ \A k \in DOMAIN active : Delays(k) => ~ rover.available
      BY <2>1 DEF RoverHeld
    <3>2. phase' # "update" /\ UNCHANGED rover
      BY <2>1, <2>6
    <3>3. \A k \in DOMAIN active' : Delays(k)' => ~ rover.available
      BY <2>3, <2>4, <2>6, <3>1
    <3>. QED BY <2>5, <3>1, <3>2, <3>3 DEF RoverHeld
  <2>7. CASE /\ status = "Active" /\ plan[i].type = "delay_rover_use"
             /\ plan[i].minutes > 0
             /\ rover' = [rover EXCEPT !.available = FALSE,
                                       !.until = time + plan[i].minutes]
    <3>1. time + plan[i].minutes \in Nat \ {0}
      BY <1>0, <2>7, PlanTyped
    <3>2. rover'.available = FALSE /\ rover'.until = time + plan[i].minutes
      BY <2>7, <3>1, RoverFields
    <3>. QED BY <2>1, <2>5, <2>7, <3>1, <3>2 DEF RoverHeld
  <2>. QED BY <2>2, <2>6, <2>7
<1>3. ASSUME NEW k \in DOMAIN active, UpdateDelay(k) \/ UpdatePacket(k) \/ UpdateRepair(k)
      PROVE  RoverHeld'
  <2>. DEFINE kind == plan[active[k].action].type
  <2>1. PICK status \in {"Active", "Complete", "Aborted"} :
          /\ Updated(k, kind, status)
          /\ \/ /\ kind = "delay_rover_use"
                /\ \/ /\ time >= rover.until /\ status = "Complete"
                      /\ rover' = [rover EXCEPT !.available = TRUE, !.until = 0]
                   \/ time < rover.until /\ status = "Active" /\ UNCHANGED rover
             \/ kind # "delay_rover_use" /\ UNCHANGED rover
    BY <1>3, UpdateHolds
  <2>2. /\ phase = "update" /\ at' = k + 1 /\ UNCHANGED <<plan, phase, time>>
        /\ DOMAIN active' = DOMAIN active
        /\ \A j \in DOMAIN active :
             /\ active'[j].action = active[j].action
             /\ active'[j].status = IF j = k THEN status ELSE active[j].status
        /\ k \in Pending /\ \A j \in Pending : k <= j
    BY <2>1, UpdateFrame
  <2>3. /\ \A j \in DOMAIN active : j # k => (Delays(j)' <=> Delays(j))
        /\ Delays(k)' <=> status = "Active" /\ kind = "delay_rover_use"
        /\ Delays(k) <=> kind = "delay_rover_use"
    BY <2>2 DEF Delays, Pending
  <2>4. DOMAIN active \subseteq Nat \ {0} /\ at \in Nat
    BY RoverFields DEF TypeOK
  \* The delays before the next position are those before this one, and k.
  <2>5. \A j \in DOMAIN active : Delays(j) /\ j < at' => j < at \/ j = k
    BY <2>2, <2>4 DEF Pending, Delays
  <2>6. InProgress("delay_rover_use") <=> \E j \in DOMAIN active : Delays(j)
    BY DEF InProgress, Delays
  <2>7. InProgress("delay_rover_use")' <=> \E j \in DOMAIN active : Delays(j)'
    BY <2>2 DEF InProgress, Delays
  <2>8. CASE UNCHANGED rover /\ (Delays(k)' <=> Delays(k))
            /\ (kind = "delay_rover_use" => time < rover.until)
    <3>1. kind = "delay_rover_use" => ~ rover.available
      BY <1>0, <2>8 DEF RoverHeld
    <3>. QED BY <2>2, <2>3, <2>5, <2>6, <2>7, <2>8, <3>1 DEF RoverHeld
  <2>9. CASE /\ kind = "delay_rover_use" /\ time >= rover.until /\ status = "Complete"
             /\ rover' = [rover EXCEPT !.available = TRUE, !.until = 0]
    <3>1. rover'.available = TRUE /\ rover'.until = 0
      BY <2>9, RoverFields
    <3>2. \A j \in DOMAIN active : Delays(j) => ~ (j < at)
      BY <1>0, <2>2, <2>9 DEF RoverHeld
    <3>3. \A j \in DOMAIN active : ~ (Delays(j)' /\ j < at')
      BY <2>3, <2>5, <2>9, <3>2
    <3>. QED BY <2>2, <3>1, <3>3 DEF RoverHeld
  <2>. QED BY <2>1, <2>3, <2>8, <2>9
<1>4. CASE EvaStep
  BY <1>1, <1>4, EvaFrame, RoverFields
<1>5. CASE Validate \/ Physiology
  BY <1>1, <1>5 DEF Validate, Physiology, world
<1>6. ASSUME NEW habitat \in Habitat, Evaluate(habitat)
      PROVE  RoverHeld'
  BY <1>1, <1>6 DEF Evaluate
<1>7. CASE UNCHANGED vars
  BY <1>1, <1>7 DEF vars
<1>. QED BY <1>2, <1>3, <1>4, <1>5, <1>6, <1>7 DEF Next

LEMMA RadioOnNext == TypeOK /\ RadioOn /\ [Next]_vars => RadioOn'
<1>. SUFFICES ASSUME TypeOK, RadioOn, [Next]_vars PROVE RadioOn'
  OBVIOUS
<1>1. ASSUME UNCHANGED <<plan, active, radio>>
      PROVE  RadioOn'
  BY <1>1 DEF RadioOn, InProgress
<1>2. ASSUME NEW i \in DOMAIN plan, StartAction(i)
      PROVE  RadioOn'
  <2>1. UNCHANGED plan /\ time \in Nat
    BY <1>2, StartFrame, RoverFields
  <2>2. PICK c \in Crew \cup {NoCrew}, status \in {"Active", "Complete", "Failed"} :
          /\ Started(i, c, status)
          /\ \/ UNCHANGED radio
             \/ status = "Active" /\ plan[i].type = "send_emergency_packet"
    BY <1>2, StartHolds
  <2>3. /\ DOMAIN active' = DOMAIN active \cup {Len(active) + 1}
        /\ active'[Len(active) + 1] =
             [action |-> i, start |-> time, crew |-> c, status |-> status]
        /\ \A k \in DOMAIN active : active'[k] = active[k]
    BY <2>1, <2>2, StartAppends
  <2>4. status = "Active" /\ plan[i].type = "send_emergency_packet" =>
          InProgress("send_emergency_packet")'
    BY <2>1, <2>3 DEF InProgress
  <2>5. InProgress("send_emergency_packet") => InProgress("send_emergency_packet")'
    BY <2>1, <2>3 DEF InProgress
  <2>. QED BY <2>2, <2>4, <2>5 DEF RadioOn
<1>3. ASSUME NEW k \in DOMAIN active, UpdateDelay(k) \/ UpdatePacket(k) \/ UpdateRepair(k)
      PROVE  RadioOn'
  <2>. DEFINE kind == plan[active[k].action].type
  <2>1. PICK status \in {"Active", "Complete", "Aborted"} :
          /\ Updated(k, kind, status)
          /\ \/ /\ kind = "send_emergency_packet"
                /\ \/ status = "Active"
                   \/ radio'.load = "configured"
             \/ kind # "send_emergency_packet" /\ UNCHANGED radio
    BY <1>3, UpdateHolds
  <2>2. /\ UNCHANGED plan /\ DOMAIN active' = DOMAIN active
        /\ \A j \in DOMAIN active :
             /\ active'[j].action = active[j].action
             /\ active'[j].status = IF j = k THEN status ELSE active[j].status
    BY <2>1, UpdateFrame
  <2>3. CASE kind = "send_emergency_packet"
    <3>1. status = "Active" => InProgress("send_emergency_packet")'
      BY <2>2, <2>3 DEF InProgress
    <3>. QED BY <2>1, <2>3, <3>1 DEF RadioOn
  <2>4. CASE kind # "send_emergency_packet" /\ UNCHANGED radio
    <3>1. InProgress("send_emergency_packet") => InProgress("send_emergency_packet")'
      BY <2>2, <2>4 DEF InProgress
    <3>. QED BY <2>4, <3>1 DEF RadioOn
  <2>. QED BY <2>1, <2>3, <2>4
<1>4. CASE EvaStep
  BY <1>1, <1>4, EvaFrame
<1>5. CASE Validate \/ Physiology
  BY <1>1, <1>5 DEF Validate, Physiology, world
<1>6. ASSUME NEW habitat \in Habitat, Evaluate(habitat)
      PROVE  RadioOn'
  BY <1>1, <1>6 DEF Evaluate
<1>7. CASE UNCHANGED vars
  BY <1>1, <1>7 DEF vars
<1>. QED BY <1>2, <1>3, <1>4, <1>5, <1>6, <1>7 DEF Next

\* However delays and packets overlap: the rover is held exactly while a delay
\* is in progress, and the transmission's power is not left on without a packet.
THEOREM AssetsFollowActions == Spec => []AssetsHeldByActions
<1>1. Init => RoverHeld /\ RadioOn
  BY DEF Init, RoverHeld, RadioOn
<1>2. TypeOK /\ RoverHeld /\ RadioOn /\ [Next]_vars => (RoverHeld /\ RadioOn)'
  BY RoverHeldNext, RadioOnNext
<1>3. RoverHeld /\ RadioOn => AssetsHeldByActions
  BY DEF RoverHeld, RadioOn, Delays, InProgress, AssetsHeldByActions
<1>. QED BY <1>1, <1>2, <1>3, PlanStateTyped, PTL DEF Spec

----------------------------------------------------------------------------
(* Nobody is left outside *)

\* Who has just gone out has time to come back: the phases fit the maximum.
LEMMA FreshMargin == ClocksReset.eva = 0 /\ Margin(ClocksReset.eva) >= 0
BY Durations, StepCounts, EvaAssumption DEF ClocksReset, Margin

LEMMA OutsideNext ==
  TypeOK /\ NobodyOutYet /\ OutsideCanReturn /\ [Next]_vars
    => (NobodyOutYet /\ OutsideCanReturn)'
<1>. SUFFICES ASSUME TypeOK, NobodyOutYet, OutsideCanReturn, [Next]_vars
              PROVE  (NobodyOutYet /\ OutsideCanReturn)'
  OBVIOUS
<1>0. /\ crew \in [Crew -> [eva : Eva, health : Health]]
      /\ clock \in [eva : Nat, work : Nat, progress : 0 .. Seconds(RepairWorkMin)]
  BY DEF TypeOK
<1>1. ASSUME phase' \notin {"validate", "start"}
      PROVE  (NobodyOutYet /\ OutsideCanReturn)'
  BY <1>1 DEF NobodyOutYet, OutsideCanReturn
<1>2. ASSUME NEW i \in DOMAIN plan, StartAction(i)
      PROVE  (NobodyOutYet /\ OutsideCanReturn)'
  <2>1. phase = "start" /\ phase' = "start"
    BY <1>2, StartFrame
  <2>2. CASE UNCHANGED <<crew, clock>>
    BY <2>1, <2>2 DEF NobodyOutYet, OutsideCanReturn, Outside, Margin
  <2>3. CASE \E c \in Crew : /\ crew[c].health = "Fit"
                             /\ crew' = [crew EXCEPT ![c].eva = "Preparing"]
                             /\ clock' = ClocksReset
    <3>1. PICK c \in Crew : /\ crew[c].health = "Fit"
                            /\ crew' = [crew EXCEPT ![c].eva = "Preparing"]
      BY <2>3
    <3>2. /\ crew'[c].health = "Fit"
          /\ \A m \in Crew : crew'[m].health = crew[m].health
          /\ \A m \in Crew : m # c => crew'[m] = crew[m]
      BY <1>0, <3>1
    <3>3. Margin(clock.eva)' >= 0
      BY <2>3, FreshMargin DEF Margin
    <3>4. \A m \in Crew : m \in Outside' /\ m # c => m \in Outside
      BY <3>2 DEF Outside
    <3>. QED BY <2>1, <3>2, <3>3, <3>4 DEF NobodyOutYet, OutsideCanReturn, Outside
  <2>4. CASE StartRepair(i)
    BY <2>2, <2>3, <2>4, Durations, StepCounts DEF StartRepair, MayGo
  <2>. QED BY <1>2, <2>2, <2>4 DEF StartAction, StartImmediate, StartDelay, StartPacket
<1>3. ASSUME NEW habitat \in Habitat, Evaluate(habitat)
      PROVE  (NobodyOutYet /\ OutsideCanReturn)'
  <2>1. /\ crew' = AfterAborts /\ phase' \in {"start", "done"}
        /\ phase' = "start" => ~ Failed(AfterAborts, habitat)
        /\ UNCHANGED clock \/ clock' = [clock EXCEPT !.work = 0]
    BY <1>3 DEF Evaluate
  <2>2. clock'.eva = clock.eva
    BY <1>0, <2>1
  <2>3. ASSUME NEW c \in Crew, crew'[c].eva \in Working
        PROVE  crew'[c].health # "Critical"
    BY <1>0, <2>1, <2>3 DEF AfterAborts, ToAbort, Working
  <2>4. ASSUME phase' = "start", NEW c \in Crew, crew'[c].eva \in OnEva
        PROVE  /\ crew'[c].health # "Incapacitated"
               /\ crew'[c].eva \in Working => ~ (Margin(clock.eva) < 0)
    BY <2>1, <2>4 DEF Failed
  <2>5. Margin(clock.eva)' = Margin(clock.eva) /\ Margin(clock.eva) \in Int
    BY <1>0, <2>2, Durations, StepCounts DEF Margin
  <2>. QED BY <2>1, <2>3, <2>4, <2>5 DEF NobodyOutYet, OutsideCanReturn, Outside
<1>4. CASE Validate
  <2>1. UNCHANGED <<crew, clock>> /\ \A c \in Crew : crew[c].eva \notin OnEva
        /\ phase' \in {"start", "done"}
    BY <1>4 DEF Validate, NobodyOutYet, world
  <2>. QED BY <2>1 DEF NobodyOutYet, OutsideCanReturn, Outside
<1>5. CASE Physiology \/ EvaStep
  BY <1>1, <1>5, EvaFrame DEF Physiology
<1>6. ASSUME NEW k \in DOMAIN active, UpdateDelay(k) \/ UpdatePacket(k) \/ UpdateRepair(k)
      PROVE  (NobodyOutYet /\ OutsideCanReturn)'
  BY <1>1, <1>6 DEF UpdateDelay, UpdatePacket, UpdateRepair, Updated
<1>7. CASE UNCHANGED vars
  BY <1>7 DEF vars, NobodyOutYet, OutsideCanReturn, Outside, Margin
<1>. QED BY <1>2, <1>3, <1>4, <1>5, <1>6, <1>7 DEF Next

\* While the run goes on nobody is outside incapacitated, and nobody works on
\* without the time, or the health, to come back: also a member who is frozen
\* in a phase because another is outside.
THEOREM NobodyLeftOutside == Spec => []OutsideCanReturn
<1>1. Init => NobodyOutYet /\ OutsideCanReturn
  BY DEF Init, NobodyOutYet, OutsideCanReturn, OnEva, Working
<1>2. TypeOK /\ NobodyOutYet /\ OutsideCanReturn /\ [Next]_vars
        => (NobodyOutYet /\ OutsideCanReturn)'
  BY OutsideNext
<1>. QED BY <1>1, <1>2, PlanStateTyped, PTL DEF Spec

----------------------------------------------------------------------------
(* The stabilization hold *)

LEMMA StepSimulated ==
  ASSUME NEW n \in Int
  PROVE  /\ Simulated(n) \in Int /\ Simulated(n + StepMin) = Simulated(n) + TimeStep
         /\ Simulated(0) = 0 /\ Simulated(StepMin) = TimeStep
<1>. DEFINE q == n \div StepMin
<1>0. StepMin \in Nat \ {0} /\ TimeStep \in Nat \ {0}
  BY StepCounts
<1>1. q \in Int /\ (n + StepMin) \div StepMin = q + 1
      /\ 0 \div StepMin = 0 /\ StepMin \div StepMin = 1
  <2>1. PICK d \in Nat \ {0} : d = StepMin
    BY <1>0
  <2>2. PICK k \in Int, r \in 0 .. d - 1 : n = d * k + r /\ n \div d = k
    BY Division
  <2>3. n + d = d * (k + 1) + r
    BY <2>2
  <2>4. (n + d) \div d = k + 1
    BY <2>2, <2>3, QuotientIsUnique
  <2>5. 0 \div d = 0 /\ d \div d = 1
    <3>1. 0 = d * 0 + 0 /\ d = d * 1 + 0 /\ 0 \in 0 .. d - 1
      OBVIOUS
    <3>. QED BY <3>1, QuotientIsUnique
  <2>. QED BY <2>1, <2>2, <2>4, <2>5
<1>. HIDE DEF q
<1>2. TimeStep * (q + 1) = TimeStep * q + TimeStep
  BY <1>0, <1>1
<1>3. TimeStep * q \in Int
  BY <1>0, <1>1
<1>. QED BY <1>0, <1>1, <1>2, <1>3 DEF Simulated, q

LEMMA HoldNext == TypeOK /\ HoldCounted /\ [Next]_vars => HoldCounted'
<1>. SUFFICES ASSUME TypeOK, HoldCounted, [Next]_vars PROVE HoldCounted'
  OBVIOUS
<1>0. time \in Nat /\ hold \in Nat /\ unsafeAt \in Int /\ StepMin \in Nat \ {0}
      /\ TimeStep \in Nat \ {0} /\ Seconds(HoldMin) \in Nat
  BY Durations, StepCounts DEF TypeOK, Seconds
<1>1. ASSUME UNCHANGED <<time, hold, outcome, unsafeAt>>, phase # "done" \/ UNCHANGED phase
      PROVE  HoldCounted'
  BY <1>1 DEF HoldCounted, HoldUnbroken, Simulated
<1>2. CASE Validate
  BY <1>2 DEF Validate, HoldCounted, HoldUnbroken, Simulated
<1>3. ASSUME NEW habitat \in Habitat, Evaluate(habitat)
      PROVE  HoldCounted'
  <2>. DEFINE failed == Failed(AfterAborts, habitat)
              stable == ~ failed /\ Stable(AfterAborts, habitat)
              won    == stable /\ Held(stable) >= Seconds(HoldMin)
  <2>1. /\ phase = "update" /\ hold' = Held(stable)
        /\ unsafeAt' = IF stable THEN unsafeAt ELSE time
        /\ \/ /\ phase' = "done" /\ UNCHANGED time
              /\ outcome' = IF won THEN "STABILIZED" ELSE "FAILURE"
           \/ phase' = "start" /\ time' = time + StepMin /\ UNCHANGED outcome
    BY <1>3 DEF Evaluate
  <2>. HIDE DEF failed
  <2>2. hold = Simulated(time - unsafeAt) - TimeStep /\ outcome = "none"
    BY <2>1 DEF HoldCounted
  <2>3. CASE stable
    <3>1. PICK seconds \in Int : seconds = Simulated(time - unsafeAt)
      BY <1>0, StepSimulated
    <3>2. hold' = seconds /\ unsafeAt' = unsafeAt
      BY <1>0, <2>1, <2>2, <2>3, <3>1 DEF Held
    <3>3. CASE phase' = "done" /\ UNCHANGED time
      <4>1. Simulated(time - unsafeAt)' = seconds
        BY <3>1, <3>2, <3>3 DEF Simulated
      <4>2. won => seconds >= Seconds(HoldMin)
        BY <2>1, <3>2
      <4>. QED BY <2>1, <3>3, <4>1, <4>2 DEF HoldCounted, HoldUnbroken
    <3>4. CASE phase' = "start" /\ time' = time + StepMin /\ UNCHANGED outcome
      <4>1. time' - unsafeAt' = (time - unsafeAt) + StepMin
        BY <1>0, <3>2, <3>4
      <4>2. Simulated(time' - unsafeAt') = seconds + TimeStep
        BY <1>0, <3>1, <4>1, StepSimulated
      <4>3. Simulated(time - unsafeAt)' = seconds + TimeStep
        BY <4>2 DEF Simulated
      <4>4. hold' = Simulated(time - unsafeAt)' - TimeStep
        BY <1>0, <3>2, <4>3
      <4>. QED BY <2>2, <3>4, <4>4 DEF HoldCounted, HoldUnbroken
    <3>. QED BY <2>1, <3>3, <3>4
  <2>4. CASE ~ stable
    <3>1. hold' = 0 /\ unsafeAt' = time /\ ~ won
      BY <2>1, <2>4 DEF Held
    <3>2. CASE phase' = "done"
      BY <2>1, <3>1, <3>2 DEF HoldCounted, HoldUnbroken
    <3>3. CASE phase' = "start" /\ time' = time + StepMin /\ UNCHANGED outcome
      <4>1. time' - unsafeAt' = StepMin
        BY <1>0, <3>1, <3>3
      <4>2. Simulated(time - unsafeAt)' = TimeStep
        BY <4>1, StepSimulated DEF Simulated
      <4>3. hold' = Simulated(time - unsafeAt)' - TimeStep
        BY <1>0, <3>1, <4>2
      <4>. QED BY <2>2, <3>3, <4>3 DEF HoldCounted, HoldUnbroken
    <3>. QED BY <2>1, <3>2, <3>3
  <2>. QED BY <2>3, <2>4
<1>4. ASSUME NEW i \in DOMAIN plan, StartAction(i)
      PROVE  HoldCounted'
  BY <1>1, <1>4, StartFrame
<1>5. CASE Physiology \/ EvaStep
  BY <1>1, <1>5, EvaFrame DEF Physiology, verdict
<1>6. ASSUME NEW k \in DOMAIN active, UpdateDelay(k) \/ UpdatePacket(k) \/ UpdateRepair(k)
      PROVE  HoldCounted'
  BY <1>1, <1>6 DEF UpdateDelay, UpdatePacket, UpdateRepair, Updated, verdict
<1>7. CASE UNCHANGED vars
  BY <1>1, <1>7 DEF vars
<1>. QED BY <1>2, <1>3, <1>4, <1>5, <1>6, <1>7 DEF Next

\* Whatever the time step, STABILIZED is only said when every evaluation of the
\* last HoldMin minutes of simulated time found the conditions met.
THEOREM StabilizedAfterHold == Spec => []HoldUnbroken
<1>1. Init => HoldCounted
  <2>. SUFFICES ASSUME Init PROVE HoldCounted
    OBVIOUS
  <2>1. time - unsafeAt = StepMin /\ hold = 0 /\ outcome = "none"
    BY StepCounts DEF Init
  <2>2. hold = Simulated(time - unsafeAt) - TimeStep
    BY <2>1, StepCounts, StepSimulated
  <2>. QED BY <2>1, <2>2 DEF HoldCounted, HoldUnbroken
<1>2. TypeOK /\ HoldCounted /\ [Next]_vars => HoldCounted'
  BY HoldNext
<1>3. HoldCounted => HoldUnbroken
  BY DEF HoldCounted
<1>. QED BY <1>1, <1>2, <1>3, PlanStateTyped, PTL DEF Spec

\* A step that lasts no longer than the clock advances by simulates no more
\* seconds than the clock counts.
LEMMA ClockKeepsUp ==
  ASSUME TimeStep <= Seconds(StepMin), NEW n \in Int, NEW m \in Nat,
         Simulated(n) >= Seconds(m)
  PROVE  n >= m
<1>. DEFINE q == n \div StepMin
<1>0. StepMin \in Nat \ {0} /\ TimeStep \in Nat \ {0} /\ TimeStep <= 60 * StepMin
  BY StepCounts DEF Seconds
<1>1. q \in Int /\ StepMin * q <= n
  <2>1. PICK d \in Nat \ {0} : d = StepMin
    BY <1>0
  <2>2. PICK k \in Int, x \in 0 .. d - 1 : n = d * k + x /\ n \div d = k
    BY Division
  <2>3. d * k <= n
    BY <2>2
  <2>. QED BY <2>1, <2>2, <2>3
<1>2. TimeStep * q >= 60 * m
  BY DEF Simulated, Seconds
<1>. HIDE DEF q
<1>3. q >= 0
  <2>1. ASSUME q <= -1 PROVE FALSE
    <3>1. TimeStep * q <= TimeStep * (-1)
      BY <1>0, <1>1, <2>1
    <3>. QED BY <1>0, <1>1, <1>2, <3>1
  <2>. QED BY <1>1, <2>1
<1>4. TimeStep * q <= (60 * StepMin) * q
  BY <1>0, <1>1, <1>3
<1>5. PICK a \in Int : a = StepMin * q
  BY <1>0, <1>1
<1>6. (60 * StepMin) * q = 60 * a
  BY <1>0, <1>1, <1>5
<1>7. PICK b \in Int : b = TimeStep * q
  BY <1>0, <1>1
<1>. QED BY <1>1, <1>2, <1>4, <1>5, <1>6, <1>7

\* In minutes of the clock the hold is only as long as it is configured when
\* the clock keeps up: up to 60 seconds a step, or whole minutes.
THEOREM StabilizedAfterMinutes ==
  ASSUME TimeStep <= Seconds(StepMin)
  PROVE  Spec => []HeldForMinutes
<1>1. TypeOK /\ HoldUnbroken => HeldForMinutes
  <2>. SUFFICES ASSUME TypeOK, HoldUnbroken, outcome = "STABILIZED"
                PROVE  time - unsafeAt >= HoldMin
    BY DEF HeldForMinutes
  <2>1. time - unsafeAt \in Int /\ HoldMin \in Nat
    BY Durations, StepCounts DEF TypeOK
  <2>2. Simulated(time - unsafeAt) >= Seconds(HoldMin)
    BY DEF HoldUnbroken
  <2>. QED BY <2>1, <2>2, ClockKeepsUp
<1>. QED BY <1>1, PlanStateTyped, StabilizedAfterHold, PTL

----------------------------------------------------------------------------
(* A repair takes its time *)

LEMMA BegunPast ==
  ASSUME TypeOK, Starts
  PROVE  Begun \subseteq Nat /\ \A b \in Begun : b <= time
<1>1. active \in Seq(ActionState)
  BY DEF TypeOK
<1>2. \A k \in DOMAIN active : active[k] \in ActionState
  BY <1>1
<1>. QED BY <1>2 DEF Begun, ActionState, Starts

\* A repair that is not refused starts all clocks anew, at the time it begins.
LEMMA StartBegins ==
  ASSUME TypeOK, NEW i \in DOMAIN plan, StartAction(i)
  PROVE  \/ UNCHANGED <<crew, clock>> /\ Begun' = Begun
         \/ /\ clock' = ClocksReset /\ Begun' = Begun \cup {time}
            /\ \E c \in Crew : crew' = [crew EXCEPT ![c].eva = "Preparing"]
<1>0. time \in Nat
  BY RoverFields
<1>1. ASSUME NEW c \in Crew \cup {NoCrew}, NEW status \in {"Active", "Complete", "Failed"},
             Started(i, c, status)
      PROVE  Begun' = IF c = NoCrew THEN Begun ELSE Begun \cup {time}
  <2>1. /\ DOMAIN active' = DOMAIN active \cup {Len(active) + 1}
        /\ active'[Len(active) + 1] =
             [action |-> i, start |-> time, crew |-> c, status |-> status]
        /\ \A k \in DOMAIN active : active'[k] = active[k]
    BY <1>0, <1>1, StartAppends
  <2>2. PICK n : n = Len(active) + 1
    OBVIOUS
  <2>3. /\ DOMAIN active' = DOMAIN active \cup {n}
        /\ active'[n].crew = c /\ active'[n].start = time
        /\ \A k \in DOMAIN active : active'[k] = active[k]
    BY <2>1, <2>2
  <2>. QED BY <2>3 DEF Begun
<1>2. NoCrew \notin Crew
  BY Durations DEF NoCrew
<1>3. CASE StartRepair(i)
  <2>. DEFINE c == SentCrew(plan[i])
  <2>1. CASE MayGo(c)
    <3>1. c \in Crew /\ c # NoCrew
      BY <1>2, <2>1, Durations DEF MayGo
    <3>2. /\ Started(i, c, "Active") /\ clock' = ClocksReset
          /\ crew' = [crew EXCEPT ![c].eva = "Preparing"]
      BY <1>3, <2>1 DEF StartRepair
    <3>. QED BY <1>1, <3>1, <3>2
  <2>2. CASE ~ MayGo(c)
    BY <1>1, <1>3, <2>2 DEF StartRepair
  <2>. QED BY <2>1, <2>2
<1>4. CASE ~ StartRepair(i)
  <2>1. UNCHANGED <<crew, clock>>
    BY <1>4 DEF StartAction, StartImmediate, StartDelay, StartPacket
  <2>2. \E status \in {"Active", "Complete", "Failed"} : Started(i, NoCrew, status)
    BY <1>4 DEF StartAction, StartImmediate, StartDelay, StartPacket
  <2>. QED BY <1>1, <2>1, <2>2
<1>. QED BY <1>3, <1>4

\* A step of the clock more is a step more of simulated seconds.
LEMMA RanStep ==
  ASSUME time \in Nat, NEW b \in Nat, Clocked \in Nat,
         Clocked' \in {Clocked, Clocked + StepMin}
  PROVE  /\ Ran(b) \in Int
         /\ Clocked' = Clocked => Ran(b)' = Ran(b)
         /\ Clocked' = Clocked + StepMin => Ran(b)' = Ran(b) + TimeStep
<1>0. StepMin \in Nat \ {0} /\ Clocked - b \in Int /\ Clocked' \in Int
  BY StepCounts
<1>1. Ran(b) = Simulated(Clocked - b) /\ Ran(b) \in Int
  BY <1>0, StepSimulated DEF Ran
<1>2. Ran(b)' = Simulated(Clocked' - b)
  BY <1>0 DEF Ran, Simulated, StepMin
<1>3. Clocked + StepMin - b = (Clocked - b) + StepMin
  BY <1>0
<1>4. Simulated((Clocked - b) + StepMin) = Simulated(Clocked - b) + TimeStep
  BY <1>0, StepSimulated
<1>5. CASE Clocked' = Clocked
  BY <1>0, <1>1, <1>2, <1>5
<1>6. CASE Clocked' = Clocked + StepMin
  BY <1>0, <1>1, <1>2, <1>3, <1>4, <1>6
<1>7. Clocked # Clocked + StepMin
  BY <1>0
<1>. QED BY <1>0, <1>1, <1>5, <1>6, <1>7

LEMMA SimulatedGrows ==
  ASSUME NEW m \in Int, NEW n \in Int, m <= n
  PROVE  Simulated(m) <= Simulated(n)
<1>. DEFINE p == m \div StepMin
            q == n \div StepMin
<1>1. StepMin \in Nat \ {0} /\ TimeStep \in Nat \ {0}
  BY StepCounts
<1>2. p \in Int /\ q \in Int /\ p <= q
  <2>1. PICK d \in Nat \ {0} : d = StepMin
    BY <1>1
  <2>2. PICK i \in Int, x \in 0 .. d - 1 : m = d * i + x /\ m \div d = i
    BY Division
  <2>3. PICK j \in Int, y \in 0 .. d - 1 : n = d * j + y /\ n \div d = j
    BY Division
  <2>4. ASSUME i >= j + 1 PROVE FALSE
    <3>1. d * i >= d * (j + 1)
      BY <2>4
    <3>2. d * (j + 1) = d * j + d
      OBVIOUS
    <3>. QED BY <2>2, <2>3, <3>1, <3>2
  <2>. QED BY <2>1, <2>2, <2>3, <2>4
<1>. HIDE DEF p, q
<1>3. TimeStep * p <= TimeStep * q
  BY <1>1, <1>2
<1>. QED BY <1>3 DEF Simulated, p, q

LEMMA ReturnWorkTyped ==
  ASSUME TypeOK
  PROVE  /\ ReturnWork \in Nat /\ Outward \in Nat
         /\ Seconds(clock.eva) \in Nat /\ clock.progress \in Nat
<1>1. clock.eva \in Nat /\ clock.work \in Nat /\ clock.progress \in Nat
  BY StepCounts, ClocksTyped
<1>2. PreparationMin \in Nat /\ EgressMin \in Nat
  BY Durations
<1>. QED BY <1>1, <1>2 DEF ReturnWork, Outward, Seconds

\* Advancing one phase keeps the clocks behind the time: it adds at most a step
\* to the work, and nobody starts to work before preparation and egress are over.
LEMMA AdvanceTimed ==
  ASSUME TypeOK, Starts, RepairTimed, NEW c \in Crew, NEW from, NEW to \in Eva,
         NEW work \in Nat, NEW progress \in 0 .. Seconds(RepairWorkMin),
         Advance(c, from, to, work, progress),
         progress + (IF progress = Seconds(RepairWorkMin) THEN Seconds(work) ELSE 0)
           <= clock.progress + ReturnWork + TimeStep,
         to = "Working" \/ progress > 0 =>
           \/ clock.progress > 0 \/ \E m \in Crew : crew[m].eva = "Working"
           \/ progress = 0 /\ clock.eva + WholeMin >= PreparationMin + EgressMin
  PROVE  RepairTimed'
<1>. DEFINE total == progress + (IF progress = Seconds(RepairWorkMin)
                                 THEN Seconds(work) ELSE 0)
<1>0. /\ clock.eva \in Nat /\ clock.progress \in Nat /\ ReturnWork \in Nat
      /\ TimeStep \in Nat \ {0} /\ Outward \in Nat /\ time \in Nat /\ total \in Nat
      /\ Seconds(RepairWorkMin) \in Nat \ {0} /\ Seconds(clock.eva) \in Nat
      /\ WholeMin \in Nat /\ Seconds(WholeMin) <= TimeStep
      /\ crew \in [Crew -> [eva : Eva, health : Health]]
  <2>1. total \in Nat
    BY StepCounts DEF Seconds
  <2>. QED BY <2>1, StepCounts, ClocksTyped, TimeTyped, ReturnWorkTyped
<1>1. /\ phase = "eva" /\ phase' = "update" /\ UNCHANGED <<time, active>>
      /\ Outside # {}
      /\ crew' = [crew EXCEPT ![c].eva = to]
      /\ clock' = [eva |-> clock.eva + WholeMin, work |-> work, progress |-> progress]
  BY DEF Advance, EvaPhase
<1>2. Begun' = Begun /\ Clocked = time /\ Clocked' = Clocked + StepMin
  BY <1>1 DEF Begun, Clocked
<1>3. /\ clock'.eva = clock.eva + WholeMin /\ clock'.progress = progress
      /\ clock'.progress + ReturnWork' = total
  <2>1. clock'.eva = clock.eva + WholeMin /\ clock'.progress = progress /\ clock'.work = work
    BY <1>1
  <2>2. ReturnWork' = IF progress = Seconds(RepairWorkMin) THEN Seconds(work) ELSE 0
    BY <2>1 DEF ReturnWork, Repaired, Seconds
  <2>. QED BY <2>1, <2>2
<1>4. \A m \in Crew : crew'[m].eva = IF m = c THEN to ELSE crew[m].eva
  BY <1>0, <1>1
<1>5. Begun # {} /\ Begun \subseteq Nat
  BY <1>1, BegunPast DEF RepairTimed, Outside
<1>6. \A b \in Begun : Seconds(clock.eva) <= Ran(b) /\ clock.progress + ReturnWork <= Ran(b)
  BY DEF RepairTimed
<1>. HIDE DEF total
<1>7. total <= clock.progress + ReturnWork + TimeStep
  BY DEF total
<1>8. Seconds(clock.eva + WholeMin) = Seconds(clock.eva) + Seconds(WholeMin)
      /\ Seconds(WholeMin) \in Nat
  BY <1>0 DEF Seconds
<1>9. \A b \in Begun : Ran(b) \in Int /\ Ran(b)' = Ran(b) + TimeStep
  BY <1>0, <1>2, <1>5, RanStep
<1>10. \A b \in Begun : Seconds(clock.eva + WholeMin) <= Ran(b)' /\ total <= Ran(b)'
  BY <1>0, <1>6, <1>7, <1>8, <1>9
<1>11. Seconds(clock.eva)' = Seconds(clock.eva + WholeMin)
  BY <1>3 DEF Seconds
<1>12. ASSUME (\E m \in Crew : crew'[m].eva = "Working") \/ clock'.progress > 0
       PROVE  \E b \in Begun : Outward + total <= Ran(b)'
  <2>1. CASE clock.progress > 0 \/ \E m \in Crew : crew[m].eva = "Working"
    <3>1. PICK b \in Begun : Outward + clock.progress + ReturnWork <= Ran(b)
      BY <2>1 DEF RepairTimed
    <3>. QED BY <1>0, <1>7, <1>9, <3>1
  <2>2. CASE progress = 0 /\ clock.eva + WholeMin >= PreparationMin + EgressMin
    <3>1. PICK b \in Begun : TRUE
      BY <1>5
    <3>2. total = 0
      BY <1>0, <2>2 DEF total
    <3>3. Seconds(clock.eva + WholeMin) >= Outward
      BY <1>0, <2>2, Durations DEF Seconds, Outward
    <3>4. Outward <= Ran(b)'
      BY <1>0, <1>9, <1>10, <3>1, <3>3 DEF Seconds
    <3>. QED BY <1>0, <3>1, <3>2, <3>4
  <2>. QED BY <1>3, <1>4, <1>12, <2>1, <2>2
<1>13. (\E m \in Crew : crew'[m].eva \in OnEva) \/ clock'.progress > 0 => Begun' # {}
  BY <1>2, <1>5
<1>14. \A b \in Begun' : Seconds(clock.eva)' <= Ran(b)'
                         /\ clock'.progress + ReturnWork' <= Ran(b)'
  BY <1>2, <1>3, <1>10, <1>11
<1>15. ASSUME (\E m \in Crew : crew'[m].eva = "Working") \/ clock'.progress > 0
       PROVE  \E b \in Begun' : Outward + clock'.progress + ReturnWork' <= Ran(b)'
  <2>1. PICK b \in Begun : Outward + total <= Ran(b)'
    BY <1>12, <1>15
  <2>2. ReturnWork' \in Nat /\ clock'.progress \in Nat
    BY <1>1 DEF ReturnWork, Seconds
  <2>3. Outward + clock'.progress + ReturnWork' = Outward + total
    <3>1. PICK returned \in Nat : returned = ReturnWork'
      BY <2>2
    <3>2. PICK repaired \in Nat : repaired = clock'.progress
      BY <2>2
    <3>3. total = repaired + returned
      BY <1>3, <3>1, <3>2
    <3>. QED BY <1>0, <3>1, <3>2, <3>3
  <2>. QED BY <1>2, <2>1, <2>3
<1>16. Outward' = Outward
  BY DEF Outward, Seconds
<1>. QED BY <1>13, <1>14, <1>15, <1>16 DEF RepairTimed

LEMMA EvaTimed ==
  ASSUME TypeOK, Starts, RepairTimed, EvaStep
  PROVE  RepairTimed'
<1>0. /\ clock.eva \in Nat /\ clock.work \in Nat /\ clock.progress \in 0 .. Seconds(RepairWorkMin)
      /\ WholeMin \in Nat /\ Seconds(WholeMin) <= TimeStep /\ TimeStep \in Nat \ {0}
      /\ Seconds(RepairWorkMin) \in Nat \ {0} /\ time \in Nat
      /\ crew \in [Crew -> [eva : Eva, health : Health]]
  BY StepCounts, ClocksTyped, TimeTyped
<1>1. CASE NobodyOut \/ AbortEva
  <2>1. /\ phase = "eva" /\ phase' = "update" /\ UNCHANGED <<time, active, clock>>
        /\ UNCHANGED crew \/ \E c : crew' = [crew EXCEPT ![c].eva = "Aborted"]
    BY <1>1 DEF NobodyOut, AbortEva, EvaPhase
  <2>2. Begun' = Begun /\ ReturnWork' = ReturnWork /\ Clocked = time
        /\ Clocked' = Clocked + StepMin /\ Outward' = Outward
        /\ Seconds(clock.eva)' = Seconds(clock.eva)
    BY <2>1 DEF Begun, ReturnWork, Repaired, Clocked, Outward, Seconds
  <2>3. \A m \in Crew : crew'[m].eva \in {crew[m].eva, "Aborted"}
    BY <1>0, <2>1
  <2>4. "Aborted" \notin OnEva
    BY DEF OnEva, Working
  <2>5. \A b \in Begun : Ran(b) \in Int /\ Ran(b)' = Ran(b) + TimeStep
    BY <1>0, <2>2, BegunPast, RanStep
  <2>6. ReturnWork \in Nat /\ Outward \in Nat /\ Seconds(clock.eva) \in Nat
    BY ReturnWorkTyped
  <2>7. (\E m \in Crew : crew'[m].eva \in OnEva) \/ clock'.progress > 0 => Begun' # {}
    BY <2>1, <2>2, <2>3, <2>4 DEF RepairTimed
  <2>8. \A b \in Begun' : Seconds(clock.eva)' <= Ran(b)'
                          /\ clock'.progress + ReturnWork' <= Ran(b)'
    BY <1>0, <2>1, <2>2, <2>5, <2>6 DEF RepairTimed
  <2>9. ASSUME (\E m \in Crew : crew'[m].eva = "Working") \/ clock'.progress > 0
        PROVE  \E b \in Begun' : Outward' + clock'.progress + ReturnWork' <= Ran(b)'
    <3>1. PICK b \in Begun : Outward + clock.progress + ReturnWork <= Ran(b)
      BY <2>1, <2>2, <2>3, <2>9 DEF RepairTimed
    <3>. QED BY <1>0, <2>1, <2>2, <2>5, <2>6, <3>1
  <2>. QED BY <2>7, <2>8, <2>9 DEF RepairTimed
<1>2. ASSUME NEW c \in Crew, Prepare(c) PROVE RepairTimed'
  <2>. DEFINE to == IF clock.eva + WholeMin >= PreparationMin THEN "Egress" ELSE "Preparing"
  <2>1. Advance(c, "Preparing", to, clock.work, clock.progress) /\ to # "Working"
        /\ to \in Eva
    BY <1>2 DEF Prepare, Eva, OnEva, Working
  <2>2. clock.progress + (IF clock.progress = Seconds(RepairWorkMin)
                             THEN Seconds(clock.work) ELSE 0)
          <= clock.progress + ReturnWork + TimeStep
    BY <1>0 DEF ReturnWork, Repaired, Seconds
  <2>. HIDE DEF to
  <2>. QED BY <1>0, <2>1, <2>2, AdvanceTimed
<1>3. ASSUME NEW c \in Crew, Exit(c) PROVE RepairTimed'
  <2>. DEFINE over == clock.eva + WholeMin >= PreparationMin + EgressMin
              to   == IF over THEN "Working" ELSE "Egress"
              work == IF over THEN 0 ELSE clock.work
  <2>1. /\ Advance(c, "Egress", to, work, clock.progress)
        /\ to = "Working" => clock.eva + WholeMin >= PreparationMin + EgressMin
        /\ to \in Eva /\ work \in Nat
    BY <1>0, <1>3 DEF Exit, Eva, OnEva, Working
  <2>2. clock.progress + (IF clock.progress = Seconds(RepairWorkMin) THEN Seconds(work) ELSE 0)
          <= clock.progress + ReturnWork + TimeStep
    BY <1>0 DEF ReturnWork, Repaired, Seconds
  <2>3. clock.progress > 0 \/ clock.progress = 0
    BY <1>0
  <2>. HIDE DEF to, work, over
  <2>. QED BY <1>0, <2>1, <2>2, <2>3, AdvanceTimed
<1>4. ASSUME NEW c \in Crew, Repair(c) PROVE RepairTimed'
  <2>1. PICK pace \in Paces :
          LET progress == Min({Seconds(RepairWorkMin), clock.progress + pace})
              over     == progress = Seconds(RepairWorkMin)
          IN  /\ Advance(c, "Working", IF over THEN "Ingress" ELSE "Working",
                         IF over THEN 0 ELSE clock.work + WholeMin, progress)
              /\ UNCHANGED restored
    BY <1>4 DEF Repair
  <2>. DEFINE progress == Min({Seconds(RepairWorkMin), clock.progress + pace})
              over     == progress = Seconds(RepairWorkMin)
              to       == IF over THEN "Ingress" ELSE "Working"
              work     == IF over THEN 0 ELSE clock.work + WholeMin
  <2>2. progress \in 0 .. Seconds(RepairWorkMin) /\ progress <= clock.progress + TimeStep
    BY ProgressTyped
  <2>3. Advance(c, "Working", to, work, progress)
    BY <2>1
  <2>4. to \in Eva /\ work \in Nat /\ (progress = Seconds(RepairWorkMin) => work = 0)
    BY <1>0 DEF Eva, OnEva, Working
  <2>. HIDE DEF progress, to, work
  <2>5. ReturnWork \in Nat
    BY ReturnWorkTyped
  <2>6. progress + (IF progress = Seconds(RepairWorkMin) THEN Seconds(work) ELSE 0)
          <= clock.progress + ReturnWork + TimeStep
    BY <1>0, <2>2, <2>4, <2>5 DEF Seconds
  <2>7. crew[c].eva = "Working"
    BY <2>3, WorkTyped DEF Advance
  <2>. QED BY <2>2, <2>3, <2>4, <2>6, <2>7, AdvanceTimed
<1>5. ASSUME NEW c \in Crew, Return(c) PROVE RepairTimed'
  <2>. DEFINE work == Now(c).work + WholeMin
              to   == IF work >= IngressMin THEN "Complete" ELSE "Ingress"
  <2>1. Advance(c, "Ingress", to, work, clock.progress) /\ to \in Eva /\ to # "Working"
    BY <1>5 DEF Return, Eva, OnEva
  <2>2. work \in Nat /\ work <= clock.work + WholeMin
    BY <1>0, WorkTyped
  <2>. HIDE DEF work, to
  <2>3. clock.progress + (IF clock.progress = Seconds(RepairWorkMin)
                          THEN Seconds(work) ELSE 0)
          <= clock.progress + ReturnWork + TimeStep
    BY <1>0, <2>2 DEF ReturnWork, Repaired, Seconds
  <2>. QED BY <1>0, <2>1, <2>2, <2>3, AdvanceTimed
<1>. QED BY <1>1, <1>2, <1>3, <1>4, <1>5 DEF EvaStep

LEMMA RepairTimedNext == TypeOK /\ Starts /\ RepairTimed /\ [Next]_vars => RepairTimed'
<1>. SUFFICES ASSUME TypeOK, Starts, RepairTimed, [Next]_vars PROVE RepairTimed'
  OBVIOUS
<1>0. /\ clock.eva \in Nat /\ clock.work \in Nat /\ clock.progress \in 0 .. Seconds(RepairWorkMin)
      /\ StepMin \in Nat \ {0} /\ Seconds(RepairWorkMin) \in Nat \ {0} /\ time \in Nat
      /\ crew \in [Crew -> [eva : Eva, health : Health]]
      /\ ReturnWork \in Nat /\ Begun \subseteq Nat /\ Outward \in Nat
  BY StepCounts, ClocksTyped, TimeTyped, BegunPast, ReturnWorkTyped
\* Steps that at most turn somebody back, while the clocks count as before.
<1>1. ASSUME Begun' = Begun, Clocked' = Clocked, clock'.eva = clock.eva,
             clock'.progress = clock.progress,
             clock'.work \in {clock.work, 0},
             \A m \in Crew : crew'[m].eva \in {crew[m].eva, "Ingress"}
                             /\ (crew'[m].eva \in OnEva => crew[m].eva \in OnEva)
      PROVE  RepairTimed'
  <2>1. ReturnWork' \in {ReturnWork, 0} /\ Outward' = Outward
        /\ Seconds(clock.eva)' = Seconds(clock.eva)
    BY <1>1 DEF ReturnWork, Repaired, Outward, Seconds
  <2>2. \A b \in Begun : Ran(b) \in Int /\ Ran(b)' = Ran(b)
    <3>1. Clocked \in Nat
      BY <1>0 DEF Clocked
    <3>. QED BY <1>0, <1>1, <3>1, RanStep
  <2>3. (\E m \in Crew : crew'[m].eva \in OnEva) \/ clock'.progress > 0 => Begun' # {}
    BY <1>1 DEF RepairTimed
  <2>4. \A b \in Begun' : Seconds(clock.eva)' <= Ran(b)'
                          /\ clock'.progress + ReturnWork' <= Ran(b)'
    BY <1>0, <1>1, <2>1, <2>2 DEF RepairTimed
  <2>5. ASSUME (\E m \in Crew : crew'[m].eva = "Working") \/ clock'.progress > 0
        PROVE  \E b \in Begun' : Outward' + clock'.progress + ReturnWork' <= Ran(b)'
    <3>1. PICK b \in Begun : Outward + clock.progress + ReturnWork <= Ran(b)
      BY <1>1, <2>5 DEF RepairTimed
    <3>. QED BY <1>0, <1>1, <2>1, <2>2, <3>1
  <2>. QED BY <2>3, <2>4, <2>5 DEF RepairTimed
<1>2. ASSUME NEW i \in DOMAIN plan, StartAction(i)
      PROVE  RepairTimed'
  <2>1. phase = "start" /\ UNCHANGED <<phase, time>>
    BY <1>2, StartFrame
  <2>2. Clocked = time /\ Clocked' = time
    BY <2>1 DEF Clocked
  <2>3. CASE UNCHANGED <<crew, clock>> /\ Begun' = Begun
    BY <1>1, <2>2, <2>3
  <2>4. CASE /\ clock' = ClocksReset /\ Begun' = Begun \cup {time}
             /\ \E c \in Crew : crew' = [crew EXCEPT ![c].eva = "Preparing"]
    <3>1. clock'.eva = 0 /\ clock'.progress = 0 /\ ReturnWork' = 0
          /\ Seconds(clock.eva)' = 0 /\ Outward' = Outward
      BY <1>0, <2>4 DEF ClocksReset, ReturnWork, Repaired, Seconds, Outward
    <3>2. \A m \in Crew : crew'[m].eva \in {crew[m].eva, "Preparing"}
      BY <1>0, <2>4
    <3>3. \A b \in Begun : Ran(b) \in Int /\ Ran(b)' = Ran(b)
      BY <1>0, <2>2, RanStep
    <3>4. \A b \in Begun : Ran(b) >= 0
      BY <1>0, <3>3, ReturnWorkTyped DEF RepairTimed
    <3>5. \A b \in Begun' : Seconds(clock.eva)' <= Ran(b)'
                            /\ clock'.progress + ReturnWork' <= Ran(b)'
      <4>1. time' - time = 0 /\ Clocked' = time
        BY <1>0, <2>1, <2>2
      <4>2. ASSUME NEW b \in Begun' PROVE Ran(b)' >= 0
        <5>1. CASE b \in Begun
          BY <3>3, <3>4, <5>1
        <5>2. CASE b = time
          <6>1. Ran(b)' = Simulated(time - time)
            BY <4>1, <5>2 DEF Ran, Simulated
          <6>2. time - time = 0
            BY <1>0
          <6>. QED BY <6>1, <6>2, StepSimulated
        <5>. QED BY <2>4, <5>1, <5>2
      <4>. QED BY <3>1, <4>2
    <3>6. ASSUME \E m \in Crew : crew'[m].eva = "Working"
          PROVE  \E b \in Begun' : Outward' + clock'.progress + ReturnWork' <= Ran(b)'
      <4>1. PICK b \in Begun : Outward + clock.progress + ReturnWork <= Ran(b)
        BY <3>2, <3>6 DEF RepairTimed
      <4>2. Outward + 0 + 0 <= Ran(b)
        BY <1>0, <3>3, <4>1
      <4>. QED BY <2>4, <3>1, <3>3, <4>1, <4>2
    <3>. QED BY <2>4, <3>1, <3>5, <3>6 DEF RepairTimed
  <2>. QED BY <1>2, <2>3, <2>4, StartBegins
<1>3. CASE EvaStep
  BY <1>3, EvaTimed
<1>4. CASE Physiology
  <2>1. phase = "start" /\ phase' = "eva" /\ UNCHANGED <<active, time, clock>>
        /\ \E health \in [Crew -> Health] :
             crew' = [c \in Crew |-> [crew[c] EXCEPT !.health = health[c]]]
    BY <1>4 DEF Physiology, world
  <2>2. \A m \in Crew : crew'[m].eva = crew[m].eva
    BY <1>0, <2>1
  <2>. QED BY <1>1, <2>1, <2>2 DEF Begun, Clocked
<1>5. ASSUME NEW habitat \in Habitat, Evaluate(habitat)
      PROVE  RepairTimed'
  <2>1. /\ phase = "update" /\ crew' = AfterAborts /\ UNCHANGED active
        /\ UNCHANGED clock \/ clock' = [clock EXCEPT !.work = 0]
        /\ \/ phase' = "done" /\ UNCHANGED time
           \/ phase' = "start" /\ time' = time + StepMin
    BY <1>5 DEF Evaluate
  <2>2. Begun' = Begun /\ Clocked' = Clocked
    BY <2>1 DEF Begun, Clocked
  <2>3. /\ clock'.eva = clock.eva /\ clock'.progress = clock.progress
        /\ clock'.work \in {clock.work, 0}
    <3>1. clock \in [eva : Nat, work : Nat, progress : 0 .. Seconds(RepairWorkMin)]
      BY DEF TypeOK
    <3>. QED BY <2>1, <3>1
  <2>4. \A m \in Crew : crew'[m].eva \in {crew[m].eva, "Ingress"}
                        /\ (crew'[m].eva \in OnEva => crew[m].eva \in OnEva)
    BY <1>0, <2>1 DEF AfterAborts, ToAbort, OnEva
  <2>. QED BY <1>1, <2>2, <2>3, <2>4
<1>6. CASE Validate
  BY <1>1, <1>6, BegunPast DEF Validate, world, Begun, Clocked, Starts, RepairTimed
<1>7. ASSUME NEW k \in DOMAIN active, UpdateDelay(k) \/ UpdatePacket(k) \/ UpdateRepair(k)
      PROVE  RepairTimed'
  <2>1. PICK status \in {"Active", "Complete", "Aborted"} :
          Updated(k, plan[active[k].action].type, status)
    BY <1>7, UpdateHolds
  <2>2. /\ UNCHANGED <<phase, time, crew, clock>> /\ DOMAIN active' = DOMAIN active
        /\ \A j \in DOMAIN active :
             active'[j].crew = active[j].crew /\ active'[j].start = active[j].start
    BY <2>1, UpdateFrame
  <2>3. Begun' = Begun /\ Clocked' = Clocked
    BY <2>2 DEF Begun, Clocked
  <2>. QED BY <1>1, <2>2, <2>3
<1>8. CASE UNCHANGED vars
  BY <1>1, <1>8 DEF vars, Begun, Clocked
<1>. QED BY <1>2, <1>3, <1>4, <1>5, <1>6, <1>7, <1>8 DEF Next

\* Only a step of the ingress restores the array, when ingress is over and the
\* repair done.
LEMMA RestoredByReturn ==
  ASSUME TypeOK, [Next]_vars, restored' # restored
  PROVE  \E c \in Crew : /\ phase = "eva" /\ Repaired
                         /\ Now(c).work + WholeMin >= IngressMin
<1>1. CASE EvaStep
  <2>1. PICK c \in Crew : Return(c)
    BY <1>1 DEF EvaStep, NobodyOut, AbortEva, Prepare, Exit, Repair
  <2>2. phase = "eva"
    BY <1>1, EvaFrame
  <2>3. restored' = (restored \/ (Now(c).work + WholeMin >= IngressMin
                                  /\ Repaired))
    BY <2>1 DEF Return
  <2>4. restored \in BOOLEAN
    BY DEF TypeOK
  <2>. QED BY <2>2, <2>3, <2>4
<1>2. ASSUME NEW i \in DOMAIN plan, StartAction(i) PROVE FALSE
  BY <1>2, StartFrame
<1>3. ASSUME NEW k \in DOMAIN active, UpdateDelay(k) \/ UpdatePacket(k) \/ UpdateRepair(k)
      PROVE  FALSE
  BY <1>3 DEF UpdateDelay, UpdatePacket, UpdateRepair, Updated
<1>4. CASE Validate \/ Physiology \/ \E habitat \in Habitat : Evaluate(habitat)
  BY <1>4 DEF Validate, Physiology, Evaluate, world
<1>5. CASE UNCHANGED vars
  BY <1>5 DEF vars
<1>. QED BY <1>1, <1>2, <1>3, <1>4, <1>5 DEF Next

\* Whatever the time step, the array is restored no sooner, in simulated time,
\* than work and ingress take after the last repair that was started, and all
\* phases after the first: a later repair restarts the clocks, the same member
\* or another, and cannot shorten it.
THEOREM RepairIsNotShortened == Spec => RepairTakesItsTime
<1>1. Init => RepairTimed
  BY Durations DEF Init, RepairTimed, Begun, OnEva, Working
<1>2. TypeOK /\ Starts /\ RepairTimed /\ [Next]_vars => RepairTimed'
  BY RepairTimedNext
<1>. DEFINE Slow ==
       /\ Begun # {}
       /\ Simulated(time + StepMin - Max(Begun)) >= Seconds(RepairWorkMin + IngressMin)
       /\ Simulated(time + StepMin - Min(Begun)) >=
            Seconds(PreparationMin + EgressMin + RepairWorkMin + IngressMin)
<1>3. TypeOK /\ Starts /\ RepairTimed /\ [Next]_vars
        => [restored' # restored => Slow]_vars
  <2>. SUFFICES ASSUME TypeOK, Starts, RepairTimed, [Next]_vars, restored' # restored
                PROVE  Slow
    OBVIOUS
  <2>0. /\ time \in Nat /\ StepMin \in Nat /\ TimeStep \in Nat /\ WholeMin \in Nat
        /\ Seconds(WholeMin) <= TimeStep
        /\ clock.work \in Nat /\ IngressMin \in Nat /\ RepairWorkMin \in Nat
        /\ PreparationMin \in Nat /\ EgressMin \in Nat
    BY Durations, StepCounts, ClocksTyped, TimeTyped
  <2>1. PICK c \in Crew : /\ phase = "eva" /\ Repaired
                          /\ Now(c).work + WholeMin >= IngressMin
    BY RestoredByReturn
  <2>2. clock.work + WholeMin >= IngressMin
    BY <2>0, <2>1, WorkTyped
  <2>3. Seconds(clock.work) + TimeStep >= Seconds(IngressMin)
    BY <2>0, <2>2 DEF Seconds
  <2>4. /\ Clocked = time /\ ReturnWork = Seconds(clock.work)
        /\ clock.progress = Seconds(RepairWorkMin)
    BY <2>1 DEF Clocked, ReturnWork, Repaired
  <2>5. Begun # {} /\ Begun \subseteq Nat /\ \A b \in Begun : b <= time
    BY <2>0, <2>1, BegunPast, StepCounts DEF RepairTimed, Repaired
  <2>6. Max(Begun) \in Begun
    BY <2>0, <2>5, GreatestMember
  <2>7. Min(Begun) \in Begun /\ \A b \in Begun : Min(Begun) <= b
    BY <2>5, LeastMember
  \* This step still counts: it is over before the array is restored.
  <2>8. ASSUME NEW b \in Begun
        PROVE  Ran(b) \in Int /\ Simulated(time + StepMin - b) = Ran(b) + TimeStep
    <3>1. b \in Nat /\ time - b \in Int /\ time + StepMin - b = (time - b) + StepMin
      BY <2>0, <2>5
    <3>. QED BY <2>4, <3>1, StepSimulated DEF Ran
  <2>9. Simulated(time + StepMin - Max(Begun)) >= Seconds(RepairWorkMin + IngressMin)
    <3>1. Seconds(RepairWorkMin) + Seconds(clock.work) <= Ran(Max(Begun))
      BY <2>4, <2>6 DEF RepairTimed
    <3>. QED BY <2>0, <2>3, <2>6, <2>8, <3>1 DEF Seconds
  <2>10. PICK b \in Begun :
           Outward + Seconds(RepairWorkMin) + Seconds(clock.work) <= Ran(b)
    BY <2>0, <2>1, <2>4, StepCounts DEF RepairTimed
  <2>11. Simulated(time + StepMin - b) >=
           Seconds(PreparationMin + EgressMin + RepairWorkMin + IngressMin)
    BY <2>0, <2>3, <2>8, <2>10 DEF Seconds, Outward
  <2>12. Simulated(time + StepMin - Min(Begun)) >= Simulated(time + StepMin - b)
    <3>0. b \in Nat /\ Min(Begun) \in Nat /\ Min(Begun) <= b
      BY <2>5, <2>7
    <3>1. /\ time + StepMin - Min(Begun) \in Int /\ time + StepMin - b \in Int
          /\ time + StepMin - b <= time + StepMin - Min(Begun)
      BY <2>0, <3>0
    <3>. QED BY <3>1, SimulatedGrows
  <2>13. /\ Simulated(time + StepMin - Min(Begun)) \in Int
         /\ Simulated(time + StepMin - b) \in Int
    BY <2>0, <2>7, <2>8
  <2>14. Simulated(time + StepMin - Min(Begun)) >=
           Seconds(PreparationMin + EgressMin + RepairWorkMin + IngressMin)
    <3>1. Seconds(PreparationMin + EgressMin + RepairWorkMin + IngressMin) \in Int
      BY <2>0 DEF Seconds
    <3>. QED BY <2>11, <2>12, <2>13, <3>1
  <2>. QED BY <2>5, <2>9, <2>14
<1>. QED BY <1>1, <1>2, <1>3, StartsInductive, PTL DEF Spec, RepairTakesItsTime
=============================================================================
