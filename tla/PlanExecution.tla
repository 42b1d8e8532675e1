--------------------------- MODULE PlanExecution ---------------------------
(***************************************************************************)
(* One run of the C++ simulator over a recovery plan: Simulation.cpp with  *)
(* Validator::validatePlan, ActionExecutor and the EVA part of             *)
(* ResourceModel.  A step of runInternal is cut into the calls it makes:   *)
(* scheduled actions, physiology, EVA, active actions, evaluation, clock.  *)
(*                                                                         *)
(* The physics is abstract: each step crew health, the pace of the repair  *)
(* and the state of the habitat are whatever the rate laws might give.     *)
(* Minutes, clocks and thresholds that decide about actions are exact.     *)
(* The code counts a step of time_step_s seconds in three ways: the clock  *)
(* of the run advances by StepMin, the EVA and transmission clocks by      *)
(* WholeMin, and what is a double of minutes in the code (hold, repair     *)
(* progress, rover charge) by TimeStep, here in seconds and not rounded.   *)
(***************************************************************************)
EXTENDS Integers, Sequences, FiniteSetsExt

CONSTANTS CrewSize, Qualified,   \* the roster is 1 .. CrewSize
          Plans,                 \* the plans a run may be given
          CommsOpen,             \* minutes inside a communication window
          PreparationMin, EgressMin, RepairWorkMin, IngressMin, ReserveMin,
          MaxEvaMin,             \* eva.maximum_duration_min
          RoverRequired,
          RoverReserve,          \* rover_minimum_reserve_percent, in minutes
          TransmissionMin, HoldMin, MaxMin,
          TimeStep,              \* time_step_s
          Paces,                 \* seconds of repair work a step may do
          CutsNeeded             \* isolations until the leak is below its limit

Crew   == 1 .. CrewSize
NoCrew == 0

Seconds(minutes) == 60 * minutes

WholeMin == TimeStep \div 60         \* static_cast<int>(dt_minutes)

StepMin == Max({1, TimeStep \div 60})

\* plan.actions.  What decides about an action: a delay's hours come truncated
\* to minutes; feasible: the load group is not protected, the module is empty.
Action ==
       [type : {"reduce_power_load", "isolate_module"}, start : Int, feasible : BOOLEAN]
  \cup [type : {"oxygen_rationing", "send_emergency_packet"}, start : Int]
  \cup [type : {"delay_rover_use"}, start : Int, minutes : Nat]
  \cup [type : {"repair_solar_array"}, start : Int,
        eva : Nat, assigned : Nat, crewId : Nat]

ASSUME PlanAssumption ==
  /\ Plans \subseteq Seq(Action)
  /\ CrewSize \in Nat \ {0} /\ Qualified \subseteq Crew
  /\ CommsOpen \subseteq Nat /\ RoverRequired \in BOOLEAN
  /\ \A n \in {PreparationMin, EgressMin, IngressMin, ReserveMin, RoverReserve,
               TransmissionMin, HoldMin, CutsNeeded} : n \in Nat
  /\ \A n \in {RepairWorkMin, MaxEvaMin, MaxMin, TimeStep} : n \in Nat \ {0}
  /\ Paces \subseteq 0 .. TimeStep

\* validateScenario refuses a scenario in which the phases do not fit.
ASSUME EvaAssumption ==
  PreparationMin + EgressMin + RepairWorkMin + IngressMin + ReserveMin <= MaxEvaMin

VARIABLES
  plan,
  phase,      \* where runInternal is: "validate", then these in turn
  time,       \* state.time_min
  active,     \* state.active_actions, in the order they were started
  at,         \* position of updateActiveActions in it
  crew,       \* [Crew -> [eva, health]]
  clock,      \* eva_elapsed_min, eva_work_elapsed_min; solar_repair_progress
              \* in seconds of work
  rover,      \* charge in seconds of EVA, rover_available, rover_reserved_until_min
  radio,      \* communications load, transmission_elapsed_min, packet sent
  restored,   \* solar_fault_factor is the repaired one
  leakCuts,   \* how often the leak was multiplied down
  hold,       \* mission.stabilization_elapsed_min, in seconds
  outcome,
  unsafeAt    \* history: when the conditions were last not met

vars == <<plan, phase, time, active, at, crew, clock, rover, radio, restored,
          leakCuts, hold, outcome, unsafeAt>>
world   == <<clock, rover, radio, restored, leakCuts>>
verdict == <<hold, outcome, unsafeAt>>

Working == {"Preparing", "Egress", "Working"}      \* outside, not coming in
OnEva   == Working \cup {"Ingress"}
Eva     == OnEva \cup {"Idle", "Complete", "Aborted"}
Health  == {"Fit", "Impaired", "Critical", "Incapacitated"}

ActionState == [action : Nat \ {0}, start : Nat, crew : Crew \cup {NoCrew},
                status : {"Active", "Complete", "Failed", "Aborted"}]

TypeOK ==
  /\ plan \in Plans
  /\ phase \in {"validate", "start", "eva", "update", "done"}
  /\ time \in 0 .. MaxMin + StepMin - 1
  /\ active \in Seq(ActionState) /\ at \in 1 .. Len(active) + 1
  /\ crew \in [Crew -> [eva : Eva, health : Health]]
  /\ clock \in [eva : Nat, work : Nat, progress : 0 .. Seconds(RepairWorkMin)]
  /\ rover \in [charge : 0 .. Seconds(MaxEvaMin), available : BOOLEAN, until : Nat]
  /\ radio \in [load : {"configured", "transmission"}, elapsed : Nat, sent : BOOLEAN]
  /\ restored \in BOOLEAN /\ leakCuts \in Nat /\ hold \in Nat
  /\ outcome \in {"none", "STABILIZED", "FAILURE", "REJECTED"}
  /\ unsafeAt \in -StepMin .. MaxMin + StepMin - 1

Init ==
  /\ plan \in Plans
  /\ phase = "validate" /\ time = 0 /\ active = <<>> /\ at = 1
  /\ crew = [c \in Crew |-> [eva |-> "Idle", health |-> "Fit"]]
  /\ clock = [eva |-> 0, work |-> 0, progress |-> 0]
  /\ rover = [charge |-> Seconds(MaxEvaMin), available |-> TRUE, until |-> 0]
  /\ radio = [load |-> "configured", elapsed |-> 0, sent |-> FALSE]
  /\ restored = FALSE /\ leakCuts = 0
  /\ hold = 0 /\ outcome = "none" /\ unsafeAt = -StepMin

----------------------------------------------------------------------------
(* Validator::validatePlan *)

\* The validator and the executor look for the crew member in another order.
CheckedCrew(a) ==
  IF a.eva # NoCrew THEN a.eva
  ELSE IF a.crewId # NoCrew THEN a.crewId ELSE a.assigned

SentCrew(a) ==
  IF a.eva # NoCrew THEN a.eva
  ELSE IF a.assigned # NoCrew THEN a.assigned ELSE a.crewId

ValidAction(a) ==
  /\ a.start \in 0 .. MaxMin
  /\ a.type = "repair_solar_array" => CheckedCrew(a) \in Qualified
  /\ a.type = "send_emergency_packet" => a.start \in CommsOpen

RoverConflict(a, delay) ==
  /\ a.type = "repair_solar_array" /\ delay.type = "delay_rover_use"
  /\ RoverRequired
  /\ a.start \in delay.start .. delay.start + delay.minutes - 1

Accepted(p) ==
  \A i \in DOMAIN p :
    ValidAction(p[i]) /\ \A j \in DOMAIN p : ~ RoverConflict(p[i], p[j])

Validate ==
  /\ phase = "validate"
  /\ IF Accepted(plan) THEN phase' = "start" /\ UNCHANGED outcome
                       ELSE phase' = "done" /\ outcome' = "REJECTED"
  /\ UNCHANGED <<plan, time, active, at, crew, world, hold, unsafeAt>>

----------------------------------------------------------------------------
(* ActionExecutor::applyScheduledActions *)

\* A definition followed by one that differs in a detail is a mutant of it: the
\* first of the two is the one with the bug.

DueAgain(i) == plan[i].start = time

Due(i) ==
  /\ plan[i].start = time
  /\ \A k \in DOMAIN active : active[k].action # i

Scheduled(i) ==
  /\ phase = "start"
  /\ Due(i) /\ \A j \in DOMAIN plan : Due(j) => i <= j
  /\ UNCHANGED <<plan, phase, time, at, verdict>>

Started(i, c, status) ==
  active' = Append(active, [action |-> i, start |-> time, crew |-> c,
                            status |-> status])

\* reduce_power_load, isolate_module and oxygen_rationing are over at once; the
\* first fails on a protected load group, the second on a module with crew in it.
StartImmediate(i) ==
  LET a    == plan[i]
      done == a.type # "oxygen_rationing" => a.feasible
  IN  /\ a.type \in {"reduce_power_load", "isolate_module", "oxygen_rationing"}
      /\ Started(i, NoCrew, IF done THEN "Complete" ELSE "Failed")
      /\ leakCuts' = IF a.type = "isolate_module" /\ done THEN leakCuts + 1
                     ELSE leakCuts
      /\ UNCHANGED <<crew, clock, rover, radio, restored>>

RoverReady ==
  /\ rover.available /\ (rover.until > 0 => time >= rover.until)
  /\ rover.charge >= Seconds(RoverReserve)

MayGo(c) ==
  /\ c \in Qualified
  /\ crew[c].eva \notin OnEva /\ crew[c].health = "Fit"
  /\ RoverRequired => RoverReady

ClocksKept == [clock EXCEPT !.eva = 0, !.work = 0]

ClocksReset == [eva |-> 0, work |-> 0, progress |-> 0]

StartRepair(i) ==
  LET c == SentCrew(plan[i])
  IN  /\ plan[i].type = "repair_solar_array"
      /\ IF MayGo(c)
         THEN /\ Started(i, c, "Active")
              /\ crew' = [crew EXCEPT ![c].eva = "Preparing"]
              /\ clock' = ClocksReset
         ELSE Started(i, NoCrew, "Failed") /\ UNCHANGED <<crew, clock>>
      /\ UNCHANGED <<rover, radio, restored, leakCuts>>

StartDelay(i) ==
  /\ plan[i].type = "delay_rover_use"
  /\ IF plan[i].minutes > 0
     THEN /\ Started(i, NoCrew, "Active")
          /\ rover' = [rover EXCEPT !.available = FALSE,
                                    !.until = time + plan[i].minutes]
     ELSE Started(i, NoCrew, "Failed") /\ UNCHANGED rover
  /\ UNCHANGED <<crew, clock, radio, restored, leakCuts>>

StartPacket(i) ==
  /\ plan[i].type = "send_emergency_packet"
  /\ IF ~ radio.sent /\ time \in CommsOpen
     THEN /\ Started(i, NoCrew, "Active")
          /\ radio' = [radio EXCEPT !.load = "transmission", !.elapsed = 0]
     ELSE Started(i, NoCrew, "Failed") /\ UNCHANGED radio
  /\ UNCHANGED <<crew, clock, rover, restored, leakCuts>>

----------------------------------------------------------------------------
(* CrewPhysiologyModel::updateAllCrew *)

Margin(elapsed) == MaxEvaMin - elapsed - (IngressMin + ReserveMin)

\* Health is what the vitals make of it, and at best critical outside with no
\* margin left to return.
Physiology ==
  /\ phase = "start" /\ \A i \in DOMAIN plan : ~ Due(i)
  /\ phase' = "eva"
  /\ \E health \in [Crew -> Health] :
       /\ \A c \in Crew : crew[c].eva \in OnEva /\ Margin(clock.eva) < 0 =>
            health[c] \in {"Critical", "Incapacitated"}
       /\ crew' = [c \in Crew |-> [crew[c] EXCEPT !.health = health[c]]]
  /\ UNCHANGED <<plan, time, active, at, world, verdict>>

----------------------------------------------------------------------------
(* ResourceModel::updateEVAAndRepair: the first in the roster that is outside *)

Outside == {c \in Crew : crew[c].eva \in OnEva}

EvaPhase ==
  /\ phase = "eva" /\ phase' = "update" /\ at' = 1
  /\ UNCHANGED <<plan, time, active, radio, leakCuts, verdict>>

NobodyOut ==
  EvaPhase /\ Outside = {} /\ UNCHANGED <<crew, clock, rover, restored>>

RoverGone == RoverRequired /\ ~ rover.available

AbortEva ==
  /\ EvaPhase /\ Outside # {} /\ RoverGone
  /\ crew' = [crew EXCEPT ![Min(Outside)].eva = "Aborted"]
  /\ UNCHANGED <<clock, rover, restored>>

ChargeUnclamped == IF ~ RoverRequired THEN rover.charge ELSE rover.charge - TimeStep

Charge ==
  IF ~ RoverRequired THEN rover.charge ELSE Max({0, rover.charge - TimeStep})

\* Each of these turns whoever is out to the ingress, and restarts its clock.
ComesIn(c) ==
  \/ RoverRequired /\ Charge < Seconds(RoverReserve)
  \/ /\ crew[c].eva \in Working
     /\ Margin(clock.eva + WholeMin) < 0 \/ crew[c].health = "Critical"

\* Phase and work clock of c when its phase is advanced.
Now(c) ==
  IF ComesIn(c) THEN [eva |-> "Ingress", work |-> 0]
                ELSE [eva |-> crew[c].eva, work |-> clock.work]

Advance(c, from, to, work, progress) ==
  /\ EvaPhase /\ Outside # {} /\ c = Min(Outside) /\ ~ RoverGone
  /\ Now(c).eva = from
  /\ crew' = [crew EXCEPT ![c].eva = to]
  /\ clock' = [eva |-> clock.eva + WholeMin, work |-> work, progress |-> progress]
  /\ rover' = [rover EXCEPT !.charge = Charge]

Prepare(c) ==
  LET over == clock.eva + WholeMin >= PreparationMin
  IN  /\ Advance(c, "Preparing", IF over THEN "Egress" ELSE "Preparing",
                 clock.work, clock.progress)
      /\ UNCHANGED restored

Exit(c) ==
  LET over == clock.eva + WholeMin >= PreparationMin + EgressMin
  IN  /\ Advance(c, "Egress", IF over THEN "Working" ELSE "Egress",
                 IF over THEN 0 ELSE clock.work, clock.progress)
      /\ UNCHANGED restored

\* pace: the part of this step that the physical performance makes of it.
Repair(c) ==
  \E pace \in Paces :
    LET progress == Min({Seconds(RepairWorkMin), clock.progress + pace})
        over     == progress = Seconds(RepairWorkMin)
    IN  /\ Advance(c, "Working", IF over THEN "Ingress" ELSE "Working",
                   IF over THEN 0 ELSE clock.work + WholeMin, progress)
        /\ UNCHANGED restored

Repaired == clock.progress = Seconds(RepairWorkMin)

Return(c) ==
  LET work == Now(c).work + WholeMin
      over == work >= IngressMin
  IN  /\ Advance(c, "Ingress", IF over THEN "Complete" ELSE "Ingress",
                 work, clock.progress)
      /\ restored' = (restored \/ (over /\ Repaired))

----------------------------------------------------------------------------
(* ActionExecutor::updateActiveActions *)

Pending == {k \in DOMAIN active : k >= at /\ active[k].status = "Active"}

Updated(k, type, status) ==
  /\ phase = "update" /\ Pending # {} /\ k = Min(Pending)
  /\ plan[active[k].action].type = type
  /\ at' = k + 1
  /\ active' = [active EXCEPT ![k].status = status]
  /\ UNCHANGED <<plan, phase, time, crew, clock, restored, leakCuts, verdict>>

DelayUpdatedOnce(k) ==
  LET over == time = rover.until
  IN  /\ Updated(k, "delay_rover_use", IF over THEN "Complete" ELSE "Active")
      /\ rover' = IF over THEN [rover EXCEPT !.available = TRUE, !.until = 0] ELSE rover
      /\ UNCHANGED radio

UpdateDelay(k) ==
  LET over == time >= rover.until
  IN  /\ Updated(k, "delay_rover_use", IF over THEN "Complete" ELSE "Active")
      /\ rover' = IF over THEN [rover EXCEPT !.available = TRUE, !.until = 0] ELSE rover
      /\ UNCHANGED radio

Sent(elapsed) == [load |-> "configured", elapsed |-> elapsed, sent |-> TRUE]

UpdatePacket(k) ==
  LET elapsed == radio.elapsed + WholeMin
      over    == elapsed >= Max({1, TransmissionMin})
  IN  /\ Updated(k, "send_emergency_packet", IF over THEN "Complete" ELSE "Active")
      /\ radio' = IF over THEN Sent(elapsed) ELSE [radio EXCEPT !.elapsed = elapsed]
      /\ UNCHANGED rover

UpdateRepair(k) ==
  LET eva == crew[active[k].crew].eva
  IN  /\ Updated(k, "repair_solar_array",
           IF eva = "Complete" /\ Repaired THEN "Complete"
           ELSE IF eva = "Aborted" THEN "Aborted" ELSE "Active")
      /\ UNCHANGED <<rover, radio>>

----------------------------------------------------------------------------
(* Simulation::evaluateMissionState *)

\* What the rate laws give: "tight" is safe but for the power margin; "doomed"
\* means that a resource ends before the remaining repair does.
Habitat == {"safe", "tight", "unsafe", "doomed", "failed"}

NobodyToAbort == {}

ToAbort == {c \in Crew : crew[c].eva \in Working /\ crew[c].health = "Critical"}

AfterAborts ==
  [c \in Crew |-> IF c \in ToAbort THEN [crew[c] EXCEPT !.eva = "Ingress"]
                                   ELSE crew[c]]

Failed(members, habitat) ==
  \/ habitat = "failed"
  \/ \E c \in Crew : members[c].eva \in OnEva /\ members[c].health = "Incapacitated"
  \/ Margin(clock.eva) < 0 /\ \E c \in Crew : members[c].eva \in Working
  \/ \A c \in Crew : members[c].health = "Incapacitated"
  \/ habitat = "doomed" /\ ~ restored /\ ~ Repaired

\* stabilizationConditionsMet
Stable(members, habitat) ==
  /\ leakCuts >= CutsNeeded
  /\ habitat = "safe" \/ (habitat = "tight" /\ restored)
  /\ \A c \in Crew : members[c].health \notin {"Critical", "Incapacitated"}

HeldUnreset(stable) == IF stable THEN hold + TimeStep ELSE hold

Held(stable) == IF stable THEN hold + TimeStep ELSE 0

Evaluate(habitat) ==
  LET failed == Failed(AfterAborts, habitat)
      stable == ~ failed /\ Stable(AfterAborts, habitat)
      held   == Held(stable)
      won    == stable /\ held >= Seconds(HoldMin)
      over   == failed \/ won \/ time >= MaxMin
  IN  /\ phase = "update" /\ Pending = {}
      /\ crew' = AfterAborts
      /\ clock' = IF ToAbort = {} THEN clock ELSE [clock EXCEPT !.work = 0]
      /\ hold' = held
      /\ unsafeAt' = IF stable THEN unsafeAt ELSE time
      /\ IF over
         THEN /\ phase' = "done" /\ UNCHANGED time
              /\ outcome' = IF won THEN "STABILIZED" ELSE "FAILURE"
         ELSE phase' = "start" /\ time' = time + StepMin /\ UNCHANGED outcome
      /\ UNCHANGED <<plan, active, at, rover, radio, restored, leakCuts>>

----------------------------------------------------------------------------
StartAction(i) ==
  Scheduled(i) /\ (StartImmediate(i) \/ StartRepair(i) \/ StartDelay(i) \/ StartPacket(i))

EvaStep ==
  \/ NobodyOut \/ AbortEva
  \/ \E c \in Crew : Prepare(c) \/ Exit(c) \/ Repair(c) \/ Return(c)

Next ==
  \/ Validate \/ Physiology \/ EvaStep
  \/ \E i \in DOMAIN plan : StartAction(i)
  \/ \E k \in DOMAIN active : UpdateDelay(k) \/ UpdatePacket(k) \/ UpdateRepair(k)
  \/ \E habitat \in Habitat : Evaluate(habitat)

Spec == Init /\ [][Next]_vars
----------------------------------------------------------------------------
(* Properties *)

InProgress(type) ==
  \E k \in DOMAIN active :
    active[k].status = "Active" /\ plan[active[k].action].type = type

\* Between two steps the rover is held exactly while a delay_rover_use is in
\* progress, and the transmitter's power is not left on without a packet, also
\* when delays or packets overlap and share one clock.
AssetsHeldByActions ==
  phase = "start" =>
    /\ rover.available <=> ~ InProgress("delay_rover_use")
    /\ rover.available <=> rover.until = 0
    /\ radio.load = "transmission" => InProgress("send_emergency_packet")

\* Every action is started once, at its minute, or not at all when the run
\* ends before; of the minutes between two steps of the clock nothing is said.
StartedOnceOnTime ==
  /\ \A k, l \in DOMAIN active : active[k].action = active[l].action => k = l
  /\ \A k \in DOMAIN active : active[k].start = plan[active[k].action].start
  /\ phase \in {"eva", "update"} =>
       \A i \in DOMAIN plan :
         plan[i].start <= time /\ plan[i].start % StepMin = 0 =>
           \E k \in DOMAIN active : active[k].action = i

\* While the run goes on nobody stays outside incapacitated, and who is
\* critical, or could not return in time, is on the way in.
OutsideCanReturn ==
  phase = "start" =>
    \A c \in Outside :
      /\ crew[c].health # "Incapacitated"
      /\ crew[c].eva \in Working =>
           crew[c].health # "Critical" /\ Margin(clock.eva) >= 0

\* The seconds that are simulated while the clock advances by these minutes.
Simulated(minutes) == TimeStep * (minutes \div StepMin)

\* STABILIZED is only said after the conditions held, without a break, for
\* HoldMin minutes of simulated time.
HoldUnbroken ==
  outcome = "STABILIZED" => Simulated(time - unsafeAt) >= Seconds(HoldMin)

\* "All must hold, then hold for stabilization_hold_min continuous minutes":
\* the same in minutes of the clock.
HeldForMinutes == outcome = "STABILIZED" => time - unsafeAt >= HoldMin

\* When the repairs were started that were not refused.
Begun == {active[k].start : k \in {x \in DOMAIN active : active[x].crew # NoCrew}}

\* The solar array is restored no sooner than work and ingress take after the
\* last repair that was started, and all phases after the first.
RepairTakesItsTime ==
  [][restored' # restored =>
       /\ Begun # {}
       /\ Simulated(time + StepMin - Max(Begun)) >= Seconds(RepairWorkMin + IngressMin)
       /\ Simulated(time + StepMin - Min(Begun)) >=
            Seconds(PreparationMin + EgressMin + RepairWorkMin + IngressMin)]_vars

\* A repair_solar_array action is complete when the array is restored.
CompleteMeansRestored ==
  \A k \in DOMAIN active :
    plan[active[k].action].type = "repair_solar_array"
      /\ active[k].status = "Complete" => restored
=============================================================================
