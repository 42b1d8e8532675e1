-------------------------- MODULE MCPlanExecution --------------------------
(***************************************************************************)
(* Small instances of PlanExecution: two actions of a kind at every        *)
(* distance, and plans that mix the kinds.                                 *)
(***************************************************************************)
EXTENDS PlanExecution

Repairing(t, c) == [type |-> "repair_solar_array", start |-> t,
                    eva |-> c, assigned |-> NoCrew, crewId |-> NoCrew]
Delay(t, n)     == [type |-> "delay_rover_use", start |-> t, minutes |-> n]
Packet(t)       == [type |-> "send_emergency_packet", start |-> t]
Isolate(t, ok)  == [type |-> "isolate_module", start |-> t, feasible |-> ok]
Reduce(t, ok)   == [type |-> "reduce_power_load", start |-> t, feasible |-> ok]
Ration(t)       == [type |-> "oxygen_rationing", start |-> t]

\* The validator checks crew member 1, the executor sends crew member 2.
Mismatch(t)     == [type |-> "repair_solar_array", start |-> t,
                    eva |-> NoCrew, assigned |-> 2, crewId |-> 1]

TwoRepairs == {<<Isolate(0, TRUE), Repairing(0, 1), Repairing(t, c)>> :
                 t \in 0 .. 5, c \in {1, 2}}
TwoDelays  == {<<Delay(0, n), Delay(t, m)>> : t \in 0 .. 2, n \in {1, 3}, m \in {0, 1, 4}}
TwoPackets == {<<Packet(0), Packet(t)>> : t \in 0 .. 3}
Mixed == {<<Delay(0, 1), Repairing(1, 1), Delay(3, 2)>>,
          <<Repairing(0, 2), Delay(2, 1), Isolate(1, TRUE), Ration(0)>>,
          <<Mismatch(0), Reduce(0, TRUE), Reduce(1, FALSE), Isolate(1, FALSE)>>,
          <<Repairing(0, 1), Delay(0, 2)>>,
          <<Packet(5)>>, <<Isolate(9, TRUE)>>, <<Isolate(-1, TRUE)>>, <<>>}

AllPlans == TwoRepairs \cup TwoDelays \cup TwoPackets \cup Mixed

RepairPlans == {<<Repairing(0, 1), Repairing(1, 2)>>}
=============================================================================
