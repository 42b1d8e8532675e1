SPECIFICATION Spec
CONSTANTS
  CrewSize = 2
  Qualified = {1, 2}
  Plans <- RepairPlans
  CommsOpen = {0, 1, 2}
  PreparationMin = 1
  EgressMin = 1
  RepairWorkMin = 2
  IngressMin = 1
  ReserveMin = 1
  MaxEvaMin = 8
  RoverRequired = FALSE
  RoverReserve = 2
  TransmissionMin = 2
  HoldMin = 2
  MaxMin = 8
  TimeStep = 60
  Paces = {0, 60}
  CutsNeeded = 1
CHECK_DEADLOCK FALSE
INVARIANT
  CompleteMeansRestored
