SPECIFICATION FairSpec
CONSTANTS
  Clients = {c1, c2}
  Capacity = 1
  SampleCount = 2
  IntervalMs = 2
  HeartbeatMs = 1
  QuantumUs = 500
  MaxTime = 10
  MaxRestarts = 1
  MaxFaults = 1
  MaxCrashes = 1
  MaxLeaves = 2
INVARIANTS
  TypeOK
  OnTime
  SlotsAccounted
PROPERTIES
  InOrderExactlyOnce
  StayersHearTheEnd
CHECK_DEADLOCK FALSE
