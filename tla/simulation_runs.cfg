SPECIFICATION FairSpec
CONSTANTS
  Runs = {r1, r2, r3}
  NoRun = NoRun
  Calls = {c1, c2}
  Capacity = 1
  MaxFaults = 1
  MaxCrashes = 1
  MaxCancels = 2
CHECK_DEADLOCK FALSE
INVARIANTS
  TypeOK
  ResourcesHeld
  AnswerMatchesRun
PROPERTIES
  ClosedRunsFrozen
  CallsAnswered
