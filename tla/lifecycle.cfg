SPECIFICATION FairSpec
CONSTANTS
  Sessions = {s1}
  Requests = {q1, q2}
  Runs = {r1, r2}
  NoRun = NoRun
  Nobody = Nobody
  SampleCounts = {0, 2}
  RequestedIntervals = {1, 3}
  MinInterval = 1
  MaxInterval = 2
  MaxTime = 3
  MaxCrashes = 1
  MaxFaults = 1
  MaxStepBacks = 1
INVARIANTS
  TypeOK
  BaselineLinked
  CompletedIsDue
  OneBaselineRun
  AckedBaselineDurable
  TriggerOwnsSession
PROPERTIES
  ReplayNeverGoesBack
  KeepsPromise
  TriggeringEnds
  CallsReturn
