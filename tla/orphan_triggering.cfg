SPECIFICATION Spec
CONSTANTS
  Sessions = {s1}
  Requests = {q1}
  Runs = {r1}
  NoRun = NoRun
  Nobody = Nobody
  SampleCounts = {2}
  RequestedIntervals = {1}
  MinInterval = 1
  MaxInterval = 2
  MaxTime = 2
  MaxCrashes = 1
  MaxFaults = 1
  MaxStepBacks = 0
INVARIANT
  TriggeringInProgress
