SPECIFICATION Spec
CONSTANTS
  Sessions = {s1}
  Runs = {r1, r2}
  NoRun = NoRun
  Nobody = Nobody
  Operations = {o1}
  Attempts = {a1}
  NoAttempt = NoAttempt
  MaxFaults = 0
  MaxCrashes = 0
  MaxCancels = 0
INVARIANT
  OutcomesAccepted
