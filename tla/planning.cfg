SPECIFICATION FairSpec
CONSTANTS
  Sessions = {s1}
  Runs = {r1, r2, r3}
  NoRun = NoRun
  Nobody = Nobody
  Operations = {o1, o2}
  Attempts = {a1, a2}
  NoAttempt = NoAttempt
  MaxFaults = 2
  MaxCrashes = 1
  MaxCancels = 2
CHECK_DEADLOCK FALSE
INVARIANTS
  TypeOK
  GuardsAccounted
  ComparisonLinked
  AnswerMatchesRecord
PROPERTIES
  TerminalIsFinal
  OperationsEnd
