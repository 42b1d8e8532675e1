SPECIFICATION Spec
CONSTANTS
  Procedure <- FiveChunks
  Allowed <- FiveAllowed
  ActionTypes = {"ration", "repair", "reduce", "delay"}
  Levels = {0, 1}
  RerankCount = 4
  MaxTopK = 3
  MaxRetries = 1
  MaxActions = 2
CHECK_DEADLOCK FALSE
INVARIANTS
  TypeOK
  EvidenceIsBest
