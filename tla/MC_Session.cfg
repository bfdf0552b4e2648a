SPECIFICATION SessionSpec
CONSTANTS
  Requests = {r1, r2}
  Capacity = 4
  MaxOperations = 2
  MaxPulls = 1
  MaxCrashes = 1
INVARIANTS SessionTypeOK StateAgreesWithClient NoOrphans AnsweredBeforeShutdown
PROPERTIES RequestsAreAnswered OperationsEnd
CHECK_DEADLOCK FALSE
