SPECIFICATION Spec
CONSTANTS
  MaxMsg = 1
  MaxRequests = 2
  MaxCalls = 0
  Pool = 3
  Attempts = 2
  ClearAttempts = 1
  MayFail = TRUE
  Misled = TRUE
INVARIANTS
  Served
PROPERTIES
  BoxEmpties
CHECK_DEADLOCK FALSE
