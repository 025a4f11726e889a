SPECIFICATION Spec
CONSTANTS
  MaxMsg = 2
  MaxRequests = 1
  MaxCalls = 2
  Pool = 3
  Attempts = 2
  ClearAttempts = 1
  MayFail = FALSE
  Misled = TRUE
INVARIANTS
  TypeOK
  TimerAssert
  Awake
  Served

  
VIEW View
CHECK_DEADLOCK FALSE
