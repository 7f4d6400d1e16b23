SPECIFICATION HSpec
CONSTANTS
  InsertPolls = 1
  UnlockT = 1
  ErrT = 2
  ReadyT = 3
  SkipAuth = TRUE
  AuthTasks = {}
  SoftFaults = {"ERR_AMMETER"}
  HardFaults = {}
  Stops = {}
INVARIANT
  FaultCutsOutput
