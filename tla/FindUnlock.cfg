SPECIFICATION HSpec
CONSTANTS
  InsertPolls = 0
  UnlockT = 1
  ErrT = 2
  ReadyT = 3
  SkipAuth = TRUE
  AuthTasks = {}
  SoftFaults = {}
  HardFaults = {}
  Stops = {}
PROPERTY
  UnlockAfterCut
