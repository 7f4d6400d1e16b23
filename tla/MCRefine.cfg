SPECIFICATION FairSpec
CONSTANTS
  InsertPolls = 0
  UnlockT = 0
  ErrT = 1
  ReadyT = 2
  SkipAuth = TRUE
  AuthTasks = {}
  SoftFaults = {}
  HardFaults = {"ERR_SCRAM"}
  Stops = {"CHARGE_BG_STOP"}
PROPERTIES
  ImplementsFairSession
  EmergencyOpens
  UnpluggedComesToRest
