SPECIFICATION HSpec
CONSTANTS
  InsertPolls = 0
  UnlockT = 0
  ErrT = 1
  ReadyT = 2
  SkipAuth = FALSE
  AuthTasks = {"card_reader"}
  SoftFaults = {}
  HardFaults = {"ERR_SCRAM"}
  Stops = {"BILLING_STOP"}
INVARIANTS
  AbortDeadline
  EmergencyDeadline
  LockedWhileLive
  NoCurrentAdvertisedIdle
PROPERTIES
  UnlockByOwnDelay
