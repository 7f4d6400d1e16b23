SPECIFICATION Spec
CONSTANTS
  InsertPolls = 1
  UnlockT = 1
  ErrT = 2
  ReadyT = 3
  SkipAuth = TRUE
  AuthTasks = {}
  SoftFaults = {"ERR_AMMETER"}
  HardFaults = {"ERR_SCRAM"}
  Stops = {"CHARGE_BG_STOP"}
INVARIANTS
  ContactorOnlyInCharge
  ChargingReported
  LockedWhileLive
  PinAgrees
  NoCurrentAdvertisedIdle
PROPERTIES
  ChargeBeginsFromStart
  ImplementsSession
  ScramLockout
