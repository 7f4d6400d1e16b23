SPECIFICATION FairSpec
CONSTANTS
  HubAuth = TRUE
  Overtime = TRUE
CHECK_DEADLOCK FALSE
PROPERTY
  AcceptanceExpires
