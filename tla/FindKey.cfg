SPECIFICATION Spec
CONSTANTS
  HubAuth = TRUE
  Overtime = TRUE
CHECK_DEADLOCK FALSE
INVARIANT KeyAnswered
