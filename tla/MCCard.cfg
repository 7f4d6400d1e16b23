SPECIFICATION FairSpec
CONSTANTS
  HubAuth = TRUE
  Overtime = TRUE
CHECK_DEADLOCK FALSE
INVARIANTS
  OwnAnswer
PROPERTIES
  SwipeEnds
  UnusedExpires
