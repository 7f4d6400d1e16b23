SPECIFICATION FairSpec
CONSTANTS
  Builds <- BothBuilds
  MaxCharges = 2
  MaxStops = 3
INVARIANTS
  RecordsOfStops
  BillsOwnCharge
PROPERTIES
  OwnRecord
  StopRecorded
  
CHECK_DEADLOCK FALSE
