SPECIFICATION AllSpec
CONSTANTS
  WorkT = 2
  LedT = 2
  MoveT = 1
  CutT = 6
  QuietMax = 7
  Scram = TRUE
  Last = 125
  ResVal <- NtcResVal
  SkipTime = 4
  OverT = 1
  UnderT = 3
  MaxPause = 2
INVARIANTS
  TypeOK
  AlarmDeadline
  WithinDegree
  FollowsInTwo
  VolFollows
  ToldAsJudged
PROPERTIES
  SearchNarrows
  LimitsRight
  ErrorConfirmed
  Settles
  VolJudgedTwice
  CurrFaultTimed
CHECK_DEADLOCK FALSE
