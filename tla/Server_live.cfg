SPECIFICATION FairSpec
CONSTANTS
  Objects <- OneObject
  Requests <- HitRequests
  Stored <- OnlyA
  OnDisk <- OnlyA
  ThreadNum = 2
  MaxConns = 3
  Faults = FALSE
PROPERTIES EveryRequestEnds
CHECK_DEADLOCK FALSE
