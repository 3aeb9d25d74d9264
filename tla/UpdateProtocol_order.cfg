SPECIFICATION Spec
CONSTANTS
  c1 = c1
  c2 = c2
  Clients <- OneClient
  PerClient = 2
  K = 1
  M = 1
  MaxCrashes = 0
  NoUpdate = NoUpdate
  Capacity = {TRUE}
  GetsSendCopy = FALSE
INVARIANTS MasterHistoryInOrder
CHECK_DEADLOCK FALSE
