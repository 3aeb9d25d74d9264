SPECIFICATION FairSpec
CONSTANTS
  c1 = c1
  c2 = c2
  Clients <- TwoClients
  PerClient = 1
  K = 1
  M = 1
  MaxCrashes = 0
  NoUpdate = NoUpdate
  Capacity = {FALSE}
  GetsSendCopy = FALSE
PROPERTIES LightWeightCompletes
CHECK_DEADLOCK FALSE
