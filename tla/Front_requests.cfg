CONSTANTS
  Clients <- MCClients
  K = 3
  M = 1
  N = 6
  Start = 10
  Hash <- MCHash
  Deployments <- MCDeployments
SPECIFICATION FairSpec
CHECK_DEADLOCK FALSE
INVARIANTS
  TypeOK
  DoneIsRecorded
  RecordedIsWhole
  
  FinishedGetIsWhole
  EarlyUpdateBlocksPost
PROPERTY EveryClientEnds
