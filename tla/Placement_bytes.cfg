SPECIFICATION Spec
CONSTANTS
  K = 2
  M = 2
  Unit = 2
  Start = 10
  N = 5
  RecvSize = 3
  Word = 16
  Sizes <- AllSizes
  MaxLength = 3
  MaxPosts = 2
  MaxRequests = 3
INVARIANTS TypeOK UpdatesReachTheirBlock BlocksHoldObject CopyIsObject NothingLostInRounds
CHECK_DEADLOCK FALSE
