SPECIFICATION FairSpec
CONSTANTS
  K = 2
  M = 1
  Gets = {g1, g2}
  Updates = {u1, u2}
  g1 = g1
  g2 = g2
  u1 = u1
  u2 = u2
  Free = Free
  MaxLost = 2
  MaxRequests = 2
  Sizes <- MCSizes
  RECEIVE_BUFFER_SIZE = 2
  Word = 6
INVARIANTS TypeOK BlockServersStayUp MasterEndsByTwoGets SentIsSound
PROPERTIES LostBlockStaysLost SendsForEver RequestsEnd MergesComplete
CHECK_DEADLOCK FALSE
