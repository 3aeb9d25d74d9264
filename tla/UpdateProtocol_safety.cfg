SPECIFICATION Spec
CONSTANTS
  c1 = c1
  c2 = c2
  Clients <- TwoClients
  PerClient = 1
  K = 2
  M = 1
  MaxCrashes = 1
  NoUpdate = NoUpdate
  Capacity = {TRUE}
  GetsSendCopy = TRUE
INVARIANTS TypeOK AckedIsDurable NoTornBlock
PROPERTIES DecodeYieldsItsUpdate ImplementsAbstract
SYMMETRY ClientSymmetry
CHECK_DEADLOCK FALSE
