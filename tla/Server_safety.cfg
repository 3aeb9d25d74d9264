SPECIFICATION Spec
CONSTANTS
  Objects <- TwoObjects
  Requests <- AllRequests
  Stored <- OnlyA
  OnDisk <- OnlyA
  ThreadNum = 2
  MaxConns = 3
  Faults = TRUE
INVARIANTS TypeOK LockDiscipline LeakedOnlyByMiss IteratorValid
PROPERTIES HistoryKept LeakFreezesTable
CHECK_DEADLOCK FALSE
