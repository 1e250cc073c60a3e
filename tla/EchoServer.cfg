SPECIFICATION FairSpec
CONSTANTS
  Slots = {0}
  Capacity = 1
  CounterMod = 4
  ItemBytes = 1
  NQueues = 1
  GenMod = 3
  MaxBytes = 2
  MaxWindow = 1
  MaxBatch = 1
INVARIANTS ClosedOnce EchoedInOrder EchoedBeforeClose
PROPERTIES EndIsClosed AllEchoed StopEnds
CHECK_DEADLOCK FALSE
