SPECIFICATION Spec
CONSTANTS
  Block = {b1, b2}
  FileCap = 4
  PruneTarget = 8
  CacheLimit = 2
  CloseDurable = TRUE
  MaxBlocks = 2
  MaxTx = 3
  MaxReadTx = 2
  MaxFaults = 0
  MaxCrashes = 2
INVARIANT ReaderSeesCommitted
CHECK_DEADLOCK FALSE
