SPECIFICATION Spec
CONSTANTS
  Block = {b1, b2, b3, b4, b5}
  FileCap = 4
  PruneTarget = 8
  CacheLimit = 2
  CloseDurable = TRUE
  MaxBlocks = 2
  MaxTx = 4
  MaxReadTx = 0
  MaxFaults = 1
  MaxCrashes = 2
SYMMETRY Sym
INVARIANTS FfldbTypeOK CommittedView Recoverable RowsReadable NeverCorrupt
CHECK_DEADLOCK FALSE
