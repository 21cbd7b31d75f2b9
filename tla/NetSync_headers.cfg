SPECIFICATION FairSpec
CONSTANTS
  Peer = {a, b}
  NoPeer = NoPeer
  Inbound = {b}
  Limited = {b}
  PruneDepth = 2
  Top = 3
  Tip0 = 2
  Checkpoints = {2}
  Fresh = 2
  HeaderBatch = 1
  InvBatch = 1
  GetDataMax = 1
  MinInFlight = 1
  StrikeLimit = 1
  MaxSubmits = 1
  MaxFaults = 1
INVARIANTS NilSafe RequestsOwned ListLinked
CHECK_DEADLOCK FALSE
PROPERTY SyncCompletes
