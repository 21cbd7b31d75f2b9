SPECIFICATION Spec
CONSTANTS
  G = G A1 = A1 A2 = A2 B1 = B1 B2 = B2 B3 = B3 C2 = C2 C3 = C3
  sync = sync rpc1 = rpc1 rpc2 = rpc2
  Genesis = G
  Parent <- MCParent
  Work <- MCWork
  Height <- MCHeight
  WorkSum <- MCWorkSum
  Chain <- MCChain
  Sync = sync
  None = None
  Block = {G, A1, A2, B1, B2, B3, C2, C3}
  BadBlock = {B3}
  Rpcs = {}
  MaxOrphans = 2
  Overlap = FALSE
  MaxRpcs = 0
  MaxCrashes = 0
INVARIANTS TypeOK NearBest NoStrandedOrphan OrphanBound
PROPERTY CallsReturn
