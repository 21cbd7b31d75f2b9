SPECIFICATION Spec
CONSTANTS
  G = G P = P A1 = A1 A2 = A2 B1 = B1 B2 = B2
  o1 = o1 o2 = o2 o3 = o3 o4 = o4 None = None
  Block = {G, P, A1, A2, B1, B2}
  Out = {o1, o2, o3, o4}
  Genesis = G
  BadBlock = {}
  Parent <- MCParent
  Work <- MCWork
  Height <- MCHeight
  WorkSum <- MCWorkSum
  Chain <- MCChain
  Txs <- MCTxs
  Pruning = TRUE
  MaxCalls = 4
  MaxCrashes = 1
  MaxFails = 0
  Failing = {}
INVARIANTS CacheIsExact MarkIsExact FreshIsNew NoAssert ReplayBlocksKept
CHECK_DEADLOCK FALSE
