SPECIFICATION Spec
CONSTANTS
  AddPeers = 1
  Target = 1
  MaxInbound = 1
  MaxPeers = 4
  MaxCalls = 1
  MaxFaults = 1
INVARIANTS OneOwner SlotsKept GroupsExact SyncPeersLive
PROPERTY PoolFills
CHECK_DEADLOCK FALSE
