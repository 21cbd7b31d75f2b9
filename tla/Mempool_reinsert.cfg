SPECIFICATION Spec
CONSTANTS
  Txs = 7
  Base = 1
  Ins <- MCIns
  Outs <- MCOuts
  Fee <- MCFee
  Size <- MCSize
  Explicit = {1, 3}
  NonStd = {}
  Blocks <- PairBlocks
  MaxPool = 0
  MinFee = 1
  MaxOrphans = 2
  MaxReplacementEvictions = 100
  Tags = {1, 2}
  MaxBlocks = 2
  MaxChanges = 4
INVARIANT InputsAvailable
CHECK_DEADLOCK FALSE
