SPECIFICATION Spec
CONSTANTS
  Txs = 7
  Base = 1
  Ins <- MCIns
  Outs <- MCOuts
  Fee <- MCFee
  Size <- MCSize
  Explicit = {1, 3}
  NonStd = {5}
  Blocks <- SingleBlocks
  MaxPool = 3
  MinFee = 1
  MaxOrphans = 2
  MaxReplacementEvictions = 2
  Tags = {1, 2}
  MaxBlocks = 3
  MaxChanges = 4
INVARIANTS IndexesExact InputsAvailable NotConfirmed
PROPERTY ReplacementPays
CHECK_DEADLOCK FALSE
