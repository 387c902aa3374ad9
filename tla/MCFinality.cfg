SPECIFICATION Spec
CONSTANTS
  Payload <- MCHeights
  NumBlocksToFinalize = 2
  MaxFee = 1
  MaxTxs = 2
  MaxHeight = 6
  MaxTxsPerBlock = 2
  MaxFaults = 2
  ChainFaults = TRUE
  CommitInterval = 2
  MaxFuelHeight = 2
  MaxPrunings = 1
  UintBits = 16
PROPERTIES
  WaitsForConfirmations
CHECK_DEADLOCK FALSE
