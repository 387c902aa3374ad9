SPECIFICATION Spec
CONSTANTS
  Payload <- MCHeights
  NumBlocksToFinalize = 1
  MaxFee = 1
  MaxTxs = 3
  MaxHeight = 4
  MaxTxsPerBlock = 2
  MaxFaults = 2
  ChainFaults = TRUE
  CommitInterval = 2
  MaxFuelHeight = 4
  MaxPrunings = 1
  UintBits = 16
INVARIANTS
  TablesAgree
  ResentOnlyIfUntracked
PROPERTIES
  PostsOnlyNewerEpochs
CHECK_DEADLOCK FALSE
