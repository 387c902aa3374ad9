SPECIFICATION FairSpec
CONSTANTS
  Payload <- MCHeights
  NumBlocksToFinalize = 1
  MaxFee = 1
  MaxTxs = 5
  MaxHeight = 9
  MaxTxsPerBlock = 1
  MaxFaults = 2
  ChainFaults = FALSE
  CommitInterval = 2
  MaxFuelHeight = 2
  MaxPrunings = 1
  UintBits = 16
INVARIANTS
  LatestCommitSurvives
PROPERTIES
  LatestEpochSettles
CHECK_DEADLOCK FALSE
