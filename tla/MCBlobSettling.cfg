SPECIFICATION FairSpec
CONSTANTS
  Payload <- MCFragments
  NumFragments = 1
  NumBlocksToFinalize = 1
  MaxBlobsPerTx = 1
  MaxFee = 1
  MaxTxs = 5
  MaxHeight = 8
  MaxTxsPerBlock = 1
  MaxFaults = 1
  ChainFaults = TRUE
  LookbackWindow = 1
  MaxFuelHeight = 3
  EndHeight <- MCEndHeight
PROPERTIES
  OpenRowsSettle
