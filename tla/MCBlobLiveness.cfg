SPECIFICATION FairSpec
CONSTANTS
  Payload <- MCFragments
  NumFragments = 2
  EndHeight <- MCOneBundle
  NumBlocksToFinalize = 1
  MaxBlobsPerTx = 1
  LookbackWindow = 1
  MaxFuelHeight = 1
  MaxTxs = 6
  MaxHeight = 8
  MaxTxsPerBlock = 1
  MaxFee = 0
  MaxFaults = 2
  ChainFaults = TRUE
PROPERTIES
  FragmentsDelivered
