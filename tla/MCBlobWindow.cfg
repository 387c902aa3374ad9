SPECIFICATION Spec
CONSTANTS
  Payload <- MCFragments
  NumFragments = 2
  NumBlocksToFinalize = 1
  MaxBlobsPerTx = 1
  MaxFee = 1
  MaxTxs = 3
  MaxHeight = 4
  MaxTxsPerBlock = 1
  MaxFaults = 2
  ChainFaults = TRUE
  LookbackWindow = 1
  MaxFuelHeight = 3
  EndHeight <- MCEndHeight
PROPERTIES
  OnlyFragmentsInWindow
