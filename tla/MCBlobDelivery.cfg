SPECIFICATION Spec
CONSTANTS
  Payload <- MCFragments
  NumFragments = 3
  NumBlocksToFinalize = 1
  MaxBlobsPerTx = 2
  MaxFee = 1
  MaxTxs = 3
  MaxHeight = 4
  MaxTxsPerBlock = 1
  MaxFaults = 2
  ChainFaults = TRUE
  LookbackWindow = 2
  MaxFuelHeight = 2
  EndHeight <- MCTwoBundles
INVARIANTS
  NoFragmentFinalizedTwice
  BundlesFinalized
PROPERTIES
  ImplementsDelivery
