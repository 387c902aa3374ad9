SPECIFICATION Spec
CONSTANTS
  Payload <- MCFragments
  NumFragments = 2
  NumBlocksToFinalize = 2
  MaxBlobsPerTx = 1
  MaxFee = 1
  MaxTxs = 3
  MaxHeight = 5
  MaxTxsPerBlock = 1
  MaxFaults = 2
  ChainFaults = TRUE
  LookbackWindow = 1
  MaxFuelHeight = 2
  EndHeight <- MCEndHeight
INVARIANTS
  FinalizedOnChain
  OneOpenSubmission
  OneOutcomePerNonce
  ChargedOnFinality
PROPERTIES
  SettledForever
  NoFreshResubmission
