SPECIFICATION FairSpec
CONSTANTS
  MaxHeight = 4
  SizeBelow <- MCSmallBlocks
  Unavailable = {0, 4}
  LookbackWindow = 2
  BytesToAccumulate = 2
  MaxBlocksPerChunk = 1
  MaxChunkSize = 2
  BlocksToAccumulate = 2
  FragmentCounts = {2}
  Retention = 0
  MaxTime = 1
  MaxTxs = 2
  MaxFaults = 1
INVARIANTS
  BundlesPartitionBlocks
  HeldStillFree
  NothingDangles
PROPERTIES
  ImplementsIntake
  BlocksGetBundled
CHECK_DEADLOCK FALSE
