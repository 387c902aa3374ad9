SPECIFICATION Spec
CONSTANTS
  CacheLimit = 2
  RpcLimit = 2
  Fee <- MCFees
  MaxL1Height = 3
  MaxReorgs = 1
  ShortPeriod = 1
  LongPeriod = 3
  MaxBlocksBehind = 1
  StartPpm = 1
  EndPpm = 3
  PpmScale = 2
  AlwaysAcceptable = 4
  DataGasPerBlob = 2
  IntrinsicGas = 1
  NumBlobs = {1}
  CompressedSizes <- MCSizes
  BytesPerFragment = 2
  MaxFragments = 2
  Steps = {1, 3, 9}
  Concurrency = {1, 2}
  BitsPerFE = 16
  FEsPerBlob = 2
  VersionBits = 1
  BundleIdBits = 3
  NumBitsBits = 6
  IdxBits = 2
  BitsPerByte = 2
  ProofSize = 2
  BytesPerSymbol = 3
  FragmentSize = 7
  BundleLengths = {1, 8, 15, 17}
  BundleIds = {1, 2}
  MaxDelivered = 4
  U128Max = 2047
  TxMaxFee = 200
  GasLimit = 2
  BlobGas = 2
  MaxBlobs = 2
  BaseFees = {0, 7, 300}
  BlobBaseFees = {1, 9}
  Rewards = {0, 2, 9}
  HistoryLengths = {0, 2}
  MinPriorityFee = 1
  PriceHorizons <- MCHorizons
  L2Heights = {1, 9}
  OldestBlocks = {2, 3}
  MaxL2Behind = 4
  MinPercentile = 20
  MaxPercentile = 30
  Fragments <- MCFragments
  BundleHeights <- MCBundleHeights
  TotalFees = {7}
  PpmOfFee = 10
  MaxPerTx = 3
  MaxFinalTxs = 3
  RequestLimit = 2
  I32Max = 3
  U32Max = 7
  I64Max = 15
  U64Max = 31
  DecimalMax = 250
  TrailingZeros = 4
  Amounts = {0, 1, 30, 200, 250}
  Numbers = {0, 3, 4, 7}
  Times = {1, 2}
  Readers = {r1}
  Senders = {s1}
  MaxFailures = 2
  MaxOutages = 2
  Watched = {"block_committer", "state_committer", "eigen_block_bundler", "state_pruner"}
  MaxPanics = 1
INVARIANTS
  RequestIsCovered
  StaleOnlyIfReorged
  BestTriedIsChosen
  TrimsNoMoreThanNeeded
  DecodesExactly
  EnoughBlobsForeseen
  SentFeesAreAccepted
  RowsReadBack
  ShutdownIsClean
PROPERTIES
  NewestAreKept
  MeansAreTrue
  CostsAddUp
  HealthFollowsLink
  StopEnds
CHECK_DEADLOCK FALSE
