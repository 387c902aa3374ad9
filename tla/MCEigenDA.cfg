SPECIFICATION FairSpec
CONSTANTS
  NumFragments = 2
  FragmentSize = 1
  MaxBurst = 1
  CallsPerSec = 1
  RetryLimit = 2
  SlowPolling = TRUE
  MaxBlobs = 3
  MaxFaults = 1
INVARIANTS
  FinalizedIsComplete
  OneLiveSubmission
  RepeatsAreFaults
PROPERTIES
  SettledForever
  FragmentsDispersed
CHECK_DEADLOCK FALSE
