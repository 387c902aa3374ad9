SPECIFICATION Spec
CONSTANTS
  NumFragments = 1
  FragmentSize = 2
  MaxBurst = 3
  CallsPerSec = 1
  RetryLimit = 2
  SlowPolling = FALSE
  MaxBlobs = 1
  MaxFaults = 0
PROPERTIES
  CapacityIsReserved
CHECK_DEADLOCK FALSE
