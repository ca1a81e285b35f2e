SPECIFICATION Spec
CONSTANTS
  Goroutines = {g1, g2}
  NonceMod = 4
  MaxNonceOutcomes <- MCOutcomes
  MaxKeys = 1
  MaxCalls = 3
INVARIANT SafeForConcurrentAccess
CHECK_DEADLOCK FALSE
