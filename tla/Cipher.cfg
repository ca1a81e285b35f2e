SPECIFICATION Spec
CONSTANTS
  Goroutines = {g1, g2}
  NonceMod = 4
  MaxNonceOutcomes <- MCOutcomes
  MaxKeys = 2
  MaxCalls = 4
INVARIANT NoNonceReuse
INVARIANT AcceptOnce
INVARIANT NoNonceSkipped
INVARIANT LimitNeverOvershot
INVARIANT NoLostIncrement
PROPERTY ImplementsAtomicCipher
CHECK_DEADLOCK FALSE
