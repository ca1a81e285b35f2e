CONSTANTS
  Base = 3
  Msgs <- MCMsgs
  TLVLists <- MCTLVLists
  Trailers <- MCTrailers
  MaxSends = 2
SPECIFICATION Spec
CHECK_DEADLOCK FALSE
INVARIANTS
  DecodesEveryTLV
