SPECIFICATION FairSpec
CONSTANTS
  Writers = {w1, w2}
  Lengths <- MCLengths
  FrameHeaderSize = 1
  MacLen = 1
  MaxPlaintextChunkSize = 3
  MaxNonceOutcomes <- MCOutcomes
  MaxFrames = 3
  MayClose = TRUE
INVARIANTS TypeOK NeverOutOfStep HeadersAreHeaders
PROPERTIES AllDelivered ImplementsFrameChannel
CHECK_DEADLOCK FALSE
