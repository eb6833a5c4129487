SPECIFICATION FairSpec
CONSTANTS
  m1 = m1
  m3 = m3
  Msg <- MCMsg
  FrameLength <- MCFrameLength
  MaxFrame = 3
  MAX_PENDING_SIZE = 3
  MaxPublished = 5
INVARIANTS StreamIntact PendingBounded PendingHasWriter
PROPERTIES BufferStable ImplementsStream
CHECK_DEADLOCK FALSE
