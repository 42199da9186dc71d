SPECIFICATION FairSpec
CONSTANTS
  HelloLength <- MCHelloLength
  N = 5
  FrameLength <- MCFrameLengths
  Offset <- MCOffset
  MAX_MESSAGE_SIZE = 6
  LineEnds <- MCLineEnds
INVARIANTS
  TypeOK
  FramesIntact
  NothingHeldBack
  OversizeCloses
PROPERTY
  AllDelivered
CHECK_DEADLOCK FALSE
