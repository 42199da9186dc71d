SPECIFICATION FairSpec
CONSTANTS
  NConnections = 2
  Limits = {2, 3}
  MaxChunk = 2
  MaxBytes = 5
  TogglesAtRuntime = TRUE
INVARIANTS
  TypeOK
  NoStrayCalls
  ThrottledIsResumed
  ReadsPausedIffThrottled
PROPERTY
  ReadsResume
CHECK_DEADLOCK FALSE
