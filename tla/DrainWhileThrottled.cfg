SPECIFICATION Spec
CONSTANTS
  NUploads = 1
  FileSize = 2
  Offsets = {0}
  StartPositions = {0}
  BufferFills = TRUE
  Throttles = TRUE
INVARIANT
  ThrottledMeansPaused
CHECK_DEADLOCK FALSE
