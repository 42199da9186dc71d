SPECIFICATION FairSpec
CONSTANTS
  NUploads = 2
  FileSize = 2
  Offsets = {0, 1}
  StartPositions = {0}
  BufferFills = TRUE
  Throttles = TRUE
INVARIANTS
  TypeOK
  ContentFromOffset
PROPERTIES
  UploadsFinish
  TransfersFiles
CHECK_DEADLOCK FALSE
