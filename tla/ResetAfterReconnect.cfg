SPECIFICATION Spec
CONSTANTS
  NConnections = 2
  Limits = {2, 3}
  MaxChunk = 2
  MaxBytes = 5
  TogglesAtRuntime = FALSE
INVARIANT
  EnabledMeansResetting
CHECK_DEADLOCK FALSE
