SPECIFICATION Spec
CONSTANTS
  NCalls = 3
  SECOND = 2
  CHECKING_INTERVAL = 4
  ERROR_INTERVAL = 2
  ServerStart = 11
  Clocks = {8, 13}
  MaxTime = 6
  MaxSets = 1
CHECK_DEADLOCK FALSE
INVARIANTS
  FaithfulTime
  Paced
