SPECIFICATION FairSpec
CONSTANTS
  Replies <- ProxyReplies
  Roots = {"r1", "r2"}
  MaxWaiters = 3
  MaxCallbacks = 2
INVARIANTS
  SomebodyIsTold
  OneOutcome
  OpenMeansAccepted
  ConformingIsAccepted
PROPERTIES
  AttemptEnds
  RootIsAnswered
CHECK_DEADLOCK FALSE
