SPECIFICATION Spec
CONSTANTS
  Replies <- ProxyReplies
  Roots = {"r1"}
  MaxWaiters = 0
  MaxCallbacks = 0
INVARIANTS
  ProxyAcceptsMeansOpen
CHECK_DEADLOCK FALSE
