SPECIFICATION FairSpec
CONSTANTS
  Kinds = {"Ping"}
  MaxId = 5
  MaxItems = 0
  Pushes = {}
  MaxPushId = 0
  ServerEnds <- LegalEnds
  HasLog = FALSE
PROPERTY LostLeavesNoRequest
