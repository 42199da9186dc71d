SPECIFICATION FairSpec
CONSTANTS
  Kinds <- AllKinds
  MaxId = 1
  MaxItems = 2
  Pushes <- AllPushes
  MaxPushId = 0
  ServerEnds <- LegalEnds
  HasLog = TRUE
INVARIANTS
  ErrorMeansRefused
  UnhandledOnlyAfterFailure
PROPERTIES
  RequestsSettle
