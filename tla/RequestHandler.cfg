SPECIFICATION Spec
CONSTANTS
  Kinds = {"GetContent", "PutContent", "FreeSpaceInquiry", "CreateShare", "Noop"}
  MaxId = 3
  MaxItems = 1
  Pushes = {"PING", "FREE_SPACE_INFO", "INVALID"}
  MaxPushId = 0
  ServerEnds <- LegalEnds
  HasLog = FALSE
INVARIANTS
  TypeOK
  RegistryExact
  CopyStillRegistered
  ProducerMatchesRegistry
  DoneMeansAnswered
  DoneMeansComplete
PROPERTIES
  KeepsPromise
