SPECIFICATION FairSpec
CONSTANTS
  Inputs <- MCInputs
  Overhead = 2
  MAX_MESSAGE_SIZE = 6
  IdExtra <- MCIdExtra
  FirstId = 1
  MaxQueries = 5
INVARIANTS
  TypeOK
  ItemsAskedOnce
  PackedFull
  NoEmptyQuery
  RefusedOnlyForWideId
  DoneMeansAllStates
  FiresWithTheLast
PROPERTIES
  MultiQueryFires
CHECK_DEADLOCK FALSE
