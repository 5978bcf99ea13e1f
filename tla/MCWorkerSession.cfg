CONSTANTS
  Ids <- Ids11
  BadId = BadId
  NoId = NoId
  Versions = {0}
  ProtocolVersion = 0
  MaxTracked = 5
  Sequences = {0}
  Stages = {0, 1, 2}
  MaxDevices = 2
  Capacity = 2
  Texts = {"valid", "invalid"}
  Reports <- AllReports
  Rosters <- SomeRosters
  Foreign = Foreign
  MayPanic = TRUE
SPECIFICATION FairSpec
INVARIANTS
  TypeOK
  NothingUnexpected
  NothingLeftBehind
  WorkerFailsForACause
PROPERTIES
  CallsAreAtomic
  CallsReturn
  QuietDropReturns
CHECK_DEADLOCK FALSE
