CONSTANTS
  Ids <- Ids11
  BadId = BadId
  NoId = NoId
  Versions = {0}
  ProtocolVersion = 0
  MaxTracked = 6
  Sequences = {0}
  Stages = {0, 1, 2}
  MaxDevices = 2
  Capacity = 2
  Texts = {"valid"}
  Reports <- GoodReports
  Rosters <- SomeRosters
  Foreign = Foreign
  MayPanic = TRUE
SPECIFICATION FairSpec
PROPERTIES
  DropReturns
CHECK_DEADLOCK FALSE
