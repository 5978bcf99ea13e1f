CONSTANTS
  i1 = i1
  Ids = {i1, i2, i3}
  BadId = BadId
  NoId = NoId
  Versions = {0, 1}
  ProtocolVersion = 0
  MaxTracked = 3
  Sequences = {0}
  Stages = {0, 1, 2}
  MaxDevices = 2
  Capacity = 1
  Texts = {"valid"}
  Backlog = 1
  Reports <- GoodReports
  Rosters <- SomeRosters
  Lines <- AllLines
SPECIFICATION AnySpec
INVARIANTS
  LinesAreAnswered
CHECK_DEADLOCK FALSE
