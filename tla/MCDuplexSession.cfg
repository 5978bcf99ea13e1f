CONSTANTS
  Ids = {i1, i2, i3, i4}
  BadId = BadId
  NoId = NoId
  Versions = {0, 1}
  ProtocolVersion = 0
  MaxTracked = 3
  Sequences = {0, 1}
  Stages = {0, 1, 2}
  Capacity = 3
  HostTypes <- AnyRequest
SPECIFICATION Spec
INVARIANTS
  NoProtocolViolation
CHECK_DEADLOCK FALSE
