CONSTANTS
  Ids = {i1, i2, i3, i4, i5}
  BadId = BadId
  NoId = NoId
  Versions = {0, 1}
  ProtocolVersion = 0
  MaxTracked = 4
  Sequences = {0, 1}
  Stages = {0, 1, 2}
SPECIFICATION Spec
SYMMETRY IdSymmetry
INVARIANTS
  TypeOK
  TrailsAscend
  Summary
  NoDeadEnd
  TrackingBounded
PROPERTIES
  KeepsPromises
CHECK_DEADLOCK FALSE
