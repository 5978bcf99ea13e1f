CONSTANTS
  small = small
  limit = limit
  over = over
  invalid = invalid
  s1 = s1
  s2 = s2
  s3 = s3
  s4 = s4
  Values = {small, limit, over, invalid}
  Savers = {s1, s2, s3, s4}
  Loaders = {l1, l2}
  Invalid = {invalid}
  Full = 2
  MaxBytes = 2
  MaxLosses = 1
  Offers <- SomeOffers
  Bytes <- SomeBytes
SPECIFICATION Spec
INVARIANTS
  Stored
  SavedStays
  SavedLoads
PROPERTIES
  WritesOnce
CHECK_DEADLOCK FALSE
