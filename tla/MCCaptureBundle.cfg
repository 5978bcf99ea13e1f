CONSTANTS
  c1 = c1
  c2 = c2
  c3 = c3
  s1 = s1
  s2 = s2
  s3 = s3
  Values = {c1, c2, c3}
  Savers = {s1, s2, s3}
  Loaders = {l1, l2}
  Invalid = {}
  Discordant = {c3}
  Full = 2
  MaxLosses = 1
  Offers <- SomeOffers
  Sizes <- SomeSizes
SPECIFICATION Spec
INVARIANTS
  LoadsAreWhole
  SavedStays
  SavedLoads
PROPERTIES
  WritesOnce
CHECK_DEADLOCK FALSE
