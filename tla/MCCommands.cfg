CONSTANTS
  T1 = T1
  B1 = B1
  B2 = B2
  B3 = B3
  B4 = B4
  B5 = B5
  a1 = a1
  a2 = a2
  b1 = b1
  weak = weak
  crowded = crowded
  s1 = s1
  s2 = s2
  s3 = s3
  i1 = i1
  i2 = i2
  i3 = i3
  Invocations = {i1, i2, i3}
  Paths = {T1, B1, B2, B3, B4, B5}
  Captures = {a1, a2, b1, weak, crowded}
  Sensors = {s1, s2, s3}
  Unfit = {}
  MinMinutiae = 2
  MaxMinutiae = 4
  MinQuality = 25
  Threshold = 40
  SampleCount = 3
  Orders <- SomeOrders
  FoundOnDisk <- SomeDisk
  Driver <- SomeDriver
  Model <- SomeModel
  Id <- SharedId
  Rosters <- SomeRosters
  Profile <- SomeProfile
  Found <- SomeFound
  Score <- SomeScore
  DemoCaptures <- SomeDemo
SPECIFICATION Spec
INVARIANTS
  ExitsTell
  CreatedIsKept
  ComparisonsAreFit
  SamplesAreAlike
  RefusedForAMinutia
  OnlyASwapMisleads
  OnlyASwapRefuses
CHECK_DEADLOCK FALSE
