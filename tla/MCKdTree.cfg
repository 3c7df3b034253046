SPECIFICATION Spec
CONSTANTS
  Points <- MCPoints
  Clouds <- MCClouds
  Boxes <- MCBoxes
  downsample_size = 2
  DeletePercent = 50
  BalancePercent = 70
  MinUnbalanced = 2
  Neighbours = {1, 2}
  MaxDists = {2, 100}
  MaxSize = 4
  MaxRemoved = 4
INVARIANTS
  TypeOK
  ReadsExact
  NearestExact
PROPERTIES
  RootStays
  ImplementsStore
