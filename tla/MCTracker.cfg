CONSTANTS
  MaxClusters <- MCMaxClusters
  IdLimit <- MCIdLimit
  JunkIds <- MCJunkIds
  Heights <- MCHeights
  Floor <- MCFloor
  MaxCount <- MCMaxCount
SPECIFICATION Spec
INVARIANT TypeOK
INVARIANT DistinctIds
INVARIANT FilterFollowsFrame
INVARIANT FiltersBounded
PROPERTY IdsNeverReturn
PROPERTY HeightKept
