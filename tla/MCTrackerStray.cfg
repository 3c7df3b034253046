CONSTANTS
  MaxClusters <- MCMaxClusters
  IdLimit <- MCIdLimit
  JunkIds <- MCJunkIds
  Heights <- MCHeights
  Floor <- MCFloor
  MaxCount <- MCMaxCount
SPECIFICATION Spec
INVARIANT InheritsFromSimilar
