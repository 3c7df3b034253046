SPECIFICATION FairSpec
CONSTANTS
  use_tracking = use_tracking
  ground_threshold = ground_threshold
  min_x = min_x
  low = low
  high = high
  WrongType = WrongType
  MaxQueue = 4
  Displayed <- MCDisplayed
  Scalars <- MCScalars
  Reread <- MCReread
  Values <- MCValues
  Default <- MCDefault
INVARIANTS
  TypeOK
  AtMostOneBehind
  ResetRestores
PROPERTY
  ResetEnds
