SPECIFICATION FairSpec
CONSTANTS
  p = p
  q = q
  Points <- MCPoints
  Boxes <- MCBoxes
  Readers = {r1, r2}
  MaxLog = 2
INVARIANTS
  TypeOK
  
  NoUseAfterFree
  ContentKept
PROPERTY
  RebuildEnds
CHECK_DEADLOCK FALSE
