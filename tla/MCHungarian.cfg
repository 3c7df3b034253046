CONSTANTS
  NLeft <- MCLeft
  NRight <- MCRight
SPECIFICATION HungarianFairSpec
INVARIANT HungarianTypeOK
INVARIANT AugmentingIsDead
PROPERTY RefinesGreedy
PROPERTY Termination
CHECK_DEADLOCK FALSE
