SPECIFICATION Spec
CONSTANTS
  near = near
  far = far
  other = other
  Obstacles = {near, far, other}
  World <- MCWorld
  Class <- MCClass
  Modes = {"map", "baselink"}
  Track <- MCTrack
  Stride = 1
  MaxAhead = 1
  Mount = 4
  SpeedThresh = 0
  PositionThresh = 5
  AlphaNum = 7
  AlphaDen = 10
INVARIANTS
  PlacedInMap
PROPERTIES
  PlacedInBase
