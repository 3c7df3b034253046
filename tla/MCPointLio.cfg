SPECIFICATION Spec
CONSTANTS
  Axes <- MCAxes
  CubeLen = 38
  Edge = 9
  DetRange = 6
  Second = 2
  ScanTime = 1
  MaxTime = 5
  MaxScanGap = 2
  MaxImuGap = 3
  MaxInit = 1
  MaxScans = 2
  MaxImu = 2
  MaxJumps = 1
  Restarts = {2}
  Moves <- MCMoves
  Seen <- MCSeen
INVARIANTS
  TypeOK
  FrontExists
  InputsAroundState
PROPERTIES
  RangeKeptAtFirst

CHECK_DEADLOCK FALSE
