SPECIFICATION Spec
CONSTANTS
  Axes <- MCAxes
  CubeLen = 38
  Edge = 9
  DetRange = 6
  ScanTime = 2
  MaxTime = 8
  MaxScanGap = 3
  MaxImuGap = 4
  MaxInit = 1
  MaxScans = 2
  MaxImu = 2
  MaxJumps = 1
  Restarts = {3}
  Garbage = {0, 99}
  Moves <- MCMoves
  Seen <- MCSeen
INVARIANTS
  TypeOK
  RegisteredAtItsTime
  FilterAtScanEnd
PROPERTIES
  RangeKept
  ScansTaken

CHECK_DEADLOCK FALSE
