SPECIFICATION FairSpec
CONSTANTS
  Options = {dataType, scanPattern}
  Size = 2
  Wrap = 4
  MaxInfos = 2
INVARIANTS
  TypeOK
  NoOverwrite
  SamplingConfigured
PROPERTIES
  FramesPublished
  ShutdownEnds
