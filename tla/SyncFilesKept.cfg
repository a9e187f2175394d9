SPECIFICATION FilesSpec
CONSTANTS
  N = 2
  CptInterval = 1
  SyncInterval = 1
  Warmup = 0
  StartOffset = 0
  MaxTB = 1
  MaxIcount = 4
  MayHalt = {}
  MaxOfflining = 0
PROPERTIES
  SnapshotKept
