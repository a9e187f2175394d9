SPECIFICATION FilesSpec
CONSTANTS
  N = 2
  CptInterval = 1
  SyncInterval = 2
  Warmup = 1
  StartOffset = 1
  MaxTB = 2
  MaxIcount = 4
  MayHalt = {}
  MaxOfflining = 1
INVARIANTS
  BarrierFileGood
  OneCreator
\* After an unplug the vCPUs may wait for each other for ever.
CHECK_DEADLOCK FALSE
