SPECIFICATION Spec
CONSTANTS
  N = 3
  CptInterval = 1
  SyncInterval = 1
  Warmup = 1
  StartOffset = 1
  MaxTB = 2
  MaxIcount = 5
  MayHalt = {0}
  MaxOfflining = 0
INVARIANTS
  TypeOK
  SnapshotAlone
  NoStraySignal
  NobodySkips
  CounterExact
  NotAllWait
PROPERTIES
  ImplementsBarrier
