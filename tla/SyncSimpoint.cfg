SPECIFICATION SimpointSpec
CONSTANTS
  N = 2
  CptInterval = 1
  SyncInterval = 0
  Warmup = 1
  StartOffset = 1
  MaxTB = 2
  MaxIcount = 7
  MayHalt = {0}
  MaxOfflining = 0
  Simpoints <- FourSimpoints
INVARIANTS
  ExitMeansServed
PROPERTIES
  ImplementsBarrier
\* The model stops where the program's behaviour is undefined.
CHECK_DEADLOCK FALSE
