SPECIFICATION Spec
\* Writing ends, in one way or another.
CHECK_DEADLOCK FALSE
CONSTANTS
  MaxRegions = 2
  ChunkSize = 2
  Machines <- MCOneBlock
INVARIANTS
  MemoryRestored
