SPECIFICATION FairSpec
CONSTANTS
  Pages = {p1, p2}
  NoTable = NoTable
  PTRS = 2
  LEVELS = 4
  MAX_TABLES = 6
  MaxWrites = 1
INVARIANTS
  Connected
  NothingDangles
  WholeTree
PROPERTIES
  WalkEnds
\* The walk is over when both TTBRs are done.
CHECK_DEADLOCK FALSE
