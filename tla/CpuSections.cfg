SPECIFICATION Spec
\* Guest code is bounded, and a thread need not come to another checkpoint.
CHECK_DEADLOCK FALSE
CONSTANTS
  N = 2
  Creators = {0, 1}
  Registers = 2
  Unlistable = {1}
  BufferSize = 7
  MaxChanges = 2
INVARIANTS
  LaidOut
  OwnSectionExact
  NothingOlder
