SPECIFICATION Spec
CONSTANTS
  N = 2
  Ids <- AllIds
  List <- TwoRegisters
  Foreign <- OtherLists
  MaxChanges = 2
INVARIANTS
  RestoreTypeOK
  StaysAligned
PROPERTIES
  RestoredFromOwn
  FittingRestored
