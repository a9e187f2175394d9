SPECIFICATION FairSpec
CONSTANTS
  Word = 64
  MaxIcount = 14
  MaxTB = 2
  Intervals = {2, 3}
  Warmups = {0, 1, 7}
  Offsets = {0, 3}
  Configs <- MCConfigs
INVARIANTS
  TypeOK
  NeverEarly
  FileOfItsPoint
  OnTime
  NoOverwrite
  ExitWhenDone
  BacklogDrains
PROPERTIES
  NothingAfterExit
  AllSimpointsServed
