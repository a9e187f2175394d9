SPECIFICATION FairSpec
CONSTANTS
  Word = 64
  MaxIcount = 14
  MaxTB = 2
  SIMPOINT_IDX_MAX = 3
  Guints = 4
  Junk = Junk
  Leftovers = {0, 3}
  Inputs <- MCInputs
INVARIANTS
  HandsOver
  EveryLineCounts
  CorrespondingWeight
PROPERTIES
  StartUpEnds
\* The start-up is over when the machine runs.
CHECK_DEADLOCK FALSE
