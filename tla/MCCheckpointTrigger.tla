-------------------------- MODULE MCCheckpointTrigger --------------------------
(* Instances of CheckpointTrigger for TLC.                                     *)
EXTENDS CheckpointTrigger

CONSTANTS Intervals, Warmups, Offsets

SimpointLists == {<<0>>, <<0, 1>>, <<1, 3>>, <<1, 1, 2>>}

\* Every accepted combination; uniform runs have no simpoints.
MCConfigs ==
  [mode : {"simpoint"}, interval : Intervals, warmup : Warmups, offset : Offsets,
   locs : SimpointLists]
    \cup
  [mode : {"uniform", "sync-uniform"}, interval : Intervals, warmup : Warmups,
   offset : Offsets, locs : {<< >>}]

=============================================================================
