--------------------------- MODULE CheckpointConfig ---------------------------
(* The options of -checkpoint that steer the subsystem once the command line  *)
(* and the SimPoint files have been accepted, and the uint64_t arithmetic the  *)
(* C code does on instruction counts.  Word is 2^64; a configuration of TLC   *)
(* makes it small so that wrap-around is within reach.                         *)
EXTENDS Naturals, Sequences

CONSTANTS
  Word,        \* number of values of a uint64_t
  MaxIcount,   \* bound: the guest stops once it has executed this many instructions
  MaxTB        \* most instructions one translation block executes

\* enum CheckpointMode without NoCheckpoint, which the command line never yields.
Modes == {"simpoint", "uniform", "sync-uniform"}

\* checkpoint_get_next_simpoint's answer when no simpoint is left.
UINT64_MAX == Word - 1

AddU64(a, b) == (a + b) % Word
MulU64(a, b) == (a * b) % Word

\* The fields of CheckpointState that stay as checkpoint_init set them, and the
\* simpoint locations in the order the parser leaves them in.
ConfigType ==
  [mode : Modes, interval : Nat \ {0}, warmup : Nat, offset : Nat, locs : Seq(Nat)]

\* Simpoint mode has at least one location and they ascend; every instruction
\* count the options describe fits a uint64_t.
WellFormed(c) ==
  /\ c \in ConfigType
  /\ c.mode = "simpoint" => c.locs # << >>
  /\ \A i, j \in 1 .. Len(c.locs) : i < j => c.locs[i] <= c.locs[j]
  /\ \A i \in 1 .. Len(c.locs) : c.locs[i] * c.interval + c.offset < UINT64_MAX
  /\ MaxIcount + c.interval + c.offset < Word

ASSUME BoundsAssumption ==
  /\ Word \in Nat \ {0, 1}
  /\ MaxIcount \in Nat
  /\ MaxTB \in Nat \ {0}

=============================================================================
