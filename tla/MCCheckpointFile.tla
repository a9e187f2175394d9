---------------------------- MODULE MCCheckpointFile ----------------------------
(* Instances of CheckpointFile for TLC.                                        *)
EXTENDS CheckpointFile

\* Up to three blocks, one more than the array holds, of one or two chunks, and
\* two of them may have the same address.
MCBlocks ==
  UNION {[1 .. n -> [base : {0, 10}, size : 1 .. 3]] : n \in 0 .. 3}

\* All combinations of TTBRs, with any number of existing vCPUs.
MCMachines ==
  {m \in [cpus : {1, 2}, present : 1 .. 2, blocks : MCBlocks,
          ttbrs : BOOLEAN, tables : SUBSET {0, 1}] :
     m.tables # {} => m.ttbrs}

\* As on the machines the manual starts: a block that is larger than a chunk, and
\* fewer blocks than the array has entries.
MCOneBlock ==
  {[cpus |-> 1, present |-> 1, blocks |-> <<[base |-> 10, size |-> 3]>>,
    ttbrs |-> TRUE, tables |-> {0, 1}]}

=============================================================================
