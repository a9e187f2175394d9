------------------------------ MODULE SyncBarrier ------------------------------
(* What checkpoint_sync_cpus promises: vCPUs gather one by one, a snapshot is  *)
(* taken once and only when all of them have gathered, and only after it are   *)
(* they let go, all in one stroke, to gather again.                            *)
CONSTANT Cpus

VARIABLES
  inside,   \* the vCPUs that have gathered for the current snapshot
  snapped   \* that snapshot has been taken

barrierVars == <<inside, snapped>>

Init == inside = {} /\ snapped = FALSE

Enter(c) ==
  /\ c \notin inside
  /\ inside' = inside \cup {c}
  /\ UNCHANGED snapped

Snapshot ==
  /\ inside = Cpus
  /\ snapped' = TRUE
  /\ UNCHANGED inside

Release ==
  /\ snapped
  /\ inside' = {}
  /\ snapped' = FALSE

Next == Snapshot \/ Release \/ \E c \in Cpus : Enter(c)

Spec == Init /\ [][Next]_barrierVars

=============================================================================
