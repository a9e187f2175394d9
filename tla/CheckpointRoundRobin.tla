-------------------------- MODULE CheckpointRoundRobin --------------------------
(* CheckpointSync under -icount, which the manual requires: the accelerator    *)
(* then runs all vCPUs on one host thread, each in turn, and changes to the    *)
(* next vCPU only when the current one has come back to its execution loop.    *)
EXTENDS CheckpointSync

VARIABLE current   \* the vCPU the host thread is running

RRInit == Init /\ current = 0

RunCurrent ==
  /\ Thread(current)
  /\ UNCHANGED current

Switch ==
  /\ pc[current] = "run"
  /\ current' = (current + 1) % N
  /\ UNCHANGED vars

RRNext == RunCurrent \/ Switch

\* The host thread keeps running, and no vCPU keeps it for ever.
RRSpec ==
  /\ RRInit /\ [][RRNext]_<<vars, current>>
  /\ WF_<<vars, current>>(RunCurrent)
  /\ SF_<<vars, current>>(Switch)

-----------------------------------------------------------------------------

\* USER_MANUAL "all CPUs synchronise, then the checkpoint is created": a vCPU that
\* waits in the barrier, for the leader or for the others, gets on, unless the
\* run's bound keeps the others from reaching their next checkpoint.
BarrierEnds ==
  \A c \in Cpus :
    pc[c] \in {"spin", "scan"} ~>
      (pc[c] \notin {"spin", "scan"} \/ nextUniformPoint + StartOffset > MaxIcount)

=============================================================================
