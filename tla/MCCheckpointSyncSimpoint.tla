----------------------- MODULE MCCheckpointSyncSimpoint -----------------------
(* Instances of CheckpointSyncSimpoint for TLC.                                *)
EXTENDS CheckpointSyncSimpoint

\* As many as two vCPUs remove after two barriers, so that the last removal may be a race.
FourSimpoints == <<1, 3, 4, 5>>

=============================================================================
