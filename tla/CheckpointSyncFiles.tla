-------------------------- MODULE CheckpointSyncFiles --------------------------
(* CheckpointSync with the files its checkpoint_create calls leave behind.  In *)
(* uniform mode the name is put together in default_path, a static buffer that *)
(* all vCPU threads share, and fopen reads it later.                           *)
EXTENDS CheckpointSync

VARIABLES
  defaultPath,   \* the count in the name that the static buffer holds
  files,         \* by the count in its name, the last file written, if any
  opened         \* the vCPUs whose last checkpoint_create could open its file

fileVars == <<vars, defaultPath, files, opened>>

Names == 0 .. MaxIcount

NoFile == [icount |-> 0, alone |-> FALSE, exists |-> FALSE]

\* What is told apart of a file, whole or cut short by a failed write: the count
\* in its header, and whether every other vCPU was held while it was written.
File(c) ==
  [icount |-> ic[c], alone |-> \A d \in Cpus \ {c} : Held(d), exists |-> TRUE]

FilesInit ==
  /\ Init
  /\ defaultPath = 0
  /\ files = [n \in Names |-> NoFile]
  /\ opened = {}

\* snprintf(default_path, ...)
NameFile(c) ==
  /\ ChooseFile(c)
  /\ defaultPath' = ic[c]
  /\ UNCHANGED <<files, opened>>

\* fopen(output_path, "wb") and everything up to fclose ...
StoreFile(c) ==
  /\ WriteFile(c)
  /\ files' = [files EXCEPT ![defaultPath] = File(c)]
  /\ opened' = opened \cup {c}
  /\ UNCHANGED defaultPath

\* ... or an early return because the directory or the file cannot be created.
StoreNothing(c) ==
  /\ WriteFile(c)
  /\ opened' = opened \ {c}
  /\ UNCHANGED <<defaultPath, files>>

NoFileStep(c) ==
  /\ RunTB(c) \/ Hook(c) \/ Environment(c) \/ Hotplug(c)
  /\ UNCHANGED <<defaultPath, files, opened>>

FilesNext ==
  \E c \in Cpus : NameFile(c) \/ StoreFile(c) \/ StoreNothing(c) \/ NoFileStep(c)

FilesSpec == FilesInit /\ [][FilesNext]_fileVars

-----------------------------------------------------------------------------

\* Every variable holds a value of its kind.
FilesTypeOK ==
  /\ TypeOK
  /\ defaultPath \in Names
  /\ files \in [Names -> [icount : Names, alone : BOOLEAN, exists : BOOLEAN]]
  /\ opened \subseteq Cpus

\* Unless a vCPU has been taken offline: when the leader lets the others go, the
\* barrier's checkpoint, if it could be opened, is in the file of its own count and
\* shows a machine whose other vCPUs all stood still: no thread could change the
\* shared file name between the leader's two steps.
BarrierFileGood ==
  \A c \in Cpus :
    offlined = 0 /\ pc[c] \in {"limit", "reset"} /\ c \in opened =>
      /\ files[ic[c]].icount = ic[c]
      /\ files[ic[c]].alone

\* USER_MANUAL "avoids inconsistent multi-core state": a checkpoint taken with
\* all other vCPUs held is not replaced by one taken while they run.
SnapshotKept == [][\A n \in Names : files[n].alone => files'[n].alone]_fileVars

=============================================================================
