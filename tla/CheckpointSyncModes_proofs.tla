---------------------- MODULE CheckpointSyncModes_proofs ----------------------
(* Proofs about the two modes in which vCPUs create checkpoints together, for   *)
(* every number of vCPUs; but for the last theorem as long as none is taken     *)
(* offline.  Uniform mode (CheckpointSyncFiles), for every interval: the        *)
(* barrier that CheckpointSync_proofs establishes keeps the shared file name in *)
(* the leader's hands from the moment it is put together until the file is      *)
(* written.  Simpoint mode (CheckpointSyncSimpoint), for every list: the        *)
(* barrier is as safe, the exit flag means that every location is gone, and the *)
(* lists are right as long as the vCPUs take turns at them.                     *)
EXTENDS CheckpointSyncFiles, CheckpointSyncSimpoint, CheckpointSync_proofs

USE SyncAssumption DEF locals, limits, flags, onlining

-----------------------------------------------------------------------------
(* Uniform mode: the file names                                                *)

\* The instruction counts stay within the names a file can have.
Bounded ==
  /\ icount \in Names
  /\ \A c \in Cpus : ic[c] \in Names

\* Between the leader's two steps the static buffer holds the leader's name.
PathKept == \A c \in Cpus : pc[c] = "bwrite" => defaultPath = ic[c]

FilesInv ==
  /\ BarrierInv
  /\ FilesTypeOK
  /\ Bounded
  /\ PathKept
  /\ BarrierFileGood

LEMMA NamesStart == 0 \in Names
BY DEF Names

LEMMA InitFiles == FilesInit => FilesInv
<1> SUFFICES ASSUME FilesInit PROVE FilesInv
  OBVIOUS
<1>1. BarrierInv
  BY InitBarrier DEF FilesInit
<1>2. \A c \in Cpus : pc[c] = "run" /\ ic[c] = 0
  BY DEF FilesInit, Init
<1>3. FilesTypeOK
  <2>1. TypeOK
    BY <1>1 DEF BarrierInv
  <2> QED
    BY <2>1, NamesStart DEF FilesTypeOK, FilesInit, NoFile
<1>4. Bounded
  BY <1>2, NamesStart DEF Bounded, FilesInit, Init
<1>5. PathKept /\ BarrierFileGood
  BY <1>2 DEF PathKept, BarrierFileGood
<1> QED
  BY <1>1, <1>3, <1>4, <1>5 DEF FilesInv

\* With no vCPU to take offline there is none to bring back.
LEMMA NoHotplug ==
  ASSUME BarrierInv, MaxOfflining = 0, NEW c \in Cpus
  PROVE  ~ Hotplug(c)
BY DEF BarrierInv, AllOnline, Hotplug, CpuOffline, CpuOnline

\* While one vCPU creates the barrier's checkpoint no other takes a step.
LEMMA Frozen ==
  ASSUME BarrierInv, NEW d \in Cpus, Closed(d), NEW c \in Cpus \ {d},
         Thread(c) \/ Environment(c)
  PROVE  FALSE
<1>1. pc[c] = "spin" /\ checkpointEnd[c] = 0
  BY DEF BarrierInv, SnapshotAlone, Held
<1>3. ~ Environment(c)
  BY <1>1 DEF Environment, Halt, Wake, Block, Goto
<1>4. ~ RunTB(c) /\ ~ Create(c)
  BY <1>1 DEF RunTB, Block, Create, ChooseFile, WriteFile, Goto
<1>5. ~ Hook(c)
  BY <1>1 DEF Hook, Trigger, NotReached, JoinOrSkip, Arrive, BecomeWaiter, RaiseWaiting,
              Released, ClearWaiting, BecomeLeader, Scan, ScanDone, UpdateSyncLimit,
              ResetWaitId, Signal, SignalDone, LoadPoint, StorePoint, Goto
<1> QED
  BY <1>3, <1>4, <1>5 DEF Thread

\* Every step of a thread is one of CheckpointSync and moves that thread alone.
LEMMA ThreadStep ==
  ASSUME BarrierInv, NEW c \in Cpus, Thread(c) \/ Environment(c)
  PROVE  /\ BarrierInv'
         /\ \A d \in Cpus \ {c} : pc'[d] = pc[d]
         /\ pc'[c] = "bwrite" => pc[c] = "bname" /\ ChooseFile(c)
         /\ pc'[c] = "limit" => pc[c] = "bwrite" /\ WriteFile(c)
         /\ pc'[c] = "reset" => pc[c] = "limit" /\ UpdateSyncLimit(c)
<1>1. BarrierInv'
  BY BarrierStep DEF Next
<1>2. pc \in [Cpus -> Pcs]
  BY DEF BarrierInv, TypeOK
<1>3. CASE RunTB(c) \/ Halt(c) \/ Wake(c) \/ Create(c)
  BY <1>1, <1>2, <1>3 DEF RunTB, Halt, Wake, Block, Create, ChooseFile, WriteFile, Goto
<1>4. CASE Hook(c)
  BY <1>1, <1>2, <1>4 DEF Hook, Trigger, NotReached, JoinOrSkip, Arrive,
       BecomeWaiter, RaiseWaiting, Released, ClearWaiting, BecomeLeader, Scan, ScanDone, UpdateSyncLimit,
       ResetWaitId, Signal, SignalDone, LoadPoint, StorePoint, Goto
<1> QED
  BY <1>2, <1>3, <1>4 DEF Thread, Environment

\* The counts change only at the end of a block, which the bound cuts off.
LEMMA BoundedStep ==
  ASSUME BarrierInv, Bounded, NEW c \in Cpus, Thread(c) \/ Environment(c)
  PROVE  Bounded'
<1>1. ic \in [Cpus -> Nat]
  BY DEF BarrierInv, TypeOK
<1>2. CASE RunTB(c) \/ Wake(c)
  <2>1. PICK d \in 1 .. MaxTB :
          /\ icount' = IF icount + d <= MaxIcount THEN icount + d ELSE MaxIcount
          /\ ic' = [ic EXCEPT ![c] = icount']
    BY <1>2 DEF RunTB, Wake, Block
  <2>2. icount' \in Names
    BY <2>1 DEF Bounded, Names
  <2> QED
    BY <1>1, <2>1, <2>2 DEF Bounded
<1>3. CASE Hook(c)
  BY <1>3 DEF Bounded, Hook, Trigger, NotReached, JoinOrSkip, Arrive,
       BecomeWaiter, RaiseWaiting, Released, ClearWaiting, BecomeLeader, Scan, ScanDone, UpdateSyncLimit,
       ResetWaitId, Signal, SignalDone, LoadPoint, StorePoint
<1>4. CASE Create(c) \/ Halt(c)
  BY <1>4 DEF Bounded, Create, ChooseFile, WriteFile, Halt
<1> QED
  BY <1>2, <1>3, <1>4 DEF Thread, Environment

\* One step of vCPU c, with what it does to the files.
LEMMA FilesStep ==
  ASSUME FilesInv, MaxOfflining = 0, NEW c \in Cpus,
         NameFile(c) \/ StoreFile(c) \/ StoreNothing(c) \/ NoFileStep(c)
  PROVE  FilesInv'
<1>1. Thread(c) \/ Environment(c)
  BY NoHotplug DEF FilesInv, NameFile, StoreFile, StoreNothing, NoFileStep, Thread, Create
<1>2. BarrierInv /\ FilesTypeOK /\ Bounded /\ PathKept /\ BarrierFileGood
  BY DEF FilesInv
<1>3. BarrierInv' /\ TypeOK' /\ Bounded'
  BY <1>1, <1>2, ThreadStep, BoundedStep DEF BarrierInv
<1>4. FilesTypeOK'
  <2>1. File(c) \in [icount : Names, alone : BOOLEAN, exists : BOOLEAN]
    BY <1>2 DEF File, Bounded
  <2>2. defaultPath' \in Names
    BY <1>2 DEF FilesTypeOK, Bounded, NameFile, StoreFile, StoreNothing, NoFileStep
  <2>3. files' \in [Names -> [icount : Names, alone : BOOLEAN, exists : BOOLEAN]]
    BY <1>2, <2>1 DEF FilesTypeOK, NameFile, StoreFile, StoreNothing, NoFileStep
  <2>4. opened' \subseteq Cpus
    BY <1>2 DEF FilesTypeOK, NameFile, StoreFile, StoreNothing, NoFileStep
  <2> QED
    BY <1>3, <2>2, <2>3, <2>4 DEF FilesTypeOK
<1>5. \A d \in Cpus : pc'[d] \in {"bwrite", "limit", "reset"} => d = c
  <2> SUFFICES ASSUME NEW d \in Cpus \ {c}, pc'[d] \in {"bwrite", "limit", "reset"}
               PROVE  FALSE
    OBVIOUS
  <2>1. Closed(d)
    BY <1>1, <1>2, ThreadStep DEF Closed
  <2> QED
    BY <1>1, <1>2, <2>1, Frozen
<1>6. PathKept'
  <2> SUFFICES ASSUME pc'[c] = "bwrite" PROVE defaultPath' = ic'[c]
    BY <1>5 DEF PathKept
  <2>1. pc[c] = "bname" /\ ChooseFile(c)
    BY <1>1, <1>2, ThreadStep
  <2>2. NameFile(c)
    BY <2>1 DEF StoreFile, StoreNothing, NoFileStep, WriteFile, RunTB, Block, Hook,
         Environment, Hotplug, Trigger, NotReached, JoinOrSkip, Arrive, BecomeWaiter, RaiseWaiting,
         Released, ClearWaiting, BecomeLeader, Scan, ScanDone, UpdateSyncLimit,
         ResetWaitId, Signal, SignalDone, LoadPoint, StorePoint, Halt, Wake, CpuOffline,
         CpuOnline, Goto
  <2> QED
    BY <2>1, <2>2 DEF NameFile, ChooseFile
<1>7. BarrierFileGood'
  <2> SUFFICES ASSUME pc'[c] \in {"limit", "reset"}, c \in opened'
               PROVE  files'[ic'[c]].icount = ic'[c] /\ files'[ic'[c]].alone
    BY <1>5 DEF BarrierFileGood
  <2>1. CASE pc'[c] = "limit"
    <3>1. pc[c] = "bwrite" /\ pc'[c] = "limit" /\ WriteFile(c)
      BY <1>1, <1>2, <2>1, ThreadStep
    <3>2. ic' = ic /\ ic[c] \in Names /\ defaultPath = ic[c]
      BY <1>2, <3>1 DEF WriteFile, Bounded, PathKept
    <3>3. StoreFile(c)
      BY <3>1 DEF NameFile, ChooseFile, StoreNothing, NoFileStep, RunTB, Block, Hook,
           Environment, Hotplug, Trigger, NotReached, JoinOrSkip, Arrive,
           BecomeWaiter, RaiseWaiting, Released, ClearWaiting, BecomeLeader, Scan, ScanDone,
           UpdateSyncLimit, ResetWaitId, Signal, SignalDone, LoadPoint, StorePoint, Halt,
           Wake, CpuOffline, CpuOnline, Goto
    <3>4. files' = [files EXCEPT ![ic[c]] = File(c)]
      BY <3>2, <3>3 DEF StoreFile
    <3>5. \A d \in Cpus \ {c} : Held(d)
      BY <1>2, <3>1 DEF BarrierInv, SnapshotAlone, Closed
    <3> QED
      BY <1>2, <3>2, <3>4, <3>5 DEF File, FilesTypeOK
  <2>2. CASE pc'[c] = "reset"
    <3>1. pc[c] = "limit" /\ UpdateSyncLimit(c)
      BY <1>1, <1>2, <2>2, ThreadStep
    <3>2. ic' = ic /\ files' = files /\ opened' = opened
      BY <3>1 DEF UpdateSyncLimit, NameFile, ChooseFile, StoreFile, StoreNothing, WriteFile,
                  NoFileStep, Goto
    <3> QED
      BY <1>2, <3>1, <3>2 DEF BarrierFileGood, BarrierInv, AllOnline
  <2> QED
    BY <2>1, <2>2
<1> QED
  BY <1>3, <1>4, <1>6, <1>7 DEF FilesInv

\* The name, the file and the barrier agree for ever.
THEOREM FilesInvariance ==
  ASSUME MaxOfflining = 0
  PROVE  FilesSpec => []FilesInv
<1>1. FilesInv /\ [FilesNext]_fileVars => FilesInv'
  <2> SUFFICES ASSUME FilesInv, [FilesNext]_fileVars PROVE FilesInv'
    OBVIOUS
  <2>1. CASE UNCHANGED fileVars
    <3>1. UNCHANGED vars /\ UNCHANGED <<defaultPath, files, opened>>
      BY <2>1 DEF fileVars
    <3>2. BarrierInv'
      BY <3>1, BarrierStep DEF FilesInv
    <3>3. FilesTypeOK'
      BY <3>1, <3>2 DEF FilesInv, FilesTypeOK, BarrierInv
    <3>4. Bounded' /\ PathKept' /\ BarrierFileGood'
      BY <3>1 DEF vars, FilesInv, Bounded, PathKept, BarrierFileGood
    <3> QED
      BY <3>2, <3>3, <3>4 DEF FilesInv
  <2>2. ASSUME NEW c \in Cpus,
               NameFile(c) \/ StoreFile(c) \/ StoreNothing(c) \/ NoFileStep(c)
        PROVE  FilesInv'
    BY <2>2, FilesStep
  <2> QED
    BY <2>1, <2>2 DEF FilesNext
<1> QED
  BY <1>1, InitFiles, PTL DEF FilesSpec

\* The shared name is always one a file can have, and files are what was written.
THEOREM FilesTypeCorrect ==
  ASSUME MaxOfflining = 0
  PROVE  FilesSpec => []FilesTypeOK
<1>1. FilesInv => FilesTypeOK
  BY DEF FilesInv
<1> QED
  BY <1>1, FilesInvariance, PTL

\* The barrier's checkpoint is in the file of its own count and shows a machine
\* whose other vCPUs all stood still, although the buffer with its name is shared.
THEOREM BarrierFileIsGood ==
  ASSUME MaxOfflining = 0
  PROVE  FilesSpec => []BarrierFileGood
<1>1. FilesInv => BarrierFileGood
  BY DEF FilesInv
<1> QED
  BY <1>1, FilesInvariance, PTL

-----------------------------------------------------------------------------
(* Simpoint mode: the lists                                                    *)

\* A head, and what a removal returned, is at most one node past the last one
\* that was freed; a removal goes through a node, not through NULL.
ListInv ==
  /\ head \in [Lists -> 1 .. NULL]
  /\ freed \in [Lists -> 0 .. SimpointCount]
  /\ chosen \in [Cpus -> 1 .. NULL]
  /\ at \in [Cpus -> {"length", "first", "remove", "store", "done"}]
  /\ list \in [Cpus -> Lists]
  /\ node \in [Cpus -> 1 .. NULL]
  /\ rest \in [Cpus -> 1 .. NULL]
  /\ simpointExit \in BOOLEAN
  /\ undefined \in BOOLEAN
  /\ \A l \in Lists : head[l] <= freed[l] + 1
  /\ \A c \in Cpus : at[c] = "remove" => node[c] # NULL
  /\ \A c \in Cpus : at[c] = "store" => rest[c] <= freed[list[c]] + 1
  /\ ExitMeansServed

SimpointInv == BarrierInv /\ ListInv

-----------------------------------------------------------------------------

\* There is at least one simpoint, so the lists do not start empty.
LEMMA CountIsPositive == SimpointCount \in Nat /\ 1 \in 1 .. SimpointCount
<1>1. Simpoints \in Seq(Nat) /\ Simpoints # << >>
  BY SimpointsAssumption
<1>2. Len(Simpoints) \in Nat /\ Len(Simpoints) # 0
  BY <1>1
<1> QED
  BY <1>2 DEF SimpointCount

LEMMA InitList == SimpointInit => ListInv
<1> SUFFICES ASSUME SimpointInit PROVE ListInv
  OBVIOUS
<1>1. NULL \in 1 .. NULL /\ 1 \in 1 .. NULL /\ 0 \in 0 .. SimpointCount
  BY CountIsPositive DEF NULL
<1>2. "cpt" \in Lists
  BY DEF Lists
<1>3. \A l \in Lists : head[l] = 1 /\ freed[l] = 0
  BY DEF SimpointInit
<1>4. \A c \in Cpus : at[c] = "length"
  BY DEF SimpointInit
<1>5. /\ head \in [Lists -> 1 .. NULL]
      /\ freed \in [Lists -> 0 .. SimpointCount]
      /\ chosen \in [Cpus -> 1 .. NULL]
      /\ at \in [Cpus -> {"length", "first", "remove", "store", "done"}]
      /\ list \in [Cpus -> Lists]
      /\ node \in [Cpus -> 1 .. NULL]
      /\ rest \in [Cpus -> 1 .. NULL]
      /\ simpointExit = FALSE
      /\ undefined \in BOOLEAN
  BY <1>1, <1>2 DEF SimpointInit
<1>6. \A l \in Lists : head[l] <= freed[l] + 1
  BY <1>3
<1> QED
  BY <1>4, <1>5, <1>6 DEF ListInv, ExitMeansServed

-----------------------------------------------------------------------------
(* The barrier                                                                 *)

\* The steps of checkpoint_try_take that differ from uniform mode's, outside the
\* barrier.
SimpointOutside(c) ==
  SimpointTrigger(c) \/ SimpointNotReached(c) \/ SimpointJoin(c) \/ SimpointSkip(c)
    \/ CheckDone(c)

\* The steps that only look at and change the lists.
PopStep(c) ==
  CountLeft(c) \/ TakeFirst(c) \/ Remove(c) \/ StoreHead(c) \/ Misuse(c)

\* Every step is one of those, or one that uniform mode takes as well.
LEMMA SimpointCases ==
  ASSUME NEW c \in Cpus, SimpointThread(c) \/ SimpointEnvironment(c)
  PROVE  \/ Thread(c) \/ Environment(c) \/ Hotplug(c)
         \/ SimpointOutside(c)
         \/ PopStep(c)
<1>1. CASE ChoosePath(c) \/ NoListStep(c)
  BY <1>1 DEF ChoosePath, NoListStep, Thread, Hook, Create
<1> QED
  BY <1>1 DEF SimpointThread, SimpointEnvironment, Proceed, SimpointOutside, PopStep

LEMMA SimpointOutsideStep ==
  ASSUME BarrierInv, NEW c \in Cpus, SimpointOutside(c)
  PROVE  /\ BarrierInv' /\ Gathered' = Gathered
         /\ \E from \in Outside, to \in Outside : Goto(c, from, to)
<1>1. PICK from \in Outside, to \in Outside : Goto(c, from, to)
  BY DEF SimpointOutside, SimpointTrigger, SimpointNotReached, SimpointJoin, SimpointSkip,
         CheckDone, Goto, Outside
<1>2. UNCHANGED <<icount, locals, limits, waitId, flags, onlining>>
  BY DEF SimpointOutside, SimpointTrigger, SimpointNotReached, SimpointJoin, SimpointSkip,
         CheckDone
<1>3. TypeOK'
  <2>1. to \in Pcs
    BY DEF Outside, Pcs
  <2> QED
    BY <1>1, <1>2, <2>1 DEF BarrierInv, TypeOK, Goto
<1> QED
  BY <1>1, <1>2, <1>3, OutsideStep DEF Goto

LEMMA PopKeepsVars ==
  ASSUME NEW c \in Cpus, PopStep(c)
  PROVE  UNCHANGED vars
BY DEF PopStep, CountLeft, TakeFirst, Remove, StoreHead, Misuse, vars

LEMMA SimpointBarrierStep ==
  ASSUME BarrierInv, MaxOfflining = 0, [SimpointNext]_simpointVars
  PROVE  BarrierInv'
<1>1. CASE UNCHANGED simpointVars
  <2>1. UNCHANGED vars
    BY <1>1 DEF simpointVars
  <2> QED
    BY <2>1, BarrierStep
<1>2. ASSUME NEW c \in Cpus, SimpointThread(c) \/ SimpointEnvironment(c) PROVE BarrierInv'
  <2>1. CASE Thread(c) \/ Environment(c)
    <3>1. Next
      BY <2>1 DEF Next
    <3> QED
      BY <3>1, BarrierStep
  <2>2. CASE SimpointOutside(c)
    BY <2>2, SimpointOutsideStep
  <2>3. CASE PopStep(c)
    BY <2>3, PopKeepsVars, BarrierStep
  <2> QED
    BY <1>2, <2>1, <2>2, <2>3, SimpointCases, NoHotplug
<1> QED
  BY <1>1, <1>2 DEF SimpointNext

-----------------------------------------------------------------------------
(* The lists                                                                   *)

\* A removal that finds its node frees the one after the last freed.
LEMMA RemoveStep ==
  ASSUME ListInv, NEW c \in Cpus, Remove(c), \A l \in Reads(c) : ~ Dangling(l)
  PROVE  ListInv'
<1> DEFINE l == list[c]
<1>1. l \in Lists /\ at[c] = "remove" /\ node[c] \in 1 .. SimpointCount
  <2>1. at[c] = "remove"
    BY DEF Remove, Popping
  <2>2. node[c] \in 1 .. NULL /\ node[c] # NULL
    BY <2>1 DEF ListInv
  <2> QED
    BY <2>1, <2>2, CountIsPositive DEF ListInv, NULL
<1>2. l \in Reads(c)
  BY <1>1 DEF Remove, Reads
<1>3. /\ at' \in [Cpus -> {"length", "first", "remove", "store", "done"}]
      /\ at'[c] = "store"
      /\ \A d \in Cpus \ {c} : at'[d] = at[d]
  BY DEF Remove, ListInv
<1>4. head[l] \in 1 .. NULL /\ freed[l] \in 0 .. SimpointCount /\ head[l] <= freed[l] + 1
  BY <1>1 DEF ListInv
<1>5. CASE node[c] = head[l]
  <2>1. freed[l] < node[c]
    BY <1>1, <1>2, <1>4, <1>5, CountIsPositive DEF Dangling, NULL
  <2>2. /\ freed' \in [Lists -> 0 .. SimpointCount]
        /\ freed'[l] = node[c]
        /\ \A k \in Lists \ {l} : freed'[k] = freed[k]
    <3>1. node[c] \in 0 .. SimpointCount
      BY <1>1, CountIsPositive
    <3> QED
      BY <1>1, <1>5, <3>1 DEF Remove, ListInv
  <2>3. /\ rest' \in [Cpus -> 1 .. NULL]
        /\ rest'[c] = node[c] + 1
        /\ \A d \in Cpus \ {c} : rest'[d] = rest[d]
    <3>1. node[c] + 1 \in 1 .. NULL
      BY <1>1, CountIsPositive DEF NULL
    <3> QED
      BY <1>5, <3>1 DEF Remove, ListInv
  <2> HIDE DEF l
  <2>4. UNCHANGED <<head, chosen, list, node, simpointExit, undefined>>
    BY DEF Remove
  <2>5. \A k \in Lists : freed[k] <= freed'[k] /\ freed[k] \in 0 .. SimpointCount
    BY <1>1, <1>4, <2>1, <2>2, CountIsPositive DEF ListInv
  <2>6. \A k \in Lists : head'[k] <= freed'[k] + 1
    <3> SUFFICES ASSUME NEW k \in Lists PROVE head[k] <= freed'[k] + 1
      BY <2>4
    <3>1. head[k] \in 1 .. NULL /\ head[k] <= freed[k] + 1
      BY DEF ListInv
    <3>2. freed[k] <= freed'[k] /\ freed[k] \in 0 .. SimpointCount /\ freed'[k] \in 0 .. SimpointCount
      BY <2>2, <2>5
    <3> QED
      BY <3>1, <3>2, CountIsPositive DEF NULL
  <2>7. \A d \in Cpus : at'[d] = "store" => rest'[d] <= freed'[list'[d]] + 1
    <3> SUFFICES ASSUME NEW d \in Cpus, at'[d] = "store" PROVE rest'[d] <= freed'[list[d]] + 1
      BY <2>4
    <3>1. CASE d = c
      BY <1>1, <2>2, <2>3, <3>1, CountIsPositive DEF l
    <3>2. CASE d # c
      <4>1. rest[d] \in 1 .. NULL /\ rest[d] <= freed[list[d]] + 1 /\ list[d] \in Lists
        BY <1>3, <3>2 DEF ListInv
      <4>2. freed[list[d]] <= freed'[list[d]] /\ freed[list[d]] \in 0 .. SimpointCount
            /\ freed'[list[d]] \in 0 .. SimpointCount
        BY <2>2, <2>5, <4>1
      <4> QED
        BY <2>3, <3>2, <4>1, <4>2, CountIsPositive DEF NULL
    <3> QED
      BY <3>1, <3>2
  <2>8. ExitMeansServed'
    <3> SUFFICES ASSUME simpointExit PROVE freed'["cpt"] = SimpointCount
      BY <2>4 DEF ExitMeansServed
    <3>1. "cpt" \in Lists
      BY DEF Lists
    <3>2. freed["cpt"] = SimpointCount
      BY DEF ListInv, ExitMeansServed
    <3>3. freed["cpt"] <= freed'["cpt"] /\ freed'["cpt"] \in 0 .. SimpointCount
      BY <2>2, <2>5, <3>1
    <3> QED
      BY <3>2, <3>3, CountIsPositive
  <2>9. \A d \in Cpus : at'[d] = "remove" => node'[d] # NULL
    BY <1>3, <2>4 DEF ListInv
  <2> QED
    BY <1>3, <2>2, <2>3, <2>4, <2>6, <2>7, <2>8, <2>9 DEF ListInv
<1>6. CASE node[c] # head[l]
  <2>1. /\ rest' \in [Cpus -> 1 .. NULL]
        /\ rest'[c] = head[l]
        /\ \A d \in Cpus \ {c} : rest'[d] = rest[d]
    BY <1>4, <1>6 DEF Remove, ListInv
  <2>2. UNCHANGED <<head, freed, chosen, list, node, simpointExit, undefined>>
    BY <1>6 DEF Remove
  <2>3. \A d \in Cpus : at'[d] = "store" => rest'[d] <= freed'[list'[d]] + 1
    BY <1>3, <1>4, <2>1, <2>2 DEF ListInv
  <2>4. \A d \in Cpus : at'[d] = "remove" => node'[d] # NULL
    BY <1>3, <2>2 DEF ListInv
  <2> QED
    BY <1>3, <2>1, <2>2, <2>3, <2>4 DEF ListInv, ExitMeansServed
<1> QED
  BY <1>5, <1>6

LEMMA StoreHeadStep ==
  ASSUME ListInv, NEW c \in Cpus, StoreHead(c)
  PROVE  ListInv'
<1>1. at[c] = "store" /\ list[c] \in Lists /\ rest[c] \in 1 .. NULL
  BY DEF StoreHead, Popping, ListInv
<1>2. rest[c] <= freed[list[c]] + 1
  BY <1>1 DEF ListInv
<1>3. /\ head' \in [Lists -> 1 .. NULL]
      /\ head'[list[c]] = rest[c]
      /\ \A k \in Lists \ {list[c]} : head'[k] = head[k]
  BY <1>1 DEF StoreHead, ListInv
<1>4. /\ at' \in [Cpus -> {"length", "first", "remove", "store", "done"}]
      /\ at'[c] \in {"first", "done"}
      /\ \A d \in Cpus \ {c} : at'[d] = at[d]
  BY DEF StoreHead, ListInv
<1>5. /\ list' \in [Cpus -> Lists]
      /\ \A d \in Cpus \ {c} : list'[d] = list[d]
  <2>1. "path" \in Lists
    BY DEF Lists
  <2> QED
    BY <2>1 DEF StoreHead, ListInv
<1>6. UNCHANGED <<freed, chosen, node, rest, simpointExit, undefined>>
  BY DEF StoreHead
<1>7. \A k \in Lists : head'[k] <= freed'[k] + 1
  BY <1>2, <1>3, <1>6 DEF ListInv
<1>8. \A d \in Cpus : at'[d] = "store" => rest'[d] <= freed'[list'[d]] + 1
  BY <1>4, <1>5, <1>6 DEF ListInv
<1>9. \A d \in Cpus : at'[d] = "remove" => node'[d] # NULL
  BY <1>4, <1>6 DEF ListInv
<1> QED
  BY <1>3, <1>4, <1>5, <1>6, <1>7, <1>8, <1>9 DEF ListInv, ExitMeansServed

\* The flag goes up with no location left, that is, with the last one freed.
LEMMA CheckDoneStep ==
  ASSUME ListInv, NEW c \in Cpus, CheckDone(c)
  PROVE  ListInv'
<1>1. UNCHANGED <<head, freed, chosen, list, node, rest, undefined>>
  BY DEF CheckDone
<1>2. /\ at' \in [Cpus -> {"length", "first", "remove", "store", "done"}]
      /\ at'[c] = "length"
      /\ \A d \in Cpus \ {c} : at'[d] = at[d]
  BY DEF CheckDone, ListInv
<1>3. simpointExit' \in BOOLEAN
  BY DEF CheckDone
<1>4. ExitMeansServed'
  <2>1. "cpt" \in Lists
    BY DEF Lists
  <2>2. head["cpt"] <= freed["cpt"] + 1 /\ freed["cpt"] \in 0 .. SimpointCount
    BY <2>1 DEF ListInv
  <2>3. head["cpt"] = NULL => freed["cpt"] = SimpointCount
    BY <2>2, CountIsPositive DEF NULL
  <2>4. simpointExit' => simpointExit \/ head["cpt"] = NULL
    BY DEF CheckDone
  <2>5. simpointExit => freed["cpt"] = SimpointCount
    BY DEF ListInv, ExitMeansServed
  <2> QED
    BY <1>1, <2>3, <2>4, <2>5 DEF ExitMeansServed
<1>5. /\ \A d \in Cpus : at'[d] = "store" => rest'[d] <= freed'[list'[d]] + 1
      /\ \A d \in Cpus : at'[d] = "remove" => node'[d] # NULL
  BY <1>1, <1>2 DEF ListInv
<1> QED
  BY <1>1, <1>2, <1>3, <1>4, <1>5 DEF ListInv

LEMMA CountLeftStep ==
  ASSUME ListInv, NEW c \in Cpus, CountLeft(c)
  PROVE  ListInv'
<1>1. UNCHANGED <<head, freed, chosen, node, rest, simpointExit, undefined>>
  BY DEF CountLeft
<1>2. /\ at' \in [Cpus -> {"length", "first", "remove", "store", "done"}]
      /\ at'[c] \in {"first", "done"}
      /\ \A d \in Cpus \ {c} : at'[d] = at[d]
  BY DEF CountLeft, ListInv
<1>3. /\ list' \in [Cpus -> Lists]
      /\ \A d \in Cpus \ {c} : list'[d] = list[d]
  <2>1. "cpt" \in Lists
    BY DEF Lists
  <2> QED
    BY <2>1 DEF CountLeft, ListInv
<1>4. /\ \A d \in Cpus : at'[d] = "store" => rest'[d] <= freed'[list'[d]] + 1
      /\ \A d \in Cpus : at'[d] = "remove" => node'[d] # NULL
  BY <1>1, <1>2, <1>3 DEF ListInv
<1> QED
  BY <1>1, <1>2, <1>3, <1>4 DEF ListInv, ExitMeansServed

LEMMA TakeFirstStep ==
  ASSUME ListInv, NEW c \in Cpus, TakeFirst(c)
  PROVE  ListInv'
<1>1. UNCHANGED <<head, freed, chosen, list, rest, simpointExit, undefined>>
  BY DEF TakeFirst
<1>2. /\ at' \in [Cpus -> {"length", "first", "remove", "store", "done"}]
      /\ at'[c] = "remove"
      /\ \A d \in Cpus \ {c} : at'[d] = at[d]
  BY DEF TakeFirst, ListInv
<1>3. /\ node' \in [Cpus -> 1 .. NULL]
      /\ node'[c] # NULL
      /\ \A d \in Cpus \ {c} : node'[d] = node[d]
  BY DEF TakeFirst, ListInv
<1>4. /\ \A d \in Cpus : at'[d] = "store" => rest'[d] <= freed'[list'[d]] + 1
      /\ \A d \in Cpus : at'[d] = "remove" => node'[d] # NULL
  BY <1>1, <1>2, <1>3 DEF ListInv
<1> QED
  BY <1>1, <1>2, <1>3, <1>4 DEF ListInv, ExitMeansServed

\* Choosing a path leaves the lists as they are.
LEMMA ChoosePathStep ==
  ASSUME ListInv, NEW c \in Cpus, ChoosePath(c)
  PROVE  ListInv'
<1>1. UNCHANGED <<head, freed, at, list, node, rest, simpointExit, undefined>>
  BY DEF ChoosePath, popVars
<1>2. chosen' \in [Cpus -> 1 .. NULL]
  <2>1. head["path"] \in 1 .. NULL
    BY DEF ListInv, Lists
  <2> QED
    BY <2>1 DEF ChoosePath, ListInv
<1> QED
  BY <1>1, <1>2 DEF ListInv, ExitMeansServed

LEMMA ListStep ==
  ASSUME ListInv, [SimpointNext]_simpointVars
  PROVE  ListInv'
<1>1. CASE UNCHANGED listVars
  BY <1>1 DEF listVars, popVars, ListInv, ExitMeansServed
<1>2. ASSUME NEW c \in Cpus, Misuse(c) PROVE ListInv'
  BY <1>2 DEF Misuse, popVars, ListInv, ExitMeansServed
<1>3. ASSUME NEW c \in Cpus, Proceed(c) PROVE ListInv' \/ UNCHANGED listVars
  BY <1>3, RemoveStep, StoreHeadStep, CheckDoneStep, CountLeftStep, TakeFirstStep, ChoosePathStep
     DEF Proceed, SimpointTrigger, SimpointNotReached, SimpointJoin, SimpointSkip, NoListStep
<1>4. ASSUME NEW c \in Cpus, SimpointEnvironment(c) PROVE UNCHANGED listVars
  BY <1>4 DEF SimpointEnvironment
<1>5. CASE UNCHANGED simpointVars
  BY <1>1, <1>5 DEF simpointVars
<1> QED
  BY <1>1, <1>2, <1>3, <1>4, <1>5 DEF SimpointNext, SimpointThread

-----------------------------------------------------------------------------

\* Barrier and lists keep their invariants in every interleaving.
THEOREM SimpointInvariance ==
  ASSUME MaxOfflining = 0
  PROVE  SimpointSpec => []SimpointInv
<1>1. SimpointInit => SimpointInv
  BY InitBarrier, InitList DEF SimpointInit, SimpointInv
<1>2. SimpointInv /\ [SimpointNext]_simpointVars => SimpointInv'
  BY SimpointBarrierStep, ListStep DEF SimpointInv
<1> QED
  BY <1>1, <1>2, PTL DEF SimpointSpec

\* Heads, places and removed nodes keep their types, the barrier's variables theirs.
THEOREM SimpointTypeCorrect ==
  ASSUME MaxOfflining = 0
  PROVE  SimpointSpec => []SimpointTypeOK
<1>1. SimpointInv => SimpointTypeOK
  BY DEF SimpointInv, BarrierInv, ListInv, SimpointTypeOK
<1> QED
  BY <1>1, SimpointInvariance, PTL

\* In simpoint mode too the leader creates with every other vCPU held.
THEOREM SimpointSnapshotIsAlone ==
  ASSUME MaxOfflining = 0
  PROVE  SimpointSpec => []SnapshotAlone
<1>1. SimpointInv => SnapshotAlone
  BY DEF SimpointInv, BarrierInv
<1> QED
  BY <1>1, SimpointInvariance, PTL

\* Racing removals may lose a head, never skip a location, with vCPUs taken offline
\* or not: with the exit flag up every location's node has been removed.
THEOREM ExitIsServed == SimpointSpec => []ExitMeansServed
<1>1. SimpointInit => ListInv
  BY InitList DEF SimpointInit
<1>2. ListInv => ExitMeansServed
  BY DEF ListInv
<1> QED
  BY <1>1, <1>2, ListStep, PTL DEF SimpointSpec

\* In simpoint mode too, if everyone is in the barrier somebody moves; a vCPU that
\* hangs there waits for one that has passed by.
THEOREM SimpointSomeoneMoves ==
  ASSUME MaxOfflining = 0
  PROVE  SimpointSpec => []NotAllWait
<1>1. SimpointInv => NotAllWait
  BY NotAllBlocked DEF SimpointInv
<1> QED
  BY <1>1, SimpointInvariance, PTL

\* The barrier of simpoint mode implements the same abstract barrier.
THEOREM SimpointRefinement ==
  ASSUME MaxOfflining = 0
  PROVE  SimpointSpec => ImplementsBarrier
<1>1. SimpointInit => Barrier!Init
  <2> SUFFICES ASSUME SimpointInit PROVE Gathered = {} /\ ~ Snapped
    BY DEF Barrier!Init, Snapped
  <2>1. \A c \in Cpus : pc[c] = "run"
    BY DEF SimpointInit, Init
  <2> QED
    BY <2>1 DEF Gathered, Held, Snapped
<1>2. SimpointInv /\ [SimpointNext]_simpointVars => [Barrier!Next]_(Barrier!barrierVars)
  <2> SUFFICES ASSUME BarrierInv, [SimpointNext]_simpointVars
               PROVE  Barrier!Next \/ UNCHANGED <<Gathered, Snapped>>
    BY DEF SimpointInv, Barrier!barrierVars, Snapped
  <2>1. ASSUME UNCHANGED vars PROVE UNCHANGED <<Gathered, Snapped>>
    BY <2>1 DEF vars, Gathered, Held, Snapped
  <2>2. CASE UNCHANGED simpointVars
    BY <2>1, <2>2 DEF simpointVars
  <2>3. ASSUME NEW c \in Cpus, SimpointThread(c) \/ SimpointEnvironment(c)
        PROVE  Barrier!Next \/ UNCHANGED <<Gathered, Snapped>>
    <3>1. CASE Thread(c) \/ Environment(c)
      BY <3>1, RefinementStep
    <3>2. CASE SimpointOutside(c)
      <4>1. Gathered' = Gathered
        BY <3>2, SimpointOutsideStep
      <4>2. PICK from \in Outside, to \in Outside : Goto(c, from, to)
        BY <3>2, SimpointOutsideStep
      <4>3. Outside \subseteq Pcs /\ {"limit", "reset"} \cap Outside = {}
        BY DEF Pcs, Outside
      <4>4. Snapped' <=> Snapped
        BY <4>2, <4>3, SnappedStable
      <4> QED
        BY <4>1, <4>4 DEF Snapped
    <3>3. CASE PopStep(c)
      BY <2>1, <3>3, PopKeepsVars
    <3> QED
      BY <2>3, <3>1, <3>2, <3>3, SimpointCases, NoHotplug
  <2> QED
    BY <2>2, <2>3 DEF SimpointNext
<1> QED
  BY <1>1, <1>2, SimpointInvariance, PTL DEF SimpointSpec, ImplementsBarrier, Barrier!Spec

-----------------------------------------------------------------------------
(* Simpoint mode: what goes wrong, goes wrong in two vCPUs at once             *)

\* A vCPU is between g_list_length(...) and the test for the last checkpoint.
Removing(c) == pc[c] = "load" /\ at[c] # "length"

\* No vCPU looks at a list while another is removing heads, as if there was a lock.
NoOverlap ==
  \A c \in Cpus : SimpointThread(c) /\ Reads(c) # {} =>
    \A d \in Cpus \ {c} : ~ Removing(d)

\* The head pointer of a list names the node after the last one freed.
Settled(l) == head[l] = freed[l] + 1

\* How far a vCPU is that has the lists to itself.
RemovalRight(c) ==
  LET rightly(place, l) == at[c] = place /\ list[c] = l
  IN  /\ Removing(c)
      /\ \/ /\ rightly("first", "cpt") \/ rightly("remove", "cpt")
            /\ freed["cpt"] = freed["path"]
            /\ Settled("cpt") /\ Settled("path")
            /\ head["cpt"] # NULL
            /\ at[c] = "remove" => node[c] = head["cpt"]
         \/ /\ rightly("store", "cpt")
            /\ freed["cpt"] = freed["path"] + 1
            /\ rest[c] = freed["cpt"] + 1 /\ Settled("path")
         \/ /\ rightly("first", "path") \/ rightly("remove", "path")
            /\ freed["cpt"] = freed["path"] + 1
            /\ Settled("cpt") /\ Settled("path")
            /\ at[c] = "remove" => node[c] = head["path"]
         \/ /\ rightly("store", "path")
            /\ freed["cpt"] = freed["path"]
            /\ rest[c] = freed["path"] + 1 /\ Settled("cpt")
         \/ /\ at[c] = "done"
            /\ freed["cpt"] = freed["path"]
            /\ Settled("cpt") /\ Settled("path")

\* Nobody is removing, or one vCPU is and has the lists to itself.
InTurn ==
  /\ pc \in [Cpus -> Pcs]
  /\ \A c \in Cpus : pc[c] # "load" => at[c] = "length"
  /\ \A c \in Cpus : Removing(c) => RemovalRight(c)
  /\ \A c \in Cpus : \A d \in Cpus \ {c} : ~ (Removing(c) /\ Removing(d))
  /\ (\A c \in Cpus : ~ Removing(c)) =>
       freed["cpt"] = freed["path"] /\ Settled("cpt") /\ Settled("path")
  /\ ~ undefined

LEMMA TurnInit == SimpointInit => InTurn
<1> SUFFICES ASSUME SimpointInit PROVE InTurn
  OBVIOUS
<1>1. pc \in [Cpus -> Pcs] /\ \A c \in Cpus : pc[c] = "run" /\ at[c] = "length"
  BY DEF SimpointInit, Init, Pcs
<1>2. \A c \in Cpus : ~ Removing(c)
  BY <1>1 DEF Removing
<1>3. /\ freed["cpt"] = 0 /\ freed["path"] = 0
      /\ head["cpt"] = 1 /\ head["path"] = 1 /\ ~ undefined
  BY DEF SimpointInit, Lists
<1> QED
  BY <1>1, <1>2, <1>3 DEF InTurn, Settled

\* A step that leaves the lists alone and after which the same vCPUs are removing.
LEMMA TurnKept ==
  ASSUME InTurn, pc' \in [Cpus -> Pcs],
         UNCHANGED <<head, freed, at, list, node, rest, undefined>>,
         \A c \in Cpus : pc'[c] = pc[c] \/ at[c] = "length"
  PROVE  InTurn'
<1>1. \A c \in Cpus : Removing(c)' <=> Removing(c)
  BY DEF InTurn, Removing
<1>2. \A c \in Cpus : RemovalRight(c) /\ Removing(c)' => RemovalRight(c)'
  BY DEF RemovalRight, Settled
<1>3. \A c \in Cpus : pc'[c] # "load" => at'[c] = "length"
  BY DEF InTurn
<1>4. Settled("cpt")' = Settled("cpt") /\ Settled("path")' = Settled("path")
  BY DEF Settled
<1> QED
  BY <1>1, <1>2, <1>3, <1>4, Zenon DEF InTurn

\* The steps of a vCPU that is not removing, or not at a list.
LEMMA TurnElsewhere ==
  ASSUME InTurn, NEW c \in Cpus,
         \/ SimpointTrigger(c) \/ SimpointNotReached(c) \/ SimpointJoin(c) \/ SimpointSkip(c)
         \/ ChoosePath(c) \/ NoListStep(c) \/ SimpointEnvironment(c)
  PROVE  InTurn'
<1>1. UNCHANGED <<head, freed, at, list, node, rest, undefined>>
  BY DEF SimpointTrigger, SimpointNotReached, SimpointJoin, SimpointSkip, ChoosePath,
         NoListStep, SimpointEnvironment, listVars, popVars
<1>2. pc' = pc \/ \E from \in Pcs \ {"load"}, to \in Pcs : Goto(c, from, to)
  <2>1. CASE SimpointTrigger(c) \/ SimpointNotReached(c) \/ SimpointJoin(c)
             \/ SimpointSkip(c) \/ ChoosePath(c)
    BY <2>1 DEF SimpointTrigger, SimpointNotReached, SimpointJoin, SimpointSkip, ChoosePath,
                ChooseFile, Pcs, LeaderPcs, Goto
  <2>2. CASE NoListStep(c)
    BY <2>2 DEF NoListStep, RunTB, Block, Arrive, BecomeWaiter, RaiseWaiting, Released,
                ClearWaiting, BecomeLeader, Scan, ScanDone, WriteFile, UpdateSyncLimit, ResetWaitId,
                Signal, SignalDone, Pcs, LeaderPcs, Goto
  <2>3. CASE SimpointEnvironment(c)
    BY <2>3 DEF SimpointEnvironment, Environment, Hotplug, Halt, Wake, Block, CpuOffline, CpuOnline,
                Pcs, LeaderPcs, Goto
  <2> QED
    BY <2>1, <2>2, <2>3
<1>3. pc \in [Cpus -> Pcs]
  BY DEF InTurn
<1>4. /\ pc' \in [Cpus -> Pcs]
      /\ \A d \in Cpus : pc'[d] = pc[d] \/ pc[d] # "load"
  BY <1>2, <1>3 DEF Goto
<1>5. \A d \in Cpus : pc'[d] = pc[d] \/ at[d] = "length"
  BY <1>4 DEF InTurn
<1> QED
  BY <1>1, <1>4, <1>5, TurnKept

\* A step of the one vCPU that is at the lists.
LEMMA TurnAlone ==
  ASSUME InTurn, NEW c \in Cpus,
         \A d \in Cpus \ {c} : ~ Removing(d),
         pc' \in [Cpus -> Pcs], \A d \in Cpus \ {c} : pc'[d] = pc[d] /\ at'[d] = at[d],
         pc'[c] # "load" => at'[c] = "length",
         Removing(c)' => RemovalRight(c)',
         ~ Removing(c)' => (freed["cpt"] = freed["path"] /\ Settled("cpt") /\ Settled("path"))',
         undefined' = undefined
  PROVE  InTurn'
<1>1. \A d \in Cpus \ {c} : ~ Removing(d)'
  BY DEF Removing
<1>2. \A d \in Cpus : pc'[d] # "load" => at'[d] = "length"
  BY DEF InTurn
<1>3. ~ undefined'
  BY DEF InTurn
<1> QED
  BY <1>1, <1>2, <1>3 DEF InTurn

\* Whoever looks at a list alone finds it settled.
LEMMA ListsAre ==
  ASSUME ListInv
  PROVE  /\ head["cpt"] \in 1 .. NULL /\ head["path"] \in 1 .. NULL
         /\ freed["cpt"] \in 0 .. SimpointCount /\ freed["path"] \in 0 .. SimpointCount
         /\ NULL = SimpointCount + 1 /\ SimpointCount \in Nat
BY CountIsPositive DEF ListInv, Lists, NULL

LEMMA TurnUses ==
  ASSUME InTurn, ListInv, NEW c \in Cpus, \A d \in Cpus \ {c} : ~ Removing(d)
  PROVE  /\ \A l \in Reads(c) : ~ Dangling(l)
         /\ Popping(c, "remove") => node[c] > freed[list[c]]
         /\ Popping(c, "first") => head[list[c]] # NULL
<1>1. ASSUME NEW l \in Lists, Settled(l) PROVE ~ Dangling(l)
  <2>1. freed[l] \in 0 .. SimpointCount /\ SimpointCount \in Nat
    BY ListsAre DEF Lists
  <2> QED
    BY <1>1, <2>1 DEF Settled, Dangling
<1>2. CASE ~ Removing(c)
  <2>1. Settled("cpt") /\ Settled("path")
    BY <1>2 DEF InTurn
  <2>2. \A l \in Reads(c) : l \in Lists /\ Settled(l)
    BY <2>1 DEF Reads, Lists
  <2>3. ~ Popping(c, "remove") /\ ~ Popping(c, "first")
    BY <1>2 DEF Popping, Removing
  <2> QED
    BY <1>1, <2>2, <2>3
<1>3. CASE Removing(c)
  <2>1. RemovalRight(c) /\ pc[c] = "load" /\ at[c] # "length"
    BY <1>3 DEF InTurn, Removing
  <2>2. \A l \in Reads(c) : l \in Lists /\ Settled(l)
    BY <2>1 DEF RemovalRight, Reads, Lists, Popping
  <2>3. Popping(c, "remove") => node[c] > freed[list[c]]
    BY <2>1, ListsAre DEF RemovalRight, Popping, Settled
  <2>4. Popping(c, "first") => head[list[c]] # NULL
    BY <2>1, ListsAre DEF RemovalRight, Popping, Settled
  <2> QED
    BY <1>1, <2>2, <2>3, <2>4
<1> QED
  BY <1>2, <1>3

\* A vCPU that removes a head, or sets out to or has done so.
LEMMA TurnRemoves ==
  ASSUME InTurn, ListInv, NEW c \in Cpus,
         CountLeft(c) \/ TakeFirst(c) \/ Remove(c) \/ StoreHead(c) \/ CheckDone(c),
         \A d \in Cpus \ {c} : ~ Removing(d)
  PROVE  InTurn'
<1>1. pc[c] = "load" /\ pc \in [Cpus -> Pcs]
  BY DEF InTurn, CountLeft, TakeFirst, Remove, StoreHead, CheckDone, Popping, Goto
<1>2. /\ at \in [Cpus -> {"length", "first", "remove", "store", "done"}]
      /\ list \in [Cpus -> Lists]
      /\ node \in [Cpus -> 1 .. NULL] /\ rest \in [Cpus -> 1 .. NULL]
      /\ head \in [Lists -> 1 .. NULL] /\ freed \in [Lists -> 0 .. SimpointCount]
  BY DEF ListInv
<1>3. "cpt" \in Lists /\ "path" \in Lists
  BY DEF Lists
<1>4. ~ Removing(c) => freed["cpt"] = freed["path"] /\ Settled("cpt") /\ Settled("path")
  BY DEF InTurn
<1>5. Removing(c) => RemovalRight(c)
  BY DEF InTurn
<1>6. CASE CountLeft(c)
  <2>1. /\ pc' = pc /\ at'[c] = (IF head["cpt"] = NULL THEN "done" ELSE "first")
        /\ list'[c] = "cpt" /\ UNCHANGED <<head, freed, undefined>>
        /\ \A d \in Cpus \ {c} : at'[d] = at[d]
    BY <1>2, <1>6 DEF CountLeft, vars
  <2>2. ~ Removing(c)
    BY <1>6 DEF CountLeft, Popping, Removing
  <2>3. RemovalRight(c)'
    BY <1>1, <1>4, <2>1, <2>2 DEF RemovalRight, Removing, Settled
  <2> QED
    BY <1>1, <2>1, <2>3, TurnAlone DEF RemovalRight
<1>7. CASE TakeFirst(c)
  <2>1. /\ pc' = pc /\ at'[c] = "remove" /\ node'[c] = head[list[c]]
        /\ list' = list /\ UNCHANGED <<head, freed, undefined>>
        /\ \A d \in Cpus \ {c} : at'[d] = at[d]
    BY <1>2, <1>7 DEF TakeFirst, vars
  <2>2. Removing(c) /\ at[c] = "first"
    BY <1>7 DEF TakeFirst, Popping, Removing
  <2>3. RemovalRight(c)'
    BY <1>1, <1>5, <2>1, <2>2 DEF RemovalRight, Removing, Settled
  <2> QED
    BY <1>1, <2>1, <2>3, TurnAlone DEF RemovalRight
<1>8. CASE Remove(c)
  <2>1. Removing(c) /\ at[c] = "remove"
    BY <1>8 DEF Remove, Popping, Removing
  <2>2. /\ pc' = pc /\ at'[c] = "store" /\ list' = list /\ UNCHANGED <<head, undefined>>
        /\ \A d \in Cpus \ {c} : at'[d] = at[d]
    BY <1>2, <1>8 DEF Remove, vars
  <2>3. node[c] = head[list[c]]
    BY <1>5, <2>1 DEF RemovalRight
  <2>4. freed' = [freed EXCEPT ![list[c]] = node[c]] /\ rest'[c] = node[c] + 1
    BY <1>2, <1>8, <2>3 DEF Remove
  <2>5. CASE list[c] = "cpt"
    <3>1. /\ freed["cpt"] = freed["path"] /\ Settled("cpt") /\ Settled("path")
      BY <1>5, <2>1, <2>5 DEF RemovalRight
    <3>2. freed'["cpt"] = head["cpt"] /\ freed'["path"] = freed["path"]
      BY <1>2, <1>3, <2>3, <2>4, <2>5
    <3>3. RemovalRight(c)'
      BY <1>1, <2>2, <2>3, <2>4, <2>5, <3>1, <3>2 DEF RemovalRight, Removing, Settled
    <3> QED
      BY <1>1, <2>2, <3>3, TurnAlone DEF RemovalRight
  <2>6. CASE list[c] = "path"
    <3>1. /\ freed["cpt"] = freed["path"] + 1 /\ Settled("cpt") /\ Settled("path")
      BY <1>5, <2>1, <2>6 DEF RemovalRight
    <3>2. freed'["path"] = head["path"] /\ freed'["cpt"] = freed["cpt"]
      BY <1>2, <1>3, <2>3, <2>4, <2>6
    <3>3. RemovalRight(c)'
      BY <1>1, <2>2, <2>3, <2>4, <2>6, <3>1, <3>2 DEF RemovalRight, Removing, Settled
    <3> QED
      BY <1>1, <2>2, <3>3, TurnAlone DEF RemovalRight
  <2> QED
    BY <1>2, <2>5, <2>6 DEF Lists
<1>9. CASE StoreHead(c)
  <2>1. Removing(c) /\ at[c] = "store"
    BY <1>9 DEF StoreHead, Popping, Removing
  <2>2. /\ pc' = pc /\ UNCHANGED <<freed, undefined>> /\ list'[c] = "path"
        /\ at'[c] = (IF list[c] = "cpt" THEN "first" ELSE "done")
        /\ head' = [head EXCEPT ![list[c]] = rest[c]]
        /\ \A d \in Cpus \ {c} : at'[d] = at[d]
    BY <1>2, <1>9 DEF StoreHead, vars
  <2>3. CASE list[c] = "cpt"
    <3>1. /\ freed["cpt"] = freed["path"] + 1
          /\ rest[c] = freed["cpt"] + 1 /\ Settled("path")
      BY <1>5, <2>1, <2>3 DEF RemovalRight
    <3>2. head'["cpt"] = rest[c] /\ head'["path"] = head["path"]
      BY <1>2, <1>3, <2>2, <2>3
    <3>3. RemovalRight(c)'
      BY <1>1, <2>2, <2>3, <3>1, <3>2 DEF RemovalRight, Removing, Settled
    <3> QED
      BY <1>1, <2>2, <3>3, TurnAlone DEF RemovalRight
  <2>4. CASE list[c] = "path"
    <3>1. /\ freed["cpt"] = freed["path"]
          /\ rest[c] = freed["path"] + 1 /\ Settled("cpt")
      BY <1>5, <2>1, <2>4 DEF RemovalRight
    <3>2. head'["path"] = rest[c] /\ head'["cpt"] = head["cpt"]
      BY <1>2, <1>3, <2>2, <2>4
    <3>3. RemovalRight(c)'
      BY <1>1, <2>2, <2>4, <3>1, <3>2 DEF RemovalRight, Removing, Settled
    <3> QED
      BY <1>1, <2>2, <3>3, TurnAlone DEF RemovalRight
  <2> QED
    BY <1>2, <2>3, <2>4 DEF Lists
<1>10. CASE CheckDone(c)
  <2>1. /\ pc' = [pc EXCEPT ![c] = "run"] /\ at'[c] = "length"
        /\ UNCHANGED <<head, freed, undefined>>
        /\ \A d \in Cpus \ {c} : at'[d] = at[d]
    BY <1>2, <1>10 DEF CheckDone, Goto
  <2>2. Removing(c) /\ at[c] = "done"
    BY <1>1, <1>10 DEF CheckDone, Removing
  <2>3. freed["cpt"] = freed["path"] /\ Settled("cpt") /\ Settled("path")
    BY <1>5, <2>2 DEF RemovalRight
  <2>4. pc' \in [Cpus -> Pcs] /\ ~ Removing(c)' /\ \A d \in Cpus \ {c} : pc'[d] = pc[d]
    BY <1>1, <2>1 DEF Removing, Pcs
  <2>5. (freed["cpt"] = freed["path"] /\ Settled("cpt") /\ Settled("path"))'
    BY <2>1, <2>3 DEF Settled
  <2> QED
    BY <2>1, <2>4, <2>5, TurnAlone
<1> QED
  BY <1>6, <1>7, <1>8, <1>9, <1>10

LEMMA TurnStep == InTurn /\ ListInv /\ [SimpointNext /\ NoOverlap]_simpointVars => InTurn'
<1> SUFFICES ASSUME InTurn, ListInv, [SimpointNext /\ NoOverlap]_simpointVars PROVE InTurn'
  OBVIOUS
<1>1. CASE UNCHANGED simpointVars
  <2>1. UNCHANGED <<pc, head, freed, at, list, node, rest, undefined>>
    BY <1>1 DEF simpointVars, vars, listVars, popVars
  <2> QED
    BY <2>1, TurnKept DEF InTurn
<1>2. ASSUME NEW c \in Cpus, SimpointEnvironment(c) PROVE InTurn'
  BY <1>2, TurnElsewhere
<1>3. ASSUME NEW c \in Cpus, SimpointThread(c), NoOverlap PROVE InTurn'
  <2>1. Reads(c) # {} => \A d \in Cpus \ {c} : ~ Removing(d)
    BY <1>3 DEF NoOverlap
  <2>2. Removing(c) => \A d \in Cpus \ {c} : ~ Removing(d)
    BY DEF InTurn
  <2>3. ~ Misuse(c)
    <3> SUFFICES ASSUME Misuse(c) PROVE FALSE
      OBVIOUS
    <3>1. list[c] \in Lists
      BY DEF ListInv
    <3>2. Reads(c) # {}
      BY <3>1 DEF Misuse, Reads
    <3>3. node[c] \in 1 .. NULL /\ freed[list[c]] \in 0 .. SimpointCount
      BY <3>1 DEF ListInv
    <3> QED
      BY <2>1, <3>2, <3>3, TurnUses, CountIsPositive DEF Misuse, NULL
  <2>4. CASE CountLeft(c) \/ TakeFirst(c) \/ Remove(c) \/ StoreHead(c) \/ CheckDone(c)
    <3>1. CASE CountLeft(c)
      <4>1. "cpt" \in Reads(c)
        BY <3>1 DEF CountLeft, Reads, Lists
      <4> QED
        BY <2>1, <3>1, <4>1, TurnRemoves
    <3>2. CASE TakeFirst(c) \/ Remove(c) \/ StoreHead(c) \/ CheckDone(c)
      <4>1. Removing(c)
        BY <3>2 DEF TakeFirst, Remove, StoreHead, CheckDone, Popping, Removing, Goto
      <4> QED
        BY <2>2, <3>2, <4>1, TurnRemoves
    <3> QED
      BY <2>4, <3>1, <3>2
  <2> QED
    BY <1>3, <2>3, <2>4, TurnElsewhere DEF SimpointThread, Proceed
<1> QED
  BY <1>1, <1>2, <1>3 DEF SimpointNext

\* Every freed node that is used, and every NULL that is dereferenced, takes two
\* vCPUs at the lists at once: as long as none looks at a list while another is
\* between g_list_length and the test for the last checkpoint, behaviour stays
\* defined, and the lists start with the location and the path of one simpoint.
THEOREM MisuseTakesTwo ==
  SimpointSpec /\ [][NoOverlap]_simpointVars =>
    [](~ undefined /\ ((\A c \in Cpus : ~ Removing(c)) => head["cpt"] = head["path"]))
<1> DEFINE InStep == ~ undefined /\ ((\A c \in Cpus : ~ Removing(c)) => head["cpt"] = head["path"])
<1>1. InTurn => InStep
  BY DEF InTurn, Settled
<1>2. SimpointInit => InTurn /\ ListInv
  BY TurnInit, InitList
<1>3. InTurn /\ ListInv /\ [SimpointNext]_simpointVars /\ [NoOverlap]_simpointVars
        => InTurn' /\ ListInv'
  BY TurnStep, ListStep
<1> HIDE DEF InStep
<1>4. SimpointSpec /\ [][NoOverlap]_simpointVars => []InStep
  BY <1>1, <1>2, <1>3, PTL DEF SimpointSpec
<1> QED
  BY <1>4 DEF InStep

===============================================================================
