------------------------- MODULE CheckpointSync_proofs -------------------------
(* Proofs about CheckpointSync for every number of vCPUs and every interval:    *)
(* the barrier is safe, nobody passes by it, and it implements SyncBarrier.     *)
(* That one vCPU at most creates is proved with hotplug at any moment, too.     *)
EXTENDS CheckpointSync, FiniteSetTheorems, TLAPS

USE SyncAssumption DEF locals, limits, flags, onlining

\* Nobody has been unplugged, so the last one of N is the last one online.
AllOnline ==
  /\ offlined = 0
  /\ onlineCpus = N
  /\ \A c \in Cpus : online[c] = 1

\* A waiting flag is up from the moment its owner waits to the moment it clears
\* it, a checkpoint_end flag only while its owner waits.
FlagsRight ==
  /\ \A c \in Cpus : waiting[c] = 1 <=> pc[c] \in {"spin", "clear"}
  /\ NoStraySignal

\* The places of a leader that has not reset the counter yet.
Leading == {"scan", "bname", "bwrite", "limit", "reset"}

\* The places of a vCPU that has drawn its number and does not wait or lead yet.
Deciding == {"elect", "raise"}

\* The gathered vCPUs drew different numbers from the counter; the one with the
\* number N leads, the others wait or are about to.
Numbered ==
  /\ \A c \in Gathered :
       /\ tmpWaitId[c] \in 1 .. waitId
       /\ pc[c] \in {"raise", "spin"} => tmpWaitId[c] # N
       /\ pc[c] \in Leading => tmpWaitId[c] = N
  /\ \A c, d \in Gathered : tmpWaitId[c] = tmpWaitId[d] => c = d

OneLeader ==
  \A c, d \in Cpus : pc[c] \in LeaderPcs /\ pc[d] \in LeaderPcs => c = d

\* Those a scanning leader has passed wait; those a signalling leader has still
\* to reach wait.
LoopsRight ==
  /\ \A c, d \in Cpus : pc[c] = "scan" /\ c # d /\ d < idx[c] => Held(d)
  /\ \A c, d \in Cpus : pc[c] = "signal" /\ c # d /\ d >= idx[c] => Held(d)

BarrierInv ==
  /\ TypeOK
  /\ AllOnline
  /\ FlagsRight
  /\ CounterExact
  /\ Numbered
  /\ OneLeader
  /\ LoopsRight
  /\ SnapshotAlone

\* The places of a vCPU that has moved the point since the last barrier and has
\* not been let through the next one.
Fresh == {"run", "halted", "hook", "sync", "arrive", "elect", "raise",
          "scan", "bname", "bwrite", "limit"}

\* The next point may lag behind the sync limit by one interval, until the first
\* vCPU out of the barrier stores it, and late stores never take it further back.
PointKeepsUp ==
  SyncInterval <= CptInterval =>
    /\ nextUniformPoint + CptInterval >= uniformSyncLimit
    /\ \A c \in Cpus : pc[c] = "store" => point[c] + CptInterval >= uniformSyncLimit
    /\ \A c \in Cpus : pc[c] \in Fresh => nextUniformPoint >= uniformSyncLimit
    /\ \A c \in Cpus : pc[c] = "sync" => ic[c] >= uniformSyncLimit

IInv == BarrierInv /\ PointKeepsUp

-----------------------------------------------------------------------------

LEMMA CpusFinite == IsFiniteSet(Cpus) /\ Cardinality(Cpus) = N
<1>1. 0 \in Int /\ N - 1 \in Int /\ ~ (0 > N - 1) /\ (N - 1) - 0 + 1 = N
  OBVIOUS
<1> QED
  BY <1>1, FS_Interval DEF Cpus

\* The counter cannot exceed the number of vCPUs, and reaches it with everyone
\* gathered.
LEMMA Counting ==
  ASSUME CounterExact
  PROVE  /\ Gathered \in SUBSET Cpus
         /\ IsFiniteSet(Gathered)
         /\ waitId \in 0 .. N
         /\ waitId = N => Gathered = Cpus
<1>1. Gathered \in SUBSET Cpus
  BY DEF Gathered
<1>2. /\ IsFiniteSet(Gathered)
      /\ Cardinality(Gathered) <= N
      /\ N = Cardinality(Gathered) => Cpus = Gathered
  BY <1>1, CpusFinite, FS_Subset
<1>3. Cardinality(Gathered) \in Nat
  BY <1>2, FS_CardinalityType
<1> QED
  BY <1>1, <1>2, <1>3 DEF CounterExact

\* Whoever has drawn N has seen everyone gather, so nobody else leads and nobody
\* is still letting the others go.
LEMMA LastOneIn ==
  ASSUME BarrierInv, NEW c \in Gathered, tmpWaitId[c] = N
  PROVE  /\ Gathered = Cpus
         /\ \A d \in Cpus \ {c} : pc[d] \in Deciding \/ Held(d)
<1>1. Gathered = Cpus
  <2>1. waitId \in 0 .. N /\ (waitId = N => Gathered = Cpus)
    BY Counting DEF BarrierInv
  <2>2. N <= waitId
    BY DEF BarrierInv, Numbered
  <2> QED
    BY <2>1, <2>2
<1>2. ASSUME NEW d \in Cpus \ {c} PROVE pc[d] \in Deciding \/ Held(d)
  <2>1. d \in Gathered /\ tmpWaitId[d] # N
    BY <1>1 DEF BarrierInv, Numbered
  <2>2. pc[d] \notin Leading
    BY <2>1 DEF BarrierInv, Numbered
  <2> QED
    BY <2>1, <2>2 DEF Gathered, Leading, Deciding
<1> QED
  BY <1>1, <1>2

\* While a vCPU leads, every other one is gathered, and none of them leads.
LEMMA Leader ==
  ASSUME BarrierInv, NEW c \in Cpus, pc[c] \in Leading
  PROVE  /\ c \in Gathered
         /\ Gathered = Cpus
         /\ \A d \in Cpus \ {c} : pc[d] \in Deciding \/ Held(d)
<1>1. c \in Gathered
  BY DEF Gathered, Leading
<1>2. tmpWaitId[c] = N
  BY <1>1 DEF BarrierInv, Numbered
<1> QED
  BY <1>1, <1>2, LastOneIn

LEMMA InitBarrier == Init => BarrierInv
<1> SUFFICES ASSUME Init PROVE BarrierInv
  OBVIOUS
<1> USE DEF Init
<1>1. \A c \in Cpus : pc[c] = "run" /\ waiting[c] = 0 /\ checkpointEnd[c] = 0
  OBVIOUS
<1>2. Gathered = {}
  BY <1>1 DEF Gathered, Held
<1>3. CounterExact
  BY <1>2, FS_EmptySet DEF CounterExact
<1>4. TypeOK
  <2>1. 0 \in 0 .. N /\ 0 \in 0 .. MaxOfflining /\ "run" \in Pcs
    BY DEF Pcs
  <2> QED
    BY <2>1 DEF TypeOK
<1>5. AllOnline
  BY DEF AllOnline
<1>6. FlagsRight /\ Numbered
  BY <1>1, <1>2 DEF FlagsRight, NoStraySignal, Numbered
<1>7. OneLeader /\ LoopsRight /\ SnapshotAlone
  BY <1>1 DEF OneLeader, LeaderPcs, LoopsRight, SnapshotAlone, Closed
<1> QED
  BY <1>3, <1>4, <1>5, <1>6, <1>7 DEF BarrierInv

\* The places outside the barrier.
Outside == {"run", "halted", "hook", "sync", "arrive", "name", "write", "load", "store"}

\* A step between two places outside the barrier does not disturb it.
LEMMA OutsideStep ==
  ASSUME BarrierInv, TypeOK', NEW c \in Cpus, NEW to \in Outside, pc[c] \in Outside,
         pc' = [pc EXCEPT ![c] = to],
         UNCHANGED <<tmpWaitId, idx, waitId, waiting, checkpointEnd,
                     online, onlineCpus, offlined>>
  PROVE  BarrierInv' /\ Gathered' = Gathered
<1>1. /\ pc' \in [Cpus -> Pcs] /\ pc'[c] = to
      /\ \A d \in Cpus \ {c} : pc'[d] = pc[d]
  BY DEF BarrierInv, TypeOK
<1>2. \A d \in Cpus : Held(d)' <=> Held(d)
  BY <1>1 DEF Held, Outside
<1>3. \A d \in Cpus : /\ pc'[d] = "signal" <=> pc[d] = "signal"
                      /\ pc'[d] = "scan" <=> pc[d] = "scan"
                      /\ pc'[d] = "elect" <=> pc[d] = "elect"
                      /\ pc'[d] = "raise" <=> pc[d] = "raise"
                      /\ pc'[d] = "spin" <=> pc[d] = "spin"
                      /\ pc'[d] = "clear" <=> pc[d] = "clear"
                      /\ pc'[d] \in Leading <=> pc[d] \in Leading
                      /\ pc'[d] \in LeaderPcs <=> pc[d] \in LeaderPcs
                      /\ Closed(d)' <=> Closed(d)
  BY <1>1 DEF Outside, Leading, LeaderPcs, Closed
<1>4. Gathered' = Gathered
  BY <1>2, <1>3 DEF Gathered, Leading
<1>5. CounterExact'
  BY <1>4 DEF BarrierInv, CounterExact
<1>6. Numbered'
  <2>1. Numbered
    BY DEF BarrierInv
  <2> QED
    BY <1>3, <1>4, <2>1, Counting DEF Numbered, BarrierInv
<1>7. AllOnline' /\ FlagsRight'
  BY <1>3 DEF BarrierInv, AllOnline, FlagsRight, NoStraySignal
<1>8. OneLeader' /\ LoopsRight' /\ SnapshotAlone'
  BY <1>2, <1>3 DEF BarrierInv, OneLeader, LoopsRight, SnapshotAlone
<1> QED
  BY <1>4, <1>5, <1>6, <1>7, <1>8 DEF BarrierInv

\* A vCPU that takes a number joins those gathered: nobody can be leading, and a
\* leader that still signals has let it go already.
LEMMA ArriveStep ==
  ASSUME BarrierInv, NEW c \in Cpus, Arrive(c)
  PROVE  /\ BarrierInv'
         /\ c \notin Gathered
         /\ Gathered' = Gathered \cup {c}
<1> USE DEF Arrive, Goto
<1>1. /\ pc' \in [Cpus -> Pcs] /\ pc[c] = "arrive" /\ pc'[c] = "elect"
      /\ \A d \in Cpus \ {c} : pc'[d] = pc[d]
  BY DEF BarrierInv, TypeOK, Pcs
<1>2. /\ tmpWaitId'[c] = waitId + 1 /\ waitId' = waitId + 1
      /\ \A d \in Cpus \ {c} : tmpWaitId'[d] = tmpWaitId[d]
  BY DEF BarrierInv, TypeOK
<1>3. \A d \in Cpus : Held(d)' <=> Held(d)
  BY <1>1 DEF Held
<1>4. c \notin Gathered
  BY <1>1 DEF Gathered, Held
<1>5. \A d \in Cpus : pc[d] \notin Leading /\ pc'[d] \notin Leading
  <2>1. \A d \in Cpus : pc[d] \notin Leading
    BY <1>4, Leader
  <2> QED
    BY <1>1, <2>1 DEF Leading
<1>6. Gathered' = Gathered \cup {c}
  <2>1. \A d \in Cpus : pc'[d] = "signal" <=> pc[d] = "signal"
    BY <1>1
  <2>2. \A d \in Cpus : d \in Gathered' <=> d \in Gathered \/ d = c
    BY <1>1, <1>3, <1>5, <2>1 DEF Gathered, Leading
  <2>3. Gathered' \in SUBSET Cpus /\ Gathered \in SUBSET Cpus
    BY DEF Gathered
  <2> QED
    BY <2>2, <2>3
<1>7. waitId \in 0 .. N /\ IsFiniteSet(Gathered)
  BY Counting DEF BarrierInv
<1>8. CounterExact'
  <2>1. Cardinality(Gathered \cup {c}) = Cardinality(Gathered) + 1
    BY <1>4, <1>7, FS_AddElement
  <2> QED
    BY <1>2, <1>6, <2>1 DEF BarrierInv, CounterExact
<1>9. Numbered'
  <2>1. ASSUME NEW d \in Gathered
        PROVE  /\ d \in Cpus \ {c} /\ tmpWaitId[d] \in 1 .. waitId
               /\ pc'[d] = pc[d] /\ tmpWaitId'[d] = tmpWaitId[d]
               /\ pc[d] \in {"raise", "spin"} => tmpWaitId[d] # N
    BY <1>1, <1>2, <1>4 DEF BarrierInv, Numbered, Gathered
  <2>2. \A d, e \in Gathered : tmpWaitId[d] = tmpWaitId[e] => d = e
    BY DEF BarrierInv, Numbered
  <2>3. \A d \in Gathered' : /\ tmpWaitId'[d] \in 1 .. waitId'
                             /\ pc'[d] \in {"raise", "spin"} => tmpWaitId'[d] # N
                             /\ pc'[d] \notin Leading
    <3>1. Gathered' \in SUBSET Cpus
      BY DEF Gathered
    <3> QED
      BY <1>1, <1>2, <1>5, <1>6, <1>7, <2>1, <3>1
  <2>4. \A d, e \in Gathered' : tmpWaitId'[d] = tmpWaitId'[e] => d = e
    BY <1>2, <1>6, <1>7, <2>1, <2>2
  <2> QED
    BY <2>3, <2>4 DEF Numbered
<1>10. TypeOK' /\ AllOnline'
  BY <1>1, <1>7 DEF BarrierInv, TypeOK, AllOnline
<1>11. FlagsRight'
  BY <1>1 DEF BarrierInv, FlagsRight, NoStraySignal
<1>12. OneLeader' /\ LoopsRight' /\ SnapshotAlone'
  <2>1. \A d \in Cpus : /\ pc'[d] = "signal" <=> pc[d] = "signal"
                        /\ pc'[d] \in LeaderPcs <=> pc[d] \in LeaderPcs
                        /\ pc'[d] # "scan" /\ ~ Closed(d)'
    BY <1>1, <1>5 DEF LeaderPcs, Leading, Closed
  <2> QED
    BY <1>3, <2>1 DEF BarrierInv, OneLeader, LoopsRight, SnapshotAlone
<1> QED
  BY <1>4, <1>6, <1>8, <1>9, <1>10, <1>11, <1>12 DEF BarrierInv

\* A vCPU that has not drawn N will wait.
LEMMA BecomeWaiterStep ==
  ASSUME BarrierInv, NEW c \in Cpus, BecomeWaiter(c)
  PROVE  BarrierInv' /\ Gathered' = Gathered
<1> USE DEF BecomeWaiter, Goto
<1>1. /\ pc' \in [Cpus -> Pcs] /\ pc[c] = "elect" /\ pc'[c] = "raise"
      /\ \A d \in Cpus \ {c} : pc'[d] = pc[d]
  BY DEF BarrierInv, TypeOK, Pcs
<1>2. \A d \in Cpus : Held(d)' <=> Held(d)
  BY <1>1 DEF Held
<1>3. \A d \in Cpus : /\ pc'[d] = "signal" <=> pc[d] = "signal"
                      /\ pc'[d] = "scan" <=> pc[d] = "scan"
                      /\ pc'[d] = "spin" <=> pc[d] = "spin"
                      /\ pc'[d] \in Deciding <=> pc[d] \in Deciding
                      /\ pc'[d] \in Leading <=> pc[d] \in Leading
                      /\ pc'[d] \in LeaderPcs <=> pc[d] \in LeaderPcs
                      /\ Closed(d)' <=> Closed(d)
  BY <1>1 DEF Deciding, Leading, LeaderPcs, Closed
<1>4. Gathered' = Gathered
  BY <1>2, <1>3 DEF Gathered, Deciding, Leading
<1>5. CounterExact'
  BY <1>4 DEF BarrierInv, CounterExact
<1>6. Numbered'
  <2>1. Numbered /\ tmpWaitId[c] # N
    BY DEF BarrierInv, AllOnline
  <2> QED
    BY <1>1, <1>3, <1>4, <2>1 DEF Numbered, Gathered
<1>7. TypeOK' /\ AllOnline' /\ FlagsRight'
  BY <1>1 DEF BarrierInv, TypeOK, AllOnline, FlagsRight, NoStraySignal
<1>8. OneLeader' /\ LoopsRight' /\ SnapshotAlone'
  BY <1>2, <1>3 DEF BarrierInv, OneLeader, LoopsRight, SnapshotAlone
<1> QED
  BY <1>4, <1>5, <1>6, <1>7, <1>8 DEF BarrierInv

\* It raises its waiting flag, and can have no signal yet.
LEMMA RaiseWaitingStep ==
  ASSUME BarrierInv, NEW c \in Cpus, RaiseWaiting(c)
  PROVE  BarrierInv' /\ Gathered' = Gathered
<1> USE DEF RaiseWaiting, Goto
<1>1. /\ pc' \in [Cpus -> Pcs] /\ pc[c] = "raise" /\ pc'[c] = "spin"
      /\ \A d \in Cpus \ {c} : pc'[d] = pc[d]
      /\ waiting' \in [Cpus -> {0, 1}] /\ waiting'[c] = 1
      /\ \A d \in Cpus \ {c} : waiting'[d] = waiting[d]
  BY DEF BarrierInv, TypeOK, Pcs
<1>2. checkpointEnd[c] = 0 /\ checkpointEnd'[c] = 0
  BY <1>1 DEF BarrierInv, TypeOK, FlagsRight, NoStraySignal
<1>3. \A d \in Cpus : Held(d)' <=> Held(d) \/ d = c
  BY <1>1, <1>2 DEF Held
<1>4. \A d \in Cpus : /\ pc'[d] = "signal" <=> pc[d] = "signal"
                      /\ pc'[d] = "scan" <=> pc[d] = "scan"
                      /\ pc'[d] \in Leading <=> pc[d] \in Leading
                      /\ pc'[d] \in LeaderPcs <=> pc[d] \in LeaderPcs
                      /\ Closed(d)' <=> Closed(d)
  BY <1>1 DEF Leading, LeaderPcs, Closed
<1>5. \A d \in Cpus : pc[d] = "signal" => c < idx[d]
  <2> SUFFICES ASSUME NEW d \in Cpus, pc[d] = "signal", ~ (c < idx[d]) PROVE FALSE
    OBVIOUS
  <2>1. c >= idx[d]
    <3>1. c \in Int /\ idx[d] \in Int
      BY DEF BarrierInv, TypeOK, Cpus
    <3> QED
      BY <3>1
  <2>2. c # d
    BY <1>1
  <2> QED
    BY <1>1, <2>1, <2>2 DEF BarrierInv, LoopsRight, Held
<1>6. Gathered' = Gathered
  BY <1>1, <1>3, <1>4, <1>5 DEF Gathered, Leading
<1>7. CounterExact'
  BY <1>6 DEF BarrierInv, CounterExact
<1>8. Numbered'
  <2>1. Numbered /\ tmpWaitId[c] # N
    BY <1>1 DEF BarrierInv, Numbered, Gathered
  <2> QED
    BY <1>1, <1>4, <1>6, <2>1 DEF Numbered, Gathered
<1>9. TypeOK' /\ AllOnline' /\ FlagsRight'
  BY <1>1 DEF BarrierInv, TypeOK, AllOnline, FlagsRight, NoStraySignal
<1>10. OneLeader' /\ LoopsRight' /\ SnapshotAlone'
  BY <1>3, <1>4 DEF BarrierInv, OneLeader, LoopsRight, SnapshotAlone
<1> QED
  BY <1>6, <1>7, <1>8, <1>9, <1>10 DEF BarrierInv

\* The one that drew N becomes the only leader.
LEMMA BecomeLeaderStep ==
  ASSUME BarrierInv, NEW c \in Cpus, BecomeLeader(c)
  PROVE  BarrierInv' /\ Gathered' = Gathered
<1> USE DEF BecomeLeader, Goto
<1>1. /\ pc' \in [Cpus -> Pcs] /\ pc[c] = "elect" /\ pc'[c] = "scan"
      /\ \A d \in Cpus \ {c} : pc'[d] = pc[d]
      /\ idx' \in [Cpus -> 0 .. N] /\ idx'[c] = 0
      /\ \A d \in Cpus \ {c} : idx'[d] = idx[d]
  <2>1. 0 \in 0 .. N
    OBVIOUS
  <2>2. pc \in [Cpus -> Pcs] /\ idx \in [Cpus -> 0 .. N] /\ "scan" \in Pcs
    BY DEF BarrierInv, TypeOK, Pcs, LeaderPcs
  <2> QED
    BY <2>1, <2>2
<1>2. c \in Gathered /\ tmpWaitId[c] = N
  BY <1>1 DEF BarrierInv, AllOnline, Gathered
<1>3. \A d \in Cpus \ {c} : pc[d] \in Deciding \/ Held(d)
  BY <1>2, LastOneIn
<1>4. /\ \A d \in Cpus : Held(d)' <=> Held(d)
      /\ \A d \in Cpus : pc'[d] # "signal" /\ pc[d] # "signal"
      /\ \A d \in Cpus : pc'[d] \in LeaderPcs => d = c
      /\ \A d \in Cpus : ~ Closed(d)'
  BY <1>1, <1>3 DEF Held, LeaderPcs, Closed, Deciding
<1>5. Gathered' = Gathered
  BY <1>1, <1>4 DEF Gathered
<1>6. CounterExact'
  BY <1>5 DEF BarrierInv, CounterExact
<1>7. Numbered'
  <2>1. Numbered
    BY DEF BarrierInv
  <2> QED
    BY <1>1, <1>2, <1>5, <2>1 DEF Numbered, Gathered
<1>8. TypeOK' /\ AllOnline' /\ FlagsRight'
  BY <1>1 DEF BarrierInv, TypeOK, AllOnline, FlagsRight, NoStraySignal
<1>9. OneLeader' /\ LoopsRight' /\ SnapshotAlone'
  BY <1>1, <1>4 DEF OneLeader, LoopsRight, SnapshotAlone, LeaderPcs, Cpus
<1> QED
  BY <1>5, <1>6, <1>7, <1>8, <1>9 DEF BarrierInv

\* A signalled vCPU leaves its loop; it has not been gathered since the signal.
LEMMA ReleasedStep ==
  ASSUME BarrierInv, NEW c \in Cpus, Released(c)
  PROVE  BarrierInv' /\ Gathered' = Gathered
<1> USE DEF Released, Goto
<1>1. /\ pc' \in [Cpus -> Pcs] /\ pc[c] = "spin" /\ pc'[c] = "clear"
      /\ \A d \in Cpus \ {c} : pc'[d] = pc[d]
      /\ checkpointEnd' \in [Cpus -> {0, 1}] /\ checkpointEnd[c] # 0 /\ checkpointEnd'[c] = 0
      /\ \A d \in Cpus \ {c} : checkpointEnd'[d] = checkpointEnd[d]
  BY DEF BarrierInv, TypeOK, Pcs
<1>2. \A d \in Cpus : Held(d)' <=> Held(d)
  BY <1>1 DEF Held
<1>3. \A d \in Cpus : /\ pc'[d] = "signal" <=> pc[d] = "signal"
                      /\ pc'[d] = "scan" <=> pc[d] = "scan"
                      /\ pc'[d] = "elect" <=> pc[d] = "elect"
                      /\ pc'[d] = "raise" <=> pc[d] = "raise"
                      /\ pc'[d] \in Leading <=> pc[d] \in Leading
                      /\ pc'[d] \in LeaderPcs <=> pc[d] \in LeaderPcs
                      /\ Closed(d)' <=> Closed(d)
  BY <1>1 DEF Leading, LeaderPcs, Closed
<1>4. Gathered' = Gathered
  BY <1>2, <1>3 DEF Gathered, Leading
<1>5. CounterExact'
  BY <1>4 DEF BarrierInv, CounterExact
<1>6. Numbered'
  <2>1. Numbered
    BY DEF BarrierInv
  <2> QED
    BY <1>1, <1>3, <1>4, <2>1 DEF Numbered, Gathered
<1>7. TypeOK' /\ AllOnline' /\ FlagsRight'
  BY <1>1 DEF BarrierInv, TypeOK, AllOnline, FlagsRight, NoStraySignal
<1>8. OneLeader' /\ LoopsRight' /\ SnapshotAlone'
  BY <1>2, <1>3 DEF BarrierInv, OneLeader, LoopsRight, SnapshotAlone
<1> QED
  BY <1>4, <1>5, <1>6, <1>7, <1>8 DEF BarrierInv

\* ... and takes its waiting flag down.
LEMMA ClearWaitingStep ==
  ASSUME BarrierInv, NEW c \in Cpus, ClearWaiting(c)
  PROVE  BarrierInv' /\ Gathered' = Gathered
<1> USE DEF ClearWaiting, Goto
<1>1. /\ pc' \in [Cpus -> Pcs] /\ pc[c] = "clear" /\ pc'[c] = "name"
      /\ \A d \in Cpus \ {c} : pc'[d] = pc[d]
      /\ waiting' \in [Cpus -> {0, 1}] /\ waiting'[c] = 0
      /\ \A d \in Cpus \ {c} : waiting'[d] = waiting[d]
  BY DEF BarrierInv, TypeOK, Pcs
<1>2. \A d \in Cpus : Held(d)' <=> Held(d)
  BY <1>1 DEF Held
<1>3. \A d \in Cpus : /\ pc'[d] = "signal" <=> pc[d] = "signal"
                      /\ pc'[d] = "scan" <=> pc[d] = "scan"
                      /\ pc'[d] = "elect" <=> pc[d] = "elect"
                      /\ pc'[d] = "raise" <=> pc[d] = "raise"
                      /\ pc'[d] = "spin" <=> pc[d] = "spin"
                      /\ pc'[d] \in Leading <=> pc[d] \in Leading
                      /\ pc'[d] \in LeaderPcs <=> pc[d] \in LeaderPcs
                      /\ Closed(d)' <=> Closed(d)
  BY <1>1 DEF Leading, LeaderPcs, Closed
<1>4. Gathered' = Gathered
  BY <1>2, <1>3 DEF Gathered, Leading
<1>5. CounterExact'
  BY <1>4 DEF BarrierInv, CounterExact
<1>6. Numbered'
  <2>1. Numbered
    BY DEF BarrierInv
  <2> QED
    BY <1>3, <1>4, <2>1 DEF Numbered, Gathered
<1>7. TypeOK' /\ AllOnline' /\ FlagsRight'
  BY <1>1 DEF BarrierInv, TypeOK, AllOnline, FlagsRight, NoStraySignal
<1>8. OneLeader' /\ LoopsRight' /\ SnapshotAlone'
  BY <1>2, <1>3 DEF BarrierInv, OneLeader, LoopsRight, SnapshotAlone
<1> QED
  BY <1>4, <1>5, <1>6, <1>7, <1>8 DEF BarrierInv

\* The flag the scan finds up is that of a vCPU held in this very barrier: the
\* leader's number shows that all have gathered again since the last release.
LEMMA ScanStep ==
  ASSUME BarrierInv, NEW c \in Cpus, Scan(c)
  PROVE  BarrierInv' /\ Gathered' = Gathered
<1> USE DEF Scan
<1>1. /\ pc[c] = "scan" /\ idx' \in [Cpus -> 0 .. N] /\ idx'[c] = idx[c] + 1
      /\ idx[c] \in 0 .. N - 1
      /\ \A d \in Cpus \ {c} : idx'[d] = idx[d]
      /\ pc' = pc /\ checkpointEnd' = checkpointEnd
  <2>1. /\ idx \in [Cpus -> 0 .. N] /\ idx[c] \in 0 .. N - 1
    BY DEF BarrierInv, TypeOK
  <2>2. idx[c] + 1 \in 0 .. N
    BY <2>1
  <2> QED
    BY <2>1, <2>2
<1>2. \A d \in Cpus \ {c} : pc[d] \in Deciding \/ Held(d)
  BY <1>1, Leader DEF Leading
<1>3. \A d \in Cpus : (Held(d)' <=> Held(d)) /\ (Closed(d)' <=> Closed(d))
  BY <1>1 DEF Held, Closed
<1>4. \A d \in Cpus : pc[d] # "signal"
  BY <1>1, <1>2 DEF Held, Deciding
<1>5. Gathered' = Gathered
  BY <1>1, <1>3, <1>4 DEF Gathered
<1>6. CounterExact' /\ Numbered'
  BY <1>1, <1>5 DEF BarrierInv, CounterExact, Numbered
<1>7. TypeOK' /\ AllOnline' /\ FlagsRight'
  BY <1>1 DEF BarrierInv, TypeOK, AllOnline, FlagsRight, NoStraySignal
<1>8. LoopsRight'
  <2>1. ASSUME NEW d \in Cpus, d # c, d < idx[c] + 1 PROVE Held(d)
    <3>1. d < idx[c] \/ d = idx[c]
      BY <1>1, <2>1 DEF Cpus
    <3>2. CASE d < idx[c]
      BY <1>1, <2>1, <3>2 DEF BarrierInv, LoopsRight
    <3>3. CASE d = idx[c]
      <4>1. waiting[d] = 1
        BY <2>1, <3>3
      <4>2. pc[d] \in {"spin", "clear"}
        BY <4>1 DEF BarrierInv, FlagsRight
      <4> QED
        BY <1>2, <2>1, <4>2 DEF Deciding
    <3> QED
      BY <3>1, <3>2, <3>3
  <2>2. \A d \in Cpus \ {c} : pc[d] # "scan"
    BY <1>2 DEF Held, Deciding
  <2> QED
    BY <1>1, <1>3, <1>4, <2>1, <2>2 DEF LoopsRight
<1>9. OneLeader' /\ SnapshotAlone'
  BY <1>1, <1>3 DEF BarrierInv, OneLeader, SnapshotAlone
<1> QED
  BY <1>5, <1>6, <1>7, <1>8, <1>9 DEF BarrierInv

\* From one place of the leader to the next, when everyone else is held.
LEMMA LeadingStep ==
  ASSUME BarrierInv, TypeOK', NEW c \in Cpus, NEW to \in Leading,
         pc[c] \in Leading, to # "scan", pc' = [pc EXCEPT ![c] = to],
         \A d \in Cpus \ {c} : Held(d),
         UNCHANGED <<tmpWaitId, idx, waitId, waiting, checkpointEnd,
                     online, onlineCpus, offlined>>
  PROVE  BarrierInv' /\ Gathered' = Gathered
<1>1. /\ pc' \in [Cpus -> Pcs] /\ pc'[c] = to
      /\ \A d \in Cpus \ {c} : pc'[d] = pc[d] /\ pc[d] = "spin"
  BY DEF BarrierInv, TypeOK, Held
<1>2. \A d \in Cpus : Held(d)' <=> Held(d)
  BY <1>1 DEF Held, Leading
<1>3. \A d \in Cpus : /\ pc'[d] # "signal" /\ pc[d] # "signal" /\ pc'[d] # "scan"
                      /\ pc'[d] = "elect" <=> pc[d] = "elect"
                      /\ pc'[d] = "raise" <=> pc[d] = "raise"
                      /\ pc'[d] = "spin" <=> pc[d] = "spin"
                      /\ pc'[d] = "clear" <=> pc[d] = "clear"
                      /\ pc'[d] \in Leading <=> pc[d] \in Leading
                      /\ pc'[d] \in LeaderPcs <=> d = c
                      /\ Closed(d)' <=> d = c
  BY <1>1 DEF Leading, LeaderPcs, Closed
<1>4. Gathered' = Gathered
  BY <1>2, <1>3 DEF Gathered, Leading
<1>5. CounterExact'
  BY <1>4 DEF BarrierInv, CounterExact
<1>6. Numbered'
  <2>1. Numbered
    BY DEF BarrierInv
  <2> QED
    BY <1>3, <1>4, <2>1, Counting DEF Numbered, BarrierInv
<1>7. AllOnline' /\ FlagsRight'
  BY <1>3 DEF BarrierInv, AllOnline, FlagsRight, NoStraySignal
<1>8. OneLeader' /\ LoopsRight' /\ SnapshotAlone'
  BY <1>2, <1>3 DEF OneLeader, LoopsRight, SnapshotAlone
<1> QED
  BY <1>4, <1>5, <1>6, <1>7, <1>8 DEF BarrierInv

\* Resetting the counter lets everyone go at once, as far as the counter is
\* concerned.
LEMMA ResetWaitIdStep ==
  ASSUME BarrierInv, NEW c \in Cpus, ResetWaitId(c)
  PROVE  BarrierInv' /\ Gathered = Cpus /\ Gathered' = {}
<1> USE DEF ResetWaitId, Goto
<1>1. /\ pc' \in [Cpus -> Pcs] /\ pc[c] = "reset" /\ pc'[c] = "signal"
      /\ \A d \in Cpus \ {c} : pc'[d] = pc[d]
      /\ idx' \in [Cpus -> 0 .. N] /\ idx'[c] = 0
      /\ \A d \in Cpus \ {c} : idx'[d] = idx[d]
      /\ checkpointEnd' = checkpointEnd
  <2>1. 0 \in 0 .. N
    OBVIOUS
  <2>2. pc \in [Cpus -> Pcs] /\ idx \in [Cpus -> 0 .. N] /\ "signal" \in Pcs
    BY DEF BarrierInv, TypeOK, Pcs, LeaderPcs
  <2> QED
    BY <2>1, <2>2
<1>2. Gathered = Cpus
  BY <1>1, Leader DEF Leading
<1>3. \A d \in Cpus \ {c} : Held(d)
  BY <1>1 DEF BarrierInv, SnapshotAlone, Closed
<1>4. \A d \in Cpus \ {c} : pc'[d] = "spin" /\ pc[d] = "spin" /\ Held(d)'
  BY <1>1, <1>3 DEF Held
<1>5. Gathered' = {}
  <2>1. ASSUME NEW d \in Cpus, d \in Gathered' PROVE FALSE
    <3>1. pc'[d] \notin {"elect", "raise", "scan", "bname", "bwrite", "limit", "reset"}
      BY <1>1, <1>4
    <3>2. d < idx'[c]
      BY <1>1, <2>1, <3>1 DEF Gathered
    <3> QED
      BY <1>1, <3>2 DEF Cpus
  <2> QED
    BY <2>1 DEF Gathered
<1>6. CounterExact' /\ Numbered'
  BY <1>5, FS_EmptySet DEF CounterExact, Numbered
<1>7. TypeOK' /\ AllOnline' /\ FlagsRight'
  BY <1>1 DEF BarrierInv, TypeOK, AllOnline, FlagsRight, NoStraySignal
<1>8. OneLeader' /\ LoopsRight' /\ SnapshotAlone'
  BY <1>1, <1>4 DEF OneLeader, LeaderPcs, LoopsRight, SnapshotAlone, Closed
<1> QED
  BY <1>2, <1>5, <1>6, <1>7, <1>8 DEF BarrierInv

\* The signal goes to a vCPU that waits, and to no other.
LEMMA SignalStep ==
  ASSUME BarrierInv, NEW c \in Cpus, Signal(c)
  PROVE  BarrierInv' /\ Gathered' = Gathered
<1> USE DEF Signal
<1> DEFINE i == idx[c]
<1>1. /\ pc[c] = "signal" /\ idx' \in [Cpus -> 0 .. N] /\ idx'[c] = i + 1
      /\ i \in Cpus
      /\ \A d \in Cpus \ {c} : idx'[d] = idx[d]
      /\ pc' = pc /\ waiting' = waiting
  <2>1. /\ idx \in [Cpus -> 0 .. N] /\ i \in 0 .. N - 1
    BY DEF BarrierInv, TypeOK
  <2>2. i + 1 \in 0 .. N
    BY <2>1
  <2> QED
    BY <2>1, <2>2 DEF Cpus
<1>2. /\ checkpointEnd' \in [Cpus -> {0, 1}]
      /\ checkpointEnd'[i] = IF waiting[i] = 1 THEN 1 ELSE checkpointEnd[i]
      /\ \A d \in Cpus \ {i} : checkpointEnd'[d] = checkpointEnd[d]
  BY <1>1 DEF BarrierInv, TypeOK
<1> HIDE DEF i
<1>3. i # c => pc[i] = "spin"
  BY <1>1 DEF BarrierInv, LoopsRight, Held, i, Cpus
<1>4. i = c => checkpointEnd' = checkpointEnd
  <2>1. waiting[c] # 1
    BY <1>1 DEF BarrierInv, FlagsRight
  <2> QED
    BY <1>1, <1>2, <2>1 DEF i, BarrierInv, TypeOK
<1>5. waiting[i] = 1 => pc[i] = "spin"
  BY <1>1, <1>3 DEF BarrierInv, FlagsRight
<1>6. \A d \in Cpus : /\ d # i => (Held(d)' <=> Held(d))
                      /\ Held(d)' => Held(d)
  BY <1>1, <1>2 DEF Held, BarrierInv, TypeOK
<1>7. \A d \in Cpus : d = i => ~ Held(d)'
  <2> SUFFICES ASSUME NEW d \in Cpus, d = i PROVE ~ Held(d)'
    OBVIOUS
  <2>1. CASE d = c
    BY <1>1, <2>1 DEF Held
  <2>2. CASE d # c
    <3>1. waiting[d] = 1
      BY <1>3, <2>2 DEF BarrierInv, FlagsRight
    <3> QED
      BY <1>2, <3>1 DEF Held
  <2> QED
    BY <2>1, <2>2
<1>8. \A d \in Cpus : pc[d] = "signal" => d = c
  BY <1>1 DEF BarrierInv, OneLeader, LeaderPcs
<1>9. Gathered' = Gathered
  <2>1. ASSUME NEW d \in Cpus PROVE d \in Gathered' <=> d \in Gathered
    <3>1. CASE d = i
      <4>1. ~ (d < idx[c])
        BY <1>1, <3>1 DEF i, Cpus
      <4> QED
        BY <1>1, <1>7, <3>1, <4>1 DEF Gathered
    <3>2. CASE d # i
      <4>1. d < idx'[c] <=> d < idx[c]
        BY <1>1, <3>2 DEF i, Cpus
      <4> QED
        BY <1>1, <1>6, <1>8, <3>2, <4>1 DEF Gathered
    <3> QED
      BY <3>1, <3>2
  <2> QED
    BY <2>1 DEF Gathered
<1>10. CounterExact' /\ Numbered'
  BY <1>1, <1>9 DEF BarrierInv, CounterExact, Numbered
<1>11. TypeOK' /\ AllOnline'
  BY <1>1, <1>2 DEF BarrierInv, TypeOK, AllOnline
<1>12. FlagsRight'
  BY <1>1, <1>2, <1>5 DEF BarrierInv, FlagsRight, NoStraySignal
<1>13. LoopsRight'
  <2>1. ASSUME NEW d \in Cpus, d # c, d >= i + 1 PROVE Held(d)'
    <3>1. d >= i /\ d # i
      BY <1>1, <2>1 DEF Cpus
    <3>2. Held(d)
      BY <1>1, <2>1, <3>1 DEF BarrierInv, LoopsRight, i
    <3> QED
      BY <1>6, <3>1, <3>2
  <2>2. \A d \in Cpus : pc[d] # "scan"
    BY <1>1 DEF BarrierInv, OneLeader, LeaderPcs
  <2> QED
    BY <1>1, <1>8, <2>1, <2>2 DEF LoopsRight
<1>14. OneLeader' /\ SnapshotAlone'
  <2>1. \A d \in Cpus : ~ Closed(d)'
    BY <1>1 DEF BarrierInv, OneLeader, LeaderPcs, Closed
  <2> QED
    BY <1>1, <2>1 DEF BarrierInv, OneLeader, SnapshotAlone
<1> QED
  BY <1>9, <1>10, <1>11, <1>12, <1>13, <1>14 DEF BarrierInv

\* When the loop has visited everyone the leader leaves.
LEMMA SignalDoneStep ==
  ASSUME BarrierInv, NEW c \in Cpus, SignalDone(c)
  PROVE  BarrierInv' /\ Gathered' = Gathered
<1> USE DEF SignalDone, Goto
<1>1. /\ pc' \in [Cpus -> Pcs] /\ pc[c] = "signal" /\ pc'[c] = "name" /\ idx[c] = N
      /\ \A d \in Cpus \ {c} : pc'[d] = pc[d]
  BY DEF BarrierInv, TypeOK, Pcs
<1>2. \A d \in Cpus : Held(d)' <=> Held(d)
  BY <1>1 DEF Held
<1>3. \A d \in Cpus : pc'[d] # "signal" /\ d < idx[c]
  BY <1>1 DEF BarrierInv, OneLeader, LeaderPcs, Cpus
<1>4. \A d \in Cpus \ {c} : pc[d] \notin LeaderPcs /\ pc'[d] \notin LeaderPcs
  BY <1>1 DEF BarrierInv, OneLeader, LeaderPcs
<1>5. Gathered' = Gathered
  BY <1>1, <1>2, <1>3, <1>4 DEF Gathered, LeaderPcs
<1>6. CounterExact'
  BY <1>5 DEF BarrierInv, CounterExact
<1>7. Numbered'
  <2>1. Numbered
    BY DEF BarrierInv
  <2> QED
    BY <1>1, <1>5, <2>1 DEF Numbered, Gathered, Leading, Held
<1>8. TypeOK' /\ AllOnline' /\ FlagsRight'
  BY <1>1 DEF BarrierInv, TypeOK, AllOnline, FlagsRight, NoStraySignal
<1>9. OneLeader' /\ LoopsRight' /\ SnapshotAlone'
  BY <1>1, <1>3, <1>4 DEF OneLeader, LoopsRight, SnapshotAlone, Closed, LeaderPcs
<1> QED
  BY <1>5, <1>6, <1>7, <1>8, <1>9 DEF BarrierInv

\* The steps of a vCPU outside the barrier.
OutsideAction(c) ==
  \/ RunTB(c) \/ Halt(c) \/ Wake(c)
  \/ Trigger(c) \/ NotReached(c) \/ JoinOrSkip(c)
  \/ LoadPoint(c) \/ StorePoint(c)
  \/ pc[c] = "name" /\ ChooseFile(c)
  \/ pc[c] = "write" /\ WriteFile(c)

LEMMA OutsideActionStep ==
  ASSUME BarrierInv, NEW c \in Cpus, OutsideAction(c)
  PROVE  BarrierInv' /\ Gathered' = Gathered
<1>1. ASSUME NEW to \in Outside, pc[c] \in Outside, pc' = [pc EXCEPT ![c] = to],
             icount' \in Nat, ic' \in [Cpus -> Nat], point' \in [Cpus -> Nat],
             nextUniformPoint' \in Nat,
             UNCHANGED <<tmpWaitId, idx, uniformSyncLimit, waitId, flags, onlining>>
      PROVE  BarrierInv' /\ Gathered' = Gathered
  <2>1. to \in Pcs
    BY DEF Pcs, Outside
  <2>2. TypeOK'
    BY <1>1, <2>1 DEF BarrierInv, TypeOK
  <2> QED
    BY <1>1, <2>2, OutsideStep
<1>2. TypeOK
  BY DEF BarrierInv
<1>3. ASSUME NEW from \in {"run", "halted"}, Block(c, from)
      PROVE  BarrierInv' /\ Gathered' = Gathered
  <2>1. icount' \in Nat
    <3>1. PICK d \in 1 .. MaxTB :
            icount' = IF icount + d <= MaxIcount THEN icount + d ELSE MaxIcount
      BY <1>3 DEF Block
    <3> QED
      BY <1>2, <3>1 DEF TypeOK
  <2>2. ic' \in [Cpus -> Nat]
    BY <1>2, <1>3, <2>1 DEF Block, TypeOK
  <2>3. /\ pc[c] \in Outside /\ pc' = [pc EXCEPT ![c] = "hook"] /\ "hook" \in Outside
        /\ UNCHANGED <<tmpWaitId, idx, point, limits, waitId, flags, onlining>>
    BY <1>3 DEF Block, Goto, Outside
  <2> QED
    BY <1>1, <1>2, <2>1, <2>2, <2>3 DEF TypeOK
<1>4. CASE RunTB(c) \/ Wake(c)
  BY <1>3, <1>4 DEF RunTB, Wake
<1>5. CASE \/ Halt(c) \/ Trigger(c) \/ NotReached(c) \/ JoinOrSkip(c)
           \/ pc[c] = "name" /\ ChooseFile(c)
           \/ pc[c] = "write" /\ WriteFile(c)
  <2>1. PICK to \in Outside : pc[c] \in Outside /\ pc' = [pc EXCEPT ![c] = to]
    BY <1>5 DEF Halt, Trigger, NotReached, JoinOrSkip, ChooseFile,
                WriteFile, Goto, Outside
  <2>2. UNCHANGED <<icount, locals, limits, waitId, flags, onlining>>
    BY <1>5 DEF Halt, Trigger, NotReached, JoinOrSkip, ChooseFile, WriteFile
  <2> QED
    BY <1>1, <1>2, <2>1, <2>2 DEF TypeOK
<1>6. CASE LoadPoint(c)
  <2>1. point' \in [Cpus -> Nat]
    BY <1>2, <1>6 DEF LoadPoint, TypeOK
  <2>2. /\ pc[c] \in Outside /\ "store" \in Outside /\ pc' = [pc EXCEPT ![c] = "store"]
        /\ UNCHANGED <<icount, ic, tmpWaitId, idx, limits, waitId, flags, onlining>>
    BY <1>6 DEF LoadPoint, Goto, Outside
  <2> QED
    BY <1>1, <1>2, <2>1, <2>2 DEF TypeOK
<1>7. CASE StorePoint(c)
  <2>1. nextUniformPoint' \in Nat
    BY <1>2, <1>7 DEF StorePoint, TypeOK
  <2>2. /\ pc[c] \in Outside /\ "run" \in Outside /\ pc' = [pc EXCEPT ![c] = "run"]
        /\ UNCHANGED <<icount, locals, uniformSyncLimit, waitId, flags, onlining>>
    BY <1>7 DEF StorePoint, Goto, Outside
  <2> QED
    BY <1>1, <1>2, <2>1, <2>2 DEF TypeOK
<1> QED
  BY <1>4, <1>5, <1>6, <1>7 DEF OutsideAction

\* The steps of a leader between the scan and the reset of the counter.
LeadingAction(c) ==
  \/ ScanDone(c)
  \/ pc[c] = "bname" /\ ChooseFile(c)
  \/ pc[c] = "bwrite" /\ WriteFile(c)
  \/ UpdateSyncLimit(c)

LEMMA LeadingActionStep ==
  ASSUME BarrierInv, NEW c \in Cpus, LeadingAction(c)
  PROVE  /\ BarrierInv' /\ Gathered' = Gathered /\ Gathered = Cpus
         /\ \A d \in Cpus \ {c} : Held(d)
<1>1. PICK to \in Leading : /\ pc[c] \in Leading /\ to # "scan"
                            /\ pc' = [pc EXCEPT ![c] = to]
  BY DEF LeadingAction, ScanDone, ChooseFile, WriteFile, UpdateSyncLimit, Goto, Leading
<1>2. UNCHANGED <<icount, locals, nextUniformPoint, waitId, flags, onlining>>
  BY DEF LeadingAction, ScanDone, ChooseFile, WriteFile, UpdateSyncLimit
<1>3. uniformSyncLimit' \in Nat
  BY DEF BarrierInv, TypeOK, LeadingAction, ScanDone, ChooseFile, WriteFile, UpdateSyncLimit
<1>4. TypeOK'
  <2>1. to \in Pcs
    BY <1>1 DEF Leading, Pcs, LeaderPcs
  <2> QED
    BY <1>1, <1>2, <1>3, <2>1 DEF BarrierInv, TypeOK
<1>5. \A d \in Cpus \ {c} : Held(d)
  <2>1. CASE ScanDone(c)
    <3>1. pc[c] = "scan" /\ \A d \in Cpus : d < idx[c]
      BY <2>1 DEF ScanDone, Goto, Cpus
    <3> QED
      BY <3>1 DEF BarrierInv, LoopsRight
  <2>2. CASE Closed(c)
    BY <2>2 DEF BarrierInv, SnapshotAlone
  <2> QED
    BY <2>1, <2>2 DEF LeadingAction, UpdateSyncLimit, Goto, Closed
<1>6. Gathered = Cpus
  BY <1>1, Leader
<1> QED
  BY <1>1, <1>2, <1>4, <1>5, <1>6, LeadingStep

-----------------------------------------------------------------------------

\* Every step of vCPU c, sorted by what it does to the barrier.
LEMMA StepCases ==
  ASSUME BarrierInv, NEW c \in Cpus, Thread(c) \/ Environment(c)
  PROVE  \/ OutsideAction(c)
         \/ Arrive(c) \/ BecomeWaiter(c) \/ RaiseWaiting(c) \/ BecomeLeader(c)
         \/ Released(c) \/ ClearWaiting(c)
         \/ Scan(c) \/ LeadingAction(c) \/ ResetWaitId(c)
         \/ Signal(c) \/ SignalDone(c)
<1>1. CASE Create(c)
  BY <1>1 DEF Create, ChooseFile, WriteFile, Goto, OutsideAction, LeadingAction
<1> QED
  BY <1>1 DEF Thread, Environment, Hook, OutsideAction, LeadingAction

LEMMA BarrierStep ==
  ASSUME BarrierInv, [Next]_vars
  PROVE  BarrierInv'
<1>1. CASE UNCHANGED vars
  BY <1>1 DEF vars, BarrierInv, TypeOK, AllOnline, FlagsRight, NoStraySignal, CounterExact,
              Numbered, OneLeader, LoopsRight, SnapshotAlone, Gathered, Held, Closed
<1>2. ASSUME NEW c \in Cpus, Thread(c) \/ Environment(c) PROVE BarrierInv'
  BY <1>2, StepCases, OutsideActionStep, ArriveStep, BecomeWaiterStep, RaiseWaitingStep,
     BecomeLeaderStep, ReleasedStep, ClearWaitingStep, ScanStep, LeadingActionStep, ResetWaitIdStep,
     SignalStep, SignalDoneStep
<1> QED
  BY <1>1, <1>2 DEF Next

\* The barrier's invariant: flags, numbers, loops and counter agree.
THEOREM BarrierInvariance ==
  Spec => []BarrierInv
<1>1. BarrierInv /\ [Next]_vars => BarrierInv'
  BY BarrierStep
<1> QED
  BY <1>1, InitBarrier, PTL DEF Spec

-----------------------------------------------------------------------------

LEMMA AddKeeps ==
  ASSUME NEW x \in Nat, NEW y \in Nat, x >= y
  PROVE  x + CptInterval >= y
OBVIOUS

\* Only vCPUs that have moved the point reach the tests of checkpoint_try_take.
LEMMA PointStep ==
  ASSUME BarrierInv, PointKeepsUp, NEW c \in Cpus,
         Thread(c) \/ Environment(c)
  PROVE  PointKeepsUp'
<1> SUFFICES ASSUME SyncInterval <= CptInterval PROVE PointKeepsUp'
  BY DEF PointKeepsUp
<1>1. /\ nextUniformPoint + CptInterval >= uniformSyncLimit
      /\ \A d \in Cpus : pc[d] = "store" => point[d] + CptInterval >= uniformSyncLimit
      /\ \A d \in Cpus : pc[d] \in Fresh => nextUniformPoint >= uniformSyncLimit
      /\ \A d \in Cpus : pc[d] = "sync" => ic[d] >= uniformSyncLimit
  BY DEF PointKeepsUp
<1>2. /\ pc \in [Cpus -> Pcs] /\ ic \in [Cpus -> Nat] /\ point \in [Cpus -> Nat]
      /\ nextUniformPoint \in Nat /\ uniformSyncLimit \in Nat /\ idx \in [Cpus -> 0 .. N]
  BY DEF BarrierInv, TypeOK
<1>3. ASSUME NEW from \in Pcs, NEW to \in Pcs, Goto(c, from, to), to \notin {"store", "sync"},
             from \in Fresh \/ to \notin Fresh, UNCHANGED <<limits, point>>,
             \A d \in Cpus \ {c} : ic'[d] = ic[d]
      PROVE  PointKeepsUp'
  <2>1. pc'[c] = to /\ \A d \in Cpus \ {c} : pc'[d] = pc[d]
    BY <1>2, <1>3 DEF Goto
  <2> QED
    BY <1>1, <1>3, <2>1 DEF Goto, PointKeepsUp
<1>4. CASE OutsideAction(c)
  <2>1. CASE RunTB(c) \/ Wake(c)
    <3>1. PICK from \in {"run", "halted"} : Block(c, from)
      BY <2>1 DEF RunTB, Wake
    <3>2. \A d \in Cpus \ {c} : ic'[d] = ic[d]
      BY <1>2, <3>1 DEF Block
    <3>3. "hook" \in Pcs /\ from \in Pcs /\ from \in Fresh
      BY <3>1 DEF Pcs, Fresh
    <3> QED
      BY <1>3, <3>1, <3>2, <3>3 DEF Block, PointKeepsUp
  <2>2. CASE Trigger(c)
    <3>1. pc[c] = "hook" /\ pc'[c] = "sync" /\ \A d \in Cpus \ {c} : pc'[d] = pc[d]
      BY <1>2, <2>2 DEF Trigger, Goto, Pcs
    <3>2. ic[c] >= uniformSyncLimit
      <4>1. nextUniformPoint >= uniformSyncLimit
        BY <1>1, <3>1 DEF Fresh
      <4>2. ic[c] >= nextUniformPoint + StartOffset
        BY <2>2 DEF Trigger, Reached
      <4> QED
        BY <1>2, <4>1, <4>2
    <3>3. UNCHANGED <<ic, point, limits>>
      BY <2>2 DEF Trigger
    <3>4. \A d \in Cpus : /\ pc'[d] \in Fresh => pc[d] \in Fresh
                          /\ pc'[d] = "store" => pc[d] = "store"
                          /\ pc'[d] = "sync" => pc[d] = "sync" \/ d = c
      BY <3>1 DEF Fresh
    <3> QED
      BY <1>1, <3>2, <3>3, <3>4 DEF PointKeepsUp
  <2>3. CASE Halt(c) \/ NotReached(c)
    <3>1. "run" \in Fresh /\ "halted" \in Fresh /\ "hook" \in Fresh
          /\ "run" \in Pcs /\ "halted" \in Pcs /\ "hook" \in Pcs
      BY DEF Fresh, Pcs
    <3> QED
      BY <1>3, <2>3, <3>1 DEF Halt, NotReached, PointKeepsUp
  <2>4. CASE JoinOrSkip(c)
    <3>1. "sync" \in Fresh /\ "sync" \in Pcs /\ "arrive" \in Pcs
      BY DEF Fresh, Pcs
    <3>2. Goto(c, "sync", "arrive") /\ UNCHANGED <<ic, point, limits>>
      BY <1>1, <2>4 DEF JoinOrSkip, ShouldWait, Goto
    <3> QED
      BY <1>3, <3>1, <3>2 DEF PointKeepsUp
  <2>5. CASE LoadPoint(c)
    <3>1. pc'[c] = "store" /\ \A d \in Cpus \ {c} : pc'[d] = pc[d]
      BY <1>2, <2>5 DEF LoadPoint, Goto, Pcs
    <3>2. point'[c] = nextUniformPoint /\ \A d \in Cpus \ {c} : point'[d] = point[d]
      BY <1>2, <2>5 DEF LoadPoint
    <3>3. UNCHANGED <<ic, limits>>
      BY <2>5 DEF LoadPoint
    <3> QED
      BY <1>1, <3>1, <3>2, <3>3 DEF Fresh, PointKeepsUp
  <2>6. CASE StorePoint(c)
    <3>1. pc[c] = "store" /\ pc'[c] = "run" /\ \A d \in Cpus \ {c} : pc'[d] = pc[d]
      BY <1>2, <2>6 DEF StorePoint, Goto, Pcs
    <3>2. /\ nextUniformPoint' = point[c] + CptInterval
          /\ UNCHANGED <<ic, point, uniformSyncLimit>>
      BY <2>6 DEF StorePoint
    <3>3. nextUniformPoint' >= uniformSyncLimit /\ nextUniformPoint' \in Nat
      BY <1>1, <1>2, <3>1, <3>2
    <3>4. nextUniformPoint' + CptInterval >= uniformSyncLimit
      BY <1>2, <3>3, AddKeeps
    <3> QED
      BY <1>1, <3>1, <3>2, <3>3, <3>4 DEF PointKeepsUp
  <2>7. CASE \/ pc[c] = "name" /\ ChooseFile(c)
             \/ pc[c] = "write" /\ WriteFile(c)
    <3>1. \E from \in Pcs, to \in {"write", "load"} : Goto(c, from, to)
      BY <2>7 DEF ChooseFile, WriteFile, Goto, Pcs
    <3>2. UNCHANGED <<ic, point, limits>>
      BY <2>7 DEF ChooseFile, WriteFile
    <3>3. "write" \in Pcs /\ "load" \in Pcs /\ "write" \notin Fresh /\ "load" \notin Fresh
      BY DEF Pcs, Fresh
    <3> QED
      BY <1>3, <3>1, <3>2, <3>3 DEF PointKeepsUp
  <2> QED
    BY <1>4, <2>1, <2>2, <2>3, <2>4, <2>5, <2>6, <2>7 DEF OutsideAction
<1>5. CASE UpdateSyncLimit(c)
  <2>1. pc[c] = "limit" /\ pc'[c] = "reset" /\ \A d \in Cpus \ {c} : pc'[d] = pc[d]
    BY <1>2, <1>5 DEF UpdateSyncLimit, Goto, Pcs, LeaderPcs
  <2>2. \A d \in Cpus \ {c} : pc'[d] = "spin"
    BY <1>5, <2>1, LeadingActionStep DEF LeadingAction, Held
  <2>3. /\ uniformSyncLimit' = uniformSyncLimit + SyncInterval
        /\ UNCHANGED <<ic, point, nextUniformPoint>>
    BY <1>5 DEF UpdateSyncLimit
  <2>4. nextUniformPoint >= uniformSyncLimit
    BY <1>1, <2>1 DEF Fresh
  <2>5. nextUniformPoint' + CptInterval >= uniformSyncLimit'
    BY <1>2, <2>3, <2>4
  <2>6. \A d \in Cpus : pc'[d] \notin Fresh /\ pc'[d] # "store" /\ pc'[d] # "sync"
    BY <2>1, <2>2 DEF Fresh
  <2> QED
    BY <2>5, <2>6 DEF PointKeepsUp
<1>6. CASE LeadingAction(c) /\ ~ UpdateSyncLimit(c)
  <2>1. \E from \in {"scan", "bname", "bwrite"}, to \in {"bname", "bwrite", "limit"} : Goto(c, from, to)
    BY <1>6 DEF LeadingAction, ScanDone, ChooseFile, WriteFile, Goto
  <2>2. UNCHANGED <<ic, point, limits>>
    BY <1>6 DEF LeadingAction, ScanDone, ChooseFile, WriteFile
  <2>3. {"scan", "bname", "bwrite", "limit"} \subseteq Pcs \cap Fresh
    BY DEF Pcs, LeaderPcs, Fresh
  <2> QED
    BY <1>3, <2>1, <2>2, <2>3 DEF PointKeepsUp
<1>7. CASE Arrive(c) \/ BecomeWaiter(c) \/ RaiseWaiting(c) \/ BecomeLeader(c)
  <2>1. \E from \in {"arrive", "elect", "raise"}, to \in {"elect", "raise", "spin", "scan"} :
          Goto(c, from, to)
    BY <1>7 DEF Arrive, BecomeWaiter, RaiseWaiting, BecomeLeader
  <2>2. UNCHANGED <<ic, point, limits>>
    BY <1>7 DEF Arrive, BecomeWaiter, RaiseWaiting, BecomeLeader
  <2>3. /\ {"arrive", "elect", "raise", "spin", "scan"} \subseteq Pcs
        /\ {"arrive", "elect", "raise"} \subseteq Fresh
    BY DEF Pcs, LeaderPcs, Fresh
  <2> QED
    BY <1>3, <2>1, <2>2, <2>3 DEF PointKeepsUp
<1>8. CASE Released(c) \/ ClearWaiting(c) \/ ResetWaitId(c) \/ SignalDone(c)
  <2>1. \E from \in Pcs, to \in {"clear", "name", "signal"} : Goto(c, from, to)
    BY <1>8 DEF Released, ClearWaiting, ResetWaitId, SignalDone, Goto, Pcs, LeaderPcs
  <2>2. UNCHANGED <<ic, point, limits>>
    BY <1>8 DEF Released, ClearWaiting, ResetWaitId, SignalDone
  <2>3. {"clear", "name", "signal"} \subseteq Pcs /\ {"clear", "name", "signal"} \cap Fresh = {}
    BY DEF Pcs, LeaderPcs, Fresh
  <2> QED
    BY <1>3, <2>1, <2>2, <2>3 DEF PointKeepsUp
<1>9. CASE Scan(c) \/ Signal(c)
  BY <1>1, <1>9 DEF Scan, Signal, PointKeepsUp
<1> QED
  BY <1>4, <1>5, <1>6, <1>7, <1>8, <1>9, StepCases

LEMMA InitPoint == Init => PointKeepsUp
<1> SUFFICES ASSUME Init, SyncInterval <= CptInterval
             PROVE  /\ nextUniformPoint + CptInterval >= uniformSyncLimit
                    /\ nextUniformPoint >= uniformSyncLimit
                    /\ \A c \in Cpus : pc[c] = "run"
  BY DEF PointKeepsUp
<1>1. nextUniformPoint = CptInterval /\ uniformSyncLimit = SyncInterval
  BY DEF Init
<1>2. CptInterval \in Nat /\ SyncInterval \in Nat
  OBVIOUS
<1> QED
  BY <1>1, <1>2 DEF Init

\* The barrier and the lag of the shared next point keep in step for ever.
THEOREM Invariance ==
  Spec => []IInv
<1>1. Init => IInv
  BY InitBarrier, InitPoint DEF IInv
<1>2. IInv /\ [Next]_vars => IInv'
  <2> SUFFICES ASSUME IInv, [Next]_vars PROVE IInv'
    OBVIOUS
  <2>1. BarrierInv'
    BY BarrierStep DEF IInv
  <2>2. CASE UNCHANGED vars
    BY <2>1, <2>2 DEF vars, IInv, PointKeepsUp
  <2>3. ASSUME NEW c \in Cpus, Thread(c) \/ Environment(c) PROVE IInv'
    BY <2>1, <2>3, PointStep DEF IInv
  <2> QED
    BY <2>2, <2>3 DEF Next
<1> QED
  BY <1>1, <1>2, PTL DEF Spec

\* The C type of every variable is kept.
THEOREM TypeCorrect ==
  Spec => []TypeOK
<1>1. IInv => TypeOK
  BY DEF IInv, BarrierInv
<1> QED
  BY <1>1, Invariance, PTL

\* The leader creates and moves the limit with everyone else held.
THEOREM SnapshotIsAlone ==
  Spec => []SnapshotAlone
<1>1. IInv => SnapshotAlone
  BY DEF IInv, BarrierInv
<1> QED
  BY <1>1, Invariance, PTL

\* No signal is given to a vCPU that does not wait.
THEOREM NoSignalStrays ==
  Spec => []NoStraySignal
<1>1. IInv => NoStraySignal
  BY DEF IInv, BarrierInv, FlagsRight
<1> QED
  BY <1>1, Invariance, PTL

\* wait_id is the number of gathered vCPUs.
THEOREM CounterIsExact ==
  Spec => []CounterExact
<1>1. IInv => CounterExact
  BY DEF IInv, BarrierInv
<1> QED
  BY <1>1, Invariance, PTL

\* No vCPU passes by a barrier the others wait in, whatever the interleaving of
\* the unlocked updates of the next point.
THEOREM NobodyIsSkipped ==
  Spec => []NobodySkips
<1>1. IInv => NobodySkips
  BY DEF IInv, PointKeepsUp, NobodySkips, ShouldWait
<1> QED
  BY <1>1, Invariance, PTL

-----------------------------------------------------------------------------

\* The barrier's snapshot is pending between the leader's checkpoint_create and
\* the reset of the counter.
Snapped == \E c \in Cpus : pc[c] \in {"limit", "reset"}

LEMMA SnappedStable ==
  ASSUME BarrierInv, NEW c \in Cpus, NEW from \in Pcs, NEW to \in Pcs, Goto(c, from, to),
         from \in {"limit", "reset"} <=> to \in {"limit", "reset"}
  PROVE  Snapped' <=> Snapped
<1>1. /\ pc[c] = from /\ pc'[c] = to
      /\ \A d \in Cpus \ {c} : pc'[d] = pc[d]
  BY DEF Goto, BarrierInv, TypeOK
<1>2. \A d \in Cpus : pc'[d] \in {"limit", "reset"} <=> pc[d] \in {"limit", "reset"}
  BY <1>1
<1> QED
  BY <1>2 DEF Snapped

\* Every step gathers one vCPU, takes the snapshot, releases everyone or does not
\* show in the abstract barrier.
LEMMA RefinementStep ==
  ASSUME BarrierInv, NEW c \in Cpus, Thread(c) \/ Environment(c)
  PROVE  Barrier!Next \/ UNCHANGED <<Gathered, Snapped>>
<1>1. pc \in [Cpus -> Pcs]
  BY DEF BarrierInv, TypeOK
<1>2. CASE Arrive(c)
  <2>1. Snapped' <=> Snapped
    BY <1>2, SnappedStable DEF Arrive, Pcs
  <2>2. Barrier!Enter(c)
    BY <1>2, <2>1, ArriveStep DEF Barrier!Enter, Snapped
  <2> QED
    BY <2>2 DEF Barrier!Next
<1>3. CASE pc[c] = "bwrite" /\ WriteFile(c)
  <2>1. Gathered' = Gathered /\ Gathered = Cpus
    BY <1>3, LeadingActionStep DEF LeadingAction
  <2>2. pc'[c] = "limit"
    BY <1>1, <1>3 DEF WriteFile, Goto
  <2>3. Barrier!Snapshot
    BY <2>1, <2>2 DEF Barrier!Snapshot
  <2> QED
    BY <2>3 DEF Barrier!Next
<1>4. CASE ResetWaitId(c)
  <2>1. Gathered' = {}
    BY <1>4, ResetWaitIdStep
  <2>2. pc[c] = "reset" /\ pc'[c] = "signal" /\ \A d \in Cpus \ {c} : pc'[d] = pc[d]
    BY <1>1, <1>4 DEF ResetWaitId, Goto
  <2>3. \A d \in Cpus \ {c} : pc[d] = "spin"
    BY <2>2 DEF BarrierInv, SnapshotAlone, Closed, Held
  <2>4. Snapped /\ ~ Snapped'
    BY <2>2, <2>3 DEF Snapped
  <2>5. Barrier!Release
    BY <2>1, <2>4 DEF Barrier!Release, Snapped
  <2> QED
    BY <2>5 DEF Barrier!Next
<1>5. CASE Scan(c) \/ Signal(c)
  <2>1. Gathered' = Gathered
    BY <1>5, ScanStep, SignalStep
  <2>2. pc' = pc
    BY <1>5 DEF Scan, Signal
  <2> QED
    BY <2>1, <2>2 DEF Snapped
<1>6. CASE \/ BecomeWaiter(c) \/ RaiseWaiting(c) \/ BecomeLeader(c)
            \/ Released(c) \/ ClearWaiting(c) \/ SignalDone(c)
  <2>1. Gathered' = Gathered
    BY <1>6, BecomeWaiterStep, RaiseWaitingStep, BecomeLeaderStep, ReleasedStep, ClearWaitingStep, SignalDoneStep
  <2>2. \E from \in {"elect", "raise", "spin", "clear", "signal"},
           to \in {"raise", "spin", "scan", "clear", "name"} : Goto(c, from, to)
    BY <1>6 DEF BecomeWaiter, RaiseWaiting, BecomeLeader, Released, ClearWaiting, SignalDone
  <2>3. {"elect", "raise", "spin", "clear", "signal", "scan", "name"} \subseteq Pcs
    BY DEF Pcs, LeaderPcs
  <2>4. Snapped' <=> Snapped
    BY <2>2, <2>3, SnappedStable
  <2> QED
    BY <2>1, <2>4 DEF Snapped
<1>7. CASE LeadingAction(c) /\ ~ (pc[c] = "bwrite" /\ WriteFile(c))
  <2>1. Gathered' = Gathered
    BY <1>7, LeadingActionStep
  <2>2. Goto(c, "scan", "bname") \/ Goto(c, "bname", "bwrite") \/ Goto(c, "limit", "reset")
    BY <1>7 DEF LeadingAction, ScanDone, ChooseFile, UpdateSyncLimit, Goto
  <2>3. {"scan", "bname", "bwrite", "limit", "reset"} \subseteq Pcs
    BY DEF Pcs, LeaderPcs
  <2>4. Snapped' <=> Snapped
    BY <2>2, <2>3, SnappedStable
  <2> QED
    BY <2>1, <2>4 DEF Snapped
<1>8. CASE OutsideAction(c)
  <2>1. Gathered' = Gathered
    BY <1>8, OutsideActionStep
  <2>2. PICK from \in Outside, to \in Outside : Goto(c, from, to)
    BY <1>8 DEF OutsideAction, RunTB, Wake, Block, Halt, Trigger, NotReached, JoinOrSkip,
                LoadPoint, StorePoint, ChooseFile, WriteFile, Goto, Outside
  <2>3. Outside \subseteq Pcs /\ {"limit", "reset"} \cap Outside = {}
    BY DEF Pcs, Outside
  <2>4. Snapped' <=> Snapped
    BY <2>2, <2>3, SnappedStable
  <2> QED
    BY <2>1, <2>4 DEF Snapped
<1> QED
  BY <1>2, <1>3, <1>4, <1>5, <1>6, <1>7, <1>8, StepCases

\* The counter, the two flag arrays and the two loops implement the barrier that
\* gathers everyone, takes one snapshot and releases everyone.
THEOREM Refinement ==
  Spec => ImplementsBarrier
<1>1. Init => Barrier!Init
  <2> SUFFICES ASSUME Init PROVE Gathered = {} /\ ~ Snapped
    BY DEF Barrier!Init, Snapped
  <2>1. \A c \in Cpus : pc[c] = "run"
    BY DEF Init
  <2> QED
    BY <2>1 DEF Gathered, Held, Snapped
<1>2. BarrierInv /\ [Next]_vars => [Barrier!Next]_(Barrier!barrierVars)
  <2> SUFFICES ASSUME BarrierInv, [Next]_vars
               PROVE  Barrier!Next \/ UNCHANGED <<Gathered, Snapped>>
    BY DEF Barrier!barrierVars, Snapped
  <2>1. CASE UNCHANGED vars
    BY <2>1 DEF vars, Gathered, Held, Snapped
  <2>2. ASSUME NEW c \in Cpus, Thread(c) \/ Environment(c)
        PROVE  Barrier!Next \/ UNCHANGED <<Gathered, Snapped>>
    BY <2>2, RefinementStep
  <2> QED
    BY <2>1, <2>2 DEF Next
<1> QED
  BY <1>1, <1>2, BarrierInvariance, PTL DEF Spec, ImplementsBarrier, Barrier!Spec

-----------------------------------------------------------------------------
(* No deadlock                                                                 *)

\* If everyone was held there would be N different numbers below N.
LEMMA NotAllHeld == BarrierInv => \E c \in Cpus : ~ Held(c)
<1> SUFFICES ASSUME BarrierInv, \A c \in Cpus : Held(c) PROVE FALSE
  OBVIOUS
<1>1. Gathered = Cpus
  BY DEF Gathered, Held
<1>2. waitId = N
  BY <1>1, CpusFinite DEF BarrierInv, CounterExact
<1>3. \A c \in Cpus : tmpWaitId[c] \in 1 .. N - 1
  BY <1>1, <1>2 DEF BarrierInv, Numbered, Held
<1>4. IsFiniteSet(1 .. N - 1) /\ Cardinality(1 .. N - 1) = N - 1
  BY FS_Interval
<1>5. tmpWaitId \in [Cpus -> 1 .. N - 1]
  BY <1>3 DEF BarrierInv, TypeOK
<1>6. PICK c \in Cpus, d \in Cpus : c # d /\ tmpWaitId[c] = tmpWaitId[d]
  BY <1>4, <1>5, CpusFinite, FS_PigeonHole
<1> QED
  BY <1>1, <1>6 DEF BarrierInv, Numbered

\* The last one in is not held, and the one whose flag it waits for is not blocked.
LEMMA NotAllBlocked == BarrierInv => NotAllWait
<1> SUFFICES ASSUME BarrierInv, \A c \in Cpus : Blocked(c) PROVE FALSE
  BY DEF NotAllWait
<1>1. PICK c \in Cpus : ~ Held(c)
  BY NotAllHeld
<1>2. pc[c] = "scan" /\ idx[c] \in Cpus \ {c} /\ waiting[idx[c]] = 0
  BY <1>1 DEF Blocked
<1>3. pc[idx[c]] # "scan"
  BY <1>2 DEF BarrierInv, OneLeader, LeaderPcs
<1>4. Held(idx[c])
  BY <1>2, <1>3 DEF Blocked
<1> QED
  BY <1>2, <1>4 DEF BarrierInv, FlagsRight, Held

\* However the vCPUs come to the barrier, they never all wait for each other in
\* checkpoint_sync_cpus: the last one in becomes the leader, and whoever has not set
\* the flag that it waits for has yet to do so.
THEOREM SomeoneMoves ==
  Spec => []NotAllWait
  BY NotAllBlocked, BarrierInvariance, PTL

-----------------------------------------------------------------------------

\* Of two leaders, c has left d behind: its scan saw d wait, so d did not lead.
Passed(c, d) ==
  \/ pc[c] \in LeaderPcs \ {"scan"}
  \/ pc[c] = "scan" /\ idx[c] > d

\* What of the barrier survives vCPUs that come and go: the waiting flags are
\* their owners', and two leaders cannot both have left the other behind.
CreatorInv ==
  /\ pc \in [Cpus -> Pcs]
  /\ idx \in [Cpus -> 0 .. N]
  /\ waiting \in [Cpus -> {0, 1}]
  /\ \A c \in Cpus : waiting[c] = 1 <=> pc[c] \in {"spin", "clear"}
  /\ \A c \in Cpus : \A d \in Cpus \ {c} : ~ (Passed(c, d) /\ Passed(d, c))

LEMMA InitCreator == Init => CreatorInv
<1> SUFFICES ASSUME Init PROVE CreatorInv
  OBVIOUS
<1>1. 0 \in 0 .. N /\ "run" \in Pcs
  BY DEF Pcs
<1>2. \A c \in Cpus : pc[c] = "run" /\ waiting[c] = 0
  BY DEF Init
<1>3. \A c, d \in Cpus : ~ Passed(c, d)
  BY <1>2 DEF Passed, LeaderPcs
<1> QED
  BY <1>1, <1>2, <1>3 DEF Init, CreatorInv

\* A step that leaves the flags and the loop index alone, and makes no leader of
\* a vCPU that has not left everyone behind.
LEMMA GotoStep ==
  ASSUME CreatorInv, NEW c \in Cpus, NEW from \in Pcs, NEW to \in Pcs, Goto(c, from, to),
         to \in LeaderPcs => from \in LeaderPcs \ {"scan"} \/ (from = "scan" /\ idx[c] = N),
         from \in {"spin", "clear"} <=> to \in {"spin", "clear"},
         idx' = idx, waiting' = waiting
  PROVE  CreatorInv'
<1>1. /\ pc' \in [Cpus -> Pcs] /\ pc[c] = from /\ pc'[c] = to
      /\ \A d \in Cpus \ {c} : pc'[d] = pc[d]
  BY DEF Goto, CreatorInv
<1>2. \A d \in Cpus \ {c} : \A e \in Cpus : Passed(d, e)' <=> Passed(d, e)
  BY <1>1 DEF Passed
<1>3. \A e \in Cpus \ {c} : Passed(c, e)' => Passed(c, e)
  BY <1>1 DEF Passed, LeaderPcs, Cpus
<1>4. \A d \in Cpus : waiting'[d] = 1 <=> pc'[d] \in {"spin", "clear"}
  BY <1>1 DEF CreatorInv
<1>5. ASSUME NEW d \in Cpus, NEW e \in Cpus \ {d} PROVE ~ (Passed(d, e)' /\ Passed(e, d)')
  BY <1>2, <1>3 DEF CreatorInv
<1> QED
  BY <1>1, <1>4, <1>5 DEF CreatorInv

\* A step of vCPU c, on its own flag and index, after which it has left behind
\* nobody new but vCPUs that do not lead.
LEMMA OwnStep ==
  ASSUME CreatorInv, NEW c \in Cpus,
         pc' \in [Cpus -> Pcs], idx' \in [Cpus -> 0 .. N], waiting' \in [Cpus -> {0, 1}],
         waiting'[c] = 1 <=> pc'[c] \in {"spin", "clear"},
         \A d \in Cpus \ {c} : pc'[d] = pc[d] /\ idx'[d] = idx[d] /\ waiting'[d] = waiting[d],
         \A d \in Cpus \ {c} : Passed(c, d)' => Passed(c, d) \/ pc[d] \notin LeaderPcs
  PROVE  CreatorInv'
<1>1. \A d \in Cpus \ {c} : \A e \in Cpus : Passed(d, e)' <=> Passed(d, e)
  BY DEF Passed
<1>2. \A d, e \in Cpus : Passed(d, e) => pc[d] \in LeaderPcs
  BY DEF Passed, LeaderPcs
<1>3. ASSUME NEW d \in Cpus, NEW e \in Cpus \ {d} PROVE ~ (Passed(d, e)' /\ Passed(e, d)')
  <2>1. CASE d = c
    BY <1>1, <1>2, <2>1 DEF CreatorInv
  <2>2. CASE e = c
    BY <1>1, <1>2, <2>2 DEF CreatorInv
  <2>3. CASE d # c /\ e # c
    BY <1>1, <2>3 DEF CreatorInv
  <2> QED
    BY <2>1, <2>2, <2>3
<1>4. \A d \in Cpus : waiting'[d] = 1 <=> pc'[d] \in {"spin", "clear"}
  BY DEF CreatorInv
<1> QED
  BY <1>3, <1>4 DEF CreatorInv

LEMMA CreatorStep ==
  ASSUME CreatorInv, [HotplugNext]_vars
  PROVE  CreatorInv'
<1>1. CASE UNCHANGED vars
  BY <1>1 DEF vars, CreatorInv, Passed
<1>2. ASSUME NEW c \in Cpus, Thread(c) \/ Environment(c) \/ Hotplug(c)
      PROVE  CreatorInv'
  <2> USE <1>2
  <2>1. CASE \/ RunTB(c) \/ Wake(c) \/ Halt(c) \/ Trigger(c) \/ NotReached(c)
             \/ JoinOrSkip(c) \/ Arrive(c) \/ BecomeWaiter(c) \/ Released(c)
             \/ ScanDone(c) \/ Create(c) \/ UpdateSyncLimit(c) \/ SignalDone(c)
             \/ LoadPoint(c) \/ StorePoint(c)
    <3>1. idx' = idx /\ waiting' = waiting
      BY <2>1 DEF RunTB, Wake, Block, Halt, Trigger, NotReached, JoinOrSkip,
                  Arrive, BecomeWaiter, Released, ScanDone, Create, ChooseFile, WriteFile,
                  UpdateSyncLimit, SignalDone, LoadPoint, StorePoint
    <3>2. PICK from \in Pcs, to \in Pcs :
            /\ Goto(c, from, to)
            /\ to \in LeaderPcs =>
                 from \in LeaderPcs \ {"scan"} \/ (from = "scan" /\ idx[c] = N)
            /\ from \in {"spin", "clear"} <=> to \in {"spin", "clear"}
      BY <2>1 DEF RunTB, Wake, Block, Halt, Trigger, NotReached, JoinOrSkip,
                  Arrive, BecomeWaiter, Released, ScanDone, Create, ChooseFile, WriteFile,
                  UpdateSyncLimit, SignalDone, LoadPoint, StorePoint, Goto, Pcs, LeaderPcs
    <3> QED
      BY <3>1, <3>2, GotoStep
  <2>2. CASE RaiseWaiting(c) \/ ClearWaiting(c)
    <3>1. /\ pc' \in [Cpus -> Pcs] /\ pc'[c] \notin LeaderPcs
          /\ idx' = idx /\ waiting' \in [Cpus -> {0, 1}]
          /\ waiting'[c] = 1 <=> pc'[c] \in {"spin", "clear"}
          /\ \A d \in Cpus \ {c} : pc'[d] = pc[d] /\ waiting'[d] = waiting[d]
      BY <2>2 DEF CreatorInv, RaiseWaiting, ClearWaiting, Goto, Pcs, LeaderPcs
    <3>2. \A d \in Cpus : ~ Passed(c, d)'
      BY <3>1 DEF Passed, LeaderPcs
    <3> QED
      BY <3>1, <3>2, OwnStep DEF CreatorInv
  <2>3. CASE BecomeLeader(c)
    <3>1. /\ pc' \in [Cpus -> Pcs] /\ pc[c] = "elect" /\ pc'[c] = "scan"
          /\ idx' \in [Cpus -> 0 .. N] /\ idx'[c] = 0 /\ waiting' = waiting
          /\ \A d \in Cpus \ {c} : pc'[d] = pc[d] /\ idx'[d] = idx[d]
      BY <2>3 DEF CreatorInv, BecomeLeader, Goto, Pcs, LeaderPcs
    <3>2. \A d \in Cpus : ~ Passed(c, d)'
      BY <3>1 DEF Passed, Cpus
    <3>3. waiting'[c] = 1 <=> pc'[c] \in {"spin", "clear"}
      BY <3>1 DEF CreatorInv
    <3> QED
      BY <3>1, <3>2, <3>3, OwnStep DEF CreatorInv
  <2>4. CASE Scan(c) \/ ResetWaitId(c) \/ Signal(c)
    <3>1. /\ pc' \in [Cpus -> Pcs] /\ waiting' = waiting /\ idx' \in [Cpus -> 0 .. N]
          /\ pc'[c] \in LeaderPcs
          /\ \A d \in Cpus \ {c} : pc'[d] = pc[d] /\ idx'[d] = idx[d]
      BY <2>4 DEF CreatorInv, Scan, ResetWaitId, Signal, Goto, Pcs, LeaderPcs
    <3>2. waiting'[c] = 1 <=> pc'[c] \in {"spin", "clear"}
      BY <2>4, <3>1 DEF CreatorInv, Scan, ResetWaitId, Signal, Goto, LeaderPcs
    <3>3. ASSUME NEW d \in Cpus \ {c}, Passed(c, d)'
          PROVE  Passed(c, d) \/ pc[d] \notin LeaderPcs
      <4>1. CASE ResetWaitId(c) \/ Signal(c)
        BY <4>1 DEF ResetWaitId, Signal, Goto, Passed, LeaderPcs
      <4>2. CASE Scan(c)
        <5>1. /\ pc[c] = "scan" /\ pc' = pc /\ idx'[c] = idx[c] + 1
              /\ idx[c] = c \/ waiting[idx[c]] = 1
          BY <4>2 DEF Scan, CreatorInv
        <5>2. idx[c] > d \/ idx[c] = d
          BY <3>3, <5>1 DEF Passed, CreatorInv, Cpus
        <5>3. idx[c] = d => pc[d] \in {"spin", "clear"}
          BY <5>1 DEF CreatorInv
        <5> QED
          BY <5>1, <5>2, <5>3 DEF Passed, LeaderPcs
      <4> QED
        BY <2>4, <4>1, <4>2
    <3> QED
      BY <3>1, <3>2, <3>3, OwnStep DEF CreatorInv
  <2>5. CASE CpuOffline(c) \/ CpuOnline(c)
    BY <2>5 DEF CpuOffline, CpuOnline, CreatorInv, Passed
  <2> QED
    BY <2>1, <2>2, <2>3, <2>4, <2>5 DEF Thread, Hook, Environment, Hotplug
<1> QED
  BY <1>1, <1>2 DEF HotplugNext, Next

\* Also when vCPUs are taken offline and brought back at any moment, so that
\* online_cpus differs between two tests for the last one, one vCPU at most gets
\* past the scan of the waiting flags to create the barrier's checkpoint.
THEOREM CreatorIsAlone == HotplugSpec => []OneCreator
<1>1. CreatorInv => OneCreator
  <2> SUFFICES ASSUME CreatorInv, NEW c \in Cpus, NEW d \in Cpus, c # d,
                      Closed(c), pc[d] \in LeaderPcs \ {"scan"}
               PROVE  FALSE
    BY DEF OneCreator
  <2>1. Passed(c, d) /\ Passed(d, c)
    BY DEF Closed, Passed, LeaderPcs
  <2> QED
    BY <2>1 DEF CreatorInv
<1> QED
  BY <1>1, InitCreator, CreatorStep, PTL DEF HotplugSpec

=============================================================================
