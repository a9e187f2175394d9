---------------------------- MODULE CheckpointSync ----------------------------
(* Uniform and sync-uniform checkpoints of a machine with several vCPUs: each  *)
(* vCPU thread runs translation blocks, and after one that reaches             *)
(* next_uniform_point it goes through checkpoint_sync_cpus - a counter and two *)
(* arrays of flags, shared without a lock - then creates a checkpoint of its   *)
(* own and moves next_uniform_point.  One step is one access to shared memory. *)
EXTENDS Integers, FiniteSets

CONSTANTS
  N,             \* sync_info.cpus
  CptInterval,   \* interval=
  SyncInterval,  \* sync-interval=
  Warmup,        \* warmup=
  StartOffset,   \* start-offset=
  MaxTB,         \* most instructions one translation block executes
  MaxIcount,     \* bound: the instruction count stops growing here
  MayHalt,       \* vCPUs that the guest may leave in WFI
  MaxOfflining   \* bound: calls of checkpoint_cpu_offline in one run

Cpus == 0 .. N - 1

ASSUME SyncAssumption ==
  /\ N \in Nat \ {0, 1}
  /\ CptInterval \in Nat \ {0}
  /\ SyncInterval \in Nat
  /\ Warmup \in Nat
  /\ StartOffset \in Nat
  /\ MaxTB \in Nat \ {0}
  /\ MaxIcount \in Nat
  /\ MayHalt \subseteq Cpus
  /\ MaxOfflining \in Nat

VARIABLES
  pc,                \* where each vCPU thread is
  icount,            \* the machine's instruction counter
  ic,                \* the icount argument of each vCPU's last checkpoint_try_take
  tmpWaitId,         \* tmp_wait_id of each vCPU
  idx,               \* the loop index i of each vCPU
  point,             \* next_uniform_point as each vCPU loaded it for its +=
  nextUniformPoint,  \* checkpoint_info.next_uniform_point
  uniformSyncLimit,  \* sync_info.uniform_sync_limit
  waitId,            \* wait_id
  waiting,           \* sync_info.waiting
  checkpointEnd,     \* sync_info.checkpoint_end
  online,            \* sync_info.online
  onlineCpus,        \* sync_info.online_cpus
  offlined           \* calls of checkpoint_cpu_offline so far

locals == <<ic, tmpWaitId, idx, point>>
limits == <<nextUniformPoint, uniformSyncLimit>>
flags == <<waiting, checkpointEnd>>
onlining == <<online, onlineCpus, offlined>>
vars == <<pc, icount, locals, limits, waitId, flags, onlining>>

\* Inside checkpoint_sync_cpus the last vCPU scans the others, creates, moves the
\* sync limit, resets the counter and signals, the others wait.
LeaderPcs == {"scan", "bname", "bwrite", "limit", "reset", "signal"}
Pcs == {"run", "halted", "hook", "sync", "arrive", "elect", "raise", "spin", "clear",
        "name", "write", "load", "store"} \cup LeaderPcs

\* checkpoint_init and checkpoint_sync_init
Init ==
  /\ pc = [c \in Cpus |-> "run"]
  /\ icount = 0
  /\ ic = [c \in Cpus |-> 0]
  /\ tmpWaitId = [c \in Cpus |-> 0]
  /\ idx = [c \in Cpus |-> 0]
  /\ point = [c \in Cpus |-> 0]
  /\ nextUniformPoint = CptInterval
  /\ uniformSyncLimit = SyncInterval
  /\ waitId = 0
  /\ waiting = [c \in Cpus |-> 0]
  /\ checkpointEnd = [c \in Cpus |-> 0]
  /\ online = [c \in Cpus |-> 1]
  /\ onlineCpus = N
  /\ offlined = 0

Goto(c, from, to) == pc[c] = from /\ pc' = [pc EXCEPT ![c] = to]

-----------------------------------------------------------------------------
(* cpu_exec_loop and checkpoint_try_take                                       *)

\* One translation block of vCPU c, of which the bound cuts off what exceeds it,
\* and icount_get_raw.
Block(c, from) ==
  /\ Goto(c, from, "hook")
  /\ online[c] = 1
  /\ \E d \in 1 .. MaxTB :
       icount' = IF icount + d <= MaxIcount THEN icount + d ELSE MaxIcount
  /\ ic' = [ic EXCEPT ![c] = icount']
  /\ UNCHANGED <<tmpWaitId, idx, point, limits, waitId, flags, onlining>>

RunTB(c) == Block(c, "run")

\* The guest executes WFI on vCPU c, or has not started it yet: no block ends and
\* no hook runs until an interrupt wakes it, whose handler runs a block.
Halt(c) ==
  /\ c \in MayHalt
  /\ Goto(c, "run", "halted")
  /\ UNCHANGED <<icount, locals, limits, waitId, flags, onlining>>

Wake(c) == Block(c, "halted")

Reached(c) ==
  /\ ic[c] >= Warmup
  /\ ic[c] >= StartOffset
  /\ ic[c] >= nextUniformPoint + StartOffset

\* The tests of checkpoint_try_take.
Trigger(c) ==
  /\ Reached(c)
  /\ Goto(c, "hook", "sync")
  /\ UNCHANGED <<icount, locals, limits, waitId, flags, onlining>>

NotReached(c) ==
  /\ ~ Reached(c)
  /\ Goto(c, "hook", "run")
  /\ UNCHANGED <<icount, locals, limits, waitId, flags, onlining>>

-----------------------------------------------------------------------------
(* checkpoint_sync_cpus                                                        *)

\* checkpoint_should_wait; kernel_insns stays 0 and early_exit is false here.
ShouldWait(c) == onlineCpus # N \/ ic[c] >= uniformSyncLimit

\* A vCPU that need not wait passes by the barrier.
JoinOrSkip(c) ==
  /\ Goto(c, "sync", IF ShouldWait(c) THEN "arrive" ELSE "name")
  /\ UNCHANGED <<icount, locals, limits, waitId, flags, onlining>>

\* qatomic_fetch_add(&wait_id, 1) + 1
Arrive(c) ==
  /\ Goto(c, "arrive", "elect")
  /\ waitId' = waitId + 1
  /\ tmpWaitId' = [tmpWaitId EXCEPT ![c] = waitId']
  /\ UNCHANGED <<icount, ic, idx, point, limits, flags, onlining>>

\* "Not the last CPU - wait": online_cpus is read here ...
BecomeWaiter(c) ==
  /\ tmpWaitId[c] # onlineCpus
  /\ Goto(c, "elect", "raise")
  /\ UNCHANGED <<icount, locals, limits, waitId, flags, onlining>>

\* ... and the waiting flag goes up later.
RaiseWaiting(c) ==
  /\ Goto(c, "raise", "spin")
  /\ waiting' = [waiting EXCEPT ![c] = 1]
  /\ UNCHANGED <<icount, locals, limits, waitId, checkpointEnd, onlining>>

\* "Last CPU - perform checkpoint"
BecomeLeader(c) ==
  /\ tmpWaitId[c] = onlineCpus
  /\ Goto(c, "elect", "scan")
  /\ idx' = [idx EXCEPT ![c] = 0]
  /\ UNCHANGED <<icount, ic, tmpWaitId, point, limits, waitId, flags, onlining>>

\* Fault for the checks: the waiting flag is left up.
ClearWaitingNot(c) ==
  /\ Goto(c, "clear", "name")
  /\ UNCHANGED <<icount, locals, limits, waitId, flags, onlining>>

\* "Wait for checkpoint_end signal" ends and the flag is cleared (only its owner
\* clears it, only a leader sets it, so the read and the clear are one step) ...
Released(c) ==
  /\ checkpointEnd[c] # 0
  /\ Goto(c, "spin", "clear")
  /\ checkpointEnd' = [checkpointEnd EXCEPT ![c] = 0]
  /\ UNCHANGED <<icount, locals, limits, waitId, waiting, onlining>>

\* ... and then the waiting flag.
ClearWaiting(c) ==
  /\ Goto(c, "clear", "name")
  /\ waiting' = [waiting EXCEPT ![c] = 0]
  /\ UNCHANGED <<icount, locals, limits, waitId, checkpointEnd, onlining>>

\* Fault for the checks: the loop does not wait for the flags.
ScanUnwaiting(c) ==
  /\ pc[c] = "scan"
  /\ idx[c] < N
  /\ idx' = [idx EXCEPT ![c] = idx[c] + 1]
  /\ UNCHANGED <<pc, icount, ic, tmpWaitId, point, limits, waitId, flags, onlining>>

\* "Wait for all other CPUs to be waiting": one iteration of the loop, which
\* spins on the flag of the vCPU it looks at.
Scan(c) ==
  /\ pc[c] = "scan"
  /\ idx[c] < N
  /\ idx[c] = c \/ waiting[idx[c]] = 1
  /\ idx' = [idx EXCEPT ![c] = idx[c] + 1]
  /\ UNCHANGED <<pc, icount, ic, tmpWaitId, point, limits, waitId, flags, onlining>>

ScanDone(c) ==
  /\ idx[c] = N
  /\ Goto(c, "scan", "bname")
  /\ UNCHANGED <<icount, locals, limits, waitId, flags, onlining>>

\* checkpoint_create chooses the output file, then writes it: by the leader with
\* the others held, and again by every vCPU on its way out of try_take.
ChooseFile(c) ==
  /\ Goto(c, "bname", "bwrite") \/ Goto(c, "name", "write")
  /\ UNCHANGED <<icount, locals, limits, waitId, flags, onlining>>

WriteFile(c) ==
  /\ Goto(c, "bwrite", "limit") \/ Goto(c, "write", "load")
  /\ UNCHANGED <<icount, locals, limits, waitId, flags, onlining>>

\* Fault for the checks: the limit is moved on behalf of each vCPU.
UpdateSyncLimitForAll(c) ==
  /\ Goto(c, "limit", "reset")
  /\ uniformSyncLimit' = uniformSyncLimit + N * SyncInterval
  /\ UNCHANGED <<icount, locals, nextUniformPoint, waitId, flags, onlining>>

\* checkpoint_update_sync_limit
UpdateSyncLimit(c) ==
  /\ Goto(c, "limit", "reset")
  /\ uniformSyncLimit' = uniformSyncLimit + SyncInterval
  /\ UNCHANGED <<icount, locals, nextUniformPoint, waitId, flags, onlining>>

\* Fault for the checks: the reset makes up for the + 1 of the fetch_add.
ResetWaitIdBelow(c) ==
  /\ Goto(c, "reset", "signal")
  /\ waitId' = -1
  /\ idx' = [idx EXCEPT ![c] = 0]
  /\ UNCHANGED <<icount, ic, tmpWaitId, point, limits, flags, onlining>>

\* Fault for the checks: the leader takes only itself off the counter.
ResetWaitIdByOne(c) ==
  /\ Goto(c, "reset", "signal")
  /\ waitId' = waitId - 1
  /\ idx' = [idx EXCEPT ![c] = 0]
  /\ UNCHANGED <<icount, ic, tmpWaitId, point, limits, flags, onlining>>

\* "Reset wait counter"
ResetWaitId(c) ==
  /\ Goto(c, "reset", "signal")
  /\ waitId' = 0
  /\ idx' = [idx EXCEPT ![c] = 0]
  /\ UNCHANGED <<icount, ic, tmpWaitId, point, limits, flags, onlining>>

\* Fault for the checks: everyone is signalled, the leader included.
SignalEveryone(c) ==
  /\ pc[c] = "signal"
  /\ idx[c] < N
  /\ checkpointEnd' = [checkpointEnd EXCEPT ![idx[c]] = 1]
  /\ idx' = [idx EXCEPT ![c] = idx[c] + 1]
  /\ UNCHANGED <<pc, icount, ic, tmpWaitId, point, limits, waitId, waiting, onlining>>

\* "Signal all waiting CPUs": one iteration of the loop.
Signal(c) ==
  /\ pc[c] = "signal"
  /\ idx[c] < N
  /\ checkpointEnd' = [checkpointEnd EXCEPT ![idx[c]] =
                         IF waiting[idx[c]] = 1 THEN 1 ELSE checkpointEnd[idx[c]]]
  /\ idx' = [idx EXCEPT ![c] = idx[c] + 1]
  /\ UNCHANGED <<pc, icount, ic, tmpWaitId, point, limits, waitId, waiting, onlining>>

SignalDone(c) ==
  /\ idx[c] = N
  /\ Goto(c, "signal", "name")
  /\ UNCHANGED <<icount, locals, limits, waitId, flags, onlining>>

-----------------------------------------------------------------------------
(* checkpoint_try_take after its checkpoint_create                             *)

\* next_uniform_point += cpt_interval is a plain load and a plain store.
LoadPoint(c) ==
  /\ Goto(c, "load", "store")
  /\ point' = [point EXCEPT ![c] = nextUniformPoint]
  /\ UNCHANGED <<icount, ic, tmpWaitId, idx, limits, waitId, flags, onlining>>

StorePoint(c) ==
  /\ Goto(c, "store", "run")
  /\ nextUniformPoint' = point[c] + CptInterval
  /\ UNCHANGED <<icount, locals, uniformSyncLimit, waitId, flags, onlining>>

-----------------------------------------------------------------------------
(* vCPU hotplug: an API for the machine code, which nothing in the patch calls *)

\* checkpoint_cpu_offline
CpuOffline(c) ==
  /\ offlined < MaxOfflining
  /\ online' = [online EXCEPT ![c] = 0]
  /\ onlineCpus' = onlineCpus - 1
  /\ offlined' = offlined + 1
  /\ UNCHANGED <<pc, icount, locals, limits, waitId, flags>>

\* checkpoint_cpu_online leaves online_cpus alone.
CpuOnline(c) ==
  /\ online[c] = 0
  /\ online' = [online EXCEPT ![c] = 1]
  /\ UNCHANGED <<pc, icount, locals, limits, waitId, flags, onlineCpus, offlined>>

-----------------------------------------------------------------------------

\* The steps of vCPU c's thread inside the hook, but for checkpoint_create.
Hook(c) ==
  \/ Trigger(c) \/ NotReached(c)
  \/ JoinOrSkip(c) \/ Arrive(c)
  \/ BecomeWaiter(c) \/ RaiseWaiting(c) \/ Released(c) \/ ClearWaiting(c)
  \/ BecomeLeader(c) \/ Scan(c) \/ ScanDone(c)
  \/ UpdateSyncLimit(c) \/ ResetWaitId(c) \/ Signal(c) \/ SignalDone(c)
  \/ LoadPoint(c) \/ StorePoint(c)

Create(c) == ChooseFile(c) \/ WriteFile(c)

Thread(c) == RunTB(c) \/ Hook(c) \/ Create(c)

Environment(c) == Halt(c) \/ Wake(c)

Next == \E c \in Cpus : Thread(c) \/ Environment(c)

Spec == Init /\ [][Next]_vars

\* The same machine when its code takes vCPUs offline and back at any moment.
Hotplug(c) == CpuOffline(c) \/ CpuOnline(c)

HotplugNext == Next \/ \E c \in Cpus : Hotplug(c)

HotplugSpec == Init /\ [][HotplugNext]_vars

-----------------------------------------------------------------------------

\* Every variable holds a value of the C type it stands for; the flags are 0/1.
TypeOK ==
  /\ pc \in [Cpus -> Pcs]
  /\ icount \in Nat
  /\ ic \in [Cpus -> Nat]
  /\ tmpWaitId \in [Cpus -> Nat]
  /\ idx \in [Cpus -> 0 .. N]
  /\ point \in [Cpus -> Nat]
  /\ nextUniformPoint \in Nat
  /\ uniformSyncLimit \in Nat
  /\ waitId \in Nat
  /\ waiting \in [Cpus -> {0, 1}]
  /\ checkpointEnd \in [Cpus -> {0, 1}]
  /\ online \in [Cpus -> {0, 1}]
  /\ onlineCpus \in Int
  /\ offlined \in 0 .. MaxOfflining

\* vCPU c spins in the barrier and nobody has let it go yet.
Held(c) == pc[c] = "spin" /\ checkpointEnd[c] = 0

\* The leader has seen everyone wait and has not signalled yet.
Closed(c) == pc[c] \in {"bname", "bwrite", "limit", "reset"}

\* While the last vCPU creates the barrier's checkpoint and moves the sync limit,
\* every other vCPU is held: none executes guest code, none is still on its way
\* out of the previous barrier with a waiting flag it has yet to clear.
SnapshotAlone ==
  \A c \in Cpus : Closed(c) => \A d \in Cpus \ {c} : Held(d)

\* Two vCPUs never take themselves for the last one of a barrier that has
\* started to create, even when online_cpus changes between their two reads.
OneCreator ==
  \A c, d \in Cpus : Closed(c) /\ pc[d] \in LeaderPcs \ {"scan"} => c = d

\* checkpoint_end is only ever up for a vCPU that waits for it: a flag left over
\* would let its owner through the next barrier without waiting.
NoStraySignal ==
  \A c \in Cpus : checkpointEnd[c] = 1 => pc[c] = "spin"

\* When sync-interval does not exceed interval, no vCPU that reaches a
\* checkpoint passes by the barrier, although the += on next_uniform_point races
\* and a late store may take it back.
NobodySkips ==
  SyncInterval <= CptInterval =>
    \A c \in Cpus : pc[c] = "sync" => ShouldWait(c)

\* The vCPUs gathered for the current snapshot: those counted in wait_id since
\* its last reset.  A leader that is signalling has let go of everyone its loop
\* has still to visit.
Gathered ==
  {c \in Cpus :
     \/ pc[c] \in {"elect", "raise", "scan", "bname", "bwrite", "limit", "reset"}
     \/ /\ Held(c)
        /\ \A d \in Cpus : pc[d] = "signal" => c < idx[d]}

\* wait_id counts the gathered vCPUs.
CounterExact == waitId = Cardinality(Gathered)

\* The counter, the flags and the loops implement the abstract barrier.
Barrier ==
  INSTANCE SyncBarrier WITH
    inside <- Gathered,
    snapped <- \E c \in Cpus : pc[c] \in {"limit", "reset"}

ImplementsBarrier == Barrier!Spec

\* The next step of vCPU c is another turn of a loop that waits for others.
Blocked(c) ==
  \/ Held(c)
  \/ pc[c] = "scan" /\ idx[c] \in Cpus \ {c} /\ waiting[idx[c]] = 0

\* The vCPUs never all turn in loops of checkpoint_sync_cpus that wait for another:
\* someone is the last one in, and the one whose flag it waits for sets it.
NotAllWait == ~ \A c \in Cpus : Blocked(c)

=============================================================================
