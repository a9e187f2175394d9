--------------------------- MODULE CheckpointTrigger ---------------------------
(* When a machine with one vCPU takes its checkpoints.  After every           *)
(* translation block cpu_exec_loop calls checkpoint_try_take with the current  *)
(* instruction count; the call decides against the warmup, the start offset    *)
(* and the next scheduled point, creates a checkpoint and moves the schedule.  *)
EXTENDS CheckpointConfig

CONSTANT Configs    \* the accepted option sets, one is chosen for a run of the machine

ASSUME ConfigsAssumption == \A c \in Configs : WellFormed(c)

VARIABLES
  conf,              \* the CheckpointState options of this machine
  icount,            \* icount_get_raw() as of the last translation block
  nextUniformPoint,  \* checkpoint_info.next_uniform_point
  cptInstructions,   \* simpoint_info.cpt_instructions, head first
  pathList,          \* path_manager.checkpoint_path_list, head first
  simpointExit,      \* simpoint_exit
  taken              \* history: one record for each call of checkpoint_create

vars == <<conf, icount, nextUniformPoint, cptInstructions, pathList, simpointExit, taken>>

\* checkpoint_prepare_output_paths: the k-th path is named after the k-th
\* location in list order and the k-th weight in file order.
OutputPaths(c) ==
  [k \in 1 .. Len(c.locs) |-> [insn |-> MulU64(c.locs[k], c.interval), weight |-> k]]

\* The name checkpoint_create makes up when the path list is empty.
DefaultPath(n) == [insn |-> n, weight |-> 0]

Init ==
  /\ conf \in Configs
  /\ icount = 0
  /\ nextUniformPoint = conf.interval
  /\ cptInstructions = IF conf.mode = "simpoint" THEN conf.locs ELSE << >>
  /\ pathList = IF conf.mode = "simpoint" THEN OutputPaths(conf) ELSE << >>
  /\ simpointExit = FALSE
  /\ taken = << >>

-----------------------------------------------------------------------------

\* Fault for the checks: a simpoint at location 0 counts as none left.
NextSimpointNotZero ==
  IF cptInstructions = << >> \/ Head(cptInstructions) = 0
  THEN UINT64_MAX
  ELSE MulU64(Head(cptInstructions), conf.interval)

\* checkpoint_get_next_simpoint
NextSimpoint ==
  IF cptInstructions = << >>
  THEN UINT64_MAX
  ELSE MulU64(Head(cptInstructions), conf.interval)

\* checkpoint_get_output_path, with checkpoint_create's fallback.
OutputPath(n) == IF pathList = << >> THEN DefaultPath(n) ELSE Head(pathList)

\* Fault for the checks: the start offset is not added to a simpoint.
DueWithoutOffset(n) ==
  /\ n >= conf.warmup
  /\ n >= conf.offset
  /\ IF conf.mode = "simpoint"
       THEN NextSimpoint # UINT64_MAX /\ n >= NextSimpoint
       ELSE n >= AddU64(nextUniformPoint, conf.offset)

\* Fault for the checks: the offset is added to UINT64_MAX and wraps.
DueWrapping(n) ==
  /\ n >= conf.warmup
  /\ n >= conf.offset
  /\ IF conf.mode = "simpoint"
       THEN n >= AddU64(NextSimpoint, conf.offset)
       ELSE n >= AddU64(nextUniformPoint, conf.offset)

\* The tests of checkpoint_try_take: out of warmup, past the start offset, and
\* the scheduled point, moved by the start offset, has been reached.
Due(n) ==
  /\ n >= conf.warmup
  /\ n >= conf.offset
  /\ IF conf.mode = "simpoint"
       THEN /\ NextSimpoint # UINT64_MAX
            /\ n >= AddU64(NextSimpoint, conf.offset)
       ELSE n >= AddU64(nextUniformPoint, conf.offset)

\* Fault for the checks: the header gets the count moved by the start offset.
CreateShifted(n, complete) ==
  taken' = Append(taken, [icount |-> n + conf.offset, path |-> OutputPath(n),
                          complete |-> complete])

\* checkpoint_create returns nothing: its caller cannot tell a file written to
\* the end from one that could not be created or was cut short.
Create(n, complete) ==
  taken' = Append(taken, [icount |-> n, path |-> OutputPath(n), complete |-> complete])

\* Fault for the checks: the path list keeps its head.
AdvanceKeepingPath ==
  /\ conf.mode = "simpoint"
  /\ cptInstructions' = IF cptInstructions # << >> THEN Tail(cptInstructions) ELSE << >>
  /\ simpointExit' = (simpointExit \/ cptInstructions' = << >>)
  /\ UNCHANGED <<nextUniformPoint, pathList>>

\* Fault for the checks: the exit flag goes up with one simpoint left.
AdvanceExitingEarly ==
  /\ conf.mode = "simpoint"
  /\ IF cptInstructions # << >>
       THEN /\ cptInstructions' = Tail(cptInstructions)
            /\ pathList' = Tail(pathList)
       ELSE UNCHANGED <<cptInstructions, pathList>>
  /\ simpointExit' = (simpointExit \/ Len(cptInstructions') <= 1)
  /\ UNCHANGED nextUniformPoint

\* "Update checkpoint limits" and "Check if all checkpoints are done".
AdvanceSimpoint ==
  /\ conf.mode = "simpoint"
  /\ IF cptInstructions # << >>
       THEN /\ cptInstructions' = Tail(cptInstructions)
            /\ pathList' = Tail(pathList)
       ELSE UNCHANGED <<cptInstructions, pathList>>
  /\ simpointExit' = (simpointExit \/ cptInstructions' = << >>)
  /\ UNCHANGED nextUniformPoint

\* Fault for the checks: the next point is an interval from now, not from the last point.
AdvanceFromNow ==
  /\ conf.mode \in {"uniform", "sync-uniform"}
  /\ nextUniformPoint' = AddU64(icount', conf.interval)
  /\ UNCHANGED <<cptInstructions, pathList, simpointExit>>

\* Fault for the checks: the next point is not moved.
AdvanceNot ==
  /\ conf.mode \in {"uniform", "sync-uniform"}
  /\ UNCHANGED <<nextUniformPoint, cptInstructions, pathList, simpointExit>>

AdvanceUniform ==
  /\ conf.mode \in {"uniform", "sync-uniform"}
  /\ nextUniformPoint' = AddU64(nextUniformPoint, conf.interval)
  /\ UNCHANGED <<cptInstructions, pathList, simpointExit>>

\* A translation block of d instructions (none when it is left at once) and the
\* hook after it, when the hook has nothing to do ...
RunQuiet(d) ==
  /\ icount + d <= MaxIcount
  /\ icount' = icount + d
  /\ ~ Due(icount')
  /\ UNCHANGED <<conf, nextUniformPoint, cptInstructions, pathList, simpointExit, taken>>

\* ... and when it takes a checkpoint.
RunAndTake(d) ==
  /\ icount + d <= MaxIcount
  /\ icount' = icount + d
  /\ Due(icount')
  /\ \E complete \in BOOLEAN : Create(icount', complete)
  /\ AdvanceSimpoint \/ AdvanceUniform
  /\ UNCHANGED conf

Next == \E d \in 0 .. MaxTB : RunQuiet(d) \/ RunAndTake(d)

Spec == Init /\ [][Next]_vars

\* The guest keeps executing instructions until the bound.
Progress == \E d \in 1 .. MaxTB : RunQuiet(d) \/ RunAndTake(d)

FairSpec == Spec /\ WF_vars(Progress)

-----------------------------------------------------------------------------

\* The k-th point of the schedule the options describe: simpoints at their
\* location times the interval, uniform points at every multiple of it.
Point(k) ==
  conf.offset + (IF conf.mode = "simpoint" THEN conf.locs[k] ELSE k) * conf.interval

Scheduled(k) == k >= 1 /\ (conf.mode = "simpoint" => k <= Len(conf.locs))

\* Options for which the subsystem can keep up: warmup is over by the first
\* point, no two points coincide and no block spans two of them.
Punctual ==
  /\ conf.warmup <= Point(1)
  /\ MaxTB <= conf.interval
  /\ \A i, j \in 1 .. Len(conf.locs) : i < j => conf.locs[i] < conf.locs[j]

PathType == [insn : Nat, weight : Nat]

TakenType == [icount : 0 .. MaxIcount, path : PathType, complete : BOOLEAN]

\* Every variable holds a value of the C type it stands for.
TypeOK ==
  /\ conf \in Configs
  /\ icount \in 0 .. MaxIcount
  /\ nextUniformPoint \in 0 .. Word - 1
  /\ cptInstructions \in Seq(Nat)
  /\ pathList \in Seq(PathType)
  /\ simpointExit \in BOOLEAN
  /\ taken \in Seq(TakenType)

\* The k-th checkpoint belongs to the k-th point of the schedule: there is such
\* a point, and the guest had reached it, the warmup and the start offset when
\* checkpoint_try_take fired, however many points it was late for.
NeverEarly ==
  \A k \in 1 .. Len(taken) :
    /\ Scheduled(k)
    /\ taken[k].icount >= Point(k)
    /\ taken[k].icount >= conf.warmup

\* Each simpoint is written to the file named after that very simpoint: the path
\* list and the instruction list lose their heads together, whether or not the
\* file could be written.
FileOfItsPoint ==
  conf.mode = "simpoint" =>
    \A k \in 1 .. Len(taken) :
      /\ taken[k].path.insn = Point(k) - conf.offset
      /\ taken[k].path.weight = k

\* With options it can keep up with, the subsystem skips no point the guest has
\* run past, and a checkpoint is at most one translation block late.
OnTime ==
  Punctual =>
    /\ Scheduled(Len(taken) + 1) => icount <= Point(Len(taken) + 1)
    /\ \A k \in 1 .. Len(taken) : taken[k].icount <= Point(k) + MaxTB

\* With such options no checkpoint overwrites an earlier one: uniform mode names
\* its files after the instruction count, so two at one count would collide.
NoOverwrite ==
  Punctual =>
    \A i, j \in 1 .. Len(taken) : i < j => taken[i].path # taken[j].path

\* simpoint_exit is up exactly when every simpoint of the list had its turn.
ExitWhenDone ==
  simpointExit <=> conf.mode = "simpoint" /\ Len(taken) = Len(conf.locs)

\* Once the list is exhausted nothing fires again; in particular the UINT64_MAX
\* that checkpoint_get_next_simpoint then returns never meets the start offset.
NothingAfterExit == [][simpointExit => UNCHANGED taken]_vars

\* If the guest runs far enough, every simpoint gets its turn and the exit flag
\* goes up, one simpoint per block even when several were overdue.
FarEnough ==
  /\ conf.mode = "simpoint"
  /\ conf.warmup + Point(Len(conf.locs)) + (Len(conf.locs) + 1) * MaxTB <= MaxIcount

AllSimpointsServed == FarEnough => <>simpointExit

\* At count n the k-th checkpoint is at most k blocks after the warmup, or one block
\* for each checkpoint from the j-th on after the j-th point.
MadeUpFor(k, n) ==
  \/ n <= conf.warmup + k * MaxTB
  \/ \E j \in 1 .. k : n <= Point(j) + (k - j + 1) * MaxTB

\* Whatever the options, points that the warmup or other points let pass are made
\* up for one in each block: no checkpoint is later than that takes.
BacklogDrains == \A k \in 1 .. Len(taken) : MadeUpFor(k, taken[k].icount)

=============================================================================
