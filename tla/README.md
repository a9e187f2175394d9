# Verification of the ARM64 checkpoint subsystem for QEMU

The repository is a collection of notes on kernels, virtualization and
performance. Its one program of any size is
`checkpoint_restore.patch`, a series of six patches to QEMU 10.1.0 that adds a
checkpoint subsystem: a guest runs under TCG, and at chosen instruction counts
its registers and memory are written to a file from which it can be simulated
elsewhere. This directory models that subsystem in TLA+, checks the models with
TLC and proves their main properties with TLAPS. The reference is the state of
the code after all six patches; where a later patch rewrites a function of an
earlier one the later hunk counts.

## 1. The system

### Components, their state and their operations

| component (file in the patch) | state | operations |
|---|---|---|
| hook (`accel/tcg/cpu-exec.c`) | none | after every translation block: read `icount_get_raw()`, call `checkpoint_try_take` |
| trigger and schedule (`checkpoint_core.c`, `simpoint_parser.c`) | options; `next_uniform_point`; the lists `cpt_instructions` and `checkpoint_path_list`; `simpoint_exit` | `checkpoint_init`, `checkpoint_try_take`, `checkpoint_get_next_simpoint`, `checkpoint_get_output_path`, `checkpoint_set_exit_flag` |
| multi-core synchronisation (`checkpoint_sync.c`) | `wait_id`, `waiting[]`, `checkpoint_end[]`, `uniform_sync_limit`, `online[]`, `online_cpus` | `checkpoint_sync_init`, `checkpoint_should_wait`, `checkpoint_sync_cpus`, `checkpoint_update_sync_limit`, `checkpoint_cpu_online`, `checkpoint_cpu_offline` |
| creation (`checkpoint_core.c`) | the file being written and `total_written`; the static buffer `default_path` | `checkpoint_create` |
| verification and loading (`checkpoint_core.c`) | none | `checkpoint_verify_file`, `checkpoint_load_from_file` |
| SimPoint files (`simpoint_parser.c`) | the two lists, the weights | `checkpoint_parse_simpoint_files`, `checkpoint_prepare_output_paths` |
| memory (`checkpoint_memory.c`, `checkpoint_memory_zstd.c`) | the file position, the local region array and its count | serialise and restore guest RAM |
| page tables (`checkpoint_pagetable.c`) | the two arrays of saved tables and their counts | a recursive walk of the guest's tables, writing them |
| registers (`target/arm/checkpoint-arm64.c`) | each vCPU's `cpreg_indexes`, `cpreg_values`, `cpreg_array_len` (QEMU's, shared by all threads) | save the fixed registers, save and restore the register list |
| command line and machine (`checkpoint_cmdline.c`, `system/vl.c`, `hw/arm/virt.c`) | the options | `checkpoint_parse_cmdline`, initialisation |
| BBV plugin (`contrib/plugins/bbv.c`) | - | a few changed lines of a file that is not in the repository |

Also in the repository and not modelled: the stubs and the integration example
(no build file lists them), `compile_commands.json` (generated), the UEFI
hello-world package with its cached third-party headers, hook scripts, and the
notes themselves.

### How they interact

The hook of every vCPU thread calls the trigger. The trigger reads the options
and the schedule, and if a point is due: with several vCPUs it calls the
synchronisation, in which the last vCPU to arrive calls the creation while the
others spin on their `checkpoint_end` flag; then, with one vCPU or several, it
calls the creation itself, and moves the schedule. The creation asks the path
list for a file name, and the register, memory and page-table code for the
contents. All of this state is shared between the vCPU threads; the only
atomic accesses are those of `wait_id` and the flags, and there is no lock.

### What is hard

* *Concurrency.* A counter and two flag arrays form a reusable barrier: a slow
  vCPU may still be leaving one round when others have entered the next. The
  next point is moved by an unlocked `+=` of every vCPU. The default file name
  is a buffer shared by all threads.
* *Gates.* Warmup, start offset and schedule interact, in `uint64_t`
  arithmetic in which the "no simpoint left" value is `UINT64_MAX`.
* *Failure.* `checkpoint_create` returns nothing, so its caller cannot tell
  whether a file was written. Every `fwrite` may come back short, the process may
  be killed between any two, headers are written twice (first with zeros, at the
  end with the counts), and a failure in the page tables is taken lightly: the
  rest of the file follows whatever it left.
* *Liveness.* A barrier that spins needs every participant to arrive: a vCPU in
  WFI, an unplugged one or one that shares the host thread does not.
* *Hotplug.* `online_cpus` changes while others compare their number with it.
* *Shared lists.* In simpoint mode every vCPU removes the head of two `GList`s
  after its own checkpoint, and decides by the same lists whether to wait.
* *A machine that goes on running.* Page tables are read, and registers of other
  vCPUs fetched through one array per vCPU, while guest code changes them.

`PROJECT.json` lists each hazard at its line, with the properties aimed at it.

### What makes each component correct

* Trigger: a checkpoint belongs to the scheduled point whose turn it is, never
  early, late by at most one block when the options allow it and by no more than
  one for each point it has to make up for when they do not, written under that
  point's name; the exit flag is up when all are done and nothing fires after.
* Synchronisation: one vCPU creates with all others at rest, all are let go, no
  signal strays into the next round, nobody passes by a barrier the others are
  waiting in, and the vCPUs never all wait for each other. That every barrier ends
  is more, and the code does not ensure it (section 4).
* Creation: the barrier's checkpoint is in its own file and stays there.
* Start-up and SimPoint files: whatever the files hold, the start-up ends, and
  if it turns checkpoints on, the trigger finds the state it expects; every
  line is kept, with its own weight (which the code ensures for ascending files
  with two numbers on a line only).
* File contents: wherever the writing stops, the counters in the file claim only
  what is in it; the reader stays inside the file, puts no block in a wrong
  place, and restores what was written (which it does not, section 4).
* Page-table walk: it ends and stays in its arrays whatever the tables hold; what
  it saves can be followed from the root and leads nowhere else; of a guest at
  rest it is the whole tree.
* Registers: each file has the section of every vCPU, whole and in order, the
  vCPU that takes the checkpoint as it was then and none from before; a reader keeps in step with it and gives each vCPU
  its own registers back.

## 2. The modules

| module | models |
|---|---|
| `CheckpointConfig` | the accepted options, their types and bounds, `uint64_t` addition and multiplication |
| `CheckpointTrigger` | `checkpoint_init`, `checkpoint_try_take`, the simpoint helpers and the hook, for one vCPU and all three modes |
| `MCCheckpointTrigger` | the option sets TLC enumerates |
| `CheckpointTrigger_proofs` | proofs about `CheckpointTrigger` |
| `SimpointParser` | `checkpoint_parse_cmdline` and `checkpoint_parse_simpoint_files`, from the options to an initial state of `CheckpointTrigger` |
| `MCSimpointParser` | the options and files TLC enumerates |
| `SimpointParser_proofs` | proofs about `SimpointParser` |
| `SyncBarrier` | what the synchronisation promises: gather, one snapshot with everyone inside, one release |
| `CheckpointSync` | `checkpoint_sync.c` and its caller for N vCPU threads in the uniform modes |
| `CheckpointSync_proofs` | proofs about `CheckpointSync`, among them that it implements `SyncBarrier` |
| `CheckpointSyncFiles` | `CheckpointSync` composed with the files `checkpoint_create` leaves behind |
| `CheckpointSyncSimpoint` | the barrier of `CheckpointSync` with the schedule of simpoint mode: two lists and their unlocked removals |
| `MCCheckpointSyncSimpoint` | the simpoint lists TLC is given |
| `CheckpointSyncModes_proofs` | proofs about `CheckpointSyncFiles` and about `CheckpointSyncSimpoint`, among them that the latter implements `SyncBarrier`, all from the invariant of `CheckpointSync_proofs` |
| `CheckpointRoundRobin` | `CheckpointSync` on the one host thread that `-icount` gives all vCPUs |
| `CheckpointFile` | the inside of one checkpoint file: `checkpoint_create`, `checkpoint_serialize_memory_to_file` and the writing half of `checkpoint_save_page_tables_to_file`, write by write, and what the readers make of the result |
| `MCCheckpointFile` | the machines TLC enumerates |
| `CheckpointFile_proofs` | proofs about `CheckpointFile` |
| `PageTableWalk` | `walk_page_tables` and its caller, over tables that the guest goes on writing |
| `PageTableWalk_proofs` | proofs about `PageTableWalk` |
| `CpuSections` | the loop of `checkpoint_create` over the vCPUs, `checkpoint_save_arm64_cpu_state` and `checkpoint_save_dynamic_cpregs`, in several threads |
| `CpuSections_proofs` | proofs about `CpuSections` |
| `CpRegRestore` | `checkpoint_restore_dynamic_cpregs`, and saving before and after it |
| `MCCpRegRestore` | the register ids and lists TLC is given |
| `CpRegRestore_proofs` | proofs about `CpRegRestore` |

A module may hold definitions commented "Fault for the checks". They are
mutated forms of the definition that follows them, used to establish that each
property is able to fail; no specification uses them.

### CheckpointTrigger

`conf` holds the options; `icount`, `nextUniformPoint`, `cptInstructions`,
`pathList` and `simpointExit` are the C variables of those names, lists head
first; `taken` is a history variable, one record per call of
`checkpoint_create`. The locations are those of the list the parser leaves:
they ascend, and each is a `guint` times the interval. A step is one translation
block of `0 .. MaxTB` instructions and the whole hook behind it: `RunQuiet` when
the hook returns early, `RunAndTake` when it creates a checkpoint and moves the
schedule. `Due` is the three gates of `checkpoint_try_take` (patch 5 added the
start offset and the test against `UINT64_MAX`). `Create` records whether the
file was written to the end, a free choice that nothing else may depend on,
because the C function is `void`.

### SimpointParser

`input` is the command line and the directory, `phase` the place in the start-up;
`cptInstructions`, `weights`, `sorted` and `pathList` are the C lists, `location`
is the local variable the file is read into. A step is one turn of a loop: one
`fscanf` on each file with all that follows (`StoreLine`, `Mismatch`,
`EndOfPoints`), or one entry put in its place (`InsertNext`). The simpoints file
is a sequence of tokens with the places where its lines end, which the reading
does not look at, since `"%lu %lu\n"` takes line ends for blanks: a
token that is no number stays unread, and the variable keeps what it had, at
first whatever was on the stack. The weights file is its number of lines; the
second number of either file only feeds a warning and is left out. List
entries are read through `GPOINTER_TO_UINT` and hence modulo `2^32` (`Guint`). `off`
and `on` are the two ends: `machvirt_init` ignores a refusal and the machine
runs without checkpoints.

`Trigger` is `CheckpointTrigger` with the parser's lists for its variables, so
`HandsOver` says that the end `on` is an initial state of that module. It
is what justifies the trigger's `ConfigsAssumption`.

### CheckpointSync

`pc[c]` is the place of vCPU thread `c` in the hook, and a step is one access to
shared memory. `ic`, `tmpWaitId`, `idx` and `point` are the threads' locals:
the `icount` argument, `tmp_wait_id`, the loop index and the value loaded for
`next_uniform_point += cpt_interval`, which is a plain load and a plain store.
The other variables are the shared ones under their C names.

    run/halted  -> hook -> sync -> arrive -> elect -> raise -> spin -> clear -> name
                                                   -> scan -> bname -> bwrite
                                                      -> limit -> reset -> signal -> name
    name -> write -> load -> store -> run

`elect` is between `qatomic_fetch_add` and the branch on its result; the upper
branch is a waiter, the lower the leader; both read `online_cpus` there, and the
waiter sets its flag in a later step (`raise`). `bname`/`bwrite` and `name`/`write`
are the two halves of `checkpoint_create`: the file name is put together, then
the file is opened and written. The instruction counter is one for the machine,
as with `icount_get_raw()`. `Halt` and `Wake` are the guest's WFI and the
interrupt that ends it; `CpuOffline` and `CpuOnline` are the hotplug calls,
which nothing in the patch calls. `Spec` is therefore the machine without them,
`HotplugSpec` the machine whose own code calls them at any time; the two modules
below that build on this one have them among their steps. `JoinOrSkip` is both
branches of the test at 4031: to pass by, `sync-interval` must exceed `interval`
or a vCPU be offline, which is so in `sync_files`.

Left out, as they cannot influence the state above: `kernel_insns` and
`early_exit`, which `checkpoint_should_wait` reads but which keep their initial
values, as no built code calls their setters and the hook passes `false`;
reports and log lines; `uint64_t` wrap-around of counts, which `CheckpointTrigger`
covers.

### CheckpointSyncFiles and CheckpointRoundRobin

The first adds the static buffer `default_path`, the files by name, and for each
vCPU whether its last `checkpoint_create` could open its file. `NameFile` is the
`snprintf`, `StoreFile` everything from `fopen` to `fclose`, `StoreNothing` the
early returns. The second adds the vCPU that the host thread is running: the
thread of CheckpointSync steps only for that one, and changes to another only
between blocks. The round-robin loop is QEMU's own and is modelled from how the
manual tells users to start the machine.

### CheckpointSyncSimpoint

It extends `CheckpointSync` and replaces what depends on the mode: the tests of
`checkpoint_try_take` and `checkpoint_should_wait` (`SimpointReached`,
`SimpointShouldWait`) and "Update checkpoint limits". The sorted list of
locations is the constant `Simpoints`; a node is its position in it. Nodes are
removed at the front only, so that a list is its `head`, the node its head
pointer names, and `freed`, the last node that was freed. At the place `load` a
vCPU goes through the removals one access at a time, for the locations
(`list[c] = "cpt"`) and then for the paths:

    length -> first -> remove -> store -> first -> remove -> store -> done
    length -> done                          (the list was empty)

`node` and `rest` are the locals `first` and the result of `g_list_remove`. `Remove`
finds nothing, and frees nothing, when another vCPU has removed the same node
and stored the new head before. `Dangling` is a head pointer to a freed node, between one
vCPU's removal and its store. A step that reads such a node, or a freed `first`,
or dereferences the `NULL` of an empty list, is `Misuse`: behaviour is undefined
from there on and the model stops. That a vCPU may have read the data of `first`
before it was freed is allowed for by the alternative of proceeding. Prepending and freeing of
path strings are left out.

### CheckpointFile

`file` is a sequence of units: what one `fwrite` leaves, and each entry of the
region array for itself. `machine` is what is to be saved: the configured number
of vCPUs and the number that exist, the RAM blocks in list order with address and
size, and which of the two translation table roots lead to tables. `phase` is the
next write, `written`, `region` and `root` are `total_written`, `region_count`
and the loop over the roots, `done` is how much of the present block has been
written, `headerPos` is the `header_pos` of the section that will be written
again.

    header -> cpus -> memory -> regions -> block <-> data
                                           block -> array -> tables
    tables -> pack <-> root -> devices -> size -> closed

`Write` is an `fwrite` in full, `WriteShort` one that returns short and leaves
some whole units and perhaps a part of the next (`Torn`), `Rewrite` the pair of
`fseek` and the `fwrite` in between. `WriteFails` covers the writes whose failure
ends the function, `TablesFail` those in the page tables, after which
`checkpoint_create` goes on; `CpuMissing` is the configured vCPU that
`qemu_get_cpu` does not find, whose `fwrite` of no bytes is a failure;
`CompressFails` is `compress2`; `Stop` is a kill at any point, or a rewrite that
fails. The readers change nothing and are operators: `Verifies` is
`checkpoint_verify_file`, `BlockAt`, `Restores` and `Reaches` are the loop of
`checkpoint_restore_memory` with the places it computes.

Assumed: what a successful `fwrite` was given is in the file, and a kill loses
nothing written before it (data still buffered by stdio would make a shorter
file of the same kind, except that a header written a second time may reach the
disk before what lies behind it); a rewrite of one header is old or new, never
half; a RAM block has a size above 0.

### PageTableWalk

`memory` is every 4 KB frame read as a table: each of its `PTRS` entries points to
a frame or is no table entry (invalid, or a block). `stack` is the recursion, one record per
active call: which saved table it is in and its loop index. `saved[r]` is the
array of TTBR `r`, its length the count. `Visit` is the head of
`walk_page_tables`: read the table, save the copy; `Descend` is a recursive call
that does so, `AtLimit` one that returns at once, since the array is full,
`NotATable` an entry that is passed over, `Return` the end of a call. A loop is on
the *copy* (`Pte`), as in the code. `GuestWrites` changes any entry of any frame
at any moment; a frame is copied in one step, because every torn copy is also
what some other order of the guest's writes would leave. Only the tables of the
first vCPU's TTBRs are saved, as in the code. The level at which the
guest's translation really starts (a smaller address space skips some) is not
in the model: the code does not look at it.

### CpuSections

Each thread `t` has its own `buffer`, `offset` and `file`, and each vCPU `c` its
one `list[c]`, which is `cpreg_values`. Values are abstracted to the number of
changes the vCPU's registers had seen (`changes[c]`) when they were read, so that
"old" and "new" can be told apart. A thread goes through

    guest -> state -> system -> fill <-> store ... fill -> write -> state (next vCPU)
                                                            write -> memory -> guest

where `fill`/`store` is `write_cpustate_to_list`, one register's read and store
at a time (QEMU's function, modelled from its use here). Reading the fixed
registers is one step for each of the two structures. `undisturbed[t]` is a
history variable: the vCPUs of which, when `t` began its checkpoint, no other thread
had a value in hand (read, not yet stored) that was already out of date. `FillFails` is the early return when QEMU
cannot list a register. A vCPU outside `checkpoint_create` goes on changing its
registers (`RunGuest`). Write failures are `CheckpointFile`'s subject and left out here.

### CpRegRestore

`indexes`, `values` and `len` are the three `ARMCPU` fields the functions work
on. `Ids` is what a register may be called, `List` and `Foreign` are the
register lists of this machine and of others. A file is a function from vCPUs to lists, `Words` lays it out as the writer
does, and `pos` is the reader's `*offset` in it. `Reject` is the early return on a
wrong magic number, `Restore` everything else. The test of the version (77632) and
the return for a vCPU that `qemu_get_cpu` does not find (77608) are left out: the
writer always writes version 1, and `Load` asks for the vCPUs of the machine only. Files are this machine's own or
those of others, with other registers and any vCPU's list missing. The patch
marks the function as unused, "reserved for future checkpoint restore
functionality"; `Load` stands for the caller that `checkpoint_load_from_file`
announces in a comment, and assumes only that it steps over the fixed part of
each section. `Save` is the writer of `CpuSections` in one step.

## 3. The runs

| run | result | question |
|---|---|---|
| `trigger` | holds | Are checkpoints of one vCPU taken at their points, in order, in the right files, under all options? Is a backlog made up for? Does a guest that runs far enough get all its simpoints? |
| `parser` | holds | Does the start-up always end, does it leave what the trigger starts from, are all well-formed lines kept, and those of an ascending file each with its weight? |
| `sync` | holds | Is the barrier of three vCPUs safe over several rounds, does it implement `SyncBarrier`, and do the vCPUs never all wait for each other? |
| `sync_files` | holds | Without an unplug, is the leader's file its own, and does it show all others at rest, also when some checkpoints skip the barrier? Is there at most one creating leader even when `online_cpus` drops in the middle of a barrier? |
| `sync_simpoint` | holds | Is the barrier as safe in simpoint mode, and is every location gone when the exit flag is up, whatever the races? |
| `file` | holds | Wherever the writing of a file stops, do its counters claim only what is in it? Does the restore stay inside the file, put every block it restores in its place, and which blocks of a whole file does it restore? |
| `page_tables` | holds | Does the walk end, stay in its arrays and save a connected, closed set of tables, while the guest rewrites them? Is the translation tree of a guest at rest saved whole? |
| `cpu_sections` | holds | Is every file laid out as a reader expects, with two creating threads and a running guest? Is the vCPU that takes a checkpoint exact in its file, and nothing there older than the checkpoint, although the other thread fills the same lists? |
| `cpreg_restore` | holds | Does the reader stay in step and in its arrays, restore each vCPU from its own list, and restore all that the present length of its list has room for? |
| `sync_round_robin` | violated | Does every barrier end on one host thread? The first vCPU to wait spins for ever. |
| `restore_memory` | violated | Can the memory of a checkpoint that was written to the end be restored? Not on a machine like the manual's: the first block already fails. |
| `files_kept` | violated | Does the consistent checkpoint survive? The leader writes a second one over it with the others running. |

The violated properties state what the manual of the patch or a comment says; the `findings`
of `PROJECT.json` quote the lines. Some of the properties that hold have a
condition; section 4 says for each what happens without it.

TLC checks the type invariants of `CheckpointTrigger`, `CheckpointSync` and
`CpRegRestore`. Those of the other modules, `FilesTypeOK`, `SimpointTypeOK`,
`ParserTypeOK`, `FileTypeOK`, `WalkTypeOK` and `SectionsTypeOK`, are proved for
all instances (section 5) and not checked again.

### Bounds and why they are enough

* `trigger`: `Word = 64`, so that `UINT64_MAX + start_offset` wraps to a count
  within reach; `MaxIcount = 14` with blocks of up to 2 and intervals of 2 and 3
  lets four to seven points pass; a warmup of 0, 1 and 7 is none, one before the
  first point and one after several; a start offset of 0 and 3 is none and one
  that is no multiple of the interval 2; the simpoint lists have location 0,
  neighbours, a gap and a repeated location.
* `parser`: all simpoints files of up to four tokens out of three numbers and one
  that is no number, with none to four weights, so that either file may be the
  shorter one and reading may be stuck at any place, with one token on a line or
  two; all two-column files of
  four lines, one more than `SIMPOINT_IDX_MAX = 3` keeps; `Guints = 4`, so that
  the location 5 is read back as 1. Deadlock is not checked: the start-up ends.
* `sync`: three vCPUs are the least for which one is slow while two others are
  in the next round. `MaxIcount = 5` with an interval of 1, a warmup and a start
  offset of 1 is enough for three barriers, the second of which meets stragglers
  of the first. Blocks of up to 2 overshoot points. vCPU 0 may halt.
* `sync_files`: two vCPUs; `sync-interval` is twice `interval`, so that every other
  checkpoint passes by the barrier; one vCPU is unplugged, at any point of two
  barriers or between, and re-plugged any number of times. For more vCPUs and
  unplugs there are the theorems `BarrierFileIsGood` and `CreatorIsAlone`. Deadlock
  is not checked: after an unplug the system may really stop.
* `file`: `MaxRegions = 2` and `ChunkSize = 2` with no to three
  blocks of one to three units, so that the array is empty, partly filled, full
  and too small, and a block is less than a chunk, one chunk, or a chunk and a
  rest; blocks may share an address; one or two vCPUs configured and present, so
  that one may be missing; all combinations of the two roots. Deadlock is not
  checked: writing ends.
* `restore_memory`: the same bounds with one machine, of one block of three units: a
  block above 64 MB and fewer blocks than entries, as all machines of the manual have.
* `sync_simpoint`: two vCPUs and four simpoints, so that there are two barriers
  and the last removal may be a race; a location is skipped, one is reached by
  both vCPUs at once, and blocks of up to 2 overshoot. One vCPU may halt.
  Deadlock is not checked: the model stops where behaviour is undefined.
* `page_tables`: all contents of two frames with two entries each and all TTBRs;
  four levels as in the code, up to six tables per TTBR, fewer than the 15 that
  two frames pointing at each other give, so that the limit is met in different
  depths, and more than many trees without sharing have, so that others are
  saved whole; one write of the guest at any moment, or none. Frames are not
  declared interchangeable, because the run checks liveness.
* `cpu_sections`: two vCPUs, both creating again and again, with two registers
  and two changes each; the list of one may fail to fill; the buffer has exactly
the length of the longest section, so that any step too far shows. Each may
  begin while the other runs guest code or is at any place of its own checkpoint.
* `cpreg_restore`: two vCPUs with two registers, and two changes; files with more
  registers, in another order and one of them unknown, and with fewer.

The proofs of section 5 cover all values for what is marked there.

### Fairness

`SimpointParser!FairSpec` assumes that the main thread runs.
`CheckpointTrigger!FairSpec` assumes that the guest keeps executing blocks with
at least one instruction. `PageTableWalk!FairSpec` assumes that the walking thread
runs, nothing of the guest. `CheckpointRoundRobin!RRSpec` assumes that the
one host thread runs, and (strong fairness) that it does change vCPUs if the
current one is between blocks again and again.

`CheckpointSync` and the modules on top of it assume no fairness, and no liveness is
claimed of them. The hook's count comes from `icount_get_raw()`, which only advances
under `-icount`; the manual makes that option mandatory (2256, 2293), and with it
all vCPUs share one host thread, so that a thread of its own for each vCPU is not
what the code is run with. The safety properties hold for any interleaving, and so
for those of one host thread. In place of liveness `NotAllWait` says that the vCPUs never
all wait for each other: if a barrier does not end, some vCPU has not come to it.

## 4. What the checks say about the code

With all vCPUs online, the barrier is safe: the counter, the flags
and the two loops implement the abstract barrier, and although
`next_uniform_point` is updated without a lock, lost updates never let a vCPU
pass by a barrier that others wait in, as long as `sync-interval` does not
exceed `interval`. The reason the flags left over from one round do not disturb
the next is that nobody can draw the last number before everyone has re-entered;
this is exactly what taking a vCPU offline breaks, since the last number then
comes one too early. Then even all vCPUs may wait for ever, the leader for the
flag of one that is gone (4069), or, if nobody has drawn the last number, all for
a leader (4149).

Whether a barrier ends is another matter. A waiting vCPU spins, so that on the one
host thread of `-icount` the others never come (`sync_round_robin`), and it would wait as
well for one that idles in WFI.

With one vCPU the schedule is right for all accepted options in the sense of
"never early, never skipped, never misfiled". It is not evenly spaced after a
warmup longer than the interval: the points that passed are made up for, one per
block, and it is proved that no checkpoint is later than that takes.

In simpoint mode the barrier itself is as good, and the removals, for all
their races, never skip a location. But what the barrier is used for is not:
behind it every vCPU creates and removes for itself, so that several simpoints
are used up at one point, and the list that decides about waiting changes under
those that decide. That may hang the machine, and the removals may use freed
nodes. With one vCPU none of this can happen.

The page-table walk is robust against what it finds: it works on its copies, so
that neither cycles nor concurrent writes can lead it astray, and the level limit
bounds the recursion. Its weakness is economy: shared tables count once per path.

The layout of the vCPU sections does not depend on the interleaving, since
buffer and offset are each thread's own. The register list is not, and with
several vCPUs every one of them creates after the barrier (3160). A second creator
that fills the same list does no harm by itself, since what it stores it has read
after the checkpoint began; only a value read before, and overtaken since, may come
in. After a barrier there is none of the vCPU that takes the checkpoint: the others
begin to create when it has stopped in the barrier. Of other vCPUs there may be, and
a vCPU that did not wait (one whose checkpoint passes by the barrier) has no
such protection. The reader of the list keeps in step with a file
even when it truncates, but remembers the length and ids of the file as if they
were the machine's own.

The parser leaves the list that the trigger needs for whatever files there are,
junk included. The names it gives the files are right only for an ascending
two-column file: weights are not sorted with the locations, and the one-column
format the manual shows is read two numbers at a time and loses every second
location.

A file that was cut off is honest about its memory, because the counts are
written last, and the size in the header, which is written after everything
else, is what tells a whole checkpoint from a part of one. Nobody reads it:
`checkpoint_verify_file` asks for the magic number, which is there from the
first write, and accepts a file that ends behind its header. The memory cannot
be restored from what the writer writes: the reader looks for the first block
behind as many entries as there are regions, whereas the writer always writes
the whole array, and it takes a block of several chunks for one. It notices
both, since what it finds does not decompress or has the wrong size, so that
nothing wrong is put into guest memory. `RestoresExactly` says how far it gets:
with a full array up to the first block above 64 MB, otherwise nowhere. All machines of
the manual have one block of 2 GB or more as their RAM, and so none of their
memory can be restored (`restore_memory`).

### Conditions the properties need, and code that does not ensure them

Lines are of `checkpoint_restore.patch`. These were met while modelling; each is
the condition of a property or a bound of a run. For the hazards among them that
do go wrong `PROJECT.json` names no property, and says so.

| line | what happens | condition, and where it is stated |
|---|---|---|
| 4069 | after an unplug the leader may take a flag left up from the last round for a vCPU that waits | `SnapshotAlone` is claimed of `Spec`, not of `HotplugSpec`; `offlined = 0` in `BarrierFileGood` |
| 4069, 4149 | after an unplug the leader, or all vCPUs, may wait for ever | `NotAllWait` is claimed of `Spec`, not of `HotplugSpec` |
| 3167-3169 | one barrier uses up one simpoint per vCPU; two removals may use a freed node | none on `ExitMeansServed`, which survives it; `Misuse` stops the model |
| 4031 | in simpoint mode two vCPUs may decide by two different heads, and one then waits for ever | no liveness is claimed of `CheckpointSyncSimpoint`; `ImplementsBarrier`, a safety property, holds in spite of it |
| 4658 | a simpoints file of junk gives an entry from an uninitialised variable instead of the refusal; the one-column file of the manual (2220-2226) loses every second location | `TwoColumns`, which asks for two numbers on each line, in `EveryLineCounts` and `CorrespondingWeight` |
| 4769 | locations are sorted, weights are not | ascending file in `CorrespondingWeight` |
| 3426 | verification asks for the magic number only and accepts a file cut off behind it | `SizeMeansWhole` says which files are whole |
| 3865 | writer and reader put the first block in different places | none: `RestoresExactly` says what is restored, `MemoryRestored` is violated |
| 78464 | shared tables use up several places of the array | fewer than `MAX_TABLES` saved in `WholeTree` |
| 78566 | the walk always starts at level 0, so with a smaller address space pages are saved as tables | the start level is not in the model |
| 77550 | a second creator fills the same register list | `undisturbed` in `OwnSectionExact` and `NothingOlder`: no out-of-date value in hand when the checkpoint begins |
| 3256 | the header's core size is a constant, while sections have what the vCPU's list needs | `LaidOut` goes by the length in the section |
| 77652-77660 | after a file with a shorter list, that length is the limit of the next restore and of the next checkpoint | `FittingRestored` is relative to that length |
| 76701 | `machvirt_init` ignores that options or files were refused | end `off` in `SimpointParser` |

## 5. What is proved

`CheckpointTrigger_proofs`, for every word size, every bound and every set of
options that `CheckpointConfig` admits (`ConfigsAssumption`: at least one
location in simpoint mode, ascending; every count the options describe fits a
`uint64_t`):

* `TypeCorrect`, `NothingIsEarly`, `FilesAreRight`, `NothingIsLate`,
  `NothingIsOverwritten`, `BacklogIsMadeUp`, `ExitIsRight`,
  `NothingFollowsExit`: all safety properties of the run `trigger`.

The inductive invariant `IInv` says that the two lists and the next point are
functions of the number of checkpoints taken. The safety properties alone are
not inductive: they do not mention the lists. From it `DueMeans` derives that
the code's test, with its wrap-around and its special value, is the plain
comparison with the point whose turn it is; each step then extends the history
by one record that fits. For lateness, `Prompt` adds that in the uniform modes
the count is strictly below the next point: with `<=`, two checkpoints could
share a count and hence a file. For `BacklogIsMadeUp`,
`Lag` adds that the count itself is no further than that or has not passed the
next point; a quiet block keeps the second, and one that creates a checkpoint
goes from either to the first.

`SimpointParser_proofs`, for every pair of files, every set of options and every
limit:

* `ParserTypeCorrect`, and `StartUpHandsOver`: `Spec => []HandsOver`;
* `LinesAllCount` and `WeightsCorrespond`: the other invariants of the run `parser`;
* `StartUpShrinks` and `SortAlwaysFindsPlace`: what `StartUpEnds` needs but fairness.

The inductive invariant `ParserInv` says what is empty in which phase, that the
list being sorted ascends in the reading of `GPOINTER_TO_UINT`, and that both
lists grow together. The key lemma is `InsertionKeepsOrder`: an entry put before
the first one not below it leaves the list ascending. `HandsOver` is not
inductive: it speaks of the last phase only. With `CountsFit` as its only
condition, it carries the theorems about the trigger over to the states the
program really makes.

For the other two, `ColumnInv` follows a file of two columns. While it is read,
the list is the beginning of the column (`ColumnRead`); the position in the file
then gives the line at which reading stops, by whichever of the three ends
comes first. While it is sorted (`ColumnSorted`), what has been inserted is a
rearrangement of the beginning of the list: two lists are compared by how often
each number occurs (`SameEntries`), and `InsertCounts` says that putting an
entry in its place adds one to its own count and nothing to any other. For an
ascending file the two agree entry by entry, in the reading of
`GPOINTER_TO_UINT`; that is weaker than being equal and all that holds, since
locations that differ by a multiple of `2^32` may change places. `SameBag` turns counts into the
bags the property speaks of.

`StepsLeft` has the phase in front and the turns of its loop behind: places left
in the list while reading, entries left while sorting. A read that makes no
progress on a token it cannot match still takes a place, which is why it ends.

`CheckpointSync_proofs`, for every number of vCPUs, intervals, offsets and block
lengths, about `Spec`, that is without hotplug (with it the theorems are false,
see section 4):

* `TypeCorrect`, `SnapshotIsAlone`, `NoSignalStrays`, `CounterIsExact`,
  `NobodyIsSkipped`, and `Refinement`: `Spec => ImplementsBarrier`;
* `SomeoneMoves`: `Spec => []NotAllWait`.

The inductive invariant `BarrierInv` says that flags mirror places
(`FlagsRight`), that the gathered vCPUs hold different numbers of which the
leader has the last (`Numbered`), that `wait_id` is their number (`CounterExact`),
and how far the leader's two loops have come (`LoopsRight`). The key lemma is
`LastOneIn`: a vCPU that holds the number N has seen all others gather, since
the gathered set then has N members out of N; hence a flag the scan finds up
belongs to this round. `PointKeepsUp` adds that the shared next point lags
behind the sync limit by at most one interval, and not at all for a vCPU that
has stored it since the last barrier; this is what makes the lost updates
harmless. `SomeoneMoves` counts numbers: not all vCPUs can wait for
`checkpoint_end`, as N of them cannot have drawn different numbers below N; and
the flag that a leader's scan waits for belongs to a vCPU that has yet to set it. It is
all of "every barrier ends" that the code makes true. The refinement maps `inside` to the set `Gathered`, from which
everyone drops at the counter's reset, and `snapped` to "a leader is between its
checkpoint and that reset".

`CheckpointFile_proofs`, for every machine, every number of entries and every
chunk size, without further conditions:

* `FileTypeCorrect`, and `CountsAreBacked`, `SizeCommits`, `RestoreIsInside`,
  `RestoreIsRight`, `RestoresExactlyFitting`: all properties of the run `file`.

The inductive invariant `FileInv` has two halves. While the file is open,
`OpenInv` says for each phase what is in the file and where: the vCPU sections
(`CpusWritten`), the zero header and array (`MemoryBegun`), the chunks
(`BlocksWritten`), and from the second writing on the counts and everything
behind them (`MemoryDone`); `TornCounted` says that `total_written` is the length
but for torn units. Once it is closed, `ClosedInv` keeps what depends on the file
alone. The properties are not inductive, as they say nothing of a file whose
counts are still 0. The part that took thought is the reader, which
pairs entry `i` with chunk `i` although blocks may have several chunks: `Straight`
says that the first chunks have the sizes of the first blocks, and then they are
those blocks, since a chunk smaller than its block never has the block's size.
`OpenClaims` derives the closed half from the open one, for the stops;
`ClaimGives` derives the properties.

`FileInv` says what is in a file, not that everything is where the reader looks.
`RestoresExactlyFitting` needs a second invariant on top of it, `InLine`: up to the
first block that is larger than a chunk, the file is exactly as long as one length
and one chunk for each block make it, and chunk `i` is that of block `i`
(`Fitting`). It must outlast the closing of the file for those files only that are
committed by their size, since in others the last chunk may be missing. With room
left in the array the reader takes an entry for a length, whatever the blocks are.

`CheckpointSync_proofs` also has, with vCPUs taken offline and brought back at any
moment:

* `CreatorIsAlone`: `HotplugSpec => []OneCreator`.

Nothing of `BarrierInv` survives a changing `online_cpus`: numbers are drawn
twice, several vCPUs scan. What does, `CreatorInv`, is that of two scanning vCPUs
not both can have left the other behind (`Passed`): to pass it, the flag of the
other must be up, and the flag of a leader is down.

`CheckpointSyncModes_proofs`, about `CheckpointSyncFiles` under `MaxOfflining = 0`:

* `FilesTypeCorrect`, and `BarrierFileIsGood`: an invariant of the run
  `sync_files`; the other one, `OneCreator`, is `CreatorIsAlone`, as every step of
  `CheckpointSyncFiles` is one of `HotplugNext`.

`BarrierInv` carries over, as every step is one of `CheckpointSync`. The lemma
`Frozen` draws from it that while one vCPU is between its scan and the reset no
other takes a step at all. Hence nobody can change the shared name between the
leader's `snprintf` and its `fopen` (`PathKept`), or the file behind it.

The same module about `CheckpointSyncSimpoint`, for every simpoint list, under
`MaxOfflining = 0` except where it says otherwise:

* `SimpointTypeCorrect` and `SimpointSnapshotIsAlone`, and `ExitIsServed` (for every
  `MaxOfflining`) and `SimpointRefinement`: both properties of the run `sync_simpoint`;
* `SimpointSomeoneMoves`, and `MisuseTakesTwo`, the latter for every `MaxOfflining`.

The barrier's half of the invariant is `BarrierInv` again: the simpoint steps
are, as far as the barrier goes, the steps outside it that `OutsideStep` covers.
`ListInv` bounds the racing pointers: a head, and what a removal has returned,
is at most one node past the last one freed, so a late store may take the list back
but never past a location nobody has removed.

`MisuseTakesTwo` says what is missing in the code that section 4 shows to go
wrong. Its hypothesis `NoOverlap` is what a lock around the removal and the reads
of the lists would give: no vCPU looks at a list while another is between
`g_list_length` and the test for the last checkpoint. Then no freed node is used,
NULL is not dereferenced and the two lists start with the same simpoint,
whatever else interleaves. The invariant `InTurn` follows the one vCPU that is
removing through the two lists (`RemovalRight`). The hypothesis can be met by
every run in which the blocks do not coincide, up to the exit.

`PageTableWalk_proofs`, for every number of frames, entries, levels and places,
and any number of guest writes:

* `WalkTypeCorrect`, and `SavedConnected`, `SavedClosed`, `SavesWholeTree`: the
  safety properties of the run `page_tables`;
* `WalkShrinks`: what `WalkEnds` needs but fairness.

The invariant `WalkInv` adds to them that the calls on the stack are one level
apart (`LevelsRight`), which bounds the recursion, and that every saved entry
that points to a table is followed, still to be looked at by a call on the
stack, or lost to the limit (`Accounted`). The guest's writes do not occur in it,
since the walk reads its copies only.

`SavesWholeTree` is about a guest at rest and has an invariant of its own,
`TreeInv`: until the guest writes, every copy is what is in memory (`AtRest`), and
every root that the walk has passed is saved (`RootsSaved`). With them the
tables saved of one level point exactly to those of the next (`LevelBelow`: one
inclusion is `Connected`, the other `Accounted` with an empty stack), and the
theorem goes down the levels from the root.

`WorkLeft` has three digits: the places for tables that are left and one for
each TTBR, the depth of the recursion, and the turns left in the innermost loop.
A step that saves a table or finishes a root lowers the first, a return the second, a
turn of the loop the last, so a tree that points back into itself cannot hold
the walk up; the guest's writes change none.

`CpuSections_proofs`, for every number of vCPUs and registers:

* `SectionsTypeCorrect`, `FileLaidOut`, `OwnSectionKept` and `NothingOlderSaved`:
  all properties of the run `cpu_sections`, whatever threads create.

`TypeInv` gives the offset for each place in the loop (`Sized`). `LayoutInv` adds
that the file holds the sections of the vCPUs before the present one, one behind
the other, and the buffer the beginning of the next (`ThreadLaid`). The list that
the threads share does not spoil it: another thread may change the values in it,
but not their number or ids. For the other two, `KeptInv` says
of each creating thread that its own vCPU stands still (`AtRest`), and that every change
number in its file, in the filled part of its buffer and in the listed part of the
list it is filling is current for its checkpoint (`Current`). What makes it
inductive is `HandsGood`, the same of what *any other* thread is about to store: it
is true when a checkpoint begins, by `undisturbed`, and a value read later is current.

`CpRegRestore_proofs`, for every number of vCPUs and any register lists without
duplicates, on this machine and in the files of others:

* `StaysWithinArrays`, `EndsAtMemory`, `RestoresOwn` and `RestoresWhatFits`: all
  properties of the run `cpreg_restore`.

`RestoreInv` says that the arrays keep the length they were allocated with, that
the ids within `cpreg_array_len` are distinct (so that the next file this machine
saves is again one without duplicates), and that between two vCPUs the reader is
where the next section begins (`AtSection`). Where that is follows from the
layout: `Words` is a flattened sequence of sequences, and `Flattening` and
`FlattenedAt` say that there are starts such that each sequence lies between its own
and the next. `SectionFound` is that layout as the reader needs it: the magic
number, the length, the ids and the values of vCPU `c` by their distance from
its start. `RestoreStep` then says what one call does to the arrays, and the two
action properties follow from it.

Only model-checked are the liveness properties `AllSimpointsServed`,
`StartUpEnds` and `WalkEnds`: they need fairness and `ENABLED`, which
are out of the proof system's reach. `StartUpShrinks` and `WalkShrinks` are the
parts of two of them that are not temporal. The
invariant behind `MisuseTakesTwo` and the numbers that shrink are proved and in
no run. Every invariant and every action property of
the runs that hold is a theorem.

Inductions over data (the levels of a tree, the sequences of a file) are not
made with the library's induction theorems, whose operator parameters the
provers cannot instantiate. `UpFromZero` takes their place: a set that holds 0
and with each number the next one holds all numbers, because `<` is well-founded
on them. No definition is recursive by `RECURSIVE`; `Reached` and the function
inside the community modules' `FlattenSeq` are recursive functions, whose
existence is proved that way first (`LevelsFunction`, `FlattenFunction`).

## 6. Plan

Done: sections 2 to 5. What would come next, in this order:

1. A composition of `CheckpointFile` with `CheckpointSyncFiles`: two writers with
   the same file name, each truncating the other's file.
2. A composition of `PageTableWalk` with `CheckpointFile`, whose `machine.tables`
   it would give.
3. An abstract specification of "each simpoint is served once, at its point", and
   the part of `CheckpointTrigger` that implements it with one vCPU.

## 7. What is not modelled, and why

* `checkpoint_arm64_stub.c`, `checkpoint_memory_stub.c`, `integration_example.c`:
  not compiled.
* Which fixed registers are copied: a structure filled field by field. Reading
  them is one step per structure, from which vCPU and when is modelled.
* `checkpoint_update_insn_count`, `checkpoint_mark_kernel_boundary` and
  `checkpoint_set_early_exit`: no built code calls them.
* `checkpoint_cleanup`, which frees everything at the end, and the functions that
  only print.
* The variant of the memory writer that fills a buffer, which nothing calls, and
  `checkpoint_memory_zstd.c`, which no build file lists.
* Disk errors that only `fclose` would report: its result is not looked at.
* The BBV plugin: fragments of a file whose remainder is not in the repository.
* Contents of memory, registers and page tables, message texts, path syntax
  beyond what distinguishes two files.
* Everything outside `checkpoint_restore.patch`: notes, images, scripts and a
  hello-world program.

The files of the repository with a C file's name (49, some 37000 lines) are
copies of third-party edk2 headers that an editor's index cache keeps under
`uefi/SimplePkg/.ccls-cache`, and three hello-world files: declarations, tables
and prints without behaviour to model. The program of the repository is in the patch,
which is a diff and not counted among those files; every definition of this project is mapped
to its lines there.
