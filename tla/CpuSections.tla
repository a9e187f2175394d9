------------------------------ MODULE CpuSections ------------------------------
(* The vCPU sections of a checkpoint: the loop of checkpoint_create over the    *)
(* vCPUs, and the functions of checkpoint-arm64.c it calls for each.  Every     *)
(* thread that creates a checkpoint has its own buffer and file, but all of     *)
(* them fill the one coprocessor register list that each vCPU has; and a vCPU   *)
(* whose thread creates none goes on running.  Writing fails in CheckpointFile. *)
EXTENDS Naturals, Sequences

CONSTANTS
  N,          \* vCPUs
  Creators,   \* those whose threads may be in checkpoint_create at the same time
  Registers,  \* cpreg_array_len, the same for all vCPUs of a machine
  Unlistable, \* vCPUs whose register list QEMU may fail to fill
  BufferSize, \* size of cpu_buffer
  MaxChanges  \* bound: how often guest code changes the registers of a vCPU

Cpus == 0 .. N - 1

\* The longest section; "1MB per CPU is enough" for it.
LongestSection == 3 + 2 * Registers

ASSUME SectionsAssumption ==
  /\ N \in Nat \ {0}
  /\ Creators \subseteq Cpus
  /\ Registers \in Nat
  /\ Unlistable \subseteq Cpus
  /\ BufferSize \in Nat /\ BufferSize >= LongestSection
  /\ MaxChanges \in Nat

VARIABLES
  changes,  \* of each vCPU, how often its registers have changed
  list,     \* of each vCPU, cpreg_values: the change each value is from
  pc,       \* of each thread, where in the loop it is; "guest" outside
  cpu,      \* its loop index i
  buffer,   \* its cpu_buffer
  offset,   \* its cpu_size
  next,     \* the register that write_cpustate_to_list comes to next
  value,    \* the value it has read of that register
  file,     \* what it has written of its last file behind the header
  began,    \* history: changes when it entered checkpoint_create
  undisturbed  \* history: the vCPUs of which no other thread then had a value in
               \* hand that was out of date

threadVars == <<pc, cpu, buffer, offset, next, value, file, began, undisturbed>>
vars == <<changes, list, threadVars>>

-----------------------------------------------------------------------------

\* What is saved is not its value but the change it is from.  The words of a
\* section, each with the vCPU it belongs to:
State(c, v) == [kind |-> "state", cpu |-> c, change |-> v]
System(c, v) == [kind |-> "system", cpu |-> c, change |-> v]
ListHeader(c) == [kind |-> "list", cpu |-> c, count |-> Registers]
Id(c, r) == [kind |-> "id", cpu |-> c, register |-> r]
Value(c, v) == [kind |-> "value", cpu |-> c, change |-> v]
Zero == [kind |-> "zero"]
Memory == [kind |-> "memory"]

Init ==
  /\ changes = [c \in Cpus |-> 0]
  /\ list = [c \in Cpus |-> [r \in 1 .. Registers |-> 0]]
  /\ pc = [t \in Cpus |-> "guest"]
  /\ cpu = [t \in Cpus |-> 0]
  /\ buffer = [t \in Cpus |-> [i \in 1 .. BufferSize |-> Zero]]
  /\ offset = [t \in Cpus |-> 0]
  /\ next = [t \in Cpus |-> 1]
  /\ value = [t \in Cpus |-> 0]
  /\ file = [t \in Cpus |-> << >>]
  /\ began = [t \in Cpus |-> changes]
  /\ undisturbed = [t \in Cpus |-> {}]

Goto(t, from, to) == pc[t] = from /\ pc' = [pc EXCEPT ![t] = to]

\* memcpy to buffer + *offset, and *offset += size.
Put(t, words) ==
  /\ buffer' = [buffer EXCEPT ![t] =
                  [i \in 1 .. BufferSize |->
                     IF i \in offset[t] + 1 .. offset[t] + Len(words)
                     THEN words[i - offset[t]] ELSE @[i]]]
  /\ offset' = [offset EXCEPT ![t] = @ + Len(words)]

\* A translation block of a vCPU that is not in checkpoint_create.
RunGuest(c) ==
  /\ pc[c] = "guest"
  /\ changes[c] < MaxChanges
  /\ changes' = [changes EXCEPT ![c] = @ + 1]
  /\ UNCHANGED <<list, threadVars>>

\* The vCPUs of which no thread is about to store a value that they have changed
\* since it was read.
UpToDate == {c \in Cpus : \A u \in Cpus : pc[u] = "store" /\ cpu[u] = c => value[u] = changes[c]}

\* fopen truncates the file, g_malloc0 clears the buffer.
Begin(t) ==
  /\ t \in Creators
  /\ Goto(t, "guest", "state")
  /\ cpu' = [cpu EXCEPT ![t] = 0]
  /\ buffer' = [buffer EXCEPT ![t] = [i \in 1 .. BufferSize |-> Zero]]
  /\ offset' = [offset EXCEPT ![t] = 0]
  /\ file' = [file EXCEPT ![t] = << >>]
  /\ began' = [began EXCEPT ![t] = changes]
  /\ undisturbed' = [undisturbed EXCEPT ![t] = UpToDate]
  /\ UNCHANGED <<changes, list, next, value>>

SaveState(t) ==
  /\ Goto(t, "state", "system")
  /\ Put(t, <<State(cpu[t], changes[cpu[t]])>>)
  /\ UNCHANGED <<changes, list, cpu, next, value, file, began, undisturbed>>

SaveSystem(t) ==
  /\ Goto(t, "system", "fill")
  /\ Put(t, <<System(cpu[t], changes[cpu[t]])>>)
  /\ next' = [next EXCEPT ![t] = 1]
  /\ UNCHANGED <<changes, list, cpu, value, file, began, undisturbed>>

\* Fault for the checks: the list is taken as it was left by the last checkpoint.
ReadRegisterOnce(t) ==
  /\ Goto(t, "fill", "store")
  /\ next[t] <= Registers
  /\ value' = [value EXCEPT ![t] =
       IF list[cpu[t]][next[t]] = 0 THEN changes[cpu[t]] ELSE list[cpu[t]][next[t]]]
  /\ UNCHANGED <<changes, list, cpu, buffer, offset, next, file, began, undisturbed>>

\* write_cpustate_to_list, register by register.
ReadRegister(t) ==
  /\ Goto(t, "fill", "store")
  /\ next[t] <= Registers
  /\ value' = [value EXCEPT ![t] = changes[cpu[t]]]
  /\ UNCHANGED <<changes, list, cpu, buffer, offset, next, file, began, undisturbed>>

\* Fault for the checks: the list that is filled is that of the first vCPU.
StoreRegisterInFirst(t) ==
  /\ Goto(t, "store", "fill")
  /\ list' = [list EXCEPT ![0][next[t]] = value[t]]
  /\ next' = [next EXCEPT ![t] = @ + 1]
  /\ UNCHANGED <<changes, cpu, buffer, offset, value, file, began, undisturbed>>

StoreRegister(t) ==
  /\ Goto(t, "store", "fill")
  /\ list' = [list EXCEPT ![cpu[t]][next[t]] = value[t]]
  /\ next' = [next EXCEPT ![t] = @ + 1]
  /\ UNCHANGED <<changes, cpu, buffer, offset, value, file, began, undisturbed>>

\* The vCPU then has no list in the file, and its section ends early.
FillFails(t) ==
  /\ cpu[t] \in Unlistable
  /\ next[t] > Registers
  /\ Goto(t, "fill", "write")
  /\ UNCHANGED <<changes, list, cpu, buffer, offset, next, value, file, began, undisturbed>>

\* The header, cpreg_indexes and cpreg_values.
ListWords(c) ==
  <<ListHeader(c)>> \o [r \in 1 .. Registers |-> Id(c, r)]
                    \o [r \in 1 .. Registers |-> Value(c, list[c][r])]

SaveList(t) ==
  /\ next[t] > Registers
  /\ Goto(t, "fill", "write")
  /\ Put(t, ListWords(cpu[t]))
  /\ UNCHANGED <<changes, list, cpu, next, value, file, began, undisturbed>>

\* Fault for the checks: fwrite puts out the longest section there was.
WriteSectionWhole(t) ==
  /\ pc[t] = "write"
  /\ file' = [file EXCEPT ![t] = @ \o buffer[t]]
  /\ offset' = [offset EXCEPT ![t] = 0]
  /\ cpu' = [cpu EXCEPT ![t] = @ + 1]
  /\ pc' = [pc EXCEPT ![t] = IF cpu[t] + 1 < N THEN "state" ELSE "memory"]
  /\ UNCHANGED <<changes, list, buffer, next, value, began, undisturbed>>

\* fwrite of the first cpu_size bytes, which is 0 again for the next vCPU.
WriteSection(t) ==
  /\ pc[t] = "write"
  /\ file' = [file EXCEPT ![t] = @ \o SubSeq(buffer[t], 1, offset[t])]
  /\ offset' = [offset EXCEPT ![t] = 0]
  /\ cpu' = [cpu EXCEPT ![t] = @ + 1]
  /\ pc' = [pc EXCEPT ![t] = IF cpu[t] + 1 < N THEN "state" ELSE "memory"]
  /\ UNCHANGED <<changes, list, buffer, next, value, began, undisturbed>>

WriteMemory(t) ==
  /\ Goto(t, "memory", "guest")
  /\ file' = [file EXCEPT ![t] = Append(@, Memory)]
  /\ UNCHANGED <<changes, list, cpu, buffer, offset, next, value, began, undisturbed>>

Next ==
  \E t \in Cpus :
    \/ RunGuest(t) \/ Begin(t)
    \/ SaveState(t) \/ SaveSystem(t)
    \/ ReadRegister(t) \/ StoreRegister(t) \/ FillFails(t) \/ SaveList(t)
    \/ WriteSection(t) \/ WriteMemory(t)

Spec == Init /\ [][Next]_vars

-----------------------------------------------------------------------------

Places == {"guest", "state", "system", "fill", "store", "write", "memory"}

\* cpu_size never leaves the buffer, and the list index not the list.
SectionsTypeOK ==
  /\ changes \in [Cpus -> 0 .. MaxChanges]
  /\ list \in [Cpus -> [1 .. Registers -> 0 .. MaxChanges]]
  /\ pc \in [Cpus -> Places]
  /\ \A t \in Cpus :
       /\ cpu[t] \in 0 .. N
       /\ pc[t] \in Places \ {"guest", "memory"} => cpu[t] < N
       /\ offset[t] \in 0 .. BufferSize
       /\ next[t] \in 1 .. Registers + 1
       /\ pc[t] = "store" => next[t] <= Registers
       /\ value[t] \in 0 .. MaxChanges
       /\ Len(file[t]) <= N * LongestSection + 1

\* A word that has a value of a register, or of several.
IsSaved(w) == w.kind \in {"state", "system", "value"}

Finished(t) == pc[t] = "guest" /\ file[t] # << >>

\* From word i to before word j, a file is the section of vCPU c: its state, its
\* system registers and the list with its ids in front of its values, or without
\* a list if that could not be filled.
SectionAt(f, c, i, j) ==
  /\ f[i].kind = "state" /\ f[i].cpu = c
  /\ f[i + 1].kind = "system" /\ f[i + 1].cpu = c
  /\ \/ c \in Unlistable /\ j = i + 2
     \/ /\ j = i + LongestSection
        /\ f[i + 2] = ListHeader(c)
        /\ \A r \in 1 .. Registers :
             /\ f[i + 2 + r] = Id(c, r)
             /\ f[i + 2 + Registers + r].kind = "value"
             /\ f[i + 2 + Registers + r].cpu = c

\* The layout a reader relies on, whatever the threads do at the same time: the
\* sections of all vCPUs in their order, then the memory, nothing in front of them,
\* between them or behind (checkpoint_create's loop).
LaidOut ==
  \A t \in Cpus : Finished(t) =>
    \E start \in [0 .. N -> 1 .. Len(file[t])] :
      /\ start[0] = 1
      /\ \A c \in Cpus : SectionAt(file[t], c, start[c], start[c + 1])
      /\ start[N] = Len(file[t]) /\ file[t][start[N]] = Memory

\* "Save complete ARM64 CPU state to buffer": all that is saved of the vCPU that takes
\* the checkpoint is as it was when it came to it, however many others create at the
\* same time and fill the list of this vCPU too, in between its own filling and its
\* copying.  Only a value of it that another thread had read before, and that was out
\* of date when it came, may still get in; in a checkpoint that follows a barrier there
\* is none, for the others only start to read when this vCPU has halted in it.
OwnSectionExact ==
  \A t \in Cpus : Finished(t) /\ t \in undisturbed[t] =>
    \A i \in 1 .. Len(file[t]) :
      IsSaved(file[t][i]) /\ file[t][i].cpu = t => file[t][i].change = began[t][t]

\* Likewise of any vCPU, which may be running or creating, nothing is saved that is
\* older than the checkpoint: no value shows through that an earlier checkpoint has
\* left in the list.
NothingOlder ==
  \A t \in Cpus : Finished(t) =>
    \A i \in 1 .. Len(file[t]) :
      IsSaved(file[t][i]) /\ file[t][i].cpu \in undisturbed[t] =>
        began[t][file[t][i].cpu] <= file[t][i].change

=============================================================================
