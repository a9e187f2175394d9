------------------------------ MODULE CpRegRestore ------------------------------
(* The reader of the vCPU sections that CpuSections writes:                     *)
(* checkpoint_restore_dynamic_cpregs, called for one vCPU after the other on    *)
(* the buffer of a whole file, and what restoring does to the register list     *)
(* that the next checkpoint is saved from.  The files come from this machine,   *)
(* or from others with longer, shorter or other lists.                          *)
EXTENDS Naturals, Sequences, SequencesExt

CONSTANTS
  N,          \* vCPUs
  Ids,        \* register ids
  List,       \* ids of the registers of this machine: cpreg_indexes at the start
  Foreign,    \* the register lists of the machines other files come from
  MaxChanges  \* bound: how often guest code changes the registers

Cpus == 0 .. N - 1
Allocated == Len(List)
Registers == {List[i] : i \in 1 .. Allocated}

ASSUME RestoreAssumption ==
  /\ N \in Nat \ {0}
  /\ List \in Seq(Ids) /\ IsInjective(List)
  /\ Foreign \subseteq Seq(Ids) /\ \A l \in Foreign : IsInjective(l)
  /\ MaxChanges \in Nat

VARIABLES
  regs,     \* the registers of each vCPU, as the change their values are from
  indexes,  \* cpreg_indexes of each vCPU
  values,   \* cpreg_values of each vCPU
  len,      \* cpreg_array_len of each vCPU
  changes,  \* how often guest code has changed the registers
  own,      \* the file that this machine has saved last
  loading,  \* the file in the buffer
  cpu,      \* the vCPU whose section comes next, N after the last
  pos       \* offset: the word that is read next

vars == <<regs, indexes, values, len, changes, own, loading, cpu, pos>>

-----------------------------------------------------------------------------

\* A file, by what is in the section of each vCPU: no list, or ids and values.
NoList == [listed |-> FALSE, ids |-> << >>, values |-> << >>]
Listing(ids, vals) == [listed |-> TRUE, ids |-> ids, values |-> vals]

\* Values in files of other machines are from no change here, and differ from
\* vCPU to vCPU and from register to register.
ForeignValue(c, i) == 1000 * (c + 1) + i

ForeignFiles ==
  {[c \in Cpus |-> IF c \in missing THEN NoList
                   ELSE Listing(l, [i \in 1 .. Len(l) |-> ForeignValue(c, i)])] :
     l \in Foreign, missing \in SUBSET Cpus}

\* Its words, as CpuSections lays them out: a count, an id or a value in each.
Word(kind, x) == [kind |-> kind, is |-> x]

SectionWords(s) ==
  <<Word("state", 0), Word("system", 0)>>
    \o IF s.listed
       THEN <<Word("list", Len(s.ids))>>
              \o [i \in 1 .. Len(s.ids) |-> Word("id", s.ids[i])]
              \o [i \in 1 .. Len(s.ids) |-> Word("value", s.values[i])]
       ELSE << >>

Words(f) == Append(FlattenSeq([i \in 1 .. N |-> SectionWords(f[i - 1])]), Word("memory", 0))

Init ==
  /\ regs = [c \in Cpus |-> [r \in Registers |-> 0]]
  /\ indexes = [c \in Cpus |-> List]
  /\ values = [c \in Cpus |-> [i \in 1 .. Allocated |-> 0]]
  /\ len = [c \in Cpus |-> Allocated]
  /\ changes = 0
  /\ own = [c \in Cpus |-> NoList]
  /\ loading = own
  /\ cpu = N
  /\ pos = 1

\* Guest code gives every register of every vCPU a new value.
RunGuest ==
  /\ cpu = N
  /\ changes < MaxChanges
  /\ changes' = changes + 1
  /\ regs' = [c \in Cpus |-> [r \in Registers |-> changes + 1]]
  /\ UNCHANGED <<indexes, values, len, own, loading, cpu, pos>>

\* write_cpustate_to_list: the registers in the list that the machine has.
Filled(c) ==
  [i \in 1 .. Allocated |->
     IF i <= len[c] /\ indexes[c][i] \in Registers THEN regs[c][indexes[c][i]] ELSE values[c][i]]

\* It fails when there is one in it that the machine does not have.
Fillable(c) == \A i \in 1 .. len[c] : indexes[c][i] \in Registers

\* checkpoint_save_dynamic_cpregs for every vCPU.
Save ==
  /\ cpu = N
  /\ values' = [c \in Cpus |-> Filled(c)]
  /\ own' = [c \in Cpus |->
               IF Fillable(c)
               THEN Listing(SubSeq(indexes[c], 1, len[c]), SubSeq(Filled(c), 1, len[c]))
               ELSE NoList]
  /\ UNCHANGED <<regs, indexes, len, changes, loading, cpu, pos>>

Load ==
  /\ cpu = N
  /\ \E f \in ForeignFiles \cup {own} : loading' = f
  /\ cpu' = 0
  /\ pos' = 1
  /\ UNCHANGED <<regs, indexes, values, len, changes, own>>

\* The words of the fixed part are stepped over.
ListAt == pos + 2

Claimed == Words(loading)[ListAt].is

HasList == Words(loading)[ListAt].kind = "list"

\* A word that is no list header fails the test of the magic number, and the
\* offset stays where it is.  The two other early returns are not reached: every
\* list is written with version 1, and only vCPUs that exist are restored.
Reject ==
  /\ cpu < N
  /\ ~ HasList
  /\ pos' = ListAt
  /\ cpu' = cpu + 1
  /\ UNCHANGED <<regs, indexes, values, len, changes, own, loading>>

\* Fault for the checks: the warning does not truncate.
CountAsClaimed == Claimed

\* Fault for the checks: one register too many is truncated.
CountBelow == IF Claimed < len[cpu] THEN Claimed ELSE len[cpu] - 1

\* What is more than cpreg_array_len is truncated.
Count == IF Claimed < len[cpu] THEN Claimed ELSE len[cpu]

\* Fault for the checks: what was truncated is not stepped over.
StepByCount == Count

\* The offset is moved on over the whole array in the file.
Step == Claimed

\* The first words of the two arrays replace the beginning of the lists.
Loaded(old, at) ==
  [i \in 1 .. (IF Count > Allocated THEN Count ELSE Allocated) |->
     IF i <= Count THEN Words(loading)[at + i].is ELSE old[i]]

\* Fault for the checks: the values come in the order of the machine's own list.
RestoredInOrder(r) ==
  IF \E i \in 1 .. Count : indexes[cpu][i] = r
  THEN values'[cpu][CHOOSE i \in 1 .. Count : indexes[cpu][i] = r]
  ELSE regs[cpu][r]

\* write_list_to_cpustate: the registers in the list that the machine has.
Restored(r) ==
  LET ids == indexes'[cpu] IN
  IF \E i \in 1 .. Count : ids[i] = r
  THEN values'[cpu][CHOOSE i \in 1 .. Count : ids[i] = r]
  ELSE regs[cpu][r]

Restore ==
  /\ cpu < N
  /\ HasList
  /\ indexes' = [indexes EXCEPT ![cpu] = Loaded(@, ListAt)]
  /\ values' = [values EXCEPT ![cpu] = Loaded(@, ListAt + Step)]
  /\ len' = [len EXCEPT ![cpu] = Count]
  /\ regs' = [regs EXCEPT ![cpu] = [r \in Registers |-> Restored(r)]]
  /\ pos' = ListAt + 1 + 2 * Step
  /\ cpu' = cpu + 1
  /\ UNCHANGED <<changes, own, loading>>

Next == RunGuest \/ Save \/ Load \/ Reject \/ Restore

Spec == Init /\ [][Next]_vars

-----------------------------------------------------------------------------

\* cpreg_array_len stays within what is allocated, and the two arrays as long.
RestoreTypeOK ==
  /\ changes \in 0 .. MaxChanges
  /\ cpu \in 0 .. N
  /\ pos \in 1 .. Len(Words(loading))
  /\ \A c \in Cpus :
       /\ len[c] \in 0 .. Allocated
       /\ Len(indexes[c]) = Allocated
       /\ Len(values[c]) = Allocated
       /\ DOMAIN regs[c] = Registers

\* The caller depends on the offset alone to find the next section: whatever is
\* truncated or missing, it is at the memory when all vCPUs are restored.
StaysAligned ==
  cpu = N /\ pos > 1 => Words(loading)[pos].kind = "memory"

Saved(c, r, v) ==
  \E i \in 1 .. Len(loading[c].ids) : loading[c].ids[i] = r /\ loading[c].values[i] = v

\* The registers of a vCPU that has been restored are those that the file has for
\* this very vCPU, or have not been touched.
RestoredFromOwn ==
  [][\A c \in Cpus : regs'[c] # regs[c] =>
       \/ changes' # changes
       \/ /\ c = cpu
          /\ \A r \in Registers : regs'[c][r] = regs[c][r] \/ Saved(c, r, regs'[c][r])]_vars

\* "Validate count - must not exceed allocated array size": only what exceeds the
\* present cpreg_array_len is lost.  Every other register of the file that the
\* machine has is restored, however often the list and its length were replaced by
\* longer, shorter or reordered ones, and saved again, before.
FittingRestored ==
  [][Restore =>
       \A i \in 1 .. len[cpu] : i <= Len(loading[cpu].ids) /\ loading[cpu].ids[i] \in Registers =>
         regs'[cpu][loading[cpu].ids[i]] = loading[cpu].values[i]]_vars

=============================================================================
