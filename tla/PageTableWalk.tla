----------------------------- MODULE PageTableWalk -----------------------------
(* How checkpoint_save_page_tables_to_file collects the guest's page tables:   *)
(* walk_page_tables from each of the two TTBRs, depth first, with one frame of *)
(* the recursion per level on an explicit stack.  The other vCPUs go on        *)
(* writing the tables while it reads them.  Writing what was collected to the  *)
(* file is in CheckpointFile.                                                  *)
EXTENDS Integers, Sequences, FiniteSets

CONSTANTS
  Pages,       \* the 4 KB frames that page table entries may point to
  NoTable,     \* an entry that is invalid or maps a block, a TTBR that is 0
  PTRS,        \* ARM64_PTRS_PER_TABLE
  LEVELS,      \* ARM64_PAGE_TABLE_LEVELS
  MAX_TABLES,  \* MAX_PAGE_TABLES
  MaxWrites    \* bound: entries the guest writes while the walk runs

ASSUME WalkAssumption ==
  /\ NoTable \notin Pages
  /\ PTRS \in Nat \ {0}
  /\ LEVELS \in Nat \ {0}
  /\ MAX_TABLES \in Nat \ {0}
  /\ MaxWrites \in Nat

Slots == 0 .. PTRS - 1
Levels == 0 .. LEVELS - 1
Roots == {0, 1}              \* TTBR0_EL1 and TTBR1_EL1
Pointers == Pages \cup {NoTable}

\* PageTableEntry: an address, a level and a copy of the 4 KB found there.  A
\* read is one step: the guest writes its entries in any order, so what a torn
\* read finds, another order of its writes leaves.
Entry == [addr : Pages, level : Levels, data : [Slots -> Pointers]]

VARIABLES
  memory,  \* every frame, read as a table
  writes,  \* entries written so far
  ttbr,    \* get_ttbr_base of the two registers, as first_cpu had them
  root,    \* the TTBR being walked, 2 when both are done
  saved,   \* ttbr0_entries and ttbr1_entries, their counts the lengths
  stack    \* the recursion: at is the saved table, next the loop index i

walkVars == <<root, saved, stack>>
vars == <<memory, writes, ttbr, walkVars>>

Init ==
  /\ memory \in [Pages -> [Slots -> Pointers]]
  /\ writes = 0
  /\ ttbr \in [Roots -> Pointers]
  /\ root = 0
  /\ saved = [r \in Roots |-> << >>]
  /\ stack = << >>

-----------------------------------------------------------------------------
(* walk_page_tables                                                            *)

Depth == Len(stack)
Frame == stack[Depth]               \* the innermost call
Current == saved[root][Frame.at]    \* its local copy, which is what it saved

\* Read the table at page and save it: the call recurses into it next.
Visit(page, level, callers) ==
  /\ saved' = [saved EXCEPT ![root] =
                 Append(@, [addr |-> page, level |-> level, data |-> memory[page]])]
  /\ stack' = Append(callers, [at |-> Len(saved[root]) + 1, next |-> 0])

\* Fault for the checks: the tables of the leaf level are left out.
LoopingShort == stack # << >> /\ Current.level < LEVELS - 2 /\ Frame.next < PTRS

\* The loop of the innermost call, which only a table above the leaf level has.
Looping == stack # << >> /\ Current.level < LEVELS - 1 /\ Frame.next < PTRS

\* The stack when the innermost call has gone on to its next entry.
NextSlot == [stack EXCEPT ![Depth].next = @ + 1]

\* Fault for the checks: the recursion follows the table as it is by now.
PteLive == memory[Current.addr][Frame.next]

\* The entry the loop looks at, when it is valid and points to a table.
Pte == Current.data[Frame.next]

\* "Recursively walk next level", which reads and saves the table there ...
Descend ==
  /\ Looping
  /\ Pte # NoTable
  /\ Len(saved[root]) < MAX_TABLES
  /\ Visit(Pte, Current.level + 1, NextSlot)
  /\ UNCHANGED <<memory, writes, ttbr, root>>

\* Fault for the checks: the loop does not go on past an entry it has no room for.
AtLimitAgain ==
  /\ Looping
  /\ Pte # NoTable
  /\ Len(saved[root]) >= MAX_TABLES
  /\ UNCHANGED vars

\* ... or returns at once, as the entries are used up.
AtLimit ==
  /\ Looping
  /\ Pte # NoTable
  /\ Len(saved[root]) >= MAX_TABLES
  /\ stack' = NextSlot
  /\ UNCHANGED <<memory, writes, ttbr, root, saved>>

NotATable ==
  /\ Looping
  /\ Pte = NoTable
  /\ stack' = NextSlot
  /\ UNCHANGED <<memory, writes, ttbr, root, saved>>

\* Fault for the checks: the loop stops one entry short.
ReturnEarly ==
  /\ stack # << >>
  /\ Current.level = LEVELS - 1 \/ Frame.next = PTRS - 1
  /\ stack' = SubSeq(stack, 1, Depth - 1)
  /\ UNCHANGED <<memory, writes, ttbr, root, saved>>

\* The innermost call returns.
Return ==
  /\ stack # << >>
  /\ ~ Looping
  /\ stack' = SubSeq(stack, 1, Depth - 1)
  /\ UNCHANGED <<memory, writes, ttbr, root, saved>>

-----------------------------------------------------------------------------
(* checkpoint_save_page_tables_to_file                                         *)

WalkRoot ==
  /\ root \in Roots
  /\ saved[root] = << >>
  /\ ttbr[root] # NoTable
  /\ Visit(ttbr[root], 0, << >>)
  /\ UNCHANGED <<memory, writes, ttbr, root>>

\* The walk of this TTBR is over, or there is none: it is 0.
RootDone ==
  /\ root \in Roots
  /\ stack = << >>
  /\ saved[root] # << >> \/ ttbr[root] = NoTable
  /\ root' = root + 1
  /\ UNCHANGED <<memory, writes, ttbr, saved, stack>>

Walk == Descend \/ AtLimit \/ NotATable \/ Return \/ WalkRoot \/ RootDone

\* A vCPU that is not held writes a page table entry.
GuestWrites ==
  /\ root \in Roots
  /\ writes < MaxWrites
  /\ writes' = writes + 1
  /\ \E page \in Pages, slot \in Slots, to \in Pointers :
       memory' = [memory EXCEPT ![page][slot] = to]
  /\ UNCHANGED <<ttbr, walkVars>>

Next == Walk \/ GuestWrites

Spec == Init /\ [][Next]_vars

\* The walk is one thread's straight loop, that nothing blocks.
FairSpec == Spec /\ WF_vars(Walk)

-----------------------------------------------------------------------------

Finished == root = 2

WalkTypeOK ==
  /\ memory \in [Pages -> [Slots -> Pointers]]
  /\ writes \in 0 .. MaxWrites
  /\ ttbr \in [Roots -> Pointers]
  /\ root \in 0 .. 2
  /\ saved \in [Roots -> Seq(Entry)]
  /\ \A r \in Roots : Len(saved[r]) <= MAX_TABLES
  /\ stack \in Seq([at : Nat \ {0}, next : 0 .. PTRS])
  /\ root = 2 => stack = << >>
  /\ \A d \in 1 .. Depth : stack[d].at <= Len(saved[root])
  /\ Depth <= LEVELS

\* Entry e points to table f, one level further down.
RefersTo(e, f) ==
  f.level = e.level + 1 /\ \E slot \in Slots : e.data[slot] = f.addr

\* However the guest rewrites its tables meanwhile, the file can be followed from
\* the root: every table saved after the first is one that a table saved before
\* it points to, as it was saved.
Connected ==
  \A r \in Roots : \A k \in 1 .. Len(saved[r]) :
    IF k = 1
      THEN saved[r][k].addr = ttbr[r] /\ saved[r][k].level = 0
      ELSE \E m \in 1 .. k - 1 : RefersTo(saved[r][m], saved[r][k])

\* Nor does it lead out of the file, when the walk was not cut off: every table
\* that a saved one points to is saved, at the level it is pointed to from.
NothingDangles ==
  \A r \in Roots : r < root /\ Len(saved[r]) < MAX_TABLES =>
    \A k \in 1 .. Len(saved[r]), slot \in Slots :
      LET e == saved[r][k]
      IN  e.level < LEVELS - 1 /\ e.data[slot] # NoTable =>
            \E f \in {saved[r][m] : m \in 1 .. Len(saved[r])} :
              f.addr = e.data[slot] /\ f.level = e.level + 1

\* The tables that the entries of the tables in a set of frames point to, as
\* memory is now.
PointedTo(frames) == {memory[page][slot] : page \in frames, slot \in Slots} \ {NoTable}

\* The frames that a walk of hops steps from TTBR r reaches.
Reached(r) ==
  LET after[hops \in Levels] ==
        IF hops = 0 THEN {ttbr[r]} \ {NoTable} ELSE PointedTo(after[hops - 1])
  IN  after

SavedAt(r, level) ==
  {saved[r][k].addr : k \in {m \in 1 .. Len(saved[r]) : saved[r][m].level = level}}

\* A guest at rest whose walk is not cut off finds its translation tree in the
\* file, level by level, and nothing else.
WholeTree ==
  Finished /\ writes = 0 =>
    \A r \in Roots : Len(saved[r]) < MAX_TABLES =>
      \A level \in Levels : SavedAt(r, level) = Reached(r)[level]

\* Tables that point to each other in a circle do not keep the walk busy for ever.
WalkEnds == <>Finished

=============================================================================
