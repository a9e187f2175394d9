----------------------------- MODULE CheckpointFile -----------------------------
(* The inside of one checkpoint file: checkpoint_create with                   *)
(* checkpoint_serialize_memory_to_file and checkpoint_save_page_tables_to_file, *)
(* write by write, any of which may fail, in a process that may be killed       *)
(* between any two; and what checkpoint_verify_file and                        *)
(* checkpoint_restore_memory make of the file that is left.                    *)
EXTENDS Naturals, Sequences, FiniteSets

CONSTANTS
  MaxRegions,  \* entries of the region array, 32 in the code
  ChunkSize,   \* CHUNK_SIZE
  Machines     \* what is to be saved, one is chosen

\* cpus is the configured number, present how many the machine has; blocks are
\* the RAM blocks in list order; ttbrs says whether the first vCPU has any TTBR
\* set, tables which of the two lead to at least one page table.
MachineType ==
  [cpus : Nat \ {0}, present : Nat,
   blocks : Seq([base : Nat, size : Nat \ {0}]),
   ttbrs : BOOLEAN, tables : SUBSET {0, 1}]

ASSUME FileAssumption ==
  /\ MaxRegions \in Nat \ {0}
  /\ ChunkSize \in Nat \ {0}
  /\ Machines \subseteq MachineType

VARIABLES
  machine,    \* the machine that is saved
  phase,      \* the next write; "closed" when the file has been left
  file,       \* the file, a sequence of units
  written,    \* total_written, in units
  headerPos,  \* header_pos, where a header waits for its second writing
  cpu,        \* the loop index over vCPUs
  region,     \* region_count
  done,       \* how much of the present block is written
  root,       \* the TTBR whose tables are packed next
  packed      \* the TTBRs whose tables are in the file

vars == <<machine, phase, file, written, headerPos, cpu, region, done, root, packed>>

-----------------------------------------------------------------------------

\* What one fwrite leaves is a unit, and so is each entry of the region array.
\* Sizes and positions are counted in units.
Header(size) == [kind |-> "header", cpus |-> machine.cpus, size |-> size]
CpuState(c) == [kind |-> "cpu", cpu |-> c]
MemoryHeader(n) == [kind |-> "memory", regions |-> n]
Entry(b, s) == [kind |-> "entry", base |-> b, size |-> s]
Length == [kind |-> "length"]
Data(b, n) == [kind |-> "data", base |-> b, size |-> n]
TablesHeader(p) == [kind |-> "tables", roots |-> machine.tables, packed |-> p]
Tables(r) == [kind |-> "root", root |-> r]
Devices == [kind |-> "devices"]
Torn == [kind |-> "torn"]  \* the part of a unit that a failed fwrite got out

Blocks == machine.blocks

Empty == Entry(0, 0)

\* The local array of region entries, zero from region_count on.
Regions(n) ==
  [i \in 1 .. MaxRegions |->
     IF i <= n /\ i <= Len(Blocks) THEN Entry(Blocks[i].base, Blocks[i].size) ELSE Empty]

\* fwrite at the end of the file, all of it; total_written is added up.
Write(units) ==
  /\ file' = file \o units
  /\ written' = written + Len(units)

\* fwrite that returns short: some whole units and perhaps a part of the next.
WriteShort(units) ==
  \E n \in 0 .. Len(units) - 1, torn \in {<< >>, <<Torn>>} :
    file' = file \o SubSeq(units, 1, n) \o torn

\* fseek, fwrite and fseek back: units take the places of old ones.
Rewrite(pos, units) ==
  file' = [i \in 1 .. Len(file) |->
             IF i \in pos .. pos + Len(units) - 1 THEN units[i - pos + 1] ELSE file[i]]

Init ==
  /\ machine \in Machines
  /\ phase = "header"
  /\ file = << >>
  /\ written = 0
  /\ headerPos = 0
  /\ cpu = 0
  /\ region = 0
  /\ done = 0
  /\ root = 0
  /\ packed = {}

-----------------------------------------------------------------------------
(* checkpoint_create up to the memory.                                         *)

\* The header has its magic number from the start, and size 0.
WriteHeader ==
  /\ phase = "header"
  /\ Write(<<Header(0)>>)
  /\ phase' = "cpus"
  /\ UNCHANGED <<machine, headerPos, cpu, region, done, root, packed>>

WriteCpu ==
  /\ phase = "cpus"
  /\ cpu < machine.cpus /\ cpu < machine.present
  /\ Write(<<CpuState(cpu)>>)
  /\ cpu' = cpu + 1
  /\ UNCHANGED <<machine, phase, headerPos, region, done, root, packed>>

\* A configured vCPU that does not exist has size 0, and fwrite of no bytes is a
\* failure.
CpuMissing ==
  /\ phase = "cpus"
  /\ machine.present <= cpu /\ cpu < machine.cpus
  /\ phase' = "closed"
  /\ UNCHANGED <<machine, file, written, headerPos, cpu, region, done, root, packed>>

CpusDone ==
  /\ phase = "cpus"
  /\ cpu = machine.cpus
  /\ phase' = "memory"
  /\ UNCHANGED <<machine, file, written, headerPos, cpu, region, done, root, packed>>

-----------------------------------------------------------------------------
(* checkpoint_serialize_memory_to_file.                                        *)

\* Fault for the checks: the number of blocks is in the header from the start.
WriteMemoryHeaderCounted ==
  /\ phase = "memory"
  /\ headerPos' = Len(file) + 1
  /\ Write(<<MemoryHeader(IF Len(Blocks) < MaxRegions THEN Len(Blocks) ELSE MaxRegions)>>)
  /\ phase' = "regions"
  /\ UNCHANGED <<machine, cpu, region, done, root, packed>>

WriteMemoryHeader ==
  /\ phase = "memory"
  /\ headerPos' = Len(file) + 1
  /\ Write(<<MemoryHeader(0)>>)
  /\ phase' = "regions"
  /\ UNCHANGED <<machine, cpu, region, done, root, packed>>

WriteRegions ==
  /\ phase = "regions"
  /\ Write(Regions(0))
  /\ phase' = "block"
  /\ UNCHANGED <<machine, headerPos, cpu, region, done, root, packed>>

\* Blocks beyond the array are left out with a warning.
MoreBlocks == region < Len(Blocks) /\ region < MaxRegions

Block == Blocks[region + 1]

\* Fault for the checks: the address is not taken anew for each block.
AddressKept == Blocks[1].base + done

\* current_offset, the guest address of the present chunk.
Address == Block.base + done

Chunk == IF Block.size - done > ChunkSize THEN ChunkSize ELSE Block.size - done

WriteLength ==
  /\ phase = "block"
  /\ MoreBlocks
  /\ Write(<<Length>>)
  /\ phase' = "data"
  /\ UNCHANGED <<machine, headerPos, cpu, region, done, root, packed>>

\* The chunk is read from guest memory at its address, compressed and written.
WriteData ==
  /\ phase = "data"
  /\ Write(<<Data(Address, Chunk)>>)
  /\ IF done + Chunk = Block.size
     THEN region' = region + 1 /\ done' = 0
     ELSE region' = region /\ done' = done + Chunk
  /\ phase' = "block"
  /\ UNCHANGED <<machine, headerPos, cpu, root, packed>>

\* compress2 fails, before anything of the chunk is written.
CompressFails ==
  /\ phase = "block"
  /\ MoreBlocks
  /\ phase' = "closed"
  /\ UNCHANGED <<machine, file, written, headerPos, cpu, region, done, root, packed>>

\* Fault for the checks: the number of all blocks, kept or not.
UpdateCountOfAll ==
  /\ phase = "block"
  /\ ~ MoreBlocks
  /\ Rewrite(headerPos, <<MemoryHeader(Len(Blocks))>>)
  /\ phase' = "array"
  /\ UNCHANGED <<machine, written, headerPos, cpu, region, done, root, packed>>

UpdateCount ==
  /\ phase = "block"
  /\ ~ MoreBlocks
  /\ Rewrite(headerPos, <<MemoryHeader(region)>>)
  /\ phase' = "array"
  /\ UNCHANGED <<machine, written, headerPos, cpu, region, done, root, packed>>

\* Fault for the checks: only the count is written again.
UpdateRegionsNot ==
  /\ phase = "array"
  /\ phase' = "tables"
  /\ UNCHANGED <<machine, file, written, headerPos, cpu, region, done, root, packed>>

UpdateRegions ==
  /\ phase = "array"
  /\ Rewrite(headerPos + 1, Regions(region))
  /\ phase' = "tables"
  /\ UNCHANGED <<machine, written, headerPos, cpu, region, done, root, packed>>

\* A short fwrite of the array replaces some of the entries.
UpdateRegionsFails ==
  /\ phase = "array"
  /\ \E n \in 0 .. MaxRegions - 1 : Rewrite(headerPos + 1, SubSeq(Regions(region), 1, n))
  /\ phase' = "closed"
  /\ UNCHANGED <<machine, written, headerPos, cpu, region, done, root, packed>>

-----------------------------------------------------------------------------
(* checkpoint_save_page_tables_to_file.                                        *)

\* Without any TTBR there is an empty header and nothing more.
WriteTablesHeader ==
  /\ phase = "tables"
  /\ headerPos' = Len(file) + 1
  /\ Write(<<TablesHeader({})>>)
  /\ phase' = IF machine.ttbrs THEN "pack" ELSE "devices"
  /\ UNCHANGED <<machine, cpu, region, done, root, packed>>

WriteTablesLength ==
  /\ phase = "pack"
  /\ root \in machine.tables
  /\ Write(<<Length>>)
  /\ phase' = "root"
  /\ UNCHANGED <<machine, headerPos, cpu, region, done, root, packed>>

WriteTables ==
  /\ phase = "root"
  /\ Write(<<Tables(root)>>)
  /\ packed' = packed \cup {root}
  /\ root' = root + 1
  /\ phase' = "pack"
  /\ UNCHANGED <<machine, headerPos, cpu, region, done>>

\* Either this TTBR has no tables, or compress2 fails, which passes in silence.
SkipTables ==
  /\ phase = "pack"
  /\ root < 2
  /\ root' = root + 1
  /\ UNCHANGED <<machine, phase, file, written, headerPos, cpu, region, done, packed>>

\* A failure of this write is only reported.
UpdateTablesHeader ==
  /\ phase = "pack"
  /\ root = 2
  /\ \/ Rewrite(headerPos, <<TablesHeader(packed)>>)
     \/ file' = file
  /\ phase' = "devices"
  /\ UNCHANGED <<machine, written, headerPos, cpu, region, done, root, packed>>

\* The failure of a part of the page tables is called non-fatal: what got out
\* stays where it is, and the devices follow.
TablesFail ==
  /\ \/ phase = "tables" /\ WriteShort(<<TablesHeader({})>>)
     \/ phase = "pack" /\ root \in machine.tables /\ WriteShort(<<Length>>)
     \/ phase = "root" /\ WriteShort(<<Tables(root)>>)
  /\ phase' = "devices"
  /\ UNCHANGED <<machine, written, headerPos, cpu, region, done, root, packed>>

-----------------------------------------------------------------------------
(* checkpoint_create after the page tables, and its failures.                  *)

WriteDevices ==
  /\ phase = "devices"
  /\ Write(<<Devices>>)
  /\ phase' = "size"
  /\ UNCHANGED <<machine, headerPos, cpu, region, done, root, packed>>

WriteSize ==
  /\ phase = "size"
  /\ Rewrite(1, <<Header(written)>>)
  /\ phase' = "closed"
  /\ UNCHANGED <<machine, written, headerPos, cpu, region, done, root, packed>>

\* What the next fwrite at the end of the file would write, where its failure is
\* fatal.
Pending ==
  CASE phase = "header" -> <<Header(0)>>
    [] phase = "cpus" -> <<CpuState(cpu)>>
    [] phase = "memory" -> <<MemoryHeader(0)>>
    [] phase = "regions" -> Regions(0)
    [] phase = "block" -> <<Length>>
    [] phase = "data" -> <<Data(Address, Chunk)>>
    [] phase = "devices" -> <<Devices>>

\* Fault for the checks: a failure in the memory is taken as lightly as one in
\* the page tables.
WriteFailsLightly ==
  /\ phase \in {"header", "cpus", "memory", "regions", "block", "data", "devices"}
  /\ phase = "cpus" => cpu < machine.cpus /\ cpu < machine.present
  /\ phase = "block" => MoreBlocks
  /\ WriteShort(Pending)
  /\ phase' = IF phase \in {"block", "data"} THEN "tables" ELSE "closed"
  /\ UNCHANGED <<machine, written, headerPos, cpu, region, done, root, packed>>

WriteFails ==
  /\ phase \in {"header", "cpus", "memory", "regions", "block", "data", "devices"}
  /\ phase = "cpus" => cpu < machine.cpus /\ cpu < machine.present
  /\ phase = "block" => MoreBlocks
  /\ WriteShort(Pending)
  /\ phase' = "closed"
  /\ UNCHANGED <<machine, written, headerPos, cpu, region, done, root, packed>>

\* The process is killed, or the second writing of a header fails: the file
\* stays as it is.
Stop ==
  /\ phase # "closed"
  /\ phase' = "closed"
  /\ UNCHANGED <<machine, file, written, headerPos, cpu, region, done, root, packed>>

Next ==
  \/ WriteHeader \/ WriteCpu \/ CpuMissing \/ CpusDone
  \/ WriteMemoryHeader \/ WriteRegions \/ WriteLength \/ WriteData \/ CompressFails
  \/ UpdateCount \/ UpdateRegions \/ UpdateRegionsFails
  \/ WriteTablesHeader \/ WriteTablesLength \/ WriteTables \/ SkipTables
  \/ UpdateTablesHeader \/ TablesFail
  \/ WriteDevices \/ WriteSize \/ WriteFails \/ Stop

Spec == Init /\ [][Next]_vars

-----------------------------------------------------------------------------
(* The readers.                                                                *)

\* checkpoint_verify_file: there is a header, with its magic number.
Verifies == Len(file) > 0 /\ file[1].kind = "header"

\* The memory follows the header and one section for each vCPU it names.
MemoryAt == file[1].cpus + 2

HasMemory == Len(file) >= MemoryAt /\ file[MemoryAt].kind = "memory"

\* num_regions, the entries behind it, and where checkpoint_restore_memory looks
\* for the i-th block: behind that many entries, one chunk for each block.
Claimed == file[MemoryAt].regions
EntryOf(i) == file[MemoryAt + i]
BlockAt(i) == MemoryAt + Claimed + 2 * i - 1

\* The i-th block is decompressed and has the size of its entry.  Anything that
\* is not a length in front of compressed data fails, a zero entry among them.
Restores(i) ==
  /\ BlockAt(i) < Len(file)
  /\ file[BlockAt(i)] = Length
  /\ file[BlockAt(i) + 1].kind = "data"
  /\ file[BlockAt(i) + 1].size = EntryOf(i).size

\* The loop goes on to block i only when those before it have been restored.
Reaches(i) == i \in 1 .. Claimed /\ \A j \in 1 .. i - 1 : Restores(j)

-----------------------------------------------------------------------------

Phases ==
  {"header", "cpus", "memory", "regions", "block", "data", "array",
   "tables", "pack", "root", "devices", "size", "closed"}

Unit ==
  [kind : {"header"}, cpus : Nat, size : Nat]
    \cup [kind : {"cpu"}, cpu : Nat]
    \cup [kind : {"memory"}, regions : Nat]
    \cup [kind : {"entry", "data"}, base : Nat, size : Nat]
    \cup [kind : {"length", "devices", "torn"}]
    \cup [kind : {"tables"}, roots : SUBSET {0, 1}, packed : SUBSET {0, 1}]
    \cup [kind : {"root"}, root : {0, 1}]

\* The file is made of the units above and the counters stay in their ranges;
\* among them, the present block is never exceeded and region_count never leaves
\* the array (checkpoint_serialize_memory_to_file).
FileTypeOK ==
  /\ machine \in Machines
  /\ phase \in Phases
  /\ file \in Seq(Unit)
  /\ written \in 0 .. Len(file)
  /\ headerPos \in 0 .. Len(file)
  /\ cpu \in 0 .. machine.cpus
  /\ region \in 0 .. MaxRegions /\ region <= Len(Blocks)
  /\ done \in Nat
  /\ done > 0 => region < Len(Blocks) /\ done < Blocks[region + 1].size
  /\ root \in 0 .. 2
  /\ packed \subseteq machine.tables

\* The number of regions is put into the memory header last: whenever a file
\* claims a block, wherever its writing was cut off, every byte of that block is
\* in it (checkpoint_serialize_memory_to_file).
CountMeansData ==
  Verifies /\ HasMemory =>
    \A i \in 1 .. Claimed : \A x \in 0 .. Blocks[i].size - 1 :
      \E p \in 1 .. Len(file) - 1 :
        /\ file[p] = Length
        /\ file[p + 1].kind = "data"
        /\ file[p + 1].base <= Blocks[i].base + x
        /\ Blocks[i].base + x < file[p + 1].base + file[p + 1].size

\* The size in the header is what commits a checkpoint: when it is not 0, all
\* vCPUs, all blocks the array has room for and the devices are in the file, with
\* the right entries, and the size is that of all units written whole
\* (checkpoint_create).
SizeMeansWhole ==
  Verifies /\ file[1].size > 0 =>
    /\ \A c \in 1 .. machine.cpus : file[c + 1] = CpuState(c - 1)
    /\ HasMemory
    /\ Claimed <= Len(Blocks) /\ Claimed <= MaxRegions
    /\ Claimed = Len(Blocks) \/ Claimed = MaxRegions
    /\ \A i \in 1 .. MaxRegions : EntryOf(i) = Regions(Claimed)[i]
    /\ file[Len(file)] = Devices
    /\ file[1].size + Cardinality({p \in 1 .. Len(file) : file[p] = Torn}) = Len(file)

\* Whatever file is left, checkpoint_restore_memory finds an entry and a length
\* for every region it gets to, and behind a length the data: it does not read
\* past the end of the buffer, though it never looks where that is.
RestoreStaysInside ==
  Verifies /\ HasMemory =>
    \A i \in 1 .. Claimed : Reaches(i) =>
      /\ MemoryAt + i <= Len(file) /\ EntryOf(i).kind = "entry"
      /\ BlockAt(i) <= Len(file)
      /\ file[BlockAt(i)] = Length =>
           BlockAt(i) < Len(file) /\ file[BlockAt(i) + 1].kind = "data"

\* A block that checkpoint_restore_memory reports as restored is the block that
\* was saved, whole and at its own address.
RestorePutsBack ==
  Verifies /\ HasMemory =>
    \A i \in 1 .. Claimed : Reaches(i) /\ Restores(i) =>
      /\ EntryOf(i).base = Blocks[i].base
      /\ file[BlockAt(i) + 1] = Data(Blocks[i].base, Blocks[i].size)

\* What of a committed file can be restored, on every machine.  The reader looks for
\* the data behind as many entries as there are regions and takes one chunk for a
\* region, the writer puts them behind the whole array and starts a new chunk every
\* ChunkSize: the loop of checkpoint_restore_memory gets exactly as far as the array
\* is full and the blocks fit a chunk each.  On a machine with fewer blocks than
\* MaxRegions it fails at the first one.
RestoresExactly ==
  Verifies /\ file[1].size > 0 =>
    \A i \in 1 .. Claimed : Reaches(i) =>
      (Restores(i) <=> Claimed = MaxRegions /\ EntryOf(i).size <= ChunkSize)

\* "Restore memory from checkpoint" (the comment above checkpoint_restore_memory): the
\* memory of a checkpoint that was written to the end can be restored.
MemoryRestored ==
  Verifies /\ file[1].size > 0 => \A i \in 1 .. Claimed : Restores(i)

=============================================================================
