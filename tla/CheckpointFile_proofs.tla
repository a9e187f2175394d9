------------------------- MODULE CheckpointFile_proofs -------------------------
(* Proofs about CheckpointFile for every machine, every number of entries and   *)
(* every chunk size: what a file claims is in it, wherever its writing stops,   *)
(* and the restore stays inside and puts every block back in its place.         *)
EXTENDS CheckpointFile, SequenceTheorems, FiniteSetTheorems, TLAPS

USE FileAssumption

-----------------------------------------------------------------------------
(* Where things are in a file f.                                               *)

At == machine.cpus + 2
ArrayEnd == At + MaxRegions
ChunkAt(j) == ArrayEnd + 2 * j

CpusIn(f, n) == Len(f) > n /\ \A c \in 1 .. n : f[c + 1] = CpuState(c - 1)

CountIs(f, k) == Len(f) >= At /\ f[At] = MemoryHeader(k)

ArrayIs(f, k) == Len(f) >= ArrayEnd /\ \A i \in 1 .. MaxRegions : f[At + i] = Regions(k)[i]

\* Each of the first i blocks looks as if it were one chunk.
Straight(f, i) ==
  \A j \in 1 .. i : j <= Len(Blocks) /\ f[ChunkAt(j)].size = Blocks[j].size

\* Behind the array lengths and data, of a chunk at most, alternate, and as long as it looks as if every
\* block were one chunk, it is.
Pairs(f, n) ==
  /\ Len(f) >= ChunkAt(n)
  /\ \A j \in 1 .. n :
       /\ f[ChunkAt(j) - 1] = Length
       /\ f[ChunkAt(j)].kind = "data" /\ f[ChunkAt(j)].size > 0
       /\ f[ChunkAt(j)].size <= ChunkSize
  /\ \A j \in 1 .. n :
       Straight(f, j) => f[ChunkAt(j)] = Data(Blocks[j].base, Blocks[j].size)

\* Byte x of block i is in the data at p.
SavedAt(f, p, i, x) ==
  /\ f[p] = Length
  /\ f[p + 1].kind = "data"
  /\ f[p + 1].base <= Blocks[i].base + x
  /\ Blocks[i].base + x < f[p + 1].base + f[p + 1].size

Saved(f, i, x) == \E p \in ArrayEnd + 1 .. Len(f) - 1 : SavedAt(f, p, i, x)

Covers(f, k, d) ==
  /\ \A i \in 1 .. k : \A x \in 0 .. Blocks[i].size - 1 : Saved(f, i, x)
  /\ \A x \in 0 .. d - 1 : Saved(f, k + 1, x)

TornAt(f) == {p \in 1 .. Len(f) : f[p] = Torn}

-----------------------------------------------------------------------------
(* The invariant: what an open file holds in each phase, and what any file      *)
(* claims.                                                                      *)

AfterArray == {"tables", "pack", "root", "devices", "size"}
AfterCount == {"array"} \cup AfterArray
AfterRegions == {"block", "data"} \cup AfterCount
AfterCpus == {"memory", "regions"} \cup AfterRegions
Started == {"cpus"} \cup AfterCpus

CpusWritten ==
  /\ phase = "header" => file = << >> /\ cpu = 0
  /\ phase \in Started => Len(file) > 0 /\ file[1] = Header(0) /\ CpusIn(file, cpu)
  /\ phase = "cpus" => Len(file) = cpu + 1
  /\ phase \in AfterCpus => cpu = machine.cpus
  /\ phase = "memory" => Len(file) = At - 1
  /\ phase = "regions" => Len(file) = At

MemoryBegun ==
  /\ phase \in {"regions", "block", "data", "array"} => headerPos = At
  /\ phase \in {"regions", "block", "data"} => CountIs(file, 0)
  /\ phase \in {"block", "data", "array"} => ArrayIs(file, 0)

InLoop(n) ==
  /\ Pairs(file, n)
  /\ n >= region
  /\ done > 0 => n > region
  /\ Straight(file, n) => region = n /\ done = 0

BlocksWritten ==
  /\ phase \in {"header", "cpus", "memory", "regions"} => region = 0 /\ done = 0
  /\ phase \in {"block", "data"} => Covers(file, region, done)
  /\ phase = "block" => \E n \in Nat : InLoop(n) /\ Len(file) = ChunkAt(n)
  /\ phase = "data" =>
       /\ MoreBlocks
       /\ \E n \in Nat :
            InLoop(n) /\ Len(file) = ChunkAt(n) + 1 /\ file[ChunkAt(n) + 1] = Length

MemoryDone ==
  /\ phase \in AfterCount =>
       CountIs(file, region) /\ ~ MoreBlocks /\ Pairs(file, region) /\ Covers(file, region, 0)
  /\ phase \in AfterArray => ArrayIs(file, region)
  /\ phase \in {"pack", "root"} =>
       /\ headerPos \in ChunkAt(region) + 1 .. Len(file)
       /\ file[headerPos] = TablesHeader({})
  /\ phase = "root" => root \in machine.tables
  /\ phase = "size" => file[Len(file)] = Devices

TornCounted == written + Cardinality(TornAt(file)) = Len(file)

HeaderRight == Verifies => file[1].cpus = machine.cpus

\* What a file that counts regions holds, open or closed.
ClaimRight ==
  Verifies /\ HasMemory /\ Claimed > 0 =>
    /\ Claimed = region
    /\ Pairs(file, region) /\ Covers(file, region, 0)
    /\ \A i \in 1 .. MaxRegions : file[At + i] \in {Empty, Regions(region)[i]}

OpenInv == CpusWritten /\ MemoryBegun /\ BlocksWritten /\ MemoryDone /\ TornCounted

ClosedInv == HeaderRight /\ ClaimRight /\ SizeMeansWhole

FileInv ==
  /\ FileTypeOK
  /\ phase # "closed" => OpenInv
  /\ phase = "closed" => ClosedInv

-----------------------------------------------------------------------------
(* Units and sequences.                                                        *)

LEMMA MachineFacts ==
  ASSUME machine \in Machines
  PROVE  /\ machine.cpus \in Nat \ {0} /\ machine.present \in Nat
         /\ Blocks \in Seq([base : Nat, size : Nat \ {0}]) /\ Len(Blocks) \in Nat
         /\ \A i \in 1 .. Len(Blocks) : Blocks[i].base \in Nat /\ Blocks[i].size \in Nat \ {0}
         /\ machine.tables \subseteq {0, 1}
         /\ At \in Nat /\ At >= 3 /\ ArrayEnd \in Nat /\ ArrayEnd > At
<1>1. machine \in MachineType
  OBVIOUS
<1>2. /\ machine.cpus \in Nat \ {0} /\ machine.present \in Nat
      /\ Blocks \in Seq([base : Nat, size : Nat \ {0}]) /\ machine.tables \subseteq {0, 1}
  BY <1>1 DEF MachineType, Blocks
<1>3. /\ Len(Blocks) \in Nat
      /\ \A i \in 1 .. Len(Blocks) : Blocks[i] \in [base : Nat, size : Nat \ {0}]
  <2> DEFINE S == [base : Nat, size : Nat \ {0}]
  <2>1. Blocks \in Seq(S)
    BY <1>2
  <2> HIDE DEF S
  <2>2. Len(Blocks) \in Nat /\ \A i \in 1 .. Len(Blocks) : Blocks[i] \in S
    BY <2>1, LenProperties, ElementOfSeq
  <2> QED
    BY <2>2 DEF S
<1>4. \A i \in 1 .. Len(Blocks) : Blocks[i].base \in Nat /\ Blocks[i].size \in Nat \ {0}
  BY <1>3
<1>5. At \in Nat /\ At >= 3 /\ ArrayEnd \in Nat /\ ArrayEnd > At
  BY <1>2 DEF At, ArrayEnd
<1> QED
  BY <1>2, <1>3, <1>4, <1>5

LEMMA UnitFacts ==
  ASSUME machine \in Machines
  PROVE  /\ \A n \in Nat : /\ Header(n) \in Unit /\ Header(n).kind = "header"
                           /\ Header(n).size = n /\ Header(n).cpus = machine.cpus
         /\ \A n \in Nat : CpuState(n) \in Unit
         /\ \A n \in Nat : /\ MemoryHeader(n) \in Unit /\ MemoryHeader(n).kind = "memory"
                           /\ MemoryHeader(n).regions = n
         /\ \A b, n \in Nat : Entry(b, n) \in Unit /\ Entry(b, n).kind = "entry"
         /\ \A b, n \in Nat : Data(b, n) \in Unit /\ Data(b, n).kind = "data"
         /\ \A b, n \in Nat : Data(b, n).base = b /\ Data(b, n).size = n
         /\ \A b, n \in Nat : Entry(b, n).base = b /\ Entry(b, n).size = n
         /\ Length \in Unit /\ Length.kind = "length"
         /\ Devices \in Unit /\ Devices.kind = "devices"
         /\ Torn \in Unit /\ Torn.kind = "torn"
         /\ \A r \in {0, 1} : Tables(r) \in Unit /\ Tables(r).kind = "root"
         /\ \A q \in SUBSET {0, 1} : TablesHeader(q) \in Unit /\ TablesHeader(q).kind = "tables"
         /\ \A n \in Nat : CpuState(n).kind = "cpu"
BY MachineFacts
   DEF Unit, Header, CpuState, MemoryHeader, Entry, Data, Length, Devices, Torn, Tables, TablesHeader

LEMMA RegionsFacts ==
  ASSUME machine \in Machines, NEW n \in Nat
  PROVE  /\ Regions(n) \in Seq(Unit) /\ Len(Regions(n)) = MaxRegions
         /\ \A i \in 1 .. MaxRegions :
              /\ Regions(n)[i] \in Unit /\ Regions(n)[i].kind = "entry"
              /\ Regions(n)[i] =
                   IF i <= n /\ i <= Len(Blocks) THEN Entry(Blocks[i].base, Blocks[i].size)
                                                 ELSE Empty
<1> DEFINE e(i) == IF i <= n /\ i <= Len(Blocks) THEN Entry(Blocks[i].base, Blocks[i].size)
                                                 ELSE Empty
<1>1. \A i \in 1 .. MaxRegions : e(i) \in Unit /\ e(i).kind = "entry"
  <2> TAKE i \in 1 .. MaxRegions
  <2>1. CASE i <= n /\ i <= Len(Blocks)
    <3>1. i \in 1 .. Len(Blocks)
      BY <2>1, MachineFacts
    <3>2. Blocks[i].base \in Nat /\ Blocks[i].size \in Nat
      BY <3>1, MachineFacts
    <3>3. e(i) = Entry(Blocks[i].base, Blocks[i].size)
      BY <2>1
    <3> HIDE DEF e
    <3> QED
      BY <3>2, <3>3, UnitFacts
  <2>2. CASE ~ (i <= n /\ i <= Len(Blocks))
    BY <2>2, UnitFacts DEF Empty
  <2> QED
    BY <2>1, <2>2
<1>2. Regions(n) = [i \in 1 .. MaxRegions |-> e(i)]
  BY DEF Regions
<1> HIDE DEF e
<1>3. Regions(n) \in Seq(Unit)
  BY <1>1, <1>2, IsASeq
<1>4. \A i \in 1 .. MaxRegions : Regions(n)[i] = e(i)
  BY <1>2
<1>5. Len(Regions(n)) = MaxRegions
  <2>1. DOMAIN Regions(n) = 1 .. MaxRegions /\ DOMAIN Regions(n) = 1 .. Len(Regions(n))
    BY <1>2, <1>3, LenProperties
  <2>2. Len(Regions(n)) \in Nat /\ MaxRegions \in Nat
    BY <1>3, LenProperties
  <2> QED
    BY <2>1, <2>2
<1> QED
  BY <1>1, <1>3, <1>4, <1>5 DEF e

LEMMA RegionsEmpty ==
  ASSUME machine \in Machines, NEW i \in 1 .. MaxRegions
  PROVE  Regions(0)[i] = Empty
<1>1. ~ (i <= 0) /\ 0 \in Nat
  OBVIOUS
<1> QED
  BY <1>1, RegionsFacts

\* g goes on where f ends.
Extends(f, g) == Len(g) >= Len(f) /\ \A i \in 1 .. Len(f) : g[i] = f[i]

LEMMA AppendFacts ==
  ASSUME NEW f \in Seq(Unit), NEW u \in Seq(Unit)
  PROVE  /\ f \o u \in Seq(Unit) /\ Len(f \o u) = Len(f) + Len(u) /\ Extends(f, f \o u)
         /\ Len(f) \in Nat /\ Len(u) \in Nat
         /\ \A j \in 1 .. Len(u) : (f \o u)[Len(f) + j] = u[j]
<1>1. Len(f) \in Nat /\ Len(u) \in Nat
  BY LenProperties
<1>2. /\ f \o u \in Seq(Unit) /\ Len(f \o u) = Len(f) + Len(u)
      /\ \A i \in 1 .. Len(f) + Len(u) :
           (f \o u)[i] = IF i <= Len(f) THEN f[i] ELSE u[i - Len(f)]
  BY ConcatProperties
<1>3. \A j \in 1 .. Len(u) : (f \o u)[Len(f) + j] = u[j]
  BY <1>1, <1>2
<1> QED
  BY <1>1, <1>2, <1>3 DEF Extends

LEMMA AppendOne ==
  ASSUME NEW f \in Seq(Unit), NEW x \in Unit
  PROVE  /\ f \o <<x>> \in Seq(Unit) /\ Len(f \o <<x>>) = Len(f) + 1 /\ Extends(f, f \o <<x>>)
         /\ (f \o <<x>>)[Len(f) + 1] = x /\ Len(f) \in Nat
<1> DEFINE u == <<x>>
<1>1. u \in Seq(Unit) /\ Len(u) = 1 /\ u[1] = x
  OBVIOUS
<1> HIDE DEF u
<1>2. /\ f \o u \in Seq(Unit) /\ Len(f \o u) = Len(f) + Len(u) /\ Extends(f, f \o u)
      /\ Len(f) \in Nat
      /\ \A j \in 1 .. Len(u) : (f \o u)[Len(f) + j] = u[j]
  BY <1>1, AppendFacts
<1>3. (f \o u)[Len(f) + 1] = x /\ Len(f \o u) = Len(f) + 1
  BY <1>1, <1>2
<1> QED
  BY <1>2, <1>3 DEF u

\* g is f with other units in n places from pos on.
SameBut(f, g, pos, n) ==
  /\ Len(g) = Len(f)
  /\ \A i \in 1 .. Len(f) : i < pos \/ i >= pos + n => g[i] = f[i]

LEMMA RewriteFacts ==
  ASSUME file \in Seq(Unit), NEW u \in Seq(Unit), NEW pos \in Nat \ {0},
         pos + Len(u) - 1 <= Len(file), Rewrite(pos, u)
  PROVE  /\ file' \in Seq(Unit) /\ SameBut(file, file', pos, Len(u))
         /\ Len(file) \in Nat /\ Len(u) \in Nat
         /\ \A j \in 1 .. Len(u) : file'[pos + j - 1] = u[j]
<1> DEFINE e(i) == IF i \in pos .. pos + Len(u) - 1 THEN u[i - pos + 1] ELSE file[i]
<1>1. Len(file) \in Nat /\ Len(u) \in Nat
  BY LenProperties
<1>2. \A i \in 1 .. Len(file) : e(i) \in Unit
  <2> TAKE i \in 1 .. Len(file)
  <2>1. file[i] \in Unit
    OBVIOUS
  <2>2. CASE i \in pos .. pos + Len(u) - 1
    <3>1. i - pos + 1 \in 1 .. Len(u)
      BY <1>1, <2>2
    <3> QED
      BY <2>2, <3>1
  <2> QED
    BY <2>1, <2>2
<1>3. file' = [i \in 1 .. Len(file) |-> e(i)]
  BY DEF Rewrite
<1> HIDE DEF e
<1>4. file' \in Seq(Unit)
  BY <1>1, <1>2, <1>3, IsASeq
<1>5. \A i \in 1 .. Len(file) : file'[i] = e(i)
  BY <1>3
<1>6. Len(file') = Len(file)
  <2>1. DOMAIN file' = 1 .. Len(file) /\ DOMAIN file' = 1 .. Len(file') /\ Len(file') \in Nat
    BY <1>3, <1>4, LenProperties
  <2> QED
    BY <1>1, <2>1
<1>7. \A j \in 1 .. Len(u) : file'[pos + j - 1] = u[j]
  <2> TAKE j \in 1 .. Len(u)
  <2>1. /\ pos + j - 1 \in 1 .. Len(file) /\ pos + j - 1 \in pos .. pos + Len(u) - 1
        /\ (pos + j - 1) - pos + 1 = j
    BY <1>1
  <2> QED
    BY <1>5, <2>1 DEF e
<1>8. SameBut(file, file', pos, Len(u))
  BY <1>1, <1>5, <1>6 DEF SameBut, e
<1> QED
  BY <1>1, <1>4, <1>7, <1>8

LEMMA RewriteOne ==
  ASSUME file \in Seq(Unit), NEW x \in Unit, NEW pos \in 1 .. Len(file), Rewrite(pos, <<x>>)
  PROVE  /\ file' \in Seq(Unit) /\ SameBut(file, file', pos, 1) /\ file'[pos] = x
         /\ Len(file) \in Nat
<1> DEFINE u == <<x>>
<1>1. u \in Seq(Unit) /\ Len(u) = 1 /\ u[1] = x /\ Rewrite(pos, u)
  OBVIOUS
<1> HIDE DEF u
<1>2. Len(file) \in Nat
  BY LenProperties
<1>3. pos \in Nat \ {0} /\ pos + Len(u) - 1 <= Len(file) /\ pos + 1 - 1 = pos
  BY <1>1, <1>2
<1>4. /\ file' \in Seq(Unit) /\ SameBut(file, file', pos, Len(u))
      /\ \A j \in 1 .. Len(u) : file'[pos + j - 1] = u[j]
  BY <1>1, <1>3, RewriteFacts
<1>5. file'[pos] = x
  BY <1>1, <1>3, <1>4
<1> QED
  BY <1>1, <1>2, <1>4, <1>5

-----------------------------------------------------------------------------
(* What survives when a file is written on.                                    *)

\* Lengths and data of f behind the array are in g too.
Agrees(f, g) ==
  /\ Len(g) >= Len(f)
  /\ \A p \in ArrayEnd + 1 .. Len(f) : f[p].kind \in {"length", "data"} => g[p] = f[p]

LEMMA ExtendsAgrees ==
  ASSUME machine \in Machines, NEW f \in Seq(Unit), NEW g \in Seq(Unit), Extends(f, g)
  PROVE  Agrees(f, g)
<1>1. \A p \in ArrayEnd + 1 .. Len(f) : p \in 1 .. Len(f)
  BY MachineFacts, LenProperties
<1> QED
  BY <1>1 DEF Agrees, Extends

LEMMA ChunkRange ==
  ASSUME machine \in Machines, NEW f \in Seq(Unit), NEW n \in Nat, Len(f) >= ChunkAt(n)
  PROVE  \A j \in 1 .. n : /\ ChunkAt(j) \in ArrayEnd + 1 .. Len(f)
                           /\ ChunkAt(j) - 1 \in ArrayEnd + 1 .. Len(f)
<1>1. Len(f) \in Nat /\ ArrayEnd \in Nat
  BY MachineFacts, LenProperties
<1> QED
  BY <1>1 DEF ChunkAt

LEMMA AgreesPairs ==
  ASSUME machine \in Machines, NEW f \in Seq(Unit), NEW g \in Seq(Unit), Agrees(f, g),
         NEW n \in Nat, Pairs(f, n)
  PROVE  Pairs(g, n) /\ \A i \in 0 .. n : Straight(g, i) <=> Straight(f, i)
<1>1. \A j \in 1 .. n : /\ ChunkAt(j) \in ArrayEnd + 1 .. Len(f)
                        /\ ChunkAt(j) - 1 \in ArrayEnd + 1 .. Len(f)
  BY ChunkRange DEF Pairs
<1>2. \A j \in 1 .. n : g[ChunkAt(j)] = f[ChunkAt(j)] /\ g[ChunkAt(j) - 1] = f[ChunkAt(j) - 1]
  <2> TAKE j \in 1 .. n
  <2>1. f[ChunkAt(j) - 1].kind = "length" /\ f[ChunkAt(j)].kind = "data"
    BY UnitFacts DEF Pairs
  <2> QED
    BY <1>1, <2>1 DEF Agrees
<1>3. \A i \in 0 .. n : Straight(g, i) <=> Straight(f, i)
  <2> TAKE i \in 0 .. n
  <2>1. \A j \in 1 .. i : j \in 1 .. n
    OBVIOUS
  <2> QED
    BY <1>2, <2>1 DEF Straight
<1>4. Len(g) >= ChunkAt(n)
  <2>1. Len(g) \in Nat /\ Len(f) \in Nat /\ ChunkAt(n) \in Nat
    BY MachineFacts, LenProperties DEF ChunkAt
  <2> QED
    BY <2>1 DEF Pairs, Agrees
<1>5. \A j \in 1 .. n : j \in 0 .. n
  OBVIOUS
<1> QED
  BY <1>2, <1>3, <1>4, <1>5 DEF Pairs

LEMMA AgreesSaved ==
  ASSUME machine \in Machines, NEW f \in Seq(Unit), NEW g \in Seq(Unit), Agrees(f, g),
         NEW i, NEW x, Saved(f, i, x)
  PROVE  Saved(g, i, x)
<1>1. PICK p \in ArrayEnd + 1 .. Len(f) - 1 : SavedAt(f, p, i, x)
  BY DEF Saved
<1>2. Len(g) \in Nat /\ Len(f) \in Nat /\ ArrayEnd \in Nat /\ Len(g) >= Len(f)
  BY MachineFacts, LenProperties DEF Agrees
<1>3. p \in ArrayEnd + 1 .. Len(f) /\ p + 1 \in ArrayEnd + 1 .. Len(f)
  BY <1>2
<1>4. f[p].kind = "length" /\ f[p + 1].kind = "data"
  BY <1>1, UnitFacts DEF SavedAt
<1>5. g[p] = f[p] /\ g[p + 1] = f[p + 1]
  BY <1>3, <1>4 DEF Agrees
<1>6. SavedAt(g, p, i, x)
  BY <1>1, <1>5 DEF SavedAt
<1>7. p \in ArrayEnd + 1 .. Len(g) - 1
  BY <1>2
<1> QED
  BY <1>6, <1>7 DEF Saved

LEMMA AgreesCovers ==
  ASSUME machine \in Machines, NEW f \in Seq(Unit), NEW g \in Seq(Unit), Agrees(f, g),
         NEW k, NEW d, Covers(f, k, d)
  PROVE  Covers(g, k, d)
BY AgreesSaved DEF Covers

LEMMA ExtendsFront ==
  ASSUME machine \in Machines, NEW f \in Seq(Unit), NEW g \in Seq(Unit), Extends(f, g),
         NEW k \in Nat
  PROVE  /\ CpusIn(f, k) => CpusIn(g, k)
         /\ CountIs(f, k) => CountIs(g, k)
         /\ ArrayIs(f, k) => ArrayIs(g, k)
<1>1. /\ Len(g) \in Nat /\ Len(f) \in Nat /\ At \in Nat /\ ArrayEnd \in Nat /\ Len(g) >= Len(f)
      /\ At >= 1 /\ ArrayEnd = At + MaxRegions /\ \A i \in 1 .. Len(f) : g[i] = f[i]
  BY MachineFacts, LenProperties DEF Extends, ArrayEnd
<1>2. CpusIn(f, k) => CpusIn(g, k)
  <2> SUFFICES ASSUME CpusIn(f, k) PROVE CpusIn(g, k)
    OBVIOUS
  <2>1. Len(f) > k /\ \A c \in 1 .. k : c + 1 \in 1 .. Len(f)
    BY <1>1 DEF CpusIn
  <2> QED
    BY <1>1, <2>1 DEF CpusIn
<1>3. CountIs(f, k) => CountIs(g, k)
  BY <1>1 DEF CountIs
<1>4. ArrayIs(f, k) => ArrayIs(g, k)
  <2> SUFFICES ASSUME ArrayIs(f, k) PROVE ArrayIs(g, k)
    OBVIOUS
  <2>1. Len(f) >= ArrayEnd /\ \A i \in 1 .. MaxRegions : At + i \in 1 .. Len(f)
    BY <1>1 DEF ArrayIs
  <2> QED
    BY <1>1, <2>1 DEF ArrayIs
<1> QED
  BY <1>2, <1>3, <1>4

\* Counting torn units: a whole unit written behind them adds none, a torn one adds
\* itself.
LEMMA TornGrows ==
  ASSUME NEW f \in Seq(Unit), NEW x \in Unit
  PROVE  /\ IsFiniteSet(TornAt(f)) /\ Cardinality(TornAt(f)) \in Nat
         /\ x # Torn => TornAt(f \o <<x>>) = TornAt(f)
         /\ x = Torn => Cardinality(TornAt(f \o <<x>>)) = Cardinality(TornAt(f)) + 1
<1> DEFINE g == f \o <<x>>
<1>1. Len(g) = Len(f) + 1 /\ (\A i \in 1 .. Len(f) : g[i] = f[i]) /\ g[Len(f) + 1] = x
      /\ Len(f) \in Nat
  BY AppendOne DEF Extends
<1>2. IsFiniteSet(TornAt(f)) /\ Cardinality(TornAt(f)) \in Nat
  <2>1. IsFiniteSet(1 .. Len(f)) /\ TornAt(f) \in SUBSET (1 .. Len(f))
    BY <1>1, FS_Interval DEF TornAt
  <2> QED
    BY <2>1, FS_Subset, FS_CardinalityType
<1> HIDE DEF g
<1>3. ASSUME x # Torn PROVE TornAt(g) = TornAt(f)
  <2>1. \A p \in 1 .. Len(g) : p \in 1 .. Len(f) \/ p = Len(f) + 1
    BY <1>1
  <2>2. \A p \in 1 .. Len(f) : p \in 1 .. Len(g)
    BY <1>1
  <2> QED
    BY <1>1, <1>3, <2>1, <2>2 DEF TornAt
<1>4. ASSUME x = Torn PROVE Cardinality(TornAt(g)) = Cardinality(TornAt(f)) + 1
  <2>1. \A p \in 1 .. Len(g) : p \in 1 .. Len(f) \/ p = Len(f) + 1
    BY <1>1
  <2>2. (\A p \in 1 .. Len(f) : p \in 1 .. Len(g)) /\ Len(f) + 1 \in 1 .. Len(g)
    BY <1>1
  <2>3. TornAt(g) = TornAt(f) \cup {Len(f) + 1}
    BY <1>1, <1>4, <2>1, <2>2 DEF TornAt
  <2>4. Len(f) + 1 \notin TornAt(f)
    BY <1>1 DEF TornAt
  <2> QED
    BY <1>2, <2>3, <2>4, FS_AddElement
<1> QED
  BY <1>2, <1>3, <1>4 DEF g

-----------------------------------------------------------------------------
(* From the invariant to the properties.                                       *)

LEMMA TypeFacts ==
  ASSUME FileTypeOK
  PROVE  /\ machine \in Machines /\ file \in Seq(Unit) /\ Len(file) \in Nat
         /\ region \in 0 .. MaxRegions /\ region <= Len(Blocks) /\ region \in Nat /\ done \in Nat
         /\ \A i \in 1 .. Len(file) : file[i] \in Unit
BY LenProperties, ElementOfSeq DEF FileTypeOK

LEMMA OpenClaims ==
  ASSUME FileTypeOK, OpenInv, phase # "closed"
  PROVE  HeaderRight /\ ClaimRight /\ SizeMeansWhole
<1>1. phase = "header" \/ phase \in Started
  BY DEF FileTypeOK, Phases, Started, AfterCpus, AfterRegions, AfterCount, AfterArray
<1>2. CASE phase = "header"
  <2>1. ~ Verifies
    BY <1>2 DEF OpenInv, CpusWritten, Verifies
  <2> QED
    BY <2>1 DEF HeaderRight, ClaimRight, SizeMeansWhole
<1>3. CASE phase \in Started
  <2>1. file[1] = Header(0) /\ file[1].size = 0 /\ file[1].cpus = machine.cpus /\ MemoryAt = At
    <3>1. file[1] = Header(0)
      BY <1>3 DEF OpenInv, CpusWritten
    <3>2. Header(0).size = 0 /\ Header(0).cpus = machine.cpus
      <4>1. 0 \in Nat /\ machine \in Machines
        BY TypeFacts
      <4> QED
        BY <4>1, UnitFacts
    <3> QED
      BY <3>1, <3>2 DEF MemoryAt, At
  <2>2. HeaderRight /\ SizeMeansWhole
    BY <2>1 DEF HeaderRight, SizeMeansWhole
  <2>3. ASSUME HasMemory, Claimed > 0 PROVE phase \in AfterCount
    <3>1. Len(file) >= At /\ file[At].kind = "memory" /\ file[At].regions > 0
      BY <2>1, <2>3 DEF HasMemory, Claimed
    <3>2. CASE phase = "cpus"
      <4>1. Len(file) = cpu + 1 /\ cpu <= machine.cpus /\ cpu \in Nat /\ machine.cpus \in Nat
        BY <3>2, TypeFacts, MachineFacts DEF OpenInv, CpusWritten, FileTypeOK
      <4> QED
        BY <3>1, <4>1 DEF At
    <3>3. CASE phase = "memory"
      BY <3>1, <3>3, TypeFacts, MachineFacts DEF OpenInv, CpusWritten
    <3>4. CASE phase \in {"regions", "block", "data"}
      <4>1. file[At] = MemoryHeader(0)
        BY <3>4 DEF OpenInv, MemoryBegun, CountIs
      <4> QED
        BY <3>1, <4>1, TypeFacts, UnitFacts
    <3> QED
      BY <1>3, <3>2, <3>3, <3>4 DEF Started, AfterCpus, AfterRegions
  <2>4. ASSUME phase \in AfterCount
        PROVE  /\ Claimed = region
               /\ Pairs(file, region) /\ Covers(file, region, 0)
               /\ \A i \in 1 .. MaxRegions : file[At + i] \in {Empty, Regions(region)[i]}
    <3>1. CountIs(file, region) /\ Pairs(file, region) /\ Covers(file, region, 0)
      BY <2>4 DEF OpenInv, MemoryDone
    <3>2. Claimed = region
      BY <2>1, <3>1, TypeFacts, UnitFacts DEF CountIs, Claimed
    <3>3. ArrayIs(file, region) \/ ArrayIs(file, 0)
      BY <2>4 DEF OpenInv, MemoryDone, MemoryBegun, AfterCount
    <3>4. \A i \in 1 .. MaxRegions : Regions(0)[i] = Empty
      BY TypeFacts, RegionsEmpty
    <3>5. \A i \in 1 .. MaxRegions : file[At + i] \in {Empty, Regions(region)[i]}
      BY <3>3, <3>4 DEF ArrayIs
    <3> QED
      BY <3>1, <3>2, <3>5
  <2>5. ClaimRight
    BY <2>3, <2>4 DEF ClaimRight
  <2> QED
    BY <2>2, <2>5
<1> QED
  BY <1>1, <1>2, <1>3

LEMMA EntrySizes ==
  ASSUME machine \in Machines, NEW k \in Nat, NEW i \in 1 .. MaxRegions, NEW e,
         e \in {Empty, Regions(k)[i]}
  PROVE  /\ e.kind = "entry"
         /\ e.size > 0 => /\ i <= k /\ i <= Len(Blocks)
                          /\ e = Entry(Blocks[i].base, Blocks[i].size)
                          /\ e.base = Blocks[i].base /\ e.size = Blocks[i].size
<1>1. Empty.kind = "entry" /\ Empty.size = 0
  BY UnitFacts DEF Empty
<1>2. CASE e = Empty
  BY <1>1, <1>2
<1>3. CASE e = Regions(k)[i] /\ e # Empty
  <2>1. i <= k /\ i <= Len(Blocks) /\ e = Entry(Blocks[i].base, Blocks[i].size)
    BY <1>3, RegionsFacts
  <2>2. i \in 1 .. Len(Blocks)
    BY <2>1, MachineFacts
  <2>3. Blocks[i].base \in Nat /\ Blocks[i].size \in Nat
    BY <2>2, MachineFacts
  <2> QED
    BY <2>1, <2>3, UnitFacts
<1> QED
  BY <1>2, <1>3

LEMMA ClaimGives ==
  ASSUME FileTypeOK, HeaderRight, ClaimRight
  PROVE  CountMeansData /\ RestoreStaysInside /\ RestorePutsBack
<1>1. CASE ~ (Verifies /\ HasMemory)
  BY <1>1 DEF CountMeansData, RestoreStaysInside, RestorePutsBack
<1>2. CASE Verifies /\ HasMemory
  <2>1. MemoryAt = At /\ At \in 1 .. Len(file) /\ file[At].kind = "memory"
    <3>1. MemoryAt = At
      BY <1>2 DEF HeaderRight, MemoryAt, At
    <3>2. Len(file) \in Nat /\ At \in Nat /\ At >= 3
      BY TypeFacts, MachineFacts
    <3> QED
      BY <1>2, <3>1, <3>2 DEF HasMemory
  <2>2. Claimed \in Nat
    <3>1. file[At] \in Unit
      BY <2>1, TypeFacts
    <3> QED
      BY <2>1, <3>1 DEF Claimed, Unit
  <2>3. CASE Claimed = 0
    <3>1. 1 .. Claimed = {}
      BY <2>3
    <3> QED
      BY <3>1 DEF CountMeansData, RestoreStaysInside, RestorePutsBack
  <2>4. CASE Claimed > 0
    <3>1. /\ Claimed = region /\ region \in 1 .. MaxRegions
          /\ Pairs(file, region) /\ Covers(file, region, 0)
          /\ \A i \in 1 .. MaxRegions : EntryOf(i) \in {Empty, Regions(region)[i]}
      BY <1>2, <2>1, <2>4, TypeFacts DEF ClaimRight, EntryOf
    <3>2. /\ Len(file) \in Nat /\ At \in Nat /\ ArrayEnd = At + MaxRegions
          /\ Len(file) >= ArrayEnd + 2 * region
      BY <3>1, TypeFacts, MachineFacts DEF Pairs, ChunkAt, ArrayEnd
    <3>3. CountMeansData
      <4>1. ASSUME NEW i \in 1 .. Claimed, NEW x \in 0 .. Blocks[i].size - 1
            PROVE  \E p \in 1 .. Len(file) - 1 : SavedAt(file, p, i, x)
        <5>1. Saved(file, i, x)
          BY <3>1 DEF Covers
        <5>2. PICK p \in ArrayEnd + 1 .. Len(file) - 1 : SavedAt(file, p, i, x)
          BY <5>1 DEF Saved
        <5>3. p \in 1 .. Len(file) - 1
          BY <3>2, TypeFacts, MachineFacts
        <5> QED
          BY <5>2, <5>3
      <4> QED
        BY <4>1 DEF CountMeansData, SavedAt
    <3>4. ASSUME region < MaxRegions
          PROVE  ~ Restores(1) /\ BlockAt(1) <= Len(file) /\ file[BlockAt(1)] # Length
      <4>1. BlockAt(1) = At + (region + 1) /\ region + 1 \in 1 .. MaxRegions
        BY <2>1, <3>1, <3>2, <3>4 DEF BlockAt
      <4>2. file[BlockAt(1)].kind = "entry"
        <5>1. EntryOf(region + 1) \in {Empty, Regions(region)[region + 1]}
          BY <3>1, <4>1
        <5>2. EntryOf(region + 1).kind = "entry"
          BY <4>1, <5>1, EntrySizes, TypeFacts
        <5> QED
          BY <2>1, <4>1, <5>2 DEF EntryOf
      <4>3. file[BlockAt(1)] # Length
        BY <4>2, UnitFacts, TypeFacts
      <4>4. BlockAt(1) <= Len(file)
        BY <3>1, <3>2, <4>1
      <4> QED
        BY <4>3, <4>4 DEF Restores
    <3>5. ASSUME region = MaxRegions
          PROVE  \A i \in 1 .. Claimed :
                   /\ BlockAt(i) = ChunkAt(i) - 1 /\ BlockAt(i) + 1 = ChunkAt(i)
                   /\ BlockAt(i) < Len(file)
      BY <2>1, <3>1, <3>2, <3>5 DEF BlockAt, ChunkAt
    <3>6. ASSUME NEW i \in 1 .. Claimed, Reaches(i)
          PROVE  /\ MemoryAt + i <= Len(file) /\ EntryOf(i).kind = "entry"
                 /\ BlockAt(i) <= Len(file)
                 /\ file[BlockAt(i)] = Length =>
                      BlockAt(i) < Len(file) /\ file[BlockAt(i) + 1].kind = "data"
      <4>1. i \in 1 .. MaxRegions
        BY <3>1
      <4>2. MemoryAt + i <= Len(file)
        BY <2>1, <3>1, <3>2, <4>1
      <4>3. EntryOf(i).kind = "entry"
        BY <3>1, <4>1, EntrySizes, TypeFacts
      <4>4. CASE region < MaxRegions
        <5>1. i = 1
          <6>1. i = 1 \/ 1 \in 1 .. i - 1
            BY <4>1
          <6> QED
            BY <3>4, <3>6, <4>4, <6>1 DEF Reaches
        <5> QED
          BY <3>4, <4>2, <4>3, <4>4, <5>1
      <4>5. CASE region = MaxRegions
        <5>1. BlockAt(i) + 1 = ChunkAt(i) /\ BlockAt(i) < Len(file)
          BY <3>5, <4>5
        <5>2. file[ChunkAt(i)].kind = "data"
          BY <3>1 DEF Pairs
        <5>3. BlockAt(i) <= Len(file)
          BY <2>1, <3>1, <3>2, <4>1, <5>1 DEF BlockAt
        <5> QED
          BY <4>2, <4>3, <5>1, <5>2, <5>3
      <4> QED
        BY <3>1, <4>4, <4>5
    <3>7. ASSUME NEW i \in 1 .. Claimed, Reaches(i), Restores(i)
          PROVE  /\ EntryOf(i).base = Blocks[i].base
                 /\ file[BlockAt(i) + 1] = Data(Blocks[i].base, Blocks[i].size)
      <4>1. \A j \in 1 .. i : Restores(j) /\ j \in 1 .. Claimed /\ j \in 1 .. MaxRegions
        <5>1. \A j \in 1 .. i : j \in 1 .. i - 1 \/ j = i
          BY <3>1
        <5>2. \A j \in 1 .. i : j \in 1 .. Claimed /\ j \in 1 .. MaxRegions
          BY <3>1
        <5> QED
          BY <3>7, <5>1, <5>2 DEF Reaches
      <4>2. region = MaxRegions
        <5>1. 1 \in 1 .. i
          BY <3>1
        <5> QED
          BY <3>1, <3>4, <4>1, <5>1
      <4>3. ASSUME NEW j \in 1 .. i
            PROVE  /\ j <= Len(Blocks) /\ file[ChunkAt(j)].size = Blocks[j].size
                   /\ EntryOf(j).base = Blocks[j].base
        <5>1. file[BlockAt(j) + 1].size = EntryOf(j).size /\ BlockAt(j) + 1 = ChunkAt(j)
          BY <3>5, <4>1, <4>2 DEF Restores
        <5>2. file[ChunkAt(j)].size > 0
          BY <3>1, <4>1 DEF Pairs
        <5>3. EntryOf(j) \in {Empty, Regions(region)[j]} /\ EntryOf(j).size > 0
          BY <3>1, <4>1, <5>1, <5>2
        <5>4. /\ j <= Len(Blocks) /\ EntryOf(j).base = Blocks[j].base
              /\ EntryOf(j).size = Blocks[j].size
          BY <4>1, <5>3, EntrySizes, TypeFacts
        <5> QED
          BY <5>1, <5>4
      <4>4. Straight(file, i)
        BY <4>3 DEF Straight
      <4>5. file[ChunkAt(i)] = Data(Blocks[i].base, Blocks[i].size)
        BY <3>1, <4>4 DEF Pairs
      <4>6. BlockAt(i) + 1 = ChunkAt(i) /\ i \in 1 .. i
        BY <3>1, <3>5, <4>2
      <4> QED
        BY <4>3, <4>5, <4>6
    <3> QED
      BY <3>3, <3>6, <3>7 DEF RestoreStaysInside, RestorePutsBack
  <2> QED
    BY <2>2, <2>3, <2>4
<1> QED
  BY <1>1, <1>2

-----------------------------------------------------------------------------
(* Steps.                                                                      *)

\* A file that is not yet begun.
THEOREM InitEstablishes == Init => FileInv
<1> SUFFICES ASSUME Init PROVE FileInv
  OBVIOUS
<1> USE DEF Init
<1>1. file \in Seq(Unit) /\ Len(file) = 0 /\ machine \in Machines
  BY EmptySeq
<1>2. FileTypeOK
  BY <1>1, MachineFacts DEF FileTypeOK, Phases
<1>3. TornCounted
  <2>1. TornAt(file) = {}
    <3>1. 1 .. Len(file) = {}
      BY <1>1
    <3> QED
      BY <3>1 DEF TornAt
  <2>2. Cardinality(TornAt(file)) = 0 /\ written = 0
    BY <2>1, FS_EmptySet
  <2> QED
    BY <1>1, <2>2 DEF TornCounted
<1>4. phase = "header"
  OBVIOUS
<1> QED
  BY <1>2, <1>3, <1>4
     DEF FileInv, OpenInv, CpusWritten, MemoryBegun, BlocksWritten, MemoryDone,
         Started, AfterCpus, AfterRegions, AfterCount, AfterArray

\* The machine does not change, so only the file and the counters need a prime.
LEMMA Frame ==
  ASSUME machine' = machine
  PROVE  /\ At' = At /\ ArrayEnd' = ArrayEnd
         /\ CpusIn(file, cpu)' <=> CpusIn(file', cpu')
         /\ CountIs(file, 0)' <=> CountIs(file', 0)
         /\ CountIs(file, region)' <=> CountIs(file', region')
         /\ ArrayIs(file, 0)' <=> ArrayIs(file', 0)
         /\ ArrayIs(file, region)' <=> ArrayIs(file', region')
         /\ Pairs(file, region)' <=> Pairs(file', region')
         /\ Covers(file, region, done)' <=> Covers(file', region', done')
         /\ Covers(file, region, 0)' <=> Covers(file', region', 0)
         /\ Header(0)' = Header(0)
         /\ ChunkAt(region)' = ChunkAt(region')
         /\ TablesHeader({})' = TablesHeader({})
         /\ Blocks' = Blocks
<1> USE DEF At, ArrayEnd, Blocks
<1>1. At' = At /\ ArrayEnd' = ArrayEnd /\ Blocks' = Blocks
  OBVIOUS
<1>2. /\ CpusIn(file, cpu)' <=> CpusIn(file', cpu')
      /\ CountIs(file, 0)' <=> CountIs(file', 0)
      /\ CountIs(file, region)' <=> CountIs(file', region')
      /\ Header(0)' = Header(0) /\ TablesHeader({})' = TablesHeader({})
      /\ ChunkAt(region)' = ChunkAt(region')
  BY DEF CpusIn, CountIs, Header, CpuState, MemoryHeader, TablesHeader, ChunkAt
<1>3. /\ ArrayIs(file, 0)' <=> ArrayIs(file', 0)
      /\ ArrayIs(file, region)' <=> ArrayIs(file', region')
  BY DEF ArrayIs, Regions, Entry, Empty
<1>4. Pairs(file, region)' <=> Pairs(file', region')
  BY DEF Pairs, Straight, ChunkAt, Data, Length
<1>5. /\ Covers(file, region, done)' <=> Covers(file', region', done')
      /\ Covers(file, region, 0)' <=> Covers(file', region', 0)
  BY DEF Covers, Saved, SavedAt, Length
<1> QED
  BY <1>1, <1>2, <1>3, <1>4, <1>5

LEMMA FrameLoop ==
  ASSUME machine' = machine, NEW n
  PROVE  /\ ChunkAt(n)' = ChunkAt(n)
         /\ InLoop(n)' <=> /\ Pairs(file', n)
                           /\ n >= region'
                           /\ done' > 0 => n > region'
                           /\ Straight(file', n) => region' = n /\ done' = 0
<1> USE DEF At, ArrayEnd, Blocks
<1>1. ChunkAt(n)' = ChunkAt(n)
  BY DEF ChunkAt
<1>2. Pairs(file, n)' <=> Pairs(file', n)
  BY DEF Pairs, Straight, ChunkAt, Data, Length
<1>3. Straight(file, n)' <=> Straight(file', n)
  BY DEF Straight, ChunkAt
<1> QED
  BY <1>1, <1>2, <1>3 DEF InLoop

LEMMA WriteOne ==
  ASSUME FileTypeOK, TornCounted, NEW x \in Unit, Write(<<x>>)
  PROVE  /\ file' \in Seq(Unit) /\ Len(file') = Len(file) + 1 /\ Len(file) \in Nat
         /\ Extends(file, file') /\ Agrees(file, file')
         /\ file'[Len(file) + 1] = x
         /\ written' \in 0 .. Len(file')
         /\ x # Torn => TornCounted'
<1>1. file' = file \o <<x>> /\ written' = written + 1
  BY DEF Write
<1>2. /\ file' \in Seq(Unit) /\ Len(file') = Len(file) + 1 /\ Len(file) \in Nat
      /\ Extends(file, file') /\ file'[Len(file) + 1] = x
  BY <1>1, TypeFacts, AppendOne
<1>3. Agrees(file, file')
  BY <1>2, TypeFacts, ExtendsAgrees
<1>4. written \in 0 .. Len(file)
  BY DEF FileTypeOK
<1>5. written' \in 0 .. Len(file')
  BY <1>1, <1>2, <1>4
<1>6. ASSUME x # Torn PROVE TornCounted'
  <2>1. TornAt(file)' = TornAt(file) /\ Cardinality(TornAt(file)) \in Nat
    BY <1>1, <1>6, TypeFacts, TornGrows DEF TornAt
  <2> QED
    BY <1>1, <1>2, <1>4, <2>1 DEF TornCounted
<1> QED
  BY <1>2, <1>3, <1>5, <1>6

LEMMA OpenParts ==
  ASSUME FileInv, phase # "closed"
  PROVE  /\ FileTypeOK /\ CpusWritten /\ MemoryBegun /\ BlocksWritten /\ MemoryDone /\ TornCounted
         /\ machine \in Machines
BY DEF FileInv, OpenInv, FileTypeOK

LEMMA HeaderStep == FileInv /\ WriteHeader => FileInv'
<1> SUFFICES ASSUME FileInv, WriteHeader PROVE FileInv'
  OBVIOUS
<1> USE DEF WriteHeader
<1>1. /\ phase = "header" /\ phase' = "cpus" /\ Write(<<Header(0)>>)
      /\ UNCHANGED <<machine, headerPos, cpu, region, done, root, packed>>
  OBVIOUS
<1>2. FileTypeOK /\ TornCounted /\ file = << >> /\ Header(0) \in Unit /\ Header(0) # Torn
  BY <1>1, OpenParts, UnitFacts DEF CpusWritten
<1>3. /\ file' \in Seq(Unit) /\ Len(file') = 1 /\ file'[1] = Header(0)
      /\ written' \in 0 .. Len(file') /\ TornCounted'
  BY <1>2, WriteOne, EmptySeq
<1>4. cpu = 0 /\ headerPos = 0
  <2>1. cpu = 0 /\ headerPos \in 0 .. Len(file) /\ Len(file) = 0
    BY <1>1, <1>2, OpenParts, EmptySeq DEF CpusWritten, FileTypeOK
  <2> QED
    BY <2>1
<1>5. FileTypeOK'
  BY <1>1, <1>2, <1>3, <1>4, Frame DEF FileTypeOK, Phases
<1>6. CpusIn(file', 0)
  <2>1. 1 .. 0 = {}
    OBVIOUS
  <2> QED
    BY <1>3, <2>1 DEF CpusIn
<1>7. CpusWritten'
  BY <1>1, <1>3, <1>4, <1>6, Frame
     DEF CpusWritten, Started, AfterCpus, AfterRegions, AfterCount, AfterArray
<1>8. MemoryBegun' /\ BlocksWritten' /\ MemoryDone'
  <2>1. region = 0 /\ done = 0
    BY <1>1, OpenParts DEF BlocksWritten
  <2> QED
    BY <1>1, <2>1 DEF MemoryBegun, BlocksWritten, MemoryDone, AfterCount, AfterArray
<1> QED
  BY <1>1, <1>3, <1>5, <1>7, <1>8 DEF FileInv, OpenInv

LEMMA CpuStep == FileInv /\ WriteCpu => FileInv'
<1> SUFFICES ASSUME FileInv, WriteCpu PROVE FileInv'
  OBVIOUS
<1> USE DEF WriteCpu
<1>1. /\ phase = "cpus" /\ phase' = "cpus" /\ Write(<<CpuState(cpu)>>)
      /\ cpu < machine.cpus /\ cpu' = cpu + 1
      /\ UNCHANGED <<machine, headerPos, region, done, root, packed>>
  OBVIOUS
<1>2. /\ FileTypeOK /\ TornCounted /\ Len(file) = cpu + 1 /\ cpu \in Nat
      /\ machine.cpus \in Nat
      /\ Len(file) > 0 /\ file[1] = Header(0) /\ CpusIn(file, cpu)
  BY <1>1, OpenParts, MachineFacts DEF CpusWritten, FileTypeOK, Started
<1>3. CpuState(cpu) \in Unit /\ CpuState(cpu) # Torn
  BY <1>2, UnitFacts, OpenParts, <1>1
<1>4. /\ file' \in Seq(Unit) /\ Len(file') = Len(file) + 1 /\ Len(file) \in Nat
      /\ Extends(file, file') /\ file'[Len(file) + 1] = CpuState(cpu)
      /\ written' \in 0 .. Len(file') /\ TornCounted'
  BY <1>1, <1>2, <1>3, WriteOne
<1>5. FileTypeOK'
  <2>1. headerPos \in 0 .. Len(file') /\ cpu' \in 0 .. machine.cpus
    BY <1>1, <1>2, <1>4 DEF FileTypeOK
  <2> QED
    BY <1>1, <1>2, <1>4, <2>1, Frame DEF FileTypeOK, Phases
<1>6. CpusIn(file', cpu')
  <2>1. CpusIn(file', cpu)
    BY <1>1, <1>2, <1>4, ExtendsFront, OpenParts, TypeFacts
  <2>2. \A c \in 1 .. cpu + 1 : c \in 1 .. cpu \/ c = cpu + 1
    BY <1>2
  <2>3. file'[(cpu + 1) + 1] = CpuState((cpu + 1) - 1)
    BY <1>2, <1>4
  <2> QED
    BY <1>1, <1>2, <1>4, <2>1, <2>2, <2>3 DEF CpusIn
<1>7. CpusWritten'
  <2>1. file'[1] = Header(0) /\ Len(file') = cpu' + 1
    BY <1>1, <1>2, <1>4 DEF Extends
  <2> QED
    BY <1>1, <1>2, <1>4, <1>6, <2>1, Frame
       DEF CpusWritten, Started, AfterCpus, AfterRegions, AfterCount, AfterArray
<1>8. MemoryBegun' /\ BlocksWritten' /\ MemoryDone'
  <2>1. region = 0 /\ done = 0
    BY <1>1, OpenParts DEF BlocksWritten
  <2> QED
    BY <1>1, <2>1 DEF MemoryBegun, BlocksWritten, MemoryDone, AfterCount, AfterArray
<1> QED
  BY <1>1, <1>4, <1>5, <1>7, <1>8 DEF FileInv, OpenInv

LEMMA CpusDoneStep == FileInv /\ CpusDone => FileInv'
<1> SUFFICES ASSUME FileInv, CpusDone PROVE FileInv'
  OBVIOUS
<1> USE DEF CpusDone
<1>1. /\ phase = "cpus" /\ phase' = "memory" /\ cpu = machine.cpus
      /\ UNCHANGED <<machine, file, written, headerPos, cpu, region, done, root, packed>>
  OBVIOUS
<1>2. /\ FileTypeOK /\ TornCounted /\ Len(file) = cpu + 1 /\ machine.cpus \in Nat
      /\ Len(file) > 0 /\ file[1] = Header(0) /\ CpusIn(file, cpu)
  BY <1>1, OpenParts, MachineFacts DEF CpusWritten, Started
<1>3. FileTypeOK' /\ TornCounted'
  BY <1>1, <1>2, Frame DEF FileTypeOK, Phases, TornCounted, TornAt
<1>4. CpusWritten'
  <2>1. Len(file) = At - 1
    BY <1>1, <1>2 DEF At
  <2> QED
    BY <1>1, <1>2, <2>1, Frame
       DEF CpusWritten, Started, AfterCpus, AfterRegions, AfterCount, AfterArray
<1>5. MemoryBegun' /\ BlocksWritten' /\ MemoryDone'
  <2>1. region = 0 /\ done = 0
    BY <1>1, OpenParts DEF BlocksWritten
  <2> QED
    BY <1>1, <2>1 DEF MemoryBegun, BlocksWritten, MemoryDone, AfterCount, AfterArray
<1> QED
  BY <1>1, <1>3, <1>4, <1>5 DEF FileInv, OpenInv

LEMMA MemoryHeaderStep == FileInv /\ WriteMemoryHeader => FileInv'
<1> SUFFICES ASSUME FileInv, WriteMemoryHeader PROVE FileInv'
  OBVIOUS
<1> USE DEF WriteMemoryHeader
<1>1. /\ phase = "memory" /\ phase' = "regions" /\ Write(<<MemoryHeader(0)>>)
      /\ headerPos' = Len(file) + 1
      /\ UNCHANGED <<machine, cpu, region, done, root, packed>>
  OBVIOUS
<1>2. /\ FileTypeOK /\ TornCounted /\ Len(file) = At - 1 /\ cpu = machine.cpus /\ cpu \in Nat
      /\ At \in Nat
      /\ Len(file) > 0 /\ file[1] = Header(0) /\ CpusIn(file, cpu)
  BY <1>1, OpenParts, MachineFacts DEF CpusWritten, Started, AfterCpus
<1>3. MemoryHeader(0) \in Unit /\ MemoryHeader(0) # Torn
  BY UnitFacts, OpenParts, <1>1
<1>4. /\ file' \in Seq(Unit) /\ Len(file') = Len(file) + 1 /\ Len(file) \in Nat
      /\ Extends(file, file') /\ file'[Len(file) + 1] = MemoryHeader(0)
      /\ written' \in 0 .. Len(file') /\ TornCounted'
  BY <1>1, <1>2, <1>3, WriteOne
<1>5. headerPos' = At /\ Len(file') = At /\ CountIs(file', 0)
  BY <1>1, <1>2, <1>4 DEF CountIs
<1>6. FileTypeOK'
  <2>1. headerPos' \in 0 .. Len(file')
    BY <1>2, <1>5
  <2> QED
    BY <1>1, <1>2, <1>4, <2>1, Frame DEF FileTypeOK, Phases
<1>7. CpusWritten'
  <2>1. CpusIn(file', cpu) /\ file'[1] = Header(0)
    BY <1>1, <1>2, <1>4, ExtendsFront, OpenParts, TypeFacts DEF Extends
  <2> QED
    BY <1>1, <1>2, <1>4, <1>5, <2>1, Frame
       DEF CpusWritten, Started, AfterCpus, AfterRegions, AfterCount, AfterArray
<1>8. MemoryBegun' /\ BlocksWritten' /\ MemoryDone'
  <2>1. region = 0 /\ done = 0
    BY <1>1, OpenParts DEF BlocksWritten
  <2> QED
    BY <1>1, <2>1, <1>5, Frame
       DEF MemoryBegun, BlocksWritten, MemoryDone, AfterCount, AfterArray
<1> QED
  BY <1>1, <1>4, <1>6, <1>7, <1>8 DEF FileInv, OpenInv

-----------------------------------------------------------------------------
(* What the steps after the array have in common.                              *)

LEMMA TypeStep ==
  ASSUME FileTypeOK, file' \in Seq(Unit), phase' \in Phases, written' \in 0 .. Len(file'),
         headerPos' \in 0 .. Len(file'), UNCHANGED <<machine, cpu, region, done>>,
         root' \in 0 .. 2, packed' \subseteq machine.tables
  PROVE  FileTypeOK'
BY Frame DEF FileTypeOK

LEMMA TornSame ==
  ASSUME NEW f \in Seq(Unit), NEW g \in Seq(Unit), Len(g) = Len(f),
         \A i \in 1 .. Len(f) : g[i] = f[i] \/ (g[i] # Torn /\ f[i] # Torn)
  PROVE  TornAt(g) = TornAt(f)
BY DEF TornAt

LEMMA TornAppend ==
  ASSUME NEW f \in Seq(Unit), NEW u \in Seq(Unit), \A j \in 1 .. Len(u) : u[j] # Torn
  PROVE  TornAt(f \o u) = TornAt(f)
<1> DEFINE g == f \o u
<1>1. /\ Len(g) = Len(f) + Len(u) /\ Len(f) \in Nat /\ Len(u) \in Nat
      /\ \A i \in 1 .. Len(f) : g[i] = f[i]
      /\ \A j \in 1 .. Len(u) : g[Len(f) + j] = u[j]
  BY AppendFacts DEF Extends
<1> HIDE DEF g
<1>2. \A p \in 1 .. Len(g) : p \in 1 .. Len(f) \/ g[p] # Torn
  <2> TAKE p \in 1 .. Len(g)
  <2>1. CASE p > Len(f)
    <3>1. p - Len(f) \in 1 .. Len(u) /\ Len(f) + (p - Len(f)) = p
      BY <1>1, <2>1
    <3> QED
      BY <1>1, <3>1
  <2> QED
    BY <1>1, <2>1
<1>3. \A p \in 1 .. Len(f) : p \in 1 .. Len(g)
  BY <1>1
<1> QED
  BY <1>1, <1>2, <1>3 DEF TornAt, g

\* The units up to the array and the lengths and data behind it stay.
Keeps(f, g) ==
  /\ Agrees(f, g)
  /\ \A i \in 1 .. ArrayEnd : g[i] = f[i]

LEMMA KeepsFront ==
  ASSUME machine \in Machines, NEW f \in Seq(Unit), NEW g \in Seq(Unit), Keeps(f, g),
         NEW k \in Nat
  PROVE  /\ k <= machine.cpus /\ CpusIn(f, k) => CpusIn(g, k)
         /\ CountIs(f, k) => CountIs(g, k)
         /\ ArrayIs(f, k) => ArrayIs(g, k)
<1>1. /\ Len(g) \in Nat /\ Len(f) \in Nat /\ At \in Nat /\ ArrayEnd \in Nat /\ Len(g) >= Len(f)
      /\ At >= 1 /\ ArrayEnd = At + MaxRegions /\ machine.cpus \in Nat /\ At = machine.cpus + 2
      /\ \A i \in 1 .. ArrayEnd : g[i] = f[i]
  BY MachineFacts, LenProperties DEF Agrees, Keeps, ArrayEnd, At
<1>2. ASSUME k <= machine.cpus, CpusIn(f, k) PROVE CpusIn(g, k)
  <2>1. \A c \in 1 .. k : c + 1 \in 1 .. ArrayEnd
    BY <1>1, <1>2
  <2>2. Len(g) > k
    BY <1>1, <1>2 DEF CpusIn
  <2> QED
    BY <1>1, <1>2, <2>1, <2>2 DEF CpusIn
<1>3. CountIs(f, k) => CountIs(g, k)
  <2>1. At \in 1 .. ArrayEnd
    BY <1>1
  <2>2. g[At] = f[At] /\ (Len(f) >= At => Len(g) >= At)
    BY <1>1, <2>1
  <2> QED
    BY <2>2, Zenon DEF CountIs
<1>4. ASSUME ArrayIs(f, k) PROVE ArrayIs(g, k)
  <2>1. \A i \in 1 .. MaxRegions : At + i \in 1 .. ArrayEnd
    BY <1>1
  <2>2. Len(g) >= ArrayEnd
    BY <1>1, <1>4 DEF ArrayIs
  <2> QED
    BY <1>1, <1>4, <2>1, <2>2 DEF ArrayIs
<1> QED
  BY <1>2, <1>3, <1>4

LEMMA ExtendsKeeps ==
  ASSUME machine \in Machines, NEW f \in Seq(Unit), NEW g \in Seq(Unit), Extends(f, g),
         Len(f) >= ArrayEnd
  PROVE  Keeps(f, g)
<1>1. Agrees(f, g)
  BY ExtendsAgrees
<1>2. \A i \in 1 .. ArrayEnd : i \in 1 .. Len(f)
  BY MachineFacts, LenProperties
<1> QED
  BY <1>1, <1>2 DEF Keeps, Extends

\* Once the array is in the file, all that has to be known of it stays true when
\* the file is kept.
LEMMA CpusKept ==
  ASSUME FileInv, phase \in AfterRegions, phase' \in AfterRegions, file' \in Seq(Unit),
         Len(file') >= Len(file), \A i \in 1 .. At - 1 : file'[i] = file[i],
         UNCHANGED <<machine, cpu>>
  PROVE  CpusWritten'
<1>1. phase # "closed" /\ phase \in AfterCpus /\ phase \in Started
  BY DEF Started, AfterCpus, AfterRegions, AfterCount, AfterArray
<1>2. /\ FileTypeOK /\ machine \in Machines /\ file \in Seq(Unit) /\ Len(file) \in Nat
      /\ Len(file) > 0 /\ file[1] = Header(0) /\ CpusIn(file, cpu) /\ cpu = machine.cpus
  BY <1>1, OpenParts, TypeFacts DEF CpusWritten
<1>3. Len(file') \in Nat /\ machine.cpus \in Nat /\ At - 1 = machine.cpus + 1
  BY <1>2, MachineFacts, LenProperties DEF At
<1>4. CpusIn(file', cpu)
  <2>1. \A c \in 1 .. cpu : c + 1 \in 1 .. At - 1
    BY <1>2, <1>3
  <2>2. Len(file') > cpu
    BY <1>2, <1>3 DEF CpusIn
  <2> QED
    BY <1>2, <2>1, <2>2 DEF CpusIn
<1>5. Len(file') > 0 /\ file'[1] = Header(0)
  <2>1. 1 \in 1 .. At - 1
    BY <1>3
  <2> QED
    BY <1>2, <1>3, <2>1
<1>6. phase' \notin {"header", "cpus", "memory", "regions"}
  BY DEF AfterRegions, AfterCount, AfterArray
<1> QED
  BY <1>2, <1>4, <1>5, <1>6, Frame DEF CpusWritten

LEMMA Onwards ==
  ASSUME FileInv, phase \in AfterArray, phase' \in AfterArray, file' \in Seq(Unit),
         Keeps(file, file'), UNCHANGED <<machine, cpu, region>>, FileTypeOK', TornCounted',
         phase' \in {"pack", "root"} =>
           /\ headerPos' \in ChunkAt(region) + 1 .. Len(file')
           /\ file'[headerPos'] = TablesHeader({}),
         phase' = "root" => root' \in machine.tables,
         phase' = "size" => file'[Len(file')] = Devices
  PROVE  FileInv'
<1>1. phase # "closed" /\ phase \in AfterCount /\ phase' \in AfterCount
      /\ phase \in AfterRegions /\ phase' \in AfterRegions /\ phase' # "closed"
  BY DEF AfterRegions, AfterCount, AfterArray
<1>2. CpusWritten'
  <2>1. \A i \in 1 .. At - 1 : i \in 1 .. ArrayEnd
    BY <1>1, OpenParts, MachineFacts
  <2>2. Len(file') >= Len(file) /\ \A i \in 1 .. At - 1 : file'[i] = file[i]
    BY <2>1 DEF Keeps, Agrees
  <2> QED
    BY <1>1, <2>2, CpusKept
<1>3. MemoryBegun' /\ BlocksWritten'
  BY DEF MemoryBegun, BlocksWritten, AfterArray
<1>4. /\ FileTypeOK /\ machine \in Machines /\ file \in Seq(Unit) /\ region \in Nat
      /\ CountIs(file, region) /\ ~ MoreBlocks /\ Pairs(file, region) /\ Covers(file, region, 0)
      /\ ArrayIs(file, region)
  BY <1>1, OpenParts, TypeFacts DEF MemoryDone
<1>5. CountIs(file', region) /\ ArrayIs(file', region)
  BY <1>4, KeepsFront
<1>6. Pairs(file', region) /\ Covers(file', region, 0)
  <2>1. Agrees(file, file')
    BY DEF Keeps
  <2> QED
    BY <1>4, <2>1, AgreesPairs, AgreesCovers
<1>7. ~ MoreBlocks'
  BY <1>4 DEF MoreBlocks, Blocks
<1>8. MemoryDone'
  BY <1>5, <1>6, <1>7, Frame DEF MemoryDone, Devices
<1> QED
  BY <1>1, <1>2, <1>3, <1>8 DEF FileInv, OpenInv

\* What the writers of page tables and devices start from.
LEMMA AfterFacts ==
  ASSUME FileInv, phase \in AfterArray
  PROVE  /\ FileTypeOK /\ TornCounted /\ machine \in Machines /\ file \in Seq(Unit)
         /\ Len(file) \in Nat /\ Len(file) >= ChunkAt(region) /\ ChunkAt(region) \in Nat
         /\ ChunkAt(region) >= ArrayEnd /\ ArrayEnd \in Nat
         /\ written \in 0 .. Len(file) /\ headerPos \in 0 .. Len(file)
         /\ root \in 0 .. 2 /\ packed \subseteq machine.tables /\ machine.tables \subseteq {0, 1}
<1>1. phase # "closed" /\ phase \in AfterCount
  BY DEF AfterCount, AfterArray
<1>2. /\ FileTypeOK /\ TornCounted /\ machine \in Machines /\ file \in Seq(Unit)
      /\ Len(file) \in Nat /\ region \in Nat /\ Pairs(file, region)
  BY <1>1, OpenParts, TypeFacts DEF MemoryDone
<1>3. /\ Len(file) >= ChunkAt(region) /\ ChunkAt(region) \in Nat
      /\ ChunkAt(region) >= ArrayEnd /\ ArrayEnd \in Nat
  BY <1>2, MachineFacts DEF Pairs, ChunkAt
<1>4. /\ written \in 0 .. Len(file) /\ headerPos \in 0 .. Len(file)
      /\ root \in 0 .. 2 /\ packed \subseteq machine.tables
  BY <1>2 DEF FileTypeOK
<1> QED
  BY <1>2, <1>3, <1>4, MachineFacts

\* One more whole unit behind the array.
LEMMA AfterWrite ==
  ASSUME FileInv, phase \in AfterArray, NEW x \in Unit, x # Torn, Write(<<x>>)
  PROVE  /\ file' \in Seq(Unit) /\ Len(file') = Len(file) + 1 /\ file'[Len(file) + 1] = x
         /\ \A i \in 1 .. Len(file) : file'[i] = file[i]
         /\ written' \in 0 .. Len(file') /\ TornCounted' /\ Keeps(file, file')
<1>1. /\ file' \in Seq(Unit) /\ Len(file') = Len(file) + 1 /\ file'[Len(file) + 1] = x
      /\ Extends(file, file') /\ written' \in 0 .. Len(file') /\ TornCounted'
  BY AfterFacts, WriteOne
<1>2. Keeps(file, file')
  BY <1>1, AfterFacts, ExtendsKeeps
<1> QED
  BY <1>1, <1>2 DEF Extends

LEMMA TablesHeaderStep == FileInv /\ WriteTablesHeader => FileInv'
<1> SUFFICES ASSUME FileInv, WriteTablesHeader PROVE FileInv'
  OBVIOUS
<1>1. /\ phase = "tables" /\ headerPos' = Len(file) + 1 /\ Write(<<TablesHeader({})>>)
      /\ phase' \in {"pack", "devices"}
      /\ UNCHANGED <<machine, cpu, region, done, root, packed>>
  BY DEF WriteTablesHeader
<1>2. phase \in AfterArray /\ phase' \in AfterArray /\ phase' \in Phases
      /\ phase' # "size" /\ phase' # "root"
  BY <1>1 DEF AfterArray, Phases
<1>3. TablesHeader({}) \in Unit /\ TablesHeader({}) # Torn
  BY <1>2, AfterFacts, UnitFacts
<1>4. /\ file' \in Seq(Unit) /\ Len(file') = Len(file) + 1
      /\ file'[Len(file) + 1] = TablesHeader({})
      /\ written' \in 0 .. Len(file') /\ TornCounted' /\ Keeps(file, file')
  BY <1>1, <1>2, <1>3, AfterWrite
<1>5. headerPos' \in ChunkAt(region) + 1 .. Len(file') /\ headerPos' \in 0 .. Len(file')
  BY <1>1, <1>2, <1>4, AfterFacts
<1>6. FileTypeOK'
  BY <1>1, <1>2, <1>4, <1>5, AfterFacts, TypeStep
<1> QED
  BY <1>1, <1>2, <1>4, <1>5, <1>6, Onwards

\* A unit written between two writings of the header of the page tables.
LEMMA PackStep ==
  ASSUME FileInv, phase \in {"pack", "root"}, phase' \in {"pack", "root"}, NEW x \in Unit,
         x # Torn, Write(<<x>>), UNCHANGED <<machine, headerPos, cpu, region, done>>,
         root' \in 0 .. 2, packed' \subseteq machine.tables,
         phase' = "root" => root' \in machine.tables
  PROVE  FileInv'
<1>1. /\ phase \in AfterArray /\ phase' \in AfterArray /\ phase' \in Phases /\ phase' # "size"
      /\ phase \in AfterCount /\ phase # "closed"
  BY DEF AfterArray, AfterCount, Phases
<1>2. /\ file' \in Seq(Unit) /\ Len(file') = Len(file) + 1
      /\ \A i \in 1 .. Len(file) : file'[i] = file[i]
      /\ written' \in 0 .. Len(file') /\ TornCounted' /\ Keeps(file, file')
  BY <1>1, AfterWrite
<1>3. headerPos \in ChunkAt(region) + 1 .. Len(file) /\ file[headerPos] = TablesHeader({})
  BY <1>1, OpenParts DEF MemoryDone
<1>4. /\ headerPos' \in ChunkAt(region) + 1 .. Len(file') /\ headerPos' \in 0 .. Len(file')
      /\ headerPos \in 1 .. Len(file)
  BY <1>1, <1>2, <1>3, AfterFacts
<1>5. file'[headerPos'] = TablesHeader({})
  BY <1>2, <1>3, <1>4
<1>6. FileTypeOK'
  BY <1>1, <1>2, <1>4, AfterFacts, TypeStep
<1> QED
  BY <1>1, <1>2, <1>4, <1>5, <1>6, Onwards

LEMMA TablesLengthStep == FileInv /\ WriteTablesLength => FileInv'
<1> SUFFICES ASSUME FileInv, WriteTablesLength PROVE FileInv'
  OBVIOUS
<1>1. /\ phase = "pack" /\ phase' = "root" /\ Write(<<Length>>) /\ root \in machine.tables
      /\ UNCHANGED <<machine, headerPos, cpu, region, done, root, packed>>
  BY DEF WriteTablesLength
<1>2. root' \in 0 .. 2 /\ packed' \subseteq machine.tables /\ machine \in Machines
  BY <1>1, AfterFacts DEF AfterArray
<1>3. Length \in Unit /\ Length # Torn
  BY <1>2, UnitFacts
<1> QED
  BY <1>1, <1>2, <1>3, PackStep

LEMMA SkipTablesStep == FileInv /\ SkipTables => FileInv'
<1> SUFFICES ASSUME FileInv, SkipTables PROVE FileInv'
  OBVIOUS
<1>1. /\ phase = "pack" /\ root < 2 /\ root' = root + 1
      /\ UNCHANGED <<machine, phase, file, written, headerPos, cpu, region, done, packed>>
  BY DEF SkipTables
<1>2. /\ phase \in AfterArray /\ phase' \in AfterArray /\ phase' \in Phases /\ phase' # "size"
      /\ phase \in AfterCount /\ phase # "closed"
  BY <1>1 DEF AfterArray, AfterCount, Phases
<1>3. headerPos \in ChunkAt(region) + 1 .. Len(file) /\ file[headerPos] = TablesHeader({})
  BY <1>1, <1>2, OpenParts DEF MemoryDone
<1>4. Keeps(file, file')
  BY <1>1, <1>2, AfterFacts DEF Keeps, Agrees
<1>5. TornCounted'
  BY <1>1, <1>2, AfterFacts DEF TornCounted, TornAt
<1>6. root' \in 0 .. 2
  BY <1>1, <1>2, AfterFacts
<1>7. FileTypeOK'
  BY <1>1, <1>2, <1>6, AfterFacts, TypeStep
<1> QED
  BY <1>1, <1>2, <1>3, <1>4, <1>5, <1>7, AfterFacts, Onwards

LEMMA DevicesStep == FileInv /\ WriteDevices => FileInv'
<1> SUFFICES ASSUME FileInv, WriteDevices PROVE FileInv'
  OBVIOUS
<1>1. /\ phase = "devices" /\ phase' = "size" /\ Write(<<Devices>>)
      /\ UNCHANGED <<machine, headerPos, cpu, region, done, root, packed>>
  BY DEF WriteDevices
<1>2. phase \in AfterArray /\ phase' \in AfterArray /\ phase' \in Phases
  BY <1>1 DEF AfterArray, Phases
<1>3. Devices \in Unit /\ Devices # Torn
  BY <1>2, AfterFacts, UnitFacts
<1>4. /\ file' \in Seq(Unit) /\ Len(file') = Len(file) + 1 /\ file'[Len(file) + 1] = Devices
      /\ written' \in 0 .. Len(file') /\ TornCounted' /\ Keeps(file, file')
  BY <1>1, <1>2, <1>3, AfterWrite
<1>5. headerPos' \in 0 .. Len(file')
  BY <1>1, <1>2, <1>4, AfterFacts
<1>6. FileTypeOK'
  BY <1>1, <1>2, <1>4, <1>5, AfterFacts, TypeStep
<1> QED
  BY <1>1, <1>2, <1>4, <1>6, Onwards

LEMMA TablesStep == FileInv /\ WriteTables => FileInv'
<1> SUFFICES ASSUME FileInv, WriteTables PROVE FileInv'
  OBVIOUS
<1>1. /\ phase = "root" /\ phase' = "pack" /\ Write(<<Tables(root)>>)
      /\ packed' = packed \cup {root} /\ root' = root + 1
      /\ UNCHANGED <<machine, headerPos, cpu, region, done>>
  BY DEF WriteTables
<1>2. phase \in AfterArray /\ phase \in AfterCount /\ phase # "closed"
  BY <1>1 DEF AfterArray, AfterCount
<1>3. /\ machine \in Machines /\ machine.tables \subseteq {0, 1} /\ root \in machine.tables
      /\ packed \subseteq machine.tables
  BY <1>1, <1>2, OpenParts, AfterFacts DEF MemoryDone
<1>4. root \in {0, 1}
  BY <1>3
<1>5. root' \in 0 .. 2 /\ packed' \subseteq machine.tables
  BY <1>1, <1>3, <1>4
<1>6. Tables(root) \in Unit /\ Tables(root) # Torn
  BY <1>3, <1>4, UnitFacts
<1> QED
  BY <1>1, <1>5, <1>6, PackStep

\* The header of the page tables, not yet or never written again, is behind the
\* memory, so its second writing touches nothing else.
LEMMA UpdateTablesHeaderStep == FileInv /\ UpdateTablesHeader => FileInv'
<1> SUFFICES ASSUME FileInv, UpdateTablesHeader PROVE FileInv'
  OBVIOUS
<1>1. /\ phase = "pack" /\ phase' = "devices"
      /\ Rewrite(headerPos, <<TablesHeader(packed)>>) \/ file' = file
      /\ UNCHANGED <<machine, written, headerPos, cpu, region, done, root, packed>>
  BY DEF UpdateTablesHeader
<1>2. /\ phase \in AfterArray /\ phase' \in AfterArray /\ phase' \in Phases
      /\ phase' \notin {"pack", "root", "size"}
      /\ phase \in AfterCount /\ phase # "closed"
  BY <1>1 DEF AfterArray, AfterCount, Phases
<1>3. headerPos \in ChunkAt(region) + 1 .. Len(file) /\ file[headerPos] = TablesHeader({})
  BY <1>1, <1>2, OpenParts DEF MemoryDone
<1>4. headerPos \in 1 .. Len(file) /\ headerPos > ArrayEnd
  BY <1>2, <1>3, AfterFacts
<1>5. /\ packed \in SUBSET {0, 1} /\ {} \in SUBSET {0, 1} /\ machine \in Machines
      /\ file \in Seq(Unit)
  BY <1>2, AfterFacts
<1>6. /\ TablesHeader(packed) \in Unit /\ TablesHeader(packed).kind = "tables"
      /\ TablesHeader({}).kind = "tables" /\ Torn.kind = "torn"
  BY <1>5, UnitFacts
<1>7. /\ file' \in Seq(Unit) /\ Len(file') = Len(file)
      /\ \A i \in 1 .. Len(file) :
           file'[i] = file[i] \/ (i = headerPos /\ file'[i].kind = "tables")
  <2>1. CASE file' = file
    BY <1>5, <2>1
  <2>2. CASE Rewrite(headerPos, <<TablesHeader(packed)>>)
    <3>1. /\ file' \in Seq(Unit) /\ SameBut(file, file', headerPos, 1)
          /\ file'[headerPos] = TablesHeader(packed) /\ Len(file) \in Nat
      BY <1>4, <1>5, <1>6, <2>2, RewriteOne
    <3>2. \A i \in 1 .. Len(file) : i < headerPos \/ i >= headerPos + 1 \/ i = headerPos
      BY <1>4, <3>1
    <3> QED
      BY <1>6, <3>1, <3>2 DEF SameBut
  <2> QED
    BY <1>1, <2>1, <2>2
<1>8. Keeps(file, file')
  <2>1. \A i \in 1 .. ArrayEnd : i \in 1 .. Len(file) /\ i # headerPos
    BY <1>2, <1>4, AfterFacts
  <2>2. \A i \in ArrayEnd + 1 .. Len(file) : i \in 1 .. Len(file)
    BY <1>2, AfterFacts
  <2>3. file[headerPos].kind \notin {"length", "data"}
    BY <1>3, <1>6
  <2>4. Len(file') >= Len(file)
    BY <1>2, <1>7, AfterFacts
  <2> QED
    BY <1>7, <2>1, <2>2, <2>3, <2>4 DEF Keeps, Agrees
<1>9. TornCounted' /\ written' \in 0 .. Len(file') /\ headerPos' \in 0 .. Len(file')
  <2>1. \A i \in 1 .. Len(file) : file'[i] = file[i] \/ (file'[i] # Torn /\ file[i] # Torn)
    BY <1>3, <1>6, <1>7
  <2>2. TornAt(file') = TornAt(file)
    BY <1>5, <1>7, <2>1, TornSame
  <2>3. TornAt(file)' = TornAt(file)
    BY <2>2 DEF TornAt, Torn
  <2> QED
    BY <1>1, <1>2, <1>7, <2>3, AfterFacts DEF TornCounted
<1>10. FileTypeOK'
  BY <1>1, <1>2, <1>7, <1>9, AfterFacts, TypeStep
<1> QED
  BY <1>1, <1>2, <1>7, <1>8, <1>9, <1>10, Onwards

\* A short fwrite of one unit leaves nothing of it or a torn unit.
LEMMA ShortOne ==
  ASSUME file \in Seq(Unit), NEW x, WriteShort(<<x>>)
  PROVE  file' = file \/ file' = file \o <<Torn>>
<1>1. PICK n \in 0 .. Len(<<x>>) - 1, torn \in {<< >>, <<Torn>>} :
        file' = file \o SubSeq(<<x>>, 1, n) \o torn
  BY DEF WriteShort
<1>2. n = 0
  <2>1. Len(<<x>>) = 1
    OBVIOUS
  <2> QED
    BY <2>1
<1>3. SubSeq(<<x>>, 1, n) = << >>
  BY <1>2, SubSeqEmpty
<1>4. file \o << >> = file
  BY ConcatEmptySeq
<1>5. file' = file \o torn
  BY <1>1, <1>3, <1>4
<1> QED
  BY <1>4, <1>5

LEMMA TablesFailStep == FileInv /\ TablesFail => FileInv'
<1> SUFFICES ASSUME FileInv, TablesFail PROVE FileInv'
  OBVIOUS
<1>1. /\ phase \in {"tables", "pack", "root"} /\ phase' = "devices"
      /\ UNCHANGED <<machine, written, headerPos, cpu, region, done, root, packed>>
  BY DEF TablesFail
<1>2. /\ phase \in AfterArray /\ phase' \in AfterArray /\ phase' \in Phases
      /\ phase' \notin {"pack", "root", "size"}
  BY <1>1 DEF AfterArray, Phases
<1>3. machine \in Machines /\ file \in Seq(Unit) /\ Torn \in Unit
  BY <1>2, AfterFacts, UnitFacts
<1>4. file' = file \/ file' = file \o <<Torn>>
  BY <1>3, ShortOne DEF TablesFail
<1>5. /\ file' \in Seq(Unit) /\ Keeps(file, file') /\ TornCounted'
      /\ written' \in 0 .. Len(file') /\ headerPos' \in 0 .. Len(file')
  <2>1. CASE file' = file
    <3>1. Keeps(file, file')
      BY <1>2, <2>1, AfterFacts DEF Keeps, Agrees
    <3>2. TornCounted'
      BY <1>1, <1>2, <2>1, AfterFacts DEF TornCounted, TornAt, Torn
    <3> QED
      BY <1>1, <1>2, <2>1, <3>1, <3>2, AfterFacts
  <2>2. CASE file' = file \o <<Torn>>
    <3>1. file' \in Seq(Unit) /\ Len(file') = Len(file) + 1 /\ Extends(file, file')
      BY <1>3, <2>2, AppendOne
    <3>2. Keeps(file, file')
      BY <1>2, <1>3, <3>1, AfterFacts, ExtendsKeeps
    <3>3. Cardinality(TornAt(file')) = Cardinality(TornAt(file)) + 1
          /\ Cardinality(TornAt(file)) \in Nat
      BY <1>3, <2>2, TornGrows
    <3>4. TornAt(file)' = TornAt(file')
      BY DEF TornAt, Torn
    <3>5. TornCounted'
      BY <1>1, <1>2, <3>1, <3>3, <3>4, AfterFacts DEF TornCounted
    <3> QED
      BY <1>1, <1>2, <3>1, <3>2, <3>5, AfterFacts
  <2> QED
    BY <1>4, <2>1, <2>2
<1>6. FileTypeOK'
  BY <1>1, <1>2, <1>5, AfterFacts, TypeStep
<1> QED
  BY <1>1, <1>2, <1>5, <1>6, Onwards

-----------------------------------------------------------------------------
(* Steps that leave the file.                                                  *)

\* The file stays, or is written on: before the memory header no more than a torn
\* unit, and a count that is there already stays as it is.
LEMMA LeftOpen ==
  ASSUME FileInv, phase # "closed", phase' = "closed", file' \in Seq(Unit),
         Extends(file, file'), UNCHANGED <<machine, written, headerPos, cpu, region, done, root, packed>>,
         phase \in {"header", "cpus", "memory"} => file' = file \/ file' = file \o <<Torn>>
  PROVE  FileInv'
<1>1. /\ FileTypeOK /\ CpusWritten /\ MemoryBegun /\ MemoryDone /\ machine \in Machines
      /\ file \in Seq(Unit) /\ Len(file) \in Nat /\ region \in Nat
  BY OpenParts, TypeFacts
<1>2. /\ Len(file') \in Nat /\ Len(file') >= Len(file)
      /\ \A i \in 1 .. Len(file) : file'[i] = file[i]
  BY LenProperties DEF Extends
<1>3. FileTypeOK'
  <2>1. /\ written \in 0 .. Len(file) /\ headerPos \in 0 .. Len(file) /\ root \in 0 .. 2
        /\ packed \subseteq machine.tables
    BY <1>1 DEF FileTypeOK
  <2>2. phase' \in Phases /\ written' \in 0 .. Len(file') /\ headerPos' \in 0 .. Len(file')
    BY <1>1, <1>2, <2>1 DEF Phases
  <2> QED
    BY <1>1, <2>1, <2>2, TypeStep
<1>4. phase = "header" \/ phase \in Started
  BY <1>1 DEF FileTypeOK, Phases, Started, AfterCpus, AfterRegions, AfterCount, AfterArray
<1>5. Torn \in Unit /\ Torn.kind = "torn"
  BY <1>1, UnitFacts
<1>6. CASE phase = "header"
  <2>1. file = << >>
    BY <1>1, <1>6 DEF CpusWritten
  <2>2. Len(file') = 0 \/ file'[1].kind = "torn"
    <3>1. CASE file' = file
      BY <2>1, <3>1
    <3>2. CASE file' = file \o <<Torn>>
      <4>1. file'[Len(file) + 1] = Torn /\ Len(file) = 0
        BY <1>1, <1>5, <2>1, <3>2, AppendOne, EmptySeq
      <4> QED
        BY <1>5, <4>1
    <3> QED
      BY <1>6, <3>1, <3>2
  <2>3. ~ Verifies'
    BY <2>2 DEF Verifies
  <2> QED
    BY <1>3, <2>3 DEF FileInv, ClosedInv, HeaderRight, ClaimRight, SizeMeansWhole
<1>7. CASE phase \in Started
  <2>1. file'[1] = Header(0) /\ Header(0).size = 0 /\ Header(0).cpus = machine.cpus
    <3>1. file[1] = Header(0) /\ 1 \in 1 .. Len(file)
      BY <1>1, <1>7 DEF CpusWritten
    <3> QED
      BY <1>1, <1>2, <3>1, UnitFacts
  <2>2. HeaderRight' /\ SizeMeansWhole' /\ MemoryAt' = At
    BY <2>1 DEF HeaderRight, SizeMeansWhole, MemoryAt, At
  <2>3. At' = At /\ At \in Nat /\ At >= 3 /\ ArrayEnd \in Nat /\ ArrayEnd = At + MaxRegions
    BY <1>1, Frame, MachineFacts DEF ArrayEnd
  <2>4. CASE phase \in {"cpus", "memory"}
    <3>1. Len(file) < At
      <4>1. CASE phase = "cpus"
        BY <1>1, <4>1, MachineFacts DEF CpusWritten, At, FileTypeOK
      <4>2. CASE phase = "memory"
        BY <1>1, <2>3, <4>2 DEF CpusWritten
      <4> QED
        BY <2>4, <4>1, <4>2
    <3>2. Len(file') < At \/ file'[At] = Torn
      <4>1. CASE file' = file
        BY <3>1, <4>1
      <4>2. CASE file' = file \o <<Torn>>
        <5>1. file'[Len(file) + 1] = Torn /\ Len(file') = Len(file) + 1
          BY <1>1, <1>5, <4>2, AppendOne
        <5>2. Len(file) + 1 < At \/ Len(file) + 1 = At
          BY <1>1, <2>3, <3>1
        <5> QED
          BY <5>1, <5>2
      <4> QED
        BY <2>4, <4>1, <4>2
    <3>3. ~ HasMemory'
      BY <1>2, <1>5, <2>2, <2>3, <3>2 DEF HasMemory
    <3> QED
      BY <1>3, <2>2, <3>3 DEF FileInv, ClosedInv, ClaimRight
  <2>5. CASE phase \in {"regions", "block", "data"}
    <3>1. CountIs(file', 0)
      BY <1>1, <2>5, ExtendsFront DEF MemoryBegun
    <3>2. Claimed' = 0
      BY <1>1, <2>2, <3>1, UnitFacts DEF Claimed, CountIs
    <3> QED
      BY <1>3, <2>2, <3>2 DEF FileInv, ClosedInv, ClaimRight
  <2>6. CASE phase \in AfterCount
    <3>1. Agrees(file, file')
      BY <1>1, ExtendsAgrees
    <3>2. CountIs(file', region) /\ Pairs(file', region) /\ Covers(file', region, 0)
      BY <1>1, <2>6, <3>1, ExtendsFront, AgreesPairs, AgreesCovers DEF MemoryDone
    <3>3. ArrayIs(file', region) \/ ArrayIs(file', 0)
      BY <1>1, <2>6, ExtendsFront DEF MemoryDone, MemoryBegun, AfterCount
    <3>4. \A i \in 1 .. MaxRegions : file'[At + i] \in {Empty, Regions(region)[i]}
      BY <1>1, <3>3, RegionsEmpty DEF ArrayIs
    <3>5. Claimed' = region'
      BY <1>1, <2>2, <3>2, UnitFacts DEF Claimed, CountIs
    <3>6. Regions(region)' = Regions(region) /\ Empty' = Empty
      BY DEF Regions, Entry, Empty, Blocks
    <3>7. ClaimRight'
      BY <2>3, <3>2, <3>4, <3>5, <3>6, Frame DEF ClaimRight
    <3> QED
      BY <1>3, <2>2, <3>7 DEF FileInv, ClosedInv
  <2> QED
    BY <1>7, <2>4, <2>5, <2>6 DEF Started, AfterCpus, AfterRegions
<1> QED
  BY <1>4, <1>6, <1>7

LEMMA StopStep == FileInv /\ (CpuMissing \/ CompressFails \/ Stop) => FileInv'
<1> SUFFICES ASSUME FileInv, CpuMissing \/ CompressFails \/ Stop PROVE FileInv'
  OBVIOUS
<1>1. /\ phase # "closed" /\ phase' = "closed"
      /\ UNCHANGED <<machine, file, written, headerPos, cpu, region, done, root, packed>>
  BY DEF CpuMissing, CompressFails, Stop
<1>2. file' \in Seq(Unit) /\ Extends(file, file') /\ file' = file
  BY <1>1, OpenParts, TypeFacts DEF Extends
<1> QED
  BY <1>1, <1>2, LeftOpen

LEMMA ShortFacts ==
  ASSUME file \in Seq(Unit), NEW u \in Seq(Unit), Torn \in Unit, WriteShort(u)
  PROVE  file' \in Seq(Unit) /\ Extends(file, file')
<1>1. PICK n \in 0 .. Len(u) - 1, torn \in {<< >>, <<Torn>>} :
        file' = file \o SubSeq(u, 1, n) \o torn
  BY DEF WriteShort
<1>2. n \in Int /\ \A i \in 1 .. n : u[i] \in Unit
  <2>1. Len(u) \in Nat
    BY LenProperties
  <2>2. \A i \in 1 .. n : i \in 1 .. Len(u)
    BY <2>1
  <2> QED
    BY <2>1, <2>2, ElementOfSeq
<1> DEFINE v == SubSeq(u, 1, n)
<1>3. v \in Seq(Unit)
  <2>1. 1 \in Int /\ n \in Int /\ \A i \in 1 .. n : u[i] \in Unit
    BY <1>2
  <2>2. SubSeq(u, 1, n) \in Seq(Unit)
    BY <2>1, SubSeqProperties, Zenon
  <2> QED
    BY <2>2
<1>4. torn \in Seq(Unit)
  <2>1. <<Torn>> \in Seq(Unit)
    OBVIOUS
  <2>2. << >> \in Seq(Unit)
    BY EmptySeq
  <2> QED
    BY <2>1, <2>2
<1> HIDE DEF v
<1>5. file \o v \in Seq(Unit) /\ Extends(file, file \o v)
  BY <1>3, AppendFacts
<1>6. (file \o v) \o torn \in Seq(Unit) /\ Extends(file \o v, (file \o v) \o torn)
  BY <1>4, <1>5, AppendFacts
<1>7. file' = (file \o v) \o torn
  BY <1>1 DEF v
<1>8. Len(file) \in Nat /\ Len(file \o v) \in Nat /\ Len(file') \in Nat
  BY <1>5, <1>6, <1>7, LenProperties
<1> QED
  BY <1>5, <1>6, <1>7, <1>8 DEF Extends

LEMMA WriteFailsStep == FileInv /\ WriteFails => FileInv'
<1> SUFFICES ASSUME FileInv, WriteFails PROVE FileInv'
  OBVIOUS
<1>1. /\ phase \in {"header", "cpus", "memory", "regions", "block", "data", "devices"}
      /\ WriteShort(Pending) /\ phase' = "closed" /\ phase # "closed"
      /\ UNCHANGED <<machine, written, headerPos, cpu, region, done, root, packed>>
  BY DEF WriteFails
<1>2. /\ FileTypeOK /\ BlocksWritten /\ machine \in Machines /\ file \in Seq(Unit)
      /\ region \in Nat /\ done \in Nat /\ cpu \in Nat /\ Torn \in Unit
  BY <1>1, OpenParts, TypeFacts, UnitFacts, MachineFacts DEF FileTypeOK
<1>3. CASE phase = "regions"
  <2>1. Pending = Regions(0)
    BY <1>3 DEF Pending
  <2>2. file' \in Seq(Unit) /\ Extends(file, file')
    BY <1>1, <1>2, <2>1, RegionsFacts, ShortFacts
  <2> QED
    BY <1>1, <1>3, <2>2, LeftOpen
<1>4. CASE phase # "regions"
  <2>1. PICK x : Pending = <<x>>
    BY <1>1, <1>4 DEF Pending
  <2>2. file' = file \/ file' = file \o <<Torn>>
    BY <1>1, <1>2, <2>1, ShortOne
  <2>3. file' \in Seq(Unit) /\ Extends(file, file')
    <3>1. CASE file' = file
      BY <1>2, <3>1, LenProperties DEF Extends
    <3>2. CASE file' = file \o <<Torn>>
      BY <1>2, <3>2, AppendOne
    <3> QED
      BY <2>2, <3>1, <3>2
  <2> QED
    BY <1>1, <2>2, <2>3, LeftOpen
<1> QED
  BY <1>3, <1>4

-----------------------------------------------------------------------------
(* The memory.                                                                 *)

LEMMA RegionsStep == FileInv /\ WriteRegions => FileInv'
<1> SUFFICES ASSUME FileInv, WriteRegions PROVE FileInv'
  OBVIOUS
<1>1. /\ phase = "regions" /\ phase' = "block" /\ Write(Regions(0))
      /\ UNCHANGED <<machine, headerPos, cpu, region, done, root, packed>>
  BY DEF WriteRegions
<1>2. /\ FileTypeOK /\ TornCounted /\ machine \in Machines /\ file \in Seq(Unit)
      /\ Len(file) \in Nat /\ written \in 0 .. Len(file) /\ headerPos \in 0 .. Len(file)
      /\ root \in 0 .. 2 /\ packed \subseteq machine.tables
      /\ region = 0 /\ done = 0
  BY <1>1, OpenParts, TypeFacts DEF BlocksWritten, FileTypeOK
<1>3. /\ Len(file) = At /\ headerPos = At /\ CountIs(file, 0) /\ cpu = machine.cpus
      /\ cpu \in Nat /\ Len(file) > 0 /\ file[1] = Header(0) /\ CpusIn(file, cpu)
  BY <1>1, <1>2, OpenParts, MachineFacts
     DEF CpusWritten, MemoryBegun, Started, AfterCpus
<1> DEFINE u == Regions(0)
<1>4. /\ u \in Seq(Unit) /\ Len(u) = MaxRegions /\ Torn.kind = "torn"
      /\ \A i \in 1 .. MaxRegions : u[i].kind = "entry"
  BY <1>2, RegionsFacts, UnitFacts
<1>5. file' = file \o u /\ written' = written + Len(u)
  BY <1>1 DEF Write
<1> HIDE DEF u
<1>6. /\ file' \in Seq(Unit) /\ Len(file') = Len(file) + MaxRegions /\ Extends(file, file')
      /\ \A i \in 1 .. MaxRegions : file'[Len(file) + i] = u[i]
  BY <1>2, <1>4, <1>5, AppendFacts
<1>7. At \in Nat /\ Len(file') = ArrayEnd /\ ArrayEnd \in Nat
  BY <1>2, <1>3, <1>6, MachineFacts DEF ArrayEnd
<1>8. ArrayIs(file', 0)
  BY <1>3, <1>6, <1>7 DEF ArrayIs, u
<1>9. CountIs(file', 0) /\ CpusIn(file', cpu) /\ file'[1] = Header(0) /\ Len(file') > 0
  <2>1. CountIs(file', 0) /\ CpusIn(file', cpu)
    BY <1>2, <1>3, <1>6, ExtendsFront
  <2>2. 1 \in 1 .. Len(file) /\ Len(file') > 0
    BY <1>2, <1>3, <1>6
  <2> QED
    BY <1>3, <1>6, <2>1, <2>2 DEF Extends
<1>10. TornCounted'
  <2>1. \A i \in 1 .. Len(u) : u[i] # Torn
    BY <1>4
  <2>2. TornAt(file') = TornAt(file)
    BY <1>2, <1>4, <1>5, <2>1, TornAppend
  <2>3. TornAt(file)' = TornAt(file) /\ Cardinality(TornAt(file)) \in Nat
    BY <1>2, <2>2, UnitFacts, TornGrows DEF TornAt, Torn
  <2> QED
    BY <1>2, <1>4, <1>5, <1>6, <2>3 DEF TornCounted
<1>11. FileTypeOK'
  <2>1. phase' \in Phases /\ written' \in 0 .. Len(file') /\ headerPos' \in 0 .. Len(file')
    BY <1>1, <1>2, <1>4, <1>5, <1>6 DEF Phases
  <2> QED
    BY <1>1, <1>2, <1>6, <2>1, TypeStep
<1>12. CpusWritten'
  BY <1>1, <1>3, <1>9, Frame
     DEF CpusWritten, Started, AfterCpus, AfterRegions, AfterCount, AfterArray
<1>13. MemoryBegun' /\ MemoryDone'
  BY <1>1, <1>3, <1>8, <1>9, Frame DEF MemoryBegun, MemoryDone, AfterCount, AfterArray
<1>14. BlocksWritten'
  <2>1. 1 .. 0 = {} /\ 0 .. 0 - 1 = {} /\ 0 \in Nat /\ 0 >= 0 /\ ~ (0 > 0)
    OBVIOUS
  <2>2. ChunkAt(0) = ArrayEnd /\ Len(file') >= ChunkAt(0)
    BY <1>7 DEF ChunkAt
  <2>3. Covers(file', 0, 0) /\ Pairs(file', 0)
    BY <2>1, <2>2 DEF Covers, Pairs
  <2>4. InLoop(0)' /\ (Len(file) = ChunkAt(0))'
    BY <1>1, <1>2, <1>7, <2>1, <2>2, <2>3, FrameLoop
  <2>5. (\E n \in Nat : InLoop(n) /\ Len(file) = ChunkAt(n))'
    BY <2>1, <2>4
  <2> QED
    BY <1>1, <1>2, <2>3, <2>5, Frame DEF BlocksWritten
<1> QED
  BY <1>1, <1>10, <1>11, <1>12, <1>13, <1>14 DEF FileInv, OpenInv

\* What the loop over the blocks starts from.
LEMMA LoopFacts ==
  ASSUME FileInv, phase \in {"block", "data"}
  PROVE  /\ FileTypeOK /\ TornCounted /\ machine \in Machines /\ file \in Seq(Unit)
         /\ Len(file) \in Nat /\ written \in 0 .. Len(file) /\ headerPos \in 0 .. Len(file)
         /\ root \in 0 .. 2 /\ packed \subseteq machine.tables
         /\ region \in Nat /\ done \in Nat /\ region \in 0 .. MaxRegions /\ region <= Len(Blocks)
         /\ headerPos = At /\ CountIs(file, 0) /\ ArrayIs(file, 0)
         /\ Covers(file, region, done) /\ phase \in AfterRegions
<1>1. phase # "closed" /\ phase \in AfterRegions
  BY DEF AfterRegions
<1>2. /\ FileTypeOK /\ TornCounted /\ machine \in Machines
      /\ headerPos = At /\ CountIs(file, 0) /\ ArrayIs(file, 0) /\ Covers(file, region, done)
  BY <1>1, OpenParts DEF MemoryBegun, BlocksWritten
<1>3. /\ written \in 0 .. Len(file) /\ headerPos \in 0 .. Len(file)
      /\ root \in 0 .. 2 /\ packed \subseteq machine.tables
  BY <1>2 DEF FileTypeOK
<1> QED
  BY <1>1, <1>2, <1>3, TypeFacts

\* A unit written in the loop disturbs nothing before it.
LEMMA LoopStep ==
  ASSUME FileInv, phase \in {"block", "data"}, phase' \in {"block", "data"},
         file' \in Seq(Unit), Extends(file, file'), UNCHANGED <<machine, headerPos, cpu>>,
         FileTypeOK', TornCounted', BlocksWritten'
  PROVE  FileInv'
<1>1. phase \in AfterRegions /\ phase' \in AfterRegions /\ phase' # "closed"
  BY DEF AfterRegions
<1>2. CpusWritten'
  <2>1. Len(file) >= At /\ At \in Nat /\ Len(file) \in Nat
    BY LoopFacts, MachineFacts DEF CountIs
  <2>2. \A i \in 1 .. At - 1 : i \in 1 .. Len(file)
    BY <2>1
  <2>3. Len(file') >= Len(file) /\ \A i \in 1 .. At - 1 : file'[i] = file[i]
    BY <2>2 DEF Extends
  <2> QED
    BY <1>1, <2>3, CpusKept
<1>3. CountIs(file', 0) /\ ArrayIs(file', 0)
  BY LoopFacts, ExtendsFront
<1>4. MemoryBegun' /\ MemoryDone'
  <2>1. headerPos' = At
    BY LoopFacts
  <2> QED
    BY <1>3, <2>1, Frame DEF MemoryBegun, MemoryDone, AfterCount, AfterArray
<1> QED
  BY <1>1, <1>2, <1>4 DEF FileInv, OpenInv

LEMMA LengthStep == FileInv /\ WriteLength => FileInv'
<1> SUFFICES ASSUME FileInv, WriteLength PROVE FileInv'
  OBVIOUS
<1>1. /\ phase = "block" /\ phase' = "data" /\ MoreBlocks /\ Write(<<Length>>)
      /\ UNCHANGED <<machine, headerPos, cpu, region, done, root, packed>>
  BY DEF WriteLength
<1>2. Length \in Unit /\ Length # Torn
  BY <1>1, LoopFacts, UnitFacts
<1>3. /\ file' \in Seq(Unit) /\ Len(file') = Len(file) + 1 /\ Len(file) \in Nat
      /\ Extends(file, file') /\ Agrees(file, file') /\ file'[Len(file) + 1] = Length
      /\ written' \in 0 .. Len(file') /\ TornCounted'
  BY <1>1, <1>2, LoopFacts, WriteOne
<1>4. FileTypeOK'
  <2>1. phase' \in Phases /\ headerPos' \in 0 .. Len(file')
    BY <1>1, <1>3, LoopFacts DEF Phases
  <2> QED
    BY <1>1, <1>3, <2>1, LoopFacts, TypeStep
<1>5. BlocksWritten'
  <2>1. PICK n \in Nat : InLoop(n) /\ Len(file) = ChunkAt(n)
    BY <1>1, OpenParts DEF BlocksWritten
  <2>2. Pairs(file', n) /\ (Straight(file', n) <=> Straight(file, n))
    BY <1>1, <1>3, <2>1, LoopFacts, AgreesPairs DEF InLoop
  <2>3. InLoop(n)'
    BY <1>1, <2>1, <2>2, FrameLoop DEF InLoop
  <2>4. (Len(file) = ChunkAt(n) + 1 /\ file[ChunkAt(n) + 1] = Length)'
    BY <1>1, <1>3, <2>1, FrameLoop DEF Length
  <2>5. Covers(file', region, done)
    BY <1>1, <1>3, LoopFacts, AgreesCovers
  <2>6. MoreBlocks'
    BY <1>1 DEF MoreBlocks, Blocks
  <2>7. (\E m \in Nat : InLoop(m) /\ Len(file) = ChunkAt(m) + 1 /\ file[ChunkAt(m) + 1] = Length)'
    BY <2>3, <2>4
  <2> QED
    BY <1>1, <2>5, <2>6, <2>7, Frame DEF BlocksWritten
<1> QED
  BY <1>1, <1>3, <1>4, <1>5, LoopStep

\* A chunk is not empty and stays in its block.
LEMMA ChunkFacts ==
  ASSUME FileTypeOK, MoreBlocks
  PROVE  /\ Block.base \in Nat /\ Block.size \in Nat \ {0} /\ Chunk \in Nat \ {0}
         /\ done + Chunk <= Block.size /\ Address \in Nat /\ Address = Block.base + done
         /\ region + 1 \in 1 .. Len(Blocks) /\ region + 1 <= MaxRegions
<1>1. region + 1 \in 1 .. Len(Blocks) /\ region + 1 <= MaxRegions /\ done \in Nat
  <2>1. region \in Nat /\ region < Len(Blocks) /\ region < MaxRegions /\ done \in Nat
    BY TypeFacts DEF MoreBlocks
  <2>2. Len(Blocks) \in Nat
    BY TypeFacts, MachineFacts
  <2> QED
    BY <2>1, <2>2
<1>2. Block.base \in Nat /\ Block.size \in Nat \ {0}
  BY <1>1, TypeFacts, MachineFacts DEF Block
<1>3. done < Block.size
  BY <1>1, <1>2 DEF FileTypeOK, Block
<1> HIDE DEF Block
<1>4. Chunk \in Nat \ {0} /\ done + Chunk <= Block.size
  BY <1>1, <1>2, <1>3 DEF Chunk
<1> QED
  BY <1>1, <1>2, <1>4 DEF Address

LEMMA DataStep == FileInv /\ WriteData => FileInv'
<1> SUFFICES ASSUME FileInv, WriteData PROVE FileInv'
  OBVIOUS
<1> DEFINE x == Data(Address, Chunk)
<1>1. /\ phase = "data" /\ phase' = "block" /\ Write(<<x>>)
      /\ IF done + Chunk = Block.size
         THEN region' = region + 1 /\ done' = 0
         ELSE region' = region /\ done' = done + Chunk
      /\ UNCHANGED <<machine, headerPos, cpu, root, packed>>
  BY DEF WriteData
<1>2. MoreBlocks
  BY <1>1, OpenParts DEF BlocksWritten
<1>3. PICK n \in Nat : InLoop(n) /\ Len(file) = ChunkAt(n) + 1 /\ file[ChunkAt(n) + 1] = Length
  BY <1>1, OpenParts DEF BlocksWritten
<1>4. /\ Block.base \in Nat /\ Block.size \in Nat \ {0} /\ Chunk \in Nat \ {0}
      /\ done + Chunk <= Block.size /\ Address \in Nat /\ Address = Block.base + done
      /\ region + 1 \in 1 .. Len(Blocks) /\ region + 1 <= MaxRegions
      /\ Block = Blocks[region + 1]
  BY <1>1, <1>2, LoopFacts, ChunkFacts DEF Block
<1>5. x \in Unit /\ x # Torn /\ x.kind = "data" /\ x.base = Address /\ x.size = Chunk
  <2>1. Address \in Nat /\ Chunk \in Nat /\ machine \in Machines
    BY <1>1, <1>4, LoopFacts
  <2>2. x \in Unit /\ x.kind = "data" /\ x.base = Address /\ x.size = Chunk
    BY <2>1, UnitFacts
  <2>3. Torn.kind = "torn"
    BY <2>1, UnitFacts
  <2> QED
    BY <2>2, <2>3
<1> HIDE DEF x, Block, Chunk
<1>6. /\ file' \in Seq(Unit) /\ Len(file') = Len(file) + 1 /\ Len(file) \in Nat
      /\ Extends(file, file') /\ Agrees(file, file') /\ file'[Len(file) + 1] = x
      /\ written' \in 0 .. Len(file') /\ TornCounted'
  <2>1. FileTypeOK /\ TornCounted
    BY <1>1, LoopFacts
  <2>2. Write(<<x>>)
    BY <1>1
  <2> QED
    BY <1>5, <2>1, <2>2, WriteOne
<1>7. /\ ChunkAt(n + 1) = ChunkAt(n) + 2 /\ ChunkAt(n) \in Nat /\ ArrayEnd \in Nat
      /\ ChunkAt(n) >= ArrayEnd
  BY <1>1, LoopFacts, MachineFacts DEF ChunkAt
<1>8. file'[ChunkAt(n + 1)] = x /\ file'[ChunkAt(n + 1) - 1] = Length
      /\ Len(file') = ChunkAt(n + 1)
  <2>1. Len(file) + 1 = ChunkAt(n + 1) /\ ChunkAt(n + 1) - 1 = ChunkAt(n) + 1
        /\ ChunkAt(n) + 1 \in 1 .. Len(file)
    BY <1>3, <1>6, <1>7
  <2> QED
    BY <1>3, <1>6, <2>1 DEF Extends
<1>9. Pairs(file', n) /\ (Straight(file', n) <=> Straight(file, n))
  BY <1>1, <1>3, <1>6, LoopFacts, AgreesPairs DEF InLoop
\* When all blocks look like one chunk, so does this one, and it is its first.
<1>10. ASSUME Straight(file', n + 1)
       PROVE  region = n /\ done = 0 /\ Chunk = Blocks[n + 1].size /\ x = Data(Blocks[n + 1].base, Chunk)
  <2>1. Straight(file', n)
    <3>1. \A j \in 1 .. n : j \in 1 .. n + 1
      OBVIOUS
    <3> QED
      BY <1>10, <3>1 DEF Straight
  <2>2. region = n /\ done = 0
    BY <1>3, <1>9, <2>1 DEF InLoop
  <2>3. file'[ChunkAt(n + 1)].size = Blocks[n + 1].size
    <3>1. n + 1 \in 1 .. n + 1
      OBVIOUS
    <3> QED
      BY <1>10, <3>1 DEF Straight
  <2>4. Address = Blocks[n + 1].base
    BY <1>4, <2>2
  <2> QED
    BY <1>5, <1>8, <2>2, <2>3, <2>4 DEF x
<1>11. Pairs(file', n + 1)
  <2>1. \A j \in 1 .. n + 1 : j \in 1 .. n \/ j = n + 1
    OBVIOUS
  <2>2. Len(file') >= ChunkAt(n + 1)
    BY <1>7, <1>8
  <2>3. /\ file'[ChunkAt(n + 1)].kind = "data" /\ file'[ChunkAt(n + 1)].size > 0
        /\ file'[ChunkAt(n + 1)].size <= ChunkSize
    <3>1. Chunk <= ChunkSize
      BY <1>4 DEF Chunk
    <3> QED
      BY <1>4, <1>5, <1>8, <3>1
  <2> QED
    BY <1>8, <1>9, <1>10, <2>1, <2>2, <2>3 DEF Pairs
<1>12. InLoop(n + 1)'
  <2>1. n >= region /\ (done > 0 => n > region) /\ region \in Nat /\ done \in Nat
    BY <1>1, <1>3, LoopFacts DEF InLoop
  <2>2. n + 1 >= region' /\ (done' > 0 => n + 1 > region')
    BY <1>1, <2>1
  <2>3. ASSUME Straight(file', n + 1) PROVE region' = n + 1 /\ done' = 0
    <3>1. region = n /\ done = 0 /\ Chunk = Block.size
      BY <1>4, <1>10, <2>3
    <3>2. done + Chunk = Block.size
      BY <1>4, <3>1
    <3> QED
      BY <1>1, <3>1, <3>2
  <2> QED
    BY <1>1, <1>11, <2>2, <2>3, FrameLoop
<1>13. Covers(file', region', done')
  <2>1. Covers(file', region, done)
    BY <1>1, <1>6, LoopFacts, AgreesCovers
  <2>2. ASSUME NEW y \in 0 .. done + Chunk - 1
        PROVE  Saved(file', region + 1, y)
    <3>1. done \in Nat /\ y \in Nat /\ (y \in 0 .. done - 1 \/ y >= done) /\ y < done + Chunk
      <4>1. done \in Nat /\ Chunk \in Nat
        BY <1>1, <1>4, LoopFacts
      <4> QED
        BY <4>1
    <3>2. CASE y \in 0 .. done - 1
      BY <2>1, <3>2 DEF Covers
    <3>3. CASE y >= done
      <4>1. ChunkAt(n) + 1 \in ArrayEnd + 1 .. Len(file') - 1
            /\ (ChunkAt(n) + 1) + 1 = ChunkAt(n + 1) /\ ChunkAt(n + 1) - 1 = ChunkAt(n) + 1
        BY <1>7, <1>8
      <4>2. file'[ChunkAt(n) + 1] = Length /\ file'[(ChunkAt(n) + 1) + 1] = x
        BY <1>8, <4>1
      <4>3. x.base <= Block.base + y /\ Block.base + y < x.base + x.size
        BY <1>4, <1>5, <3>1, <3>3
      <4>4. SavedAt(file', ChunkAt(n) + 1, region + 1, y)
        BY <1>4, <1>5, <4>2, <4>3 DEF SavedAt
      <4> QED
        BY <4>1, <4>4 DEF Saved
    <3> QED
      BY <3>1, <3>2, <3>3
  <2>3. region \in Nat /\ done \in Nat
    BY <1>1, LoopFacts
  <2>4. CASE done + Chunk = Block.size
    <3>1. region' = region + 1 /\ done' = 0
      BY <1>1, <2>4
    <3>2. \A y \in 0 .. Blocks[region + 1].size - 1 : Saved(file', region + 1, y)
      <4> TAKE y \in 0 .. Blocks[region + 1].size - 1
      <4>1. y \in 0 .. done + Chunk - 1
        BY <1>4, <2>3, <2>4
      <4> QED
        BY <2>2, <4>1
    <3>3. \A i \in 1 .. region + 1 : i \in 1 .. region \/ i = region + 1
      BY <2>3
    <3>4. 0 .. 0 - 1 = {}
      OBVIOUS
    <3> QED
      BY <2>1, <3>1, <3>2, <3>3, <3>4 DEF Covers
  <2>5. CASE done + Chunk # Block.size
    <3>1. region' = region /\ done' = done + Chunk
      BY <1>1, <2>5
    <3>2. \A i \in 1 .. region : \A y \in 0 .. Blocks[i].size - 1 : Saved(file', i, y)
      BY <2>1 DEF Covers
    <3>3. \A y \in 0 .. done' - 1 : Saved(file', region + 1, y)
      <4> TAKE y \in 0 .. done' - 1
      <4>1. y \in 0 .. done + Chunk - 1
        BY <1>4, <2>3, <3>1
      <4> QED
        BY <2>2, <4>1
    <3> QED
      BY <3>1, <3>2, <3>3 DEF Covers
  <2> QED
    BY <2>4, <2>5
<1>14. FileTypeOK'
  <2>1. /\ phase' \in Phases /\ headerPos' \in 0 .. Len(file') /\ machine' \in Machines
        /\ root' \in 0 .. 2 /\ packed' \subseteq machine'.tables
    BY <1>1, <1>6, LoopFacts DEF Phases
  <2>2. cpu' \in 0 .. machine'.cpus
    BY <1>1, LoopFacts DEF FileTypeOK
  <2>3. Blocks' = Blocks /\ Len(Blocks) \in Nat /\ region \in Nat /\ done \in Nat
        /\ MaxRegions \in Nat
    BY <1>1, LoopFacts, Frame, MachineFacts
  <2>4. region' \in 0 .. MaxRegions /\ region' <= Len(Blocks) /\ done' \in Nat
    BY <1>1, <1>4, <2>3
  <2>5. done' > 0 => region' < Len(Blocks) /\ done' < Blocks[region' + 1].size
    BY <1>1, <1>4, <2>3
  <2> QED
    BY <1>6, <2>1, <2>2, <2>3, <2>4, <2>5 DEF FileTypeOK
<1>15. BlocksWritten'
  <2>1. (Len(file) = ChunkAt(n + 1))'
    BY <1>1, <1>8, FrameLoop
  <2>2. (\E m \in Nat : InLoop(m) /\ Len(file) = ChunkAt(m))'
    BY <1>12, <2>1
  <2> QED
    BY <1>1, <1>13, <2>2, Frame DEF BlocksWritten
<1> QED
  BY <1>1, <1>6, <1>14, <1>15, LoopStep

-----------------------------------------------------------------------------
(* The second writing of the memory header and of the array.                   *)

\* Fewer blocks are claimed than lengths and data were written.
LEMMA PairsFewer ==
  ASSUME machine \in Machines, NEW f \in Seq(Unit), NEW n \in Nat, NEW k \in 0 .. n, Pairs(f, n)
  PROVE  Pairs(f, k)
<1>1. \A j \in 1 .. k : j \in 1 .. n
  OBVIOUS
<1>2. Len(f) >= ChunkAt(k)
  <2>1. Len(f) \in Nat /\ ArrayEnd \in Nat /\ Len(f) >= ChunkAt(n)
    BY MachineFacts, LenProperties DEF Pairs
  <2> QED
    BY <2>1 DEF ChunkAt
<1> QED
  BY <1>1, <1>2 DEF Pairs

LEMMA CountStep == FileInv /\ UpdateCount => FileInv'
<1> SUFFICES ASSUME FileInv, UpdateCount PROVE FileInv'
  OBVIOUS
<1>1. /\ phase = "block" /\ phase' = "array" /\ ~ MoreBlocks
      /\ Rewrite(headerPos, <<MemoryHeader(region)>>)
      /\ UNCHANGED <<machine, written, headerPos, cpu, region, done, root, packed>>
  BY DEF UpdateCount
<1>2. PICK n \in Nat : InLoop(n) /\ Len(file) = ChunkAt(n)
  BY <1>1, OpenParts DEF BlocksWritten
<1>3. /\ machine \in Machines /\ file \in Seq(Unit) /\ Len(file) \in Nat /\ region \in Nat
      /\ headerPos = At /\ CountIs(file, 0) /\ ArrayIs(file, 0) /\ Covers(file, region, done)
      /\ TornCounted
  BY <1>1, LoopFacts
<1>4. /\ At \in Nat /\ At >= 3 /\ ArrayEnd \in Nat /\ ArrayEnd = At + MaxRegions
      /\ Len(file) >= ArrayEnd /\ At \in 1 .. Len(file)
  <2>1. At \in Nat /\ At >= 3 /\ ArrayEnd \in Nat /\ ArrayEnd = At + MaxRegions
    BY <1>3, MachineFacts DEF ArrayEnd
  <2> QED
    BY <1>3, <2>1 DEF ArrayIs
<1>5. /\ MemoryHeader(region) \in Unit /\ MemoryHeader(region).kind = "memory"
      /\ MemoryHeader(0).kind = "memory" /\ Torn.kind = "torn"
  BY <1>3, UnitFacts
<1>6. /\ file' \in Seq(Unit) /\ SameBut(file, file', At, 1) /\ file'[At] = MemoryHeader(region)
  BY <1>1, <1>3, <1>4, <1>5, RewriteOne
<1>7. Len(file') = Len(file) /\ \A i \in 1 .. Len(file) : i # At => file'[i] = file[i]
  <2>1. \A i \in 1 .. Len(file) : i # At => i < At \/ i >= At + 1
    BY <1>4
  <2> QED
    BY <1>6, <2>1 DEF SameBut
<1>8. Agrees(file, file')
  <2>1. \A p \in ArrayEnd + 1 .. Len(file) : p \in 1 .. Len(file) /\ p # At
    BY <1>3, <1>4
  <2>2. Len(file') >= Len(file)
    BY <1>3, <1>7
  <2> QED
    BY <1>7, <2>1, <2>2 DEF Agrees
<1>9. Pairs(file', region) /\ Covers(file', region, 0)
  <2>1. region \in 0 .. n /\ Pairs(file, n)
    BY <1>2, <1>3 DEF InLoop
  <2>2. Pairs(file, region)
    BY <1>3, <2>1, PairsFewer
  <2>3. Covers(file, region, 0)
    <3>1. 0 .. 0 - 1 = {}
      OBVIOUS
    <3> QED
      BY <1>3, <3>1 DEF Covers
  <2> QED
    BY <1>3, <1>6, <1>8, <2>2, <2>3, AgreesPairs, AgreesCovers
<1>10. CountIs(file', region) /\ ArrayIs(file', 0)
  <2>1. \A i \in 1 .. MaxRegions : At + i \in 1 .. Len(file) /\ At + i # At
    BY <1>3, <1>4
  <2>2. Len(file') >= ArrayEnd /\ Len(file') >= At
    BY <1>3, <1>4, <1>7
  <2> QED
    BY <1>3, <1>6, <1>7, <2>1, <2>2 DEF CountIs, ArrayIs
<1>11. TornCounted'
  <2>1. file[At] = MemoryHeader(0)
    BY <1>3 DEF CountIs
  <2>2. \A i \in 1 .. Len(file) : file'[i] = file[i] \/ (file'[i] # Torn /\ file[i] # Torn)
    BY <1>5, <1>6, <1>7, <2>1
  <2>3. TornAt(file') = TornAt(file)
    BY <1>3, <1>6, <1>7, <2>2, TornSame
  <2>4. TornAt(file)' = TornAt(file)
    BY <2>3 DEF TornAt, Torn
  <2> QED
    BY <1>1, <1>3, <1>7, <2>4 DEF TornCounted
<1>12. FileTypeOK'
  <2>1. phase' \in Phases /\ written' \in 0 .. Len(file') /\ headerPos' \in 0 .. Len(file')
    BY <1>1, <1>7, LoopFacts DEF Phases
  <2> QED
    BY <1>1, <1>6, <2>1, LoopFacts, TypeStep
<1>13. CpusWritten'
  <2>1. \A i \in 1 .. At - 1 : i \in 1 .. Len(file) /\ i # At
    BY <1>4
  <2>2. Len(file') >= Len(file) /\ \A i \in 1 .. At - 1 : file'[i] = file[i]
    BY <1>3, <1>7, <2>1
  <2>3. phase \in AfterRegions /\ phase' \in AfterRegions
    BY <1>1 DEF AfterRegions, AfterCount
  <2> QED
    BY <1>1, <1>6, <2>2, <2>3, CpusKept
<1>14. MemoryBegun' /\ BlocksWritten'
  BY <1>1, <1>3, <1>10, Frame DEF MemoryBegun, BlocksWritten
<1>15. MemoryDone'
  <2>1. ~ MoreBlocks'
    BY <1>1 DEF MoreBlocks, Blocks
  <2> QED
    BY <1>1, <1>9, <1>10, <2>1, Frame DEF MemoryDone, AfterArray
<1> QED
  BY <1>1, <1>11, <1>12, <1>13, <1>14, <1>15 DEF FileInv, OpenInv

\* What the second writing of the array starts from, whole or in part.
LEMMA ArrayFacts ==
  ASSUME FileInv, phase = "array"
  PROVE  /\ FileTypeOK /\ TornCounted /\ machine \in Machines /\ file \in Seq(Unit)
         /\ Len(file) \in Nat /\ written \in 0 .. Len(file) /\ headerPos \in 0 .. Len(file)
         /\ root \in 0 .. 2 /\ packed \subseteq machine.tables /\ region \in Nat
         /\ headerPos = At /\ CountIs(file, region) /\ ArrayIs(file, 0) /\ ~ MoreBlocks
         /\ Pairs(file, region) /\ Covers(file, region, 0)
         /\ At \in Nat /\ At >= 3 /\ ArrayEnd \in Nat /\ ArrayEnd = At + MaxRegions
         /\ Len(file) >= ArrayEnd
         /\ Len(file) > 0 /\ file[1] = Header(0)
<1>1. phase # "closed" /\ phase \in AfterCount /\ phase \in Started
  BY DEF AfterCount, Started, AfterCpus, AfterRegions
<1>2. /\ FileTypeOK /\ TornCounted /\ machine \in Machines /\ file \in Seq(Unit)
      /\ Len(file) \in Nat /\ region \in Nat
  BY <1>1, OpenParts, TypeFacts
<1>3. /\ headerPos = At /\ CountIs(file, region) /\ ArrayIs(file, 0) /\ ~ MoreBlocks
      /\ Pairs(file, region) /\ Covers(file, region, 0)
      /\ Len(file) > 0 /\ file[1] = Header(0)
  BY <1>1, OpenParts DEF MemoryBegun, MemoryDone, CpusWritten
<1>4. At \in Nat /\ At >= 3 /\ ArrayEnd \in Nat /\ ArrayEnd = At + MaxRegions
  BY <1>2, MachineFacts DEF ArrayEnd
<1>5. Len(file) >= ArrayEnd
  BY <1>3 DEF ArrayIs
<1>6. /\ written \in 0 .. Len(file) /\ headerPos \in 0 .. Len(file)
      /\ root \in 0 .. 2 /\ packed \subseteq machine.tables
  BY <1>2 DEF FileTypeOK
<1> QED
  BY <1>2, <1>3, <1>4, <1>5, <1>6

\* Some of the entries, from the first on, are written over.
LEMMA ArrayRewrite ==
  ASSUME FileInv, phase = "array", NEW u \in Seq(Unit), Len(u) <= MaxRegions,
         Rewrite(headerPos + 1, u)
  PROVE  /\ file' \in Seq(Unit) /\ Len(file') = Len(file) /\ Agrees(file, file')
         /\ \A i \in 1 .. Len(file) :
              i <= At \/ i > At + Len(u) => file'[i] = file[i]
         /\ \A i \in 1 .. Len(u) : file'[At + i] = u[i]
<1>1. /\ file \in Seq(Unit) /\ Len(file) \in Nat /\ headerPos = At /\ At \in Nat
      /\ ArrayEnd \in Nat /\ ArrayEnd = At + MaxRegions /\ Len(file) >= ArrayEnd
  BY ArrayFacts
<1>2. Len(u) \in Nat
  BY LenProperties
<1>3. At + 1 \in Nat \ {0} /\ (At + 1) + Len(u) - 1 <= Len(file) /\ Rewrite(At + 1, u)
  BY <1>1, <1>2
<1>4. /\ file' \in Seq(Unit) /\ SameBut(file, file', At + 1, Len(u))
      /\ \A j \in 1 .. Len(u) : file'[(At + 1) + j - 1] = u[j]
  BY <1>1, <1>3, RewriteFacts
<1>5. \A i \in 1 .. Len(u) : (At + 1) + i - 1 = At + i
  BY <1>1, <1>2
<1>6. Len(file') = Len(file) /\ \A i \in 1 .. Len(file) :
                                   i <= At \/ i > At + Len(u) => file'[i] = file[i]
  <2>1. \A i \in 1 .. Len(file) : i <= At \/ i > At + Len(u) => i < At + 1 \/ i >= (At + 1) + Len(u)
    BY <1>1, <1>2
  <2> QED
    BY <1>4, <2>1 DEF SameBut
<1>7. Agrees(file, file')
  <2>1. \A p \in ArrayEnd + 1 .. Len(file) : p \in 1 .. Len(file) /\ p > At + Len(u)
    BY <1>1, <1>2
  <2>2. Len(file') >= Len(file)
    BY <1>1, <1>6
  <2> QED
    BY <1>6, <2>1, <2>2 DEF Agrees
<1> QED
  BY <1>4, <1>5, <1>6, <1>7

LEMMA ArrayStep == FileInv /\ UpdateRegions => FileInv'
<1> SUFFICES ASSUME FileInv, UpdateRegions PROVE FileInv'
  OBVIOUS
<1> DEFINE u == Regions(region)
<1>1. /\ phase = "array" /\ phase' = "tables" /\ Rewrite(headerPos + 1, u)
      /\ UNCHANGED <<machine, written, headerPos, cpu, region, done, root, packed>>
  BY DEF UpdateRegions
<1>2. /\ machine \in Machines /\ file \in Seq(Unit) /\ Len(file) \in Nat /\ region \in Nat
      /\ CountIs(file, region) /\ ArrayIs(file, 0) /\ ~ MoreBlocks /\ TornCounted
      /\ Pairs(file, region) /\ Covers(file, region, 0)
      /\ At \in Nat /\ At >= 3 /\ ArrayEnd \in Nat /\ ArrayEnd = At + MaxRegions
      /\ Len(file) >= ArrayEnd
  BY <1>1, ArrayFacts
<1>3. /\ u \in Seq(Unit) /\ Len(u) = MaxRegions /\ Torn.kind = "torn"
      /\ \A i \in 1 .. MaxRegions : u[i].kind = "entry" /\ Regions(0)[i].kind = "entry"
  <2>1. 0 \in Nat
    OBVIOUS
  <2> QED
    BY <1>2, <2>1, RegionsFacts, UnitFacts
<1> HIDE DEF u
<1>4. /\ file' \in Seq(Unit) /\ Len(file') = Len(file) /\ Agrees(file, file')
      /\ \A i \in 1 .. Len(file) : i <= At \/ i > At + MaxRegions => file'[i] = file[i]
      /\ \A i \in 1 .. MaxRegions : file'[At + i] = u[i]
  BY <1>1, <1>3, ArrayRewrite
<1>5. CountIs(file', region) /\ ArrayIs(file', region)
  <2>1. At \in 1 .. Len(file) /\ At <= At
    BY <1>2
  <2>2. file'[At] = file[At] /\ Len(file') >= At /\ Len(file') >= ArrayEnd
    BY <1>2, <1>4, <2>1
  <2> QED
    BY <1>2, <1>4, <2>2 DEF CountIs, ArrayIs, u
<1>6. Pairs(file', region) /\ Covers(file', region, 0)
  BY <1>2, <1>4, AgreesPairs, AgreesCovers
<1>7. TornCounted'
  <2>1. ASSUME NEW i \in 1 .. Len(file)
        PROVE  file'[i] = file[i] \/ (file'[i] # Torn /\ file[i] # Torn)
    <3>1. CASE i <= At \/ i > At + MaxRegions
      BY <1>4, <3>1
    <3>2. CASE i > At /\ i <= At + MaxRegions
      <4>1. i - At \in 1 .. MaxRegions /\ At + (i - At) = i
        BY <1>2, <3>2
      <4>2. file'[i] = u[i - At] /\ file[i] = Regions(0)[i - At]
        BY <1>2, <1>4, <4>1 DEF ArrayIs
      <4> QED
        BY <1>3, <4>1, <4>2
    <3> QED
      BY <1>2, <3>1, <3>2
  <2>2. TornAt(file') = TornAt(file)
    BY <1>2, <1>4, <2>1, TornSame
  <2>3. TornAt(file)' = TornAt(file)
    BY <2>2 DEF TornAt, Torn
  <2> QED
    BY <1>1, <1>2, <1>4, <2>3 DEF TornCounted
<1>8. FileTypeOK'
  <2>1. phase' \in Phases /\ written' \in 0 .. Len(file') /\ headerPos' \in 0 .. Len(file')
    BY <1>1, <1>4, ArrayFacts DEF Phases
  <2> QED
    BY <1>1, <1>4, <2>1, ArrayFacts, TypeStep
<1>9. CpusWritten'
  <2>1. \A i \in 1 .. At - 1 : i \in 1 .. Len(file) /\ i <= At
    BY <1>2
  <2>2. Len(file') >= Len(file) /\ \A i \in 1 .. At - 1 : file'[i] = file[i]
    BY <1>2, <1>4, <2>1
  <2>3. phase \in AfterRegions /\ phase' \in AfterRegions
    BY <1>1 DEF AfterRegions, AfterCount, AfterArray
  <2> QED
    BY <1>1, <1>4, <2>2, <2>3, CpusKept
<1>10. MemoryBegun' /\ BlocksWritten'
  BY <1>1 DEF MemoryBegun, BlocksWritten
<1>11. MemoryDone'
  <2>1. ~ MoreBlocks'
    BY <1>1, <1>2 DEF MoreBlocks, Blocks
  <2> QED
    BY <1>1, <1>5, <1>6, <2>1, Frame DEF MemoryDone
<1> QED
  BY <1>1, <1>7, <1>8, <1>9, <1>10, <1>11 DEF FileInv, OpenInv

LEMMA ArrayFailsStep == FileInv /\ UpdateRegionsFails => FileInv'
<1> SUFFICES ASSUME FileInv, UpdateRegionsFails PROVE FileInv'
  OBVIOUS
<1>1. /\ phase = "array" /\ phase' = "closed"
      /\ UNCHANGED <<machine, written, headerPos, cpu, region, done, root, packed>>
  BY DEF UpdateRegionsFails
<1>2. PICK n \in 0 .. MaxRegions - 1 : Rewrite(headerPos + 1, SubSeq(Regions(region), 1, n))
  BY DEF UpdateRegionsFails
<1>3. /\ machine \in Machines /\ file \in Seq(Unit) /\ Len(file) \in Nat /\ region \in Nat
      /\ CountIs(file, region) /\ ArrayIs(file, 0)
      /\ Pairs(file, region) /\ Covers(file, region, 0)
      /\ At \in Nat /\ At >= 3 /\ ArrayEnd \in Nat /\ ArrayEnd = At + MaxRegions
      /\ Len(file) >= ArrayEnd /\ Len(file) > 0 /\ file[1] = Header(0)
  BY <1>1, ArrayFacts
<1> DEFINE u == SubSeq(Regions(region), 1, n)
<1>4. u \in Seq(Unit) /\ Len(u) = n /\ \A i \in 1 .. n : u[i] = Regions(region)[i]
  <2>1. 1 \in Int /\ n \in Int /\ n \in Nat /\ \A i \in 1 .. n : i \in 1 .. MaxRegions
    OBVIOUS
  <2>2. \A i \in 1 .. n : Regions(region)[i] \in Unit
    BY <1>3, <2>1, RegionsFacts
  <2>3. /\ SubSeq(Regions(region), 1, n) \in Seq(Unit)
        /\ Len(SubSeq(Regions(region), 1, n)) = IF 1 <= n THEN n - 1 + 1 ELSE 0
        /\ \A i \in 1 .. n - 1 + 1 :
             SubSeq(Regions(region), 1, n)[i] = Regions(region)[1 + i - 1]
    BY <2>1, <2>2, SubSeqProperties
  <2> HIDE DEF u
  <2>4. u \in Seq(Unit) /\ (Len(u) = IF 1 <= n THEN n - 1 + 1 ELSE 0)
        /\ \A i \in 1 .. n - 1 + 1 : u[i] = Regions(region)[1 + i - 1]
    BY <2>3 DEF u
  <2>5. Len(u) = n
    BY <2>1, <2>4
  <2>6. \A i \in 1 .. n : i \in 1 .. n - 1 + 1 /\ 1 + i - 1 = i
    BY <2>1
  <2> QED
    BY <2>4, <2>5, <2>6
<1>5. Rewrite(headerPos + 1, u)
  BY <1>2
<1> HIDE DEF u
<1>6. /\ file' \in Seq(Unit) /\ Len(file') = Len(file) /\ Agrees(file, file')
      /\ \A i \in 1 .. Len(file) : i <= At \/ i > At + n => file'[i] = file[i]
      /\ \A i \in 1 .. n : file'[At + i] = u[i]
  <2>1. Len(u) <= MaxRegions
    BY <1>4
  <2> QED
    BY <1>1, <1>4, <1>5, <2>1, ArrayRewrite
<1>7. file'[1] = Header(0) /\ CountIs(file', region)
  <2>1. At \in 1 .. Len(file) /\ At <= At /\ 1 \in 1 .. Len(file) /\ 1 <= At
    BY <1>3
  <2>2. file'[At] = file[At] /\ file'[1] = file[1] /\ Len(file') >= At
    BY <1>3, <1>6, <2>1
  <2> QED
    BY <1>3, <2>2 DEF CountIs
<1>8. \A i \in 1 .. MaxRegions : file'[At + i] \in {Empty, Regions(region)[i]}
  <2> TAKE i \in 1 .. MaxRegions
  <2>1. CASE i <= n
    BY <1>4, <1>6, <2>1
  <2>2. CASE i > n
    <3>1. At + i \in 1 .. Len(file) /\ At + i > At + n
      BY <1>3, <2>2
    <3>2. file'[At + i] = file[At + i] /\ file[At + i] = Regions(0)[i]
      BY <1>3, <1>6, <3>1 DEF ArrayIs
    <3> QED
      BY <1>3, <3>2, RegionsEmpty
  <2> QED
    BY <2>1, <2>2
<1>9. FileTypeOK'
  <2>1. phase' \in Phases /\ written' \in 0 .. Len(file') /\ headerPos' \in 0 .. Len(file')
    BY <1>1, <1>6, ArrayFacts DEF Phases
  <2> QED
    BY <1>1, <1>6, <2>1, ArrayFacts, TypeStep
<1>10. Header(0).size = 0 /\ Header(0).cpus = machine.cpus
  <2>1. 0 \in Nat /\ machine \in Machines
    BY <1>3
  <2> QED
    BY <2>1, UnitFacts
<1>11. HeaderRight' /\ SizeMeansWhole' /\ MemoryAt' = At
  BY <1>1, <1>7, <1>10 DEF HeaderRight, SizeMeansWhole, MemoryAt, At
<1>12. ClaimRight'
  <2>1. Pairs(file', region) /\ Covers(file', region, 0)
    BY <1>3, <1>6, AgreesPairs, AgreesCovers
  <2>2. Claimed' = region'
    BY <1>1, <1>3, <1>7, <1>11, UnitFacts DEF Claimed, CountIs
  <2>3. Regions(region)' = Regions(region) /\ Empty' = Empty /\ At' = At
    BY <1>1, Frame DEF Regions, Entry, Empty, Blocks
  <2> QED
    BY <1>1, <1>8, <2>1, <2>2, <2>3, Frame DEF ClaimRight
<1> QED
  BY <1>1, <1>9, <1>11, <1>12 DEF FileInv, ClosedInv

\* Only here does the size become other than 0, in a file that is complete.
LEMMA SizeStep == FileInv /\ WriteSize => FileInv'
<1> SUFFICES ASSUME FileInv, WriteSize PROVE FileInv'
  OBVIOUS
<1>1. /\ phase = "size" /\ phase' = "closed" /\ Rewrite(1, <<Header(written)>>)
      /\ UNCHANGED <<machine, written, headerPos, cpu, region, done, root, packed>>
  BY DEF WriteSize
<1>2. phase \in AfterArray /\ phase \in AfterCount /\ phase \in AfterCpus /\ phase \in Started
      /\ phase # "closed"
  BY <1>1 DEF AfterArray, AfterCount, Started, AfterCpus, AfterRegions
<1>3. /\ machine \in Machines /\ file \in Seq(Unit) /\ Len(file) \in Nat /\ written \in Nat
      /\ written \in 0 .. Len(file) /\ headerPos \in 0 .. Len(file)
      /\ root \in 0 .. 2 /\ packed \subseteq machine.tables /\ FileTypeOK /\ TornCounted
  BY <1>2, AfterFacts
<1>4. /\ CountIs(file, region) /\ ~ MoreBlocks /\ ArrayIs(file, region)
      /\ Pairs(file, region) /\ Covers(file, region, 0) /\ file[Len(file)] = Devices
      /\ file[1] = Header(0) /\ CpusIn(file, cpu) /\ cpu = machine.cpus
  BY <1>1, <1>2, OpenParts DEF MemoryDone, CpusWritten
<1>5. /\ At \in Nat /\ At >= 3 /\ ArrayEnd \in Nat /\ ArrayEnd = At + MaxRegions
      /\ At = machine.cpus + 2 /\ machine.cpus \in Nat
      /\ Len(file) >= ArrayEnd /\ region \in Nat
      /\ region <= MaxRegions /\ region <= Len(Blocks) /\ Len(Blocks) \in Nat
  BY <1>3, <1>4, TypeFacts, MachineFacts DEF ArrayIs, ArrayEnd, At
<1>6. /\ Header(written) \in Unit /\ Header(written).kind = "header"
      /\ Header(written).size = written /\ Header(written).cpus = machine.cpus
      /\ Header(0).kind = "header" /\ Torn.kind = "torn"
  <2>1. 0 \in Nat
    OBVIOUS
  <2> QED
    BY <1>3, <2>1, UnitFacts
<1>7. /\ Len(file) \in Nat /\ MaxRegions \in Nat /\ At \in Nat /\ At >= 3
       /\ ArrayEnd = At + MaxRegions /\ Len(file) >= ArrayEnd
  BY <1>3, <1>5
<1>8. /\ file' \in Seq(Unit) /\ Len(file') = Len(file) /\ file'[1] = Header(written)
      /\ \A i \in 1 .. Len(file) : i > 1 => file'[i] = file[i]
  <2>1. 1 \in 1 .. Len(file)
    BY <1>3, <1>5
  <2>2. file' \in Seq(Unit) /\ SameBut(file, file', 1, 1) /\ file'[1] = Header(written)
    BY <1>1, <1>3, <1>6, <2>1, RewriteOne
  <2>3. \A i \in 1 .. Len(file) : i > 1 => i >= 1 + 1
    BY <1>3
  <2> QED
    BY <2>2, <2>3 DEF SameBut
<1>9. CountIs(file', region) /\ ArrayIs(file', region) /\ file'[Len(file')] = Devices
  <2>1. At \in 1 .. Len(file) /\ At > 1 /\ Len(file) \in 1 .. Len(file) /\ Len(file) > 1
    BY <1>7
  <2>2. \A i \in 1 .. MaxRegions : At + i \in 1 .. Len(file) /\ At + i > 1
    BY <1>7
  <2>3. Len(file') >= At /\ Len(file') >= ArrayEnd
    BY <1>7, <1>8
  <2> QED
    BY <1>4, <1>8, <2>1, <2>2, <2>3 DEF CountIs, ArrayIs
<1>10. \A c \in 1 .. machine.cpus : file'[c + 1] = CpuState(c - 1)
  <2>1. \A c \in 1 .. machine.cpus : c + 1 \in 1 .. Len(file) /\ c + 1 > 1
    <3>1. machine.cpus \in Nat /\ At = machine.cpus + 2
      BY <1>5
    <3> QED
      BY <1>7, <3>1
  <2> QED
    BY <1>4, <1>8, <2>1 DEF CpusIn
<1>11. Pairs(file', region) /\ Covers(file', region, 0)
  <2>1. \A p \in ArrayEnd + 1 .. Len(file) : p \in 1 .. Len(file) /\ p > 1
    BY <1>7
  <2>2. Len(file') >= Len(file)
    BY <1>3, <1>8
  <2>3. Agrees(file, file')
    BY <1>8, <2>1, <2>2 DEF Agrees
  <2> QED
    BY <1>3, <1>4, <1>5, <1>8, <2>3, AgreesPairs, AgreesCovers
<1>12. TornAt(file') = TornAt(file)
  <2>1. \A i \in 1 .. Len(file) : i = 1 \/ i > 1
    BY <1>3
  <2>2. \A i \in 1 .. Len(file) : file'[i] = file[i] \/ (file'[i] # Torn /\ file[i] # Torn)
    BY <1>4, <1>6, <1>8, <2>1
  <2> QED
    BY <1>3, <1>8, <2>2, TornSame
<1>13. FileTypeOK'
  <2>1. phase' \in Phases /\ written' \in 0 .. Len(file') /\ headerPos' \in 0 .. Len(file')
    BY <1>1, <1>3, <1>8 DEF Phases
  <2> QED
    BY <1>1, <1>3, <1>8, <2>1, TypeStep
<1>14. HeaderRight' /\ MemoryAt' = At /\ HasMemory' /\ Claimed' = region
  <2>1. HeaderRight' /\ MemoryAt' = At
    BY <1>1, <1>6, <1>8 DEF HeaderRight, MemoryAt, At
  <2>2. /\ Len(file') >= At /\ file'[At].kind = "memory" /\ file'[At].regions = region
    <3>1. Len(file') >= At /\ file'[At] = MemoryHeader(region)
      BY <1>9 DEF CountIs
    <3>2. region \in Nat /\ machine \in Machines
      BY <1>3, <1>5
    <3>3. MemoryHeader(region).kind = "memory" /\ MemoryHeader(region).regions = region
      BY <3>2, UnitFacts
    <3> QED
      BY <3>1, <3>3
  <2> QED
    BY <2>1, <2>2 DEF CountIs, HasMemory, Claimed
<1>15. Regions(region)' = Regions(region) /\ Empty' = Empty /\ At' = At /\ Blocks' = Blocks
  BY <1>1, Frame DEF Regions, Entry, Empty, Blocks
<1>16. ClaimRight'
  BY <1>1, <1>9, <1>11, <1>14, <1>15, Frame DEF ClaimRight, ArrayIs
<1>17. SizeMeansWhole'
  <2>1. (\A c \in 1 .. machine.cpus : file[c + 1] = CpuState(c - 1))'
    BY <1>1, <1>10 DEF CpuState
  <2>2. Claimed' <= Len(Blocks) /\ Claimed' <= MaxRegions
        /\ (Claimed' = Len(Blocks) \/ Claimed' = MaxRegions)
    BY <1>4, <1>5, <1>14 DEF MoreBlocks
  <2>3. (\A i \in 1 .. MaxRegions : EntryOf(i) = Regions(Claimed)[i])'
    <3>1. Regions(Claimed)' = Regions(region)
      BY <1>1, <1>14 DEF Regions, Entry, Empty, Blocks
    <3> QED
      BY <1>9, <1>14, <3>1 DEF ArrayIs, EntryOf
  <2>4. file'[1].size + Cardinality({p \in 1 .. Len(file') : file'[p] = Torn}) = Len(file')
    BY <1>3, <1>6, <1>8, <1>12 DEF TornCounted, TornAt
  <2>5. (file[Len(file)] = Devices)'
    BY <1>9 DEF Devices
  <2>6. (file[1].size + Cardinality({p \in 1 .. Len(file) : file[p] = Torn}) = Len(file))'
    BY <2>4 DEF Torn
  <2> QED
    BY <1>14, <1>15, <2>1, <2>2, <2>3, <2>5, <2>6 DEF SizeMeansWhole
<1> QED
  BY <1>1, <1>13, <1>14, <1>16, <1>17 DEF FileInv, ClosedInv

-----------------------------------------------------------------------------
(* Theorems.                                                                   *)

\* Every write, failure or stop of checkpoint_create and its helpers keeps the
\* invariant.
THEOREM StepKeeps == FileInv /\ [Next]_vars => FileInv'
<1> SUFFICES ASSUME FileInv, [Next]_vars PROVE FileInv'
  OBVIOUS
<1>1. CASE Next
  BY <1>1, HeaderStep, CpuStep, CpusDoneStep, MemoryHeaderStep, RegionsStep, LengthStep,
     DataStep, CountStep, ArrayStep, ArrayFailsStep, TablesHeaderStep, TablesLengthStep,
     TablesStep, SkipTablesStep, UpdateTablesHeaderStep, TablesFailStep, DevicesStep,
     SizeStep, WriteFailsStep, StopStep
     DEF Next
<1>2. CASE UNCHANGED vars
  <2>1. UNCHANGED <<machine, phase, file, written, headerPos, cpu, region, done, root, packed>>
    BY <1>2 DEF vars
  <2> USE DEF FileInv, OpenInv, ClosedInv
  <2>2. FileTypeOK'
    BY <2>1 DEF FileTypeOK, Blocks
  <2>3. (CpusWritten <=> CpusWritten') /\ (MemoryBegun <=> MemoryBegun')
    BY <2>1, Frame DEF CpusWritten, MemoryBegun
  <2>4. (MemoryDone <=> MemoryDone') /\ (TornCounted <=> TornCounted')
    BY <2>1, Frame DEF MemoryDone, TornCounted, TornAt, Torn, Devices, MoreBlocks, Blocks
  <2>5. BlocksWritten <=> BlocksWritten'
    <3>1. \A n : (InLoop(n) <=> InLoop(n)') /\ ChunkAt(n)' = ChunkAt(n)
      BY <2>1, FrameLoop DEF InLoop
    <3>2. MoreBlocks' <=> MoreBlocks
      BY <2>1 DEF MoreBlocks, Blocks
    <3> QED
      BY <2>1, <3>1, <3>2, Frame DEF BlocksWritten, Length
  <2>6. (HeaderRight <=> HeaderRight') /\ (SizeMeansWhole <=> SizeMeansWhole')
    BY <2>1 DEF HeaderRight, SizeMeansWhole, Verifies, HasMemory, Claimed, MemoryAt, EntryOf,
                CpuState, Regions, Entry, Empty, Blocks, Devices, Torn
  <2>7. ClaimRight <=> ClaimRight'
    BY <2>1, Frame DEF ClaimRight, Verifies, HasMemory, Claimed, MemoryAt,
                       Regions, Entry, Empty, Blocks
  <2> QED
    BY <2>1, <2>2, <2>3, <2>4, <2>5, <2>6, <2>7
<1> QED
  BY <1>1, <1>2

\* At every moment of checkpoint_create the file has what its counters say.
THEOREM Invariant == Spec => []FileInv
BY InitEstablishes, StepKeeps, PTL DEF Spec

LEMMA InvGives ==
  FileInv => FileTypeOK /\ CountMeansData /\ SizeMeansWhole /\ RestoreStaysInside /\ RestorePutsBack
<1> SUFFICES ASSUME FileInv
             PROVE  /\ FileTypeOK /\ CountMeansData /\ SizeMeansWhole
                    /\ RestoreStaysInside /\ RestorePutsBack
  OBVIOUS
<1>1. FileTypeOK /\ HeaderRight /\ ClaimRight /\ SizeMeansWhole
  BY OpenClaims DEF FileInv, ClosedInv
<1> QED
  BY <1>1, ClaimGives

\* The counters of checkpoint_create and its helpers stay in their ranges, and the
\* file is made of the units they write.
THEOREM FileTypeCorrect == Spec => []FileTypeOK
<1>1. FileInv => FileTypeOK
  BY InvGives
<1> QED
  BY <1>1, Invariant, PTL

\* Wherever checkpoint_serialize_memory_to_file is cut off, the blocks its header
\* counts are in the file, whole.
THEOREM CountsAreBacked == Spec => []CountMeansData
<1>1. FileInv => CountMeansData
  BY InvGives
<1> QED
  BY <1>1, Invariant, PTL

\* A size in the header, written last by checkpoint_create, tells that everything
\* else is in the file.
THEOREM SizeCommits == Spec => []SizeMeansWhole
<1>1. FileInv => SizeMeansWhole
  BY InvGives
<1> QED
  BY <1>1, Invariant, PTL

\* checkpoint_restore_memory, which knows no end of its buffer, stays inside it.
THEOREM RestoreIsInside == Spec => []RestoreStaysInside
<1>1. FileInv => RestoreStaysInside
  BY InvGives
<1> QED
  BY <1>1, Invariant, PTL

\* A block checkpoint_restore_memory reports as restored is the block that was
\* saved, at its address.
THEOREM RestoreIsRight == Spec => []RestorePutsBack
<1>1. FileInv => RestorePutsBack
  BY InvGives
<1> QED
  BY <1>1, Invariant, PTL

-----------------------------------------------------------------------------
(* How far the reader gets: a second invariant on top of the first, about the   *)
(* blocks up to the first one that is larger than a chunk.                      *)

Small(k) == \A i \in 1 .. k : Blocks[i].size <= ChunkSize

\* As long as every block fits a chunk, one length and one chunk stand for each.
Fitting(f, n) == \A k \in 0 .. n : Small(k) => Straight(f, k)

InLine ==
  /\ done > 0 => region < MaxRegions /\ Blocks[region + 1].size > ChunkSize
  /\ phase = "block" /\ done = 0 /\ Small(region) => Len(file) = ChunkAt(region)
  /\ phase = "data" /\ done = 0 /\ Small(region) => Len(file) = ChunkAt(region) + 1
  /\ phase \in AfterRegions \/ (Verifies /\ file[1].size > 0) => Fitting(file, region)

LEMMA FrameLine ==
  ASSUME machine' = machine
  PROVE  InLine' <=>
           /\ done' > 0 => region' < MaxRegions /\ Blocks[region' + 1].size > ChunkSize
           /\ phase' = "block" /\ done' = 0 /\ Small(region') => Len(file') = ChunkAt(region')
           /\ phase' = "data" /\ done' = 0 /\ Small(region') => Len(file') = ChunkAt(region') + 1
           /\ phase' \in AfterRegions \/ (Verifies' /\ file'[1].size > 0) => Fitting(file', region')
<1> USE DEF At, ArrayEnd, Blocks
<1>1. Blocks' = Blocks /\ ChunkAt(region)' = ChunkAt(region')
  BY DEF ChunkAt
<1>2. Small(region)' <=> Small(region')
  BY DEF Small
<1>3. Fitting(file, region)' <=> Fitting(file', region')
  BY DEF Fitting, Small, Straight, ChunkAt
<1> HIDE DEF At, ArrayEnd, Blocks
<1> QED
  BY <1>1, <1>2, <1>3 DEF InLine

LEMMA FittingNone ==
  ASSUME NEW f
  PROVE  Fitting(f, 0)
<1>1. \A k \in 0 .. 0 : 1 .. k = {}
  OBVIOUS
<1> QED
  BY <1>1 DEF Fitting, Straight

\* What keeps the pairs behind the array keeps them in line.
LEMMA FittingKept ==
  ASSUME machine \in Machines, NEW f \in Seq(Unit), NEW g \in Seq(Unit), Agrees(f, g),
         NEW m \in Nat, Pairs(f, m), NEW n \in 0 .. m, Fitting(f, n)
  PROVE  Fitting(g, n)
<1>1. \A k \in 0 .. n : k \in 0 .. m
  OBVIOUS
<1>2. \A k \in 0 .. m : Straight(g, k) <=> Straight(f, k)
  BY AgreesPairs
<1> QED
  BY <1>1, <1>2 DEF Fitting

\* Until checkpoint_create is through, the size in the header is 0.
LEMMA OpenSizeNext ==
  ASSUME FileInv', machine' = machine, machine \in Machines, phase' \in Started
  PROVE  file'[1].size = 0
<1>1. phase' # "closed"
  BY DEF Started, AfterCpus, AfterRegions, AfterCount, AfterArray
<1>2. file'[1] = Header(0)'
  BY <1>1 DEF FileInv, OpenInv, CpusWritten
<1>3. Header(0)' = Header(0) /\ Header(0).size = 0
  <2>1. 0 \in Nat
    OBVIOUS
  <2> QED
    BY <2>1, Frame, UnitFacts
<1> QED
  BY <1>2, <1>3

\* A write before the memory, or one that fails, adds at most to the file.
LEMMA FailsExtends ==
  ASSUME FileInv, phase # "closed", WriteFails \/ CpuMissing \/ CompressFails \/ Stop
  PROVE  /\ file' \in Seq(Unit) /\ Extends(file, file') /\ phase' = "closed"
         /\ UNCHANGED <<machine, written, headerPos, cpu, region, done, root, packed>>
         /\ phase = "header" => file' = file \/ file' = file \o <<Torn>>
<1>1. machine \in Machines /\ file \in Seq(Unit) /\ region \in Nat /\ Torn \in Unit
  BY OpenParts, TypeFacts, UnitFacts
<1>2. CASE CpuMissing \/ CompressFails \/ Stop
  <2>1. /\ phase' = "closed"
        /\ UNCHANGED <<machine, file, written, headerPos, cpu, region, done, root, packed>>
    BY <1>2 DEF CpuMissing, CompressFails, Stop
  <2>2. Len(file) \in Nat
    BY <1>1, LenProperties
  <2> QED
    BY <1>1, <2>1, <2>2 DEF Extends
<1>3. CASE WriteFails
  <2>1. /\ phase \in {"header", "cpus", "memory", "regions", "block", "data", "devices"}
        /\ WriteShort(Pending) /\ phase' = "closed"
        /\ UNCHANGED <<machine, written, headerPos, cpu, region, done, root, packed>>
    BY <1>3 DEF WriteFails
  <2>2. CASE phase = "regions"
    <3>1. Pending = Regions(0)
      BY <2>2 DEF Pending
    <3>2. file' \in Seq(Unit) /\ Extends(file, file')
      BY <1>1, <2>1, <3>1, RegionsFacts, ShortFacts
    <3> QED
      BY <2>1, <2>2, <3>2
  <2>3. CASE phase # "regions"
    <3>1. PICK x : Pending = <<x>>
      BY <2>1, <2>3 DEF Pending
    <3>2. file' = file \/ file' = file \o <<Torn>>
      BY <1>1, <2>1, <3>1, ShortOne
    <3>3. file' \in Seq(Unit) /\ Extends(file, file')
      <4>1. CASE file' = file
        BY <1>1, <4>1, LenProperties DEF Extends
      <4>2. CASE file' = file \o <<Torn>>
        BY <1>1, <4>2, AppendOne
      <4> QED
        BY <3>2, <4>1, <4>2
    <3> QED
      BY <2>1, <3>2, <3>3
  <2> QED
    BY <2>2, <2>3
<1> QED
  BY <1>2, <1>3

\* What keeps the region count and what is behind the array keeps them in line.
LEMMA LineKept ==
  ASSUME FileInv, InLine, phase \in AfterCount, Agrees(file, file'), file' \in Seq(Unit),
         UNCHANGED <<machine, region, done>>, phase' \in AfterCount \cup {"closed"}
  PROVE  InLine'
<1>1. /\ phase # "closed" /\ phase \notin {"block", "data"} /\ phase' \notin {"block", "data"}
      /\ phase \in AfterRegions
  BY DEF AfterCount, AfterArray, AfterRegions
<1>2. machine \in Machines /\ file \in Seq(Unit) /\ region \in Nat /\ Pairs(file, region)
  BY <1>1, OpenParts, TypeFacts DEF MemoryDone
<1>3. region \in 0 .. region
  BY <1>2
<1>4. Fitting(file, region)
  BY <1>1 DEF InLine
<1>5. Fitting(file', region)
  BY <1>2, <1>3, <1>4, FittingKept
<1>6. done > 0 => region < MaxRegions /\ Blocks[region + 1].size > ChunkSize
  BY DEF InLine
<1> QED
  BY <1>1, <1>5, <1>6, FrameLine

LEMMA LineEarly ==
  ASSUME FileInv, InLine, WriteHeader \/ WriteCpu \/ CpusDone \/ WriteMemoryHeader
  PROVE  InLine'
<1>1. /\ UNCHANGED <<machine, region, done>> /\ phase' \in {"cpus", "memory", "regions"}
      /\ phase \in {"header", "cpus", "memory"}
  BY DEF WriteHeader, WriteCpu, CpusDone, WriteMemoryHeader
<1>2. done = 0 /\ region = 0
  BY <1>1, OpenParts DEF BlocksWritten
<1>3. Fitting(file', region')
  BY <1>1, <1>2, FittingNone
<1>4. ~ (done' > 0)
  BY <1>1, <1>2
<1> QED
  BY <1>1, <1>3, <1>4, FrameLine

LEMMA LineRegions == ASSUME FileInv, InLine, WriteRegions PROVE InLine'
<1>1. /\ phase = "regions" /\ phase' = "block" /\ Write(Regions(0))
      /\ UNCHANGED <<machine, headerPos, cpu, region, done, root, packed>>
  BY DEF WriteRegions
<1>2. machine \in Machines /\ file \in Seq(Unit) /\ Len(file) = At /\ region = 0 /\ done = 0
  <2>1. phase # "closed"
    BY <1>1
  <2> QED
    BY <1>1, <2>1, OpenParts, TypeFacts DEF CpusWritten, BlocksWritten
<1>3. Len(file') = ChunkAt(0)
  <2>1. Regions(0) \in Seq(Unit) /\ Len(Regions(0)) = MaxRegions /\ At \in Nat
    BY <1>2, RegionsFacts, MachineFacts
  <2>2. Len(file') = Len(file) + Len(Regions(0))
    BY <1>1, <1>2, <2>1, AppendFacts DEF Write
  <2> QED
    BY <1>2, <2>1, <2>2 DEF ChunkAt, ArrayEnd
<1>4. Fitting(file', 0)
  BY FittingNone
<1>5. ~ (done' > 0) /\ region' = 0
  BY <1>1, <1>2
<1> QED
  BY <1>1, <1>3, <1>4, <1>5, FrameLine

LEMMA LineLength == ASSUME FileInv, InLine, WriteLength PROVE InLine'
<1>1. /\ phase = "block" /\ phase' = "data" /\ Write(<<Length>>) /\ phase # "closed"
      /\ UNCHANGED <<machine, headerPos, cpu, region, done, root, packed>>
  BY DEF WriteLength
<1>2. Length \in Unit /\ Length # Torn
  BY <1>1, LoopFacts, UnitFacts
<1>3. /\ file' \in Seq(Unit) /\ Len(file') = Len(file) + 1 /\ Len(file) \in Nat
      /\ Agrees(file, file')
  BY <1>1, <1>2, LoopFacts, WriteOne
<1>4. Fitting(file', region)
  <2>1. PICK n \in Nat : InLoop(n)
    BY <1>1, OpenParts DEF BlocksWritten
  <2>2. region \in 0 .. n /\ Pairs(file, n)
    BY <1>1, <2>1, LoopFacts DEF InLoop
  <2>3. Fitting(file, region)
    BY <1>1, LoopFacts DEF InLine
  <2> QED
    BY <1>1, <1>3, <2>2, <2>3, LoopFacts, FittingKept
<1>5. done = 0 /\ Small(region) => Len(file') = ChunkAt(region) + 1
  BY <1>1, <1>3 DEF InLine
<1>6. done > 0 => region < MaxRegions /\ Blocks[region + 1].size > ChunkSize
  BY DEF InLine
<1>7. ~ (phase' = "block")
  BY <1>1
<1> QED
  BY <1>1, <1>4, <1>5, <1>6, <1>7, FrameLine

LEMMA LineData == ASSUME FileInv, InLine, WriteData PROVE InLine'
<1> DEFINE x == Data(Address, Chunk)
<1>1. /\ phase = "data" /\ phase' = "block" /\ Write(<<x>>) /\ phase # "closed"
      /\ IF done + Chunk = Block.size
         THEN region' = region + 1 /\ done' = 0
         ELSE region' = region /\ done' = done + Chunk
      /\ UNCHANGED <<machine, headerPos, cpu, root, packed>>
  BY DEF WriteData
<1>2. MoreBlocks
  BY <1>1, OpenParts DEF BlocksWritten
<1>3. PICK n \in Nat : InLoop(n) /\ Len(file) = ChunkAt(n) + 1
  BY <1>1, OpenParts DEF BlocksWritten
<1>4. /\ Block.size \in Nat \ {0} /\ Chunk \in Nat \ {0}
      /\ Address \in Nat /\ Block = Blocks[region + 1] /\ ChunkSize \in Nat \ {0}
  BY <1>1, <1>2, LoopFacts, ChunkFacts DEF Block
<1>5. machine \in Machines /\ file \in Seq(Unit) /\ Len(file) \in Nat /\ region \in Nat /\ done \in Nat
      /\ region < MaxRegions /\ MaxRegions \in Nat
  BY <1>1, <1>2, LoopFacts DEF MoreBlocks
<1>6. Chunk = IF Block.size - done > ChunkSize THEN ChunkSize ELSE Block.size - done
  BY DEF Chunk
<1>7. x \in Unit /\ x # Torn /\ x.size = Chunk
  <2>1. Address \in Nat /\ Chunk \in Nat
    BY <1>4
  <2> QED
    BY <1>5, <2>1, UnitFacts
<1> HIDE DEF x, Block, Chunk
<1>8. /\ file' \in Seq(Unit) /\ Len(file') = Len(file) + 1 /\ Agrees(file, file')
      /\ file'[Len(file) + 1] = x
  BY <1>1, <1>7, LoopFacts, WriteOne
<1>9. done' > 0 => region' < MaxRegions /\ Blocks[region' + 1].size > ChunkSize
  <2>1. ASSUME done' > 0 PROVE region' = region /\ Block.size > ChunkSize
    <3>1. region' = region /\ done + Chunk # Block.size
      BY <1>1, <2>1
    <3>2. Block.size - done > ChunkSize
      BY <1>4, <1>5, <1>6, <3>1
    <3> QED
      BY <1>4, <1>5, <3>1, <3>2
  <2> QED
    BY <1>4, <1>5, <2>1
<1>10. region \in 0 .. n /\ Pairs(file, n) /\ Fitting(file, region)
  BY <1>1, <1>3, <1>5, LoopFacts DEF InLoop, InLine
<1>11. Fitting(file', region)
  BY <1>5, <1>8, <1>10, FittingKept
<1>12. ASSUME region' = region + 1, Small(region + 1)
       PROVE  done' = 0 /\ Len(file') = ChunkAt(region + 1) /\ Straight(file', region + 1)
  <2>1. Small(region) /\ Block.size <= ChunkSize
    <3>1. region + 1 \in 1 .. region + 1 /\ \A i \in 1 .. region : i \in 1 .. region + 1
      BY <1>5
    <3> QED
      BY <1>4, <1>12, <3>1 DEF Small
  <2>2. done = 0 /\ done' = 0
    BY <1>1, <1>4, <1>5, <1>12, <2>1 DEF InLine
  <2>3. Len(file) = ChunkAt(region) + 1
    BY <1>1, <2>1, <2>2 DEF InLine
  <2>4. /\ ChunkAt(region + 1) = ChunkAt(region) + 2 /\ ChunkAt(region) \in Nat
        /\ Len(file') = ChunkAt(region + 1)
    <3>1. ArrayEnd \in Nat
      BY <1>5, MachineFacts
    <3>2. ChunkAt(region + 1) = ChunkAt(region) + 2 /\ ChunkAt(region) \in Nat
      BY <1>5, <3>1 DEF ChunkAt
    <3> QED
      BY <1>5, <1>8, <2>3, <3>2
  <2>5. Straight(file', region)
    <3>1. region \in 0 .. region
      BY <1>5
    <3> QED
      BY <1>11, <2>1, <3>1 DEF Fitting
  <2>6. file'[ChunkAt(region + 1)].size = Blocks[region + 1].size
    <3>1. Len(file) + 1 = ChunkAt(region + 1)
      BY <1>5, <2>3, <2>4
    <3>2. Chunk = Block.size
      BY <1>4, <1>6, <2>1, <2>2
    <3> QED
      BY <1>4, <1>7, <1>8, <3>1, <3>2
  <2>7. region + 1 <= Len(Blocks)
    BY <1>1, <1>2, LoopFacts, ChunkFacts
  <2>8. \A j \in 1 .. region + 1 : j \in 1 .. region \/ j = region + 1
    BY <1>5
  <2>9. Straight(file', region + 1)
    BY <2>5, <2>6, <2>7, <2>8 DEF Straight
  <2> QED
    BY <2>2, <2>4, <2>9
<1>13. Fitting(file', region')
  <2>1. CASE region' = region
    BY <1>11, <2>1
  <2>2. CASE region' = region + 1
    <3>1. \A k \in 0 .. region + 1 : k \in 0 .. region \/ k = region + 1
      BY <1>5
    <3> QED
      BY <1>11, <1>12, <2>2, <3>1 DEF Fitting
  <2> QED
    BY <1>1, <2>1, <2>2
<1>14. done' = 0 /\ Small(region') => Len(file') = ChunkAt(region')
  <2>1. ASSUME done' = 0 PROVE region' = region + 1
    <3>1. done + Chunk # 0
      BY <1>4, <1>5
    <3> QED
      BY <1>1, <2>1, <3>1
  <2> QED
    BY <1>12, <2>1
<1>15. ~ (phase' = "data")
  BY <1>1
<1> QED
  BY <1>1, <1>9, <1>13, <1>14, <1>15, FrameLine

LEMMA LineCount == ASSUME FileInv, InLine, UpdateCount PROVE InLine'
<1>1. /\ phase = "block" /\ phase' = "array" /\ ~ MoreBlocks /\ phase # "closed"
      /\ Rewrite(headerPos, <<MemoryHeader(region)>>)
      /\ UNCHANGED <<machine, written, headerPos, cpu, region, done, root, packed>>
  BY DEF UpdateCount
<1>2. /\ machine \in Machines /\ file \in Seq(Unit) /\ Len(file) \in Nat /\ region \in Nat
      /\ headerPos = At /\ ArrayIs(file, 0) /\ done \in Nat /\ FileTypeOK
  BY <1>1, LoopFacts
<1>3. /\ At \in Nat /\ At >= 3 /\ ArrayEnd \in Nat /\ ArrayEnd = At + MaxRegions
      /\ Len(file) >= ArrayEnd /\ At \in 1 .. Len(file)
  <2>1. At \in Nat /\ At >= 3 /\ ArrayEnd \in Nat /\ ArrayEnd = At + MaxRegions
    BY <1>2, MachineFacts DEF ArrayEnd
  <2> QED
    BY <1>2, <2>1 DEF ArrayIs
<1>4. file' \in Seq(Unit) /\ SameBut(file, file', At, 1)
  BY <1>1, <1>2, <1>3, UnitFacts, RewriteOne
<1>5. Agrees(file, file')
  <2>1. \A p \in ArrayEnd + 1 .. Len(file) : p \in 1 .. Len(file) /\ p >= At + 1
    BY <1>2, <1>3
  <2>2. Len(file') >= Len(file)
    BY <1>2, <1>4 DEF SameBut
  <2> QED
    BY <1>4, <2>1, <2>2 DEF Agrees, SameBut
<1>6. Fitting(file', region)
  <2>1. PICK n \in Nat : InLoop(n)
    BY <1>1, OpenParts DEF BlocksWritten
  <2>2. region \in 0 .. n /\ Pairs(file, n)
    BY <1>2, <2>1 DEF InLoop
  <2>3. Fitting(file, region)
    BY <1>1, LoopFacts DEF InLine
  <2> QED
    BY <1>2, <1>4, <1>5, <2>2, <2>3, FittingKept
<1>7. done' > 0 => region' < MaxRegions /\ Blocks[region' + 1].size > ChunkSize
  BY <1>1 DEF InLine
<1> QED
  BY <1>1, <1>6, <1>7, FrameLine

\* The lengths and the data behind the array stay as they are once they are counted.
LEMMA CountedStays ==
  ASSUME FileInv, phase \in AfterCount, Next
  PROVE  /\ Agrees(file, file') /\ file' \in Seq(Unit)
         /\ UNCHANGED <<machine, region, done>> /\ phase' \in AfterCount \cup {"closed"}
<1>1. phase # "closed" /\ phase \in {"array", "tables", "pack", "root", "devices", "size"}
      /\ (phase # "array" => phase \in AfterArray)
  BY DEF AfterCount, AfterArray
<1>2. machine \in Machines /\ file \in Seq(Unit) /\ Len(file) \in Nat /\ region \in Nat
  BY <1>1, OpenParts, TypeFacts
<1>3. ArrayEnd \in Nat /\ ArrayEnd > At /\ At >= 3 /\ At \in Nat
  BY <1>2, MachineFacts
<1> USE DEF AfterCount, AfterArray
<1>4. ASSUME file' = file PROVE Agrees(file, file') /\ file' \in Seq(Unit)
  BY <1>2, <1>4 DEF Agrees
<1>5. ASSUME file' \in Seq(Unit), Extends(file, file') PROVE Agrees(file, file')
  BY <1>2, <1>5, ExtendsAgrees
<1>6. ASSUME phase # "array", NEW x \in Unit, x # Torn, Write(<<x>>)
      PROVE  Agrees(file, file') /\ file' \in Seq(Unit)
  <2>1. Keeps(file, file') /\ file' \in Seq(Unit)
    BY <1>1, <1>6, AfterWrite
  <2> QED
    BY <2>1 DEF Keeps
<1>7. CASE WriteFails \/ CpuMissing \/ CompressFails \/ Stop
  BY <1>1, <1>5, <1>7, FailsExtends
<1>8. CASE UpdateRegions
  <2>1. /\ phase = "array" /\ phase' = "tables" /\ Rewrite(headerPos + 1, Regions(region))
        /\ UNCHANGED <<machine, written, headerPos, cpu, region, done, root, packed>>
    BY <1>8 DEF UpdateRegions
  <2>2. Regions(region) \in Seq(Unit) /\ Len(Regions(region)) <= MaxRegions
    BY <1>2, RegionsFacts
  <2>3. Agrees(file, file') /\ file' \in Seq(Unit)
    BY <2>1, <2>2, ArrayRewrite
  <2> QED
    BY <2>1, <2>3
<1>9. CASE UpdateRegionsFails
  <2>1. /\ phase = "array" /\ phase' = "closed"
        /\ UNCHANGED <<machine, written, headerPos, cpu, region, done, root, packed>>
    BY <1>9 DEF UpdateRegionsFails
  <2>2. PICK n \in 0 .. MaxRegions - 1 : Rewrite(headerPos + 1, SubSeq(Regions(region), 1, n))
    BY <1>9 DEF UpdateRegionsFails
  <2>3. 1 \in Int /\ n \in Int /\ n <= MaxRegions /\ \A i \in 1 .. n : i \in 1 .. MaxRegions
    OBVIOUS
  <2>4. \A i \in 1 .. n : Regions(region)[i] \in Unit
    BY <1>2, <2>3, RegionsFacts
  <2>5. /\ SubSeq(Regions(region), 1, n) \in Seq(Unit)
        /\ Len(SubSeq(Regions(region), 1, n)) = IF 1 <= n THEN n - 1 + 1 ELSE 0
    BY <2>3, <2>4, SubSeqProperties
  <2> DEFINE u == SubSeq(Regions(region), 1, n)
  <2>6. u \in Seq(Unit) /\ (Len(u) = IF 1 <= n THEN n - 1 + 1 ELSE 0) /\ Rewrite(headerPos + 1, u)
    BY <2>2, <2>5
  <2> HIDE DEF u
  <2>7. Len(u) <= MaxRegions
    BY <2>3, <2>6
  <2>8. Agrees(file, file') /\ file' \in Seq(Unit)
    BY <2>1, <2>6, <2>7, ArrayRewrite
  <2> QED
    BY <2>1, <2>8
<1>10. CASE WriteTablesHeader \/ WriteTablesLength \/ WriteTables \/ WriteDevices
  <2>1. /\ UNCHANGED <<machine, region, done>> /\ phase' \in AfterCount /\ phase # "array"
        /\ \/ Write(<<TablesHeader({})>>) \/ Write(<<Length>>) \/ Write(<<Devices>>)
           \/ phase = "root" /\ Write(<<Tables(root)>>)
    BY <1>10 DEF WriteTablesHeader, WriteTablesLength, WriteTables, WriteDevices
  <2>2. phase = "root" => root \in {0, 1}
    BY <1>1, <1>2, OpenParts, MachineFacts DEF MemoryDone
  <2>3. {} \in SUBSET {0, 1}
    OBVIOUS
  <2>4. /\ TablesHeader({}) \in Unit /\ TablesHeader({}) # Torn
        /\ Length \in Unit /\ Length # Torn /\ Devices \in Unit /\ Devices # Torn
        /\ phase = "root" => Tables(root) \in Unit /\ Tables(root) # Torn
    BY <1>2, <2>2, <2>3, UnitFacts
  <2> QED
    BY <1>6, <2>1, <2>4
<1>11. CASE SkipTables
  BY <1>4, <1>11 DEF SkipTables
<1>12. CASE UpdateTablesHeader
  <2>1. /\ phase = "pack" /\ phase' = "devices"
        /\ Rewrite(headerPos, <<TablesHeader(packed)>>) \/ file' = file
        /\ UNCHANGED <<machine, region, done>>
    BY <1>12 DEF UpdateTablesHeader
  <2>2. headerPos \in ChunkAt(region) + 1 .. Len(file) /\ file[headerPos] = TablesHeader({})
    BY <1>1, <2>1, OpenParts DEF MemoryDone
  <2>3. headerPos \in 1 .. Len(file) /\ packed \in SUBSET {0, 1} /\ {} \in SUBSET {0, 1}
    BY <2>1, <2>2, AfterFacts
  <2>4. TablesHeader(packed) \in Unit /\ file[headerPos].kind = "tables"
    BY <1>2, <2>2, <2>3, UnitFacts
  <2>5. CASE Rewrite(headerPos, <<TablesHeader(packed)>>)
    <3>1. file' \in Seq(Unit) /\ SameBut(file, file', headerPos, 1)
      BY <1>2, <2>3, <2>4, <2>5, RewriteOne
    <3>2. \A p \in ArrayEnd + 1 .. Len(file) : /\ p \in 1 .. Len(file)
                                               /\ p = headerPos \/ p < headerPos \/ p >= headerPos + 1
      BY <1>2, <1>3, <2>3
    <3>3. Len(file') >= Len(file)
      BY <1>2, <3>1 DEF SameBut
    <3> QED
      BY <2>1, <2>4, <3>1, <3>2, <3>3 DEF SameBut, Agrees
  <2> QED
    BY <1>4, <2>1, <2>5
<1>13. CASE TablesFail
  <2>1. phase # "array" /\ phase' = "devices" /\ UNCHANGED <<machine, region, done>>
    BY <1>13 DEF TablesFail
  <2>2. file' = file \/ file' = file \o <<Torn>>
    BY <1>2, <1>13, ShortOne DEF TablesFail
  <2>3. Agrees(file, file') /\ file' \in Seq(Unit)
    <3>1. CASE file' = file \o <<Torn>>
      <4>1. file' \in Seq(Unit) /\ Extends(file, file')
        BY <1>2, <3>1, UnitFacts, AppendOne
      <4> QED
        BY <1>5, <4>1
    <3> QED
      BY <1>4, <2>2, <3>1
  <2> QED
    BY <2>1, <2>3
<1>14. CASE WriteSize
  <2>1. /\ phase = "size" /\ phase' = "closed" /\ Rewrite(1, <<Header(written)>>)
        /\ UNCHANGED <<machine, region, done>>
    BY <1>14 DEF WriteSize
  <2>2. written \in Nat /\ 1 \in 1 .. Len(file)
    BY <1>2, <1>3, <2>1, AfterFacts
  <2>3. file' \in Seq(Unit) /\ SameBut(file, file', 1, 1)
    BY <1>2, <2>1, <2>2, UnitFacts, RewriteOne
  <2>4. \A p \in ArrayEnd + 1 .. Len(file) : p \in 1 .. Len(file) /\ p >= 1 + 1
    BY <1>2, <1>3
  <2>5. Len(file') >= Len(file)
    BY <1>2, <2>3 DEF SameBut
  <2> QED
    BY <2>1, <2>3, <2>4, <2>5 DEF SameBut, Agrees
<1>15. ~ (WriteHeader \/ WriteCpu \/ CpusDone \/ WriteMemoryHeader \/ WriteRegions
          \/ WriteLength \/ WriteData \/ UpdateCount)
  BY <1>1 DEF WriteHeader, WriteCpu, CpusDone, WriteMemoryHeader, WriteRegions,
              WriteLength, WriteData, UpdateCount
<1> HIDE DEF AfterCount, AfterArray
<1> QED
  BY <1>7, <1>8, <1>9, <1>10, <1>11, <1>12, <1>13, <1>14, <1>15 DEF Next

\* A file left before its blocks are counted has no size.
LEMMA LineLeft ==
  ASSUME FileInv, InLine, phase # "closed", phase \notin AfterCount,
         WriteFails \/ CpuMissing \/ CompressFails \/ Stop
  PROVE  InLine'
<1>1. /\ file' \in Seq(Unit) /\ Extends(file, file') /\ phase' = "closed"
      /\ UNCHANGED <<machine, written, headerPos, cpu, region, done, root, packed>>
      /\ phase = "header" => file' = file \/ file' = file \o <<Torn>>
  BY FailsExtends
<1>2. machine \in Machines /\ file \in Seq(Unit) /\ Len(file) \in Nat /\ CpusWritten
      /\ Torn \in Unit /\ Torn.kind = "torn"
  BY OpenParts, TypeFacts, UnitFacts
<1>3. ~ (Verifies' /\ file'[1].size > 0)
  <2>1. CASE Len(file) > 0
    <3>1. phase # "header"
      BY <1>2, <2>1 DEF CpusWritten
    <3>2. phase \in Started
      BY <3>1, OpenParts
         DEF FileTypeOK, Phases, Started, AfterCpus, AfterRegions, AfterCount, AfterArray
    <3>3. file[1] = Header(0) /\ 1 \in 1 .. Len(file) /\ 0 \in Nat
      BY <1>2, <2>1, <3>2 DEF CpusWritten
    <3>4. file'[1].size = 0
      BY <1>1, <1>2, <3>3, UnitFacts DEF Extends
    <3> QED
      BY <3>4
  <2>2. CASE Len(file) = 0
    <3>1. phase = "header"
      BY <1>2, <2>2, OpenParts
         DEF CpusWritten, FileTypeOK, Phases, Started, AfterCpus, AfterRegions, AfterCount, AfterArray
    <3>2. CASE file' = file
      BY <2>2, <3>2 DEF Verifies
    <3>3. CASE file' = file \o <<Torn>>
      <4>1. file'[Len(file) + 1] = Torn
        BY <1>2, <3>3, AppendOne
      <4> QED
        BY <1>2, <2>2, <4>1 DEF Verifies
    <3> QED
      BY <1>1, <3>1, <3>2, <3>3
  <2> QED
    BY <1>2, <2>1, <2>2
<1>4. phase' \notin AfterRegions
  BY <1>1 DEF AfterRegions, AfterCount, AfterArray
<1>5. done > 0 => region < MaxRegions /\ Blocks[region + 1].size > ChunkSize
  BY DEF InLine
<1> QED
  BY <1>1, <1>3, <1>4, <1>5, FrameLine

LEMMA LineStep == FileInv /\ InLine /\ [Next]_vars => InLine'
<1> SUFFICES ASSUME FileInv, InLine, [Next]_vars PROVE InLine'
  OBVIOUS
<1>1. CASE UNCHANGED vars
  <2>1. UNCHANGED <<machine, phase, file, region, done>>
    BY <1>1 DEF vars
  <2>2. Verifies' <=> Verifies
    BY <2>1 DEF Verifies
  <2> QED
    BY <2>1, <2>2, FrameLine DEF InLine
<1>2. CASE Next /\ phase \in AfterCount
  BY <1>2, CountedStays, LineKept
<1>3. CASE Next /\ phase \notin AfterCount
  <2>1. phase # "closed"
    BY <1>3 DEF Next, WriteHeader, WriteCpu, CpuMissing, CpusDone, WriteMemoryHeader,
       WriteRegions, WriteLength, WriteData, CompressFails, UpdateCount, UpdateRegions,
       UpdateRegionsFails, WriteTablesHeader, WriteTablesLength, WriteTables, SkipTables,
       UpdateTablesHeader, TablesFail, WriteDevices, WriteSize, WriteFails, Stop
  <2>2. ~ (UpdateRegions \/ UpdateRegionsFails \/ WriteTablesHeader \/ WriteTablesLength
           \/ WriteTables \/ SkipTables \/ UpdateTablesHeader \/ TablesFail \/ WriteDevices
           \/ WriteSize)
    BY <1>3 DEF AfterCount, AfterArray, UpdateRegions, UpdateRegionsFails, WriteTablesHeader,
       WriteTablesLength, WriteTables, SkipTables, UpdateTablesHeader, TablesFail,
       WriteDevices, WriteSize
  <2> QED
    BY <1>3, <2>1, <2>2, LineLeft, LineEarly, LineRegions, LineLength, LineData, LineCount DEF Next
<1> QED
  BY <1>1, <1>2, <1>3

LEMMA LineInit == Init => InLine
<1> SUFFICES ASSUME Init PROVE InLine
  OBVIOUS
<1>1. phase = "header" /\ file = << >> /\ done = 0
  BY DEF Init
<1>2. ~ Verifies /\ phase \notin AfterRegions /\ ~ (done > 0)
  BY <1>1 DEF Verifies, AfterRegions, AfterCount, AfterArray
<1> QED
  BY <1>1, <1>2 DEF InLine

LEMMA LineGives == FileInv /\ InLine => RestoresExactly
<1> SUFFICES ASSUME FileInv, InLine, Verifies, file[1].size > 0,
                    NEW i \in 1 .. Claimed, Reaches(i)
             PROVE  Restores(i) <=> Claimed = MaxRegions /\ EntryOf(i).size <= ChunkSize
  BY DEF RestoresExactly
<1>1. FileTypeOK /\ HeaderRight /\ ClaimRight /\ SizeMeansWhole
  BY OpenClaims DEF FileInv, ClosedInv
<1>2. /\ machine \in Machines /\ region \in Nat /\ file \in Seq(Unit) /\ Len(file) \in Nat
      /\ MaxRegions \in Nat
  BY <1>1, TypeFacts
<1>3. /\ HasMemory /\ Claimed <= Len(Blocks) /\ Claimed <= MaxRegions
      /\ \A j \in 1 .. MaxRegions : EntryOf(j) = Regions(Claimed)[j]
  BY <1>1 DEF SizeMeansWhole
<1>4. MemoryAt = At /\ At \in Nat /\ ArrayEnd = At + MaxRegions /\ Len(Blocks) \in Nat
  BY <1>1, <1>2, MachineFacts DEF HeaderRight, MemoryAt, At, ArrayEnd
<1>5. Claimed = region /\ Pairs(file, region) /\ region <= MaxRegions
  <2>1. At \in 1 .. Len(file) /\ file[At].kind = "memory"
    BY <1>2, <1>3, <1>4, MachineFacts DEF HasMemory
  <2>2. file[At] \in Unit
    BY <1>1, <2>1, TypeFacts
  <2>3. Claimed \in Nat
    BY <1>4, <2>1, <2>2 DEF Claimed, Unit
  <2> QED
    BY <1>1, <1>3, <2>3 DEF ClaimRight
<1>6. \A j \in 1 .. region : EntryOf(j).size = Blocks[j].size /\ EntryOf(j).kind = "entry"
  <2> TAKE j \in 1 .. region
  <2>1. j \in 1 .. MaxRegions /\ j <= Claimed /\ j <= Len(Blocks) /\ j \in 1 .. Len(Blocks)
    BY <1>2, <1>3, <1>4, <1>5
  <2>2. EntryOf(j) = Entry(Blocks[j].base, Blocks[j].size)
    BY <1>2, <1>3, <1>5, <2>1, RegionsFacts
  <2>3. Blocks[j].base \in Nat /\ Blocks[j].size \in Nat
    BY <1>2, <2>1, MachineFacts
  <2> QED
    BY <1>2, <2>2, <2>3, UnitFacts, SMTT(30)
\* With room left in the array the reader takes its next entry for a length.
<1>7. ASSUME Claimed # MaxRegions PROVE ~ Restores(i)
  <2>1. ~ Restores(1)
    <3>1. BlockAt(1) = MemoryAt + (Claimed + 1) /\ Claimed + 1 \in 1 .. MaxRegions
      BY <1>2, <1>4, <1>5, <1>7 DEF BlockAt
    <3>2. file[BlockAt(1)] = Regions(Claimed)[Claimed + 1]
      BY <1>3, <3>1 DEF EntryOf
    <3>3. ~ (Claimed + 1 <= Claimed)
      BY <1>2, <1>5
    <3>4. file[BlockAt(1)] = Empty
      BY <1>2, <1>5, <3>1, <3>2, <3>3, RegionsFacts
    <3>5. Empty # Length
      BY UnitFacts DEF Empty, Entry, Length
    <3> QED
      BY <3>4, <3>5 DEF Restores
  <2>2. i = 1 \/ 1 \in 1 .. i - 1
    BY <1>2, <1>5
  <2> QED
    BY <2>1, <2>2 DEF Reaches
<1>8. ASSUME Claimed = MaxRegions
      PROVE  \A j \in 1 .. region : /\ BlockAt(j) = ChunkAt(j) - 1 /\ BlockAt(j) + 1 = ChunkAt(j)
                                    /\ BlockAt(j) < Len(file)
  <2> TAKE j \in 1 .. region
  <2>1. Len(file) >= ArrayEnd + 2 * region
    BY <1>5 DEF Pairs, ChunkAt
  <2> QED
    BY <1>2, <1>4, <1>5, <1>8, <2>1 DEF BlockAt, ChunkAt
\* The blocks before it have been restored, so each of them is one chunk.
<1>9. ASSUME Claimed = MaxRegions, EntryOf(i).size <= ChunkSize PROVE Restores(i)
  <2>1. Small(i)
    <3> SUFFICES ASSUME NEW j \in 1 .. i PROVE Blocks[j].size <= ChunkSize
      BY DEF Small
    <3>1. j \in 1 .. region /\ (j = i \/ j \in 1 .. i - 1)
      BY <1>2, <1>5
    <3>2. CASE j = i
      BY <1>6, <1>9, <3>1, <3>2
    <3>3. CASE j \in 1 .. i - 1
      <4>1. file[BlockAt(j) + 1].size = EntryOf(j).size
        BY <3>3 DEF Reaches, Restores
      <4> QED
        BY <1>5, <1>6, <1>8, <1>9, <3>1, <4>1 DEF Pairs
    <3> QED
      BY <3>1, <3>2, <3>3
  <2>2. Straight(file, i)
    <3>1. i \in 0 .. region
      BY <1>2, <1>5
    <3> QED
      BY <2>1, <3>1 DEF InLine, Fitting
  <2>3. i \in 1 .. i /\ i \in 1 .. region
    BY <1>2, <1>5
  <2>4. /\ file[ChunkAt(i) - 1] = Length /\ file[ChunkAt(i)].kind = "data"
        /\ file[ChunkAt(i)].size = EntryOf(i).size
    BY <1>5, <1>6, <2>2, <2>3 DEF Pairs, Straight
  <2> QED
    BY <1>8, <1>9, <2>3, <2>4 DEF Restores
<1>10. ASSUME Claimed = MaxRegions, Restores(i) PROVE EntryOf(i).size <= ChunkSize
  BY <1>5, <1>8, <1>10 DEF Pairs, Restores
<1> QED
  BY <1>7, <1>9, <1>10

\* For every machine: checkpoint_restore_memory gets exactly as far into a finished
\* checkpoint as the region array is full and the blocks fit a chunk each, and on a
\* machine with fewer blocks than the array has entries it fails at the first one.
THEOREM RestoresExactlyFitting == Spec => []RestoresExactly
<1>1. Init => FileInv /\ InLine
  BY InitEstablishes, LineInit
<1>2. FileInv /\ InLine /\ [Next]_vars => FileInv' /\ InLine'
  BY StepKeeps, LineStep
<1>3. FileInv /\ InLine => RestoresExactly
  BY LineGives
<1> QED
  BY <1>1, <1>2, <1>3, PTL DEF Spec

=============================================================================
