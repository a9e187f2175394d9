-------------------------- MODULE CpRegRestore_proofs --------------------------
(* Proofs about CpRegRestore for every number of vCPUs, every register list of  *)
(* this machine and of those that other files come from: the reader stays in    *)
(* its arrays and in step with the file, and restores each vCPU from its own    *)
(* section, with nothing lost that there is room for.                           *)
EXTENDS CpRegRestore, SequenceTheorems, WellFoundedInduction, TLAPS

-----------------------------------------------------------------------------
(* Words one behind the other                                                  *)

\* A set that holds 0, and with each number the next one, holds all of them.
LEMMA UpFromZero ==
  ASSUME NEW S, 0 \in S, \A n \in Nat : n \in S => n + 1 \in S
  PROVE  Nat \subseteq S
  <1>. DEFINE T == Nat \ S
              R == OpToRel(<, Nat)
  <1>1. SUFFICES ASSUME T # {} PROVE FALSE
    OBVIOUS
  <1>2. IsWellFoundedOn(R, Nat)
    BY NatLessThanWellFounded
  <1>3. \A x, y \in Nat : y < x => <<y, x>> \in R
    BY DEF OpToRel
  <1>. HIDE DEF R
  <1>4. PICK x \in T : \A y \in T : ~ (<<y, x>> \in R)
    BY <1>1, <1>2, WFMin
  <1>5. x \in Nat /\ x # 0 /\ x \notin S
    BY <1>4
  <1>6. x - 1 \in Nat /\ x - 1 + 1 = x /\ x - 1 < x
    BY <1>5
  <1>7. x - 1 \in S
    BY <1>3, <1>4, <1>5, <1>6
  <1>. QED BY <1>5, <1>6, <1>7

\* The function by which FlattenSeq puts sequences together exists.
LEMMA FlattenFunction ==
  ASSUME NEW seqs
  PROVE  \A n \in Nat : \E f :
           f = [i \in 1 .. n |-> IF i = 1 THEN seqs[i] ELSE f[i - 1] \o seqs[i]]
  <1>. DEFINE Rec(n, f) == f = [i \in 1 .. n |-> IF i = 1 THEN seqs[i] ELSE f[i - 1] \o seqs[i]]
              S == {n \in Nat : \E f : Rec(n, f)}
  <1>1. 0 \in S
    <2>. DEFINE f == [i \in 1 .. 0 |-> 0]
    <2>1. Rec(0, f)
      OBVIOUS
    <2>. QED BY <2>1
  <1>2. \A n \in Nat : n \in S => n + 1 \in S
    <2>. SUFFICES ASSUME NEW n \in Nat, n \in S PROVE n + 1 \in S
      BY Zenon
    <2>. PICK f : Rec(n, f)
      BY Zenon
    <2>. DEFINE g == [i \in 1 .. n + 1 |-> IF i = 1 THEN seqs[i] ELSE f[i - 1] \o seqs[i]]
    <2>1. ASSUME NEW i \in 1 .. n + 1, i # 1 PROVE g[i - 1] = f[i - 1]
      <3>1. i - 1 \in 1 .. n /\ i - 1 \in 1 .. n + 1
        BY <2>1
      <3>. QED BY <3>1
    <2>2. \A i \in 1 .. n + 1 : (IF i = 1 THEN seqs[i] ELSE f[i - 1] \o seqs[i])
                                  = (IF i = 1 THEN seqs[i] ELSE g[i - 1] \o seqs[i])
      BY <2>1, Zenon
    <2>3. Rec(n + 1, g)
      BY <2>2, Zenon
    <2>4. n + 1 \in Nat
      OBVIOUS
    <2>. QED BY <2>3, <2>4, Zenon
  <1>. HIDE DEF S
  <1>3. Nat \subseteq S
    BY <1>1, <1>2, UpFromZero
  <1>. QED BY <1>3 DEF S

\* How FlattenSeq puts sequences together.
Flattens(flat, seqs, n) ==
  /\ FlattenSeq(seqs) = flat[n]
  /\ flat[1] = seqs[1]
  /\ \A i \in 1 .. n : i # 1 => flat[i] = flat[i - 1] \o seqs[i]

\* What FlattenSeq returns is what its function has for the last sequence.
LEMMA Flattening ==
  ASSUME NEW W, NEW n \in Nat \ {0}, NEW seqs \in [1 .. n -> Seq(W)]
  PROVE  \E flat \in [1 .. n -> Seq(W)] : Flattens(flat, seqs, n)
  <1>1. Len(seqs) = n /\ Len(seqs) # 0
    <2>1. seqs \in Seq(Seq(W))
      OBVIOUS
    <2>2. DOMAIN seqs = 1 .. n
      OBVIOUS
    <2>. QED BY <2>1, <2>2, LenProperties
  <1>. DEFINE flat == CHOOSE f :
                        f = [i \in 1 .. Len(seqs) |-> IF i = 1 THEN seqs[i] ELSE f[i - 1] \o seqs[i]]
  <1>2. FlattenSeq(seqs) = flat[n]
    <2>1. FlattenSeq(seqs) = flat[Len(seqs)]
      BY <1>1, Zenon DEF FlattenSeq
    <2>. QED BY <1>1, <2>1, Zenon
  <1>3. \E f : f = [i \in 1 .. Len(seqs) |-> IF i = 1 THEN seqs[i] ELSE f[i - 1] \o seqs[i]]
    <2>1. Len(seqs) \in Nat
      BY <1>1
    <2>2. \A m \in Nat : \E f : f = [i \in 1 .. m |-> IF i = 1 THEN seqs[i] ELSE f[i - 1] \o seqs[i]]
      BY FlattenFunction
    <2>. QED BY <2>1, <2>2, Zenon
  <1>4. flat = [i \in 1 .. Len(seqs) |-> IF i = 1 THEN seqs[i] ELSE flat[i - 1] \o seqs[i]]
    BY <1>3, Zenon
  <1>. HIDE DEF flat
  <1>5. /\ DOMAIN flat = 1 .. n /\ flat[1] = seqs[1]
        /\ \A i \in 1 .. n : i # 1 => flat[i] = flat[i - 1] \o seqs[i]
    <2>1. flat = [i \in 1 .. n |-> IF i = 1 THEN seqs[i] ELSE flat[i - 1] \o seqs[i]]
      BY <1>1, <1>4, Zenon
    <2>2. 1 \in 1 .. n
      OBVIOUS
    <2>. QED BY <2>1, <2>2, Zenon
  <1>. DEFINE S == {i \in Nat : i \in 1 .. n => flat[i] \in Seq(W)}
  <1>6. 0 \in S
    OBVIOUS
  <1>7. \A i \in Nat : i \in S => i + 1 \in S
    <2>. SUFFICES ASSUME NEW i \in S, i + 1 \in 1 .. n PROVE flat[i + 1] \in Seq(W)
      OBVIOUS
    <2>1. CASE i = 0
      BY <1>5, <2>1
    <2>2. CASE i # 0
      <3>1. i \in 1 .. n /\ i + 1 # 1 /\ (i + 1) - 1 = i
        BY <2>2
      <3>2. flat[i + 1] = flat[i] \o seqs[i + 1]
        BY <1>5, <3>1
      <3>3. flat[i] \in Seq(W) /\ seqs[i + 1] \in Seq(W)
        BY <3>1
      <3>. QED BY <3>2, <3>3, ConcatProperties
    <2>. QED BY <2>1, <2>2
  <1>. HIDE DEF S
  <1>8. Nat \subseteq S
    BY <1>6, <1>7, UpFromZero
  <1>9. \A i \in 1 .. n : flat[i] \in Seq(W)
    BY <1>8 DEF S
  <1>10. flat = [i \in 1 .. n |-> flat[i]]
    BY <1>1, <1>4, Zenon
  <1>11. flat \in [1 .. n -> Seq(W)]
    BY <1>9, <1>10
  <1>. QED BY <1>2, <1>5, <1>11, Zenon DEF Flattens

\* One sequence behind the other is in flat, the one at index c + 1 from start[c] on.
Behind(start, flat, seqs, n) ==
  /\ start[0] = 1 /\ start[n] = Len(flat) + 1
  /\ \A c \in 0 .. n : start[c] <= start[n]
  /\ \A c \in 0 .. n - 1 :
       /\ start[c + 1] = start[c] + Len(seqs[c + 1])
       /\ \A j \in 1 .. Len(seqs[c + 1]) : flat[start[c] + j - 1] = seqs[c + 1][j]

\* Where each of the sequences put together begins, and that it is there.
LEMMA FlattenedAt ==
  ASSUME NEW W, NEW n \in Nat \ {0}, NEW seqs \in [1 .. n -> Seq(W)]
  PROVE  /\ FlattenSeq(seqs) \in Seq(W)
         /\ \E start \in [0 .. n -> Nat \ {0}] : Behind(start, FlattenSeq(seqs), seqs, n)
  <1>0. PICK flat \in [1 .. n -> Seq(W)] : Flattens(flat, seqs, n)
    BY Flattening
  <1>1. /\ FlattenSeq(seqs) = flat[n]
        /\ flat[1] = seqs[1]
        /\ \A i \in 1 .. n : i # 1 => flat[i] = flat[i - 1] \o seqs[i]
    BY <1>0, Zenon DEF Flattens
  <1>2. \A i \in 1 .. n : /\ flat[i] \in Seq(W) /\ seqs[i] \in Seq(W)
                          /\ Len(flat[i]) \in Nat /\ Len(seqs[i]) \in Nat
    BY LenProperties
  <1>3. ASSUME NEW i \in 1 .. n, i # 1
        PROVE  /\ Len(flat[i]) = Len(flat[i - 1]) + Len(seqs[i])
               /\ \A j \in 1 .. Len(flat[i - 1]) : flat[i][j] = flat[i - 1][j]
               /\ \A j \in 1 .. Len(seqs[i]) : flat[i][Len(flat[i - 1]) + j] = seqs[i][j]
    <2>1. i - 1 \in 1 .. n
      BY <1>3
    <2>. DEFINE a == flat[i - 1]
                b == seqs[i]
    <2>2. a \in Seq(W) /\ b \in Seq(W) /\ Len(a) \in Nat /\ Len(b) \in Nat /\ flat[i] = a \o b
      BY <1>1, <1>2, <1>3, <2>1
    <2>. HIDE DEF a, b
    <2>3. /\ Len(a \o b) = Len(a) + Len(b)
          /\ \A j \in 1 .. Len(a) + Len(b) : (a \o b)[j] = IF j <= Len(a) THEN a[j] ELSE b[j - Len(a)]
      BY <2>2, ConcatProperties, Zenon
    <2>4. \A j \in 1 .. Len(a) : (a \o b)[j] = a[j]
      <3>. TAKE j \in 1 .. Len(a)
      <3>1. j \in 1 .. Len(a) + Len(b) /\ j <= Len(a)
        BY <2>2
      <3>. QED BY <2>3, <3>1, Zenon
    <2>5. \A j \in 1 .. Len(b) : (a \o b)[Len(a) + j] = b[j]
      <3>. TAKE j \in 1 .. Len(b)
      <3>1. /\ Len(a) + j \in 1 .. Len(a) + Len(b) /\ ~ (Len(a) + j <= Len(a))
            /\ (Len(a) + j) - Len(a) = j
        BY <2>2
      <3>2. (a \o b)[Len(a) + j] = b[(Len(a) + j) - Len(a)]
        BY <2>3, <3>1, Zenon
      <3>. QED BY <3>1, <3>2, Zenon
    <2>. QED BY <2>2, <2>3, <2>4, <2>5 DEF a, b
  <1>. DEFINE Extends(c, d) == /\ Len(flat[c]) <= Len(flat[d])
                               /\ \A j \in 1 .. Len(flat[c]) : flat[d][j] = flat[c][j]
              S == {d \in Nat : d \in 1 .. n => \A c \in 1 .. d : Extends(c, d)}
  <1>. HIDE DEF Extends
  <1>4. 0 \in S
    OBVIOUS
  <1>5. \A d \in Nat : d \in S => d + 1 \in S
    <2>. SUFFICES ASSUME NEW d \in Nat, d \in S PROVE d + 1 \in S
      BY Zenon
    <2>. SUFFICES ASSUME d + 1 \in 1 .. n, NEW c \in 1 .. d + 1 PROVE Extends(c, d + 1)
      OBVIOUS
    <2>1. CASE c = d + 1
      <3>1. Len(flat[c]) \in Nat
        BY <1>2, <2>1
      <3>. QED BY <2>1, <3>1 DEF Extends
    <2>2. CASE c # d + 1
      <3>1. d \in 1 .. n /\ c \in 1 .. d /\ c \in 1 .. n /\ d + 1 # 1 /\ (d + 1) - 1 = d
        BY <2>2
      <3>2. Extends(c, d)
        BY <3>1
      <3>3. /\ Len(flat[d + 1]) = Len(flat[d]) + Len(seqs[d + 1])
            /\ \A j \in 1 .. Len(flat[d]) : flat[d + 1][j] = flat[d][j]
        <4>1. /\ Len(flat[d + 1]) = Len(flat[(d + 1) - 1]) + Len(seqs[d + 1])
              /\ \A j \in 1 .. Len(flat[(d + 1) - 1]) : flat[d + 1][j] = flat[(d + 1) - 1][j]
          BY <1>3, <3>1
        <4>. QED BY <3>1, <4>1, Zenon
      <3>4. /\ Len(flat[c]) \in Nat /\ Len(flat[d]) \in Nat /\ Len(flat[d + 1]) \in Nat
            /\ Len(seqs[d + 1]) \in Nat
        BY <1>2, <3>1
      <3>5. Len(flat[c]) <= Len(flat[d])
        BY <3>2 DEF Extends
      <3>6. Len(flat[c]) <= Len(flat[d + 1])
        <4>1. \A a, b, e \in Nat : a <= b => a <= b + e
          OBVIOUS
        <4>. QED BY <3>3, <3>4, <3>5, <4>1, Zenon
      <3>7. ASSUME NEW j \in 1 .. Len(flat[c]) PROVE flat[d + 1][j] = flat[c][j]
        <4>1. j \in 1 .. Len(flat[d])
          BY <3>4, <3>5
        <4>2. flat[d][j] = flat[c][j]
          BY <3>2 DEF Extends
        <4>. QED BY <3>3, <4>1, <4>2, Zenon
      <3>. QED BY <3>6, <3>7 DEF Extends
    <2>. QED BY <2>1, <2>2
  <1>. HIDE DEF S
  <1>6. Nat \subseteq S
    BY <1>4, <1>5, UpFromZero
  <1>7. \A c \in 1 .. n : Extends(c, n)
    BY <1>6 DEF S
  <1>. DEFINE start == [c \in 0 .. n |-> IF c = 0 THEN 1 ELSE Len(flat[c]) + 1]
  <1>8. start \in [0 .. n -> Nat \ {0}]
    BY <1>2
  <1>9. start[0] = 1 /\ start[n] = Len(flat[n]) + 1
    OBVIOUS
  <1>10. \A c \in 0 .. n : start[c] <= start[n]
    BY <1>2, <1>7 DEF Extends
  <1>11. ASSUME NEW c \in 0 .. n - 1
         PROVE  /\ start[c + 1] = start[c] + Len(seqs[c + 1])
                /\ \A j \in 1 .. Len(seqs[c + 1]) : flat[n][start[c] + j - 1] = seqs[c + 1][j]
    <2>1. c + 1 \in 1 .. n /\ Extends(c + 1, n)
      BY <1>7
    <2>2. start[c + 1] = Len(flat[c + 1]) + 1
      BY <2>1
    <2>3. CASE c = 0
      <3>1. start[c] = 1 /\ flat[c + 1] = seqs[c + 1]
        BY <1>1, <2>3
      <3>2. ASSUME NEW j \in 1 .. Len(seqs[c + 1]) PROVE flat[n][start[c] + j - 1] = seqs[c + 1][j]
        <4>1. j \in 1 .. Len(flat[c + 1]) /\ start[c] + j - 1 = j
          BY <3>1
        <4>2. flat[n][j] = flat[c + 1][j]
          BY <2>1, <4>1 DEF Extends
        <4>. QED BY <3>1, <4>1, <4>2
      <3>3. start[c + 1] = start[c] + Len(seqs[c + 1])
        <4>. HIDE DEF start
        <4>1. Len(seqs[c + 1]) \in Nat
          BY <1>2, <2>1
        <4>. QED BY <2>2, <3>1, <4>1
      <3>. QED BY <3>2, <3>3
    <2>4. CASE c # 0
      <3>1. c \in 1 .. n /\ c + 1 # 1 /\ (c + 1) - 1 = c
        BY <2>4
      <3>2. start[c] = Len(flat[c]) + 1
        BY <3>1
      <3>3. /\ Len(flat[c + 1]) = Len(flat[c]) + Len(seqs[c + 1])
            /\ \A j \in 1 .. Len(seqs[c + 1]) : flat[c + 1][Len(flat[c]) + j] = seqs[c + 1][j]
        BY <1>3, <2>1, <3>1
      <3>4. Len(flat[c]) \in Nat /\ Len(seqs[c + 1]) \in Nat
        BY <1>2, <2>1, <3>1
      <3>5. ASSUME NEW j \in 1 .. Len(seqs[c + 1]) PROVE flat[n][start[c] + j - 1] = seqs[c + 1][j]
        <4>1. start[c] + j - 1 = Len(flat[c]) + j /\ Len(flat[c]) + j \in 1 .. Len(flat[c + 1])
          <5>. HIDE DEF start
          <5>1. \A a, b \in Nat : \A k \in 1 .. b : (a + 1) + k - 1 = a + k /\ a + k \in 1 .. a + b
            OBVIOUS
          <5>2. /\ (Len(flat[c]) + 1) + j - 1 = Len(flat[c]) + j
                /\ Len(flat[c]) + j \in 1 .. Len(flat[c]) + Len(seqs[c + 1])
            BY <3>4, <5>1, Zenon
          <5>. QED BY <3>2, <3>3, <5>2, Zenon
        <4>2. flat[n][Len(flat[c]) + j] = flat[c + 1][Len(flat[c]) + j]
          BY <2>1, <4>1 DEF Extends
        <4>. QED BY <3>3, <4>1, <4>2
      <3>6. start[c + 1] = start[c] + Len(seqs[c + 1])
        <4>. HIDE DEF start
        <4>1. \A a, b \in Nat : (a + b) + 1 = (a + 1) + b
          OBVIOUS
        <4>2. (Len(flat[c]) + Len(seqs[c + 1])) + 1 = (Len(flat[c]) + 1) + Len(seqs[c + 1])
          BY <3>4, <4>1, Zenon
        <4>. QED BY <2>2, <3>2, <3>3, <4>2, Zenon
      <3>. QED BY <3>5, <3>6
    <2>. QED BY <2>3, <2>4
  <1>. HIDE DEF start
  <1>12. flat[n] \in Seq(W)
    BY <1>2
  <1>13. FlattenSeq(seqs) = flat[n]
    BY <1>1
  <1>. HIDE DEF Extends
  <1>14. Behind(start, flat[n], seqs, n)
    BY <1>9, <1>10, <1>11, Zenon DEF Behind
  <1>. QED BY <1>8, <1>12, <1>13, <1>14, Zenon

-----------------------------------------------------------------------------
(* The words of a file                                                         *)

USE RestoreAssumption

\* No id twice.
Distinct(s, n) == \A i, j \in 1 .. n : s[i] = s[j] => i = j

Sections ==
  {s \in [listed : BOOLEAN, ids : Seq(Ids), values : Seq(Nat)] :
     Len(s.values) = Len(s.ids) /\ Distinct(s.ids, Len(s.ids))}

Files == [Cpus -> Sections]

WordSet ==
  [kind : {"state", "system", "list", "id", "value", "memory"}, is : Ids \cup Nat]

\* How long a section is.
SectionLength(s) == IF s.listed THEN 3 + 2 * Len(s.ids) ELSE 2

\* The words of one section: the list has its ids in front of its values.
LEMMA SectionWordsAre ==
  ASSUME NEW s \in Sections
  PROVE  /\ SectionWords(s) \in Seq(WordSet)
         /\ Len(SectionWords(s)) = SectionLength(s)
         /\ SectionWords(s)[1] = Word("state", 0)
         /\ s.listed =>
              /\ SectionWords(s)[3] = Word("list", Len(s.ids))
              /\ \A i \in 1 .. Len(s.ids) :
                   /\ SectionWords(s)[3 + i] = Word("id", s.ids[i])
                   /\ SectionWords(s)[3 + Len(s.ids) + i] = Word("value", s.values[i])
  <1>. DEFINE n == Len(s.ids)
              fixed == <<Word("state", 0), Word("system", 0)>>
              head == <<Word("list", n)>>
              ids == [i \in 1 .. n |-> Word("id", s.ids[i])]
              vals == [i \in 1 .. n |-> Word("value", s.values[i])]
  <1>1. /\ s.ids \in Seq(Ids) /\ s.values \in Seq(Nat) /\ Len(s.values) = n /\ n \in Nat
        /\ s.listed \in BOOLEAN
    BY DEF Sections
  <1>2. fixed \in Seq(WordSet) /\ Len(fixed) = 2 /\ fixed[1] = Word("state", 0)
    BY DEF Word, WordSet
  <1>3. head \in Seq(WordSet) /\ Len(head) = 1 /\ head[1] = Word("list", n)
    BY <1>1 DEF Word, WordSet
  <1>4. ids \in Seq(WordSet) /\ Len(ids) = n /\ \A i \in 1 .. n : ids[i] = Word("id", s.ids[i])
    <2>1. \A i \in 1 .. n : s.ids[i] \in Ids
      BY <1>1, ElementOfSeq
    <2>2. ids \in [1 .. n -> WordSet]
      BY <2>1 DEF Word, WordSet
    <2>3. \A i \in 1 .. n : ids[i] = Word("id", s.ids[i])
      OBVIOUS
    <2>. HIDE DEF ids, n
    <2>. QED BY <1>1, <2>2, <2>3
  <1>5. vals \in Seq(WordSet) /\ Len(vals) = n /\ \A i \in 1 .. n : vals[i] = Word("value", s.values[i])
    <2>1. \A i \in 1 .. n : s.values[i] \in Nat
      BY <1>1, ElementOfSeq
    <2>2. vals \in [1 .. n -> WordSet]
      BY <2>1 DEF Word, WordSet
    <2>3. \A i \in 1 .. n : vals[i] = Word("value", s.values[i])
      OBVIOUS
    <2>. HIDE DEF vals, n
    <2>. QED BY <1>1, <2>2, <2>3
  <1>6. SectionWords(s) = fixed \o (IF s.listed THEN (head \o ids) \o vals ELSE << >>)
    BY DEF SectionWords
  <1>. HIDE DEF fixed, head, ids, vals, n
  <1>7. CASE ~ s.listed
    <2>1. SectionWords(s) = fixed
      BY <1>2, <1>6, <1>7, ConcatEmptySeq
    <2>. QED BY <1>2, <1>7, <2>1 DEF SectionLength
  <1>8. CASE s.listed
    <2>1. /\ head \o ids \in Seq(WordSet) /\ Len(head \o ids) = 1 + n
          /\ \A i \in 1 .. 1 + n : (head \o ids)[i] = IF i <= 1 THEN head[i] ELSE ids[i - 1]
      <3>1. /\ head \o ids \in Seq(WordSet) /\ Len(head \o ids) = Len(head) + Len(ids)
            /\ \A i \in 1 .. Len(head) + Len(ids) :
                 (head \o ids)[i] = IF i <= Len(head) THEN head[i] ELSE ids[i - Len(head)]
        BY <1>3, <1>4, ConcatProperties, Zenon
      <3>. QED BY <1>3, <1>4, <3>1, Zenon
    <2>. DEFINE l == head \o ids
                r == l \o vals
    <2>2. /\ r \in Seq(WordSet) /\ Len(r) = (1 + n) + n
          /\ \A i \in 1 .. (1 + n) + n : r[i] = IF i <= 1 + n THEN l[i] ELSE vals[i - (1 + n)]
      <3>1. /\ r \in Seq(WordSet) /\ Len(r) = Len(l) + Len(vals)
            /\ \A i \in 1 .. Len(l) + Len(vals) :
                 r[i] = IF i <= Len(l) THEN l[i] ELSE vals[i - Len(l)]
        BY <1>5, <2>1, ConcatProperties, Zenon
      <3>. QED BY <1>5, <2>1, <3>1, Zenon
    <2>3. SectionWords(s) = fixed \o r
      BY <1>6, <1>8, Zenon
    <2>4. \A i \in 1 .. 1 + n : l[i] = IF i <= 1 THEN head[i] ELSE ids[i - 1]
      BY <2>1
    <2>. HIDE DEF l, r
    <2>. DEFINE w == fixed \o r
    <2>5. /\ w \in Seq(WordSet) /\ Len(w) = 2 + ((1 + n) + n)
          /\ \A i \in 1 .. 2 + ((1 + n) + n) : w[i] = IF i <= 2 THEN fixed[i] ELSE r[i - 2]
      <3>1. /\ w \in Seq(WordSet) /\ Len(w) = Len(fixed) + Len(r)
            /\ \A i \in 1 .. Len(fixed) + Len(r) :
                 w[i] = IF i <= Len(fixed) THEN fixed[i] ELSE r[i - Len(fixed)]
        BY <1>2, <2>2, ConcatProperties, Zenon
      <3>. QED BY <1>2, <2>2, <3>1, Zenon
    <2>. HIDE DEF w
    <2>6. w[1] = Word("state", 0)
      <3>1. 1 \in 1 .. 2 + ((1 + n) + n) /\ 1 <= 2
        BY <1>1
      <3>. QED BY <1>2, <2>5, <3>1, Zenon
    <2>7. w[3] = Word("list", n)
      <3>1. /\ 3 \in 1 .. 2 + ((1 + n) + n) /\ ~ (3 <= 2) /\ 3 - 2 = 1
            /\ 1 \in 1 .. (1 + n) + n /\ 1 <= 1 + n /\ 1 \in 1 .. 1 + n /\ 1 <= 1
        BY <1>1
      <3>2. w[3] = r[1]
        BY <2>5, <3>1, Zenon
      <3>. QED BY <1>3, <2>2, <2>4, <3>1, <3>2, Zenon
    <2>8. ASSUME NEW i \in 1 .. n
          PROVE  w[3 + i] = Word("id", s.ids[i]) /\ w[3 + n + i] = Word("value", s.values[i])
      <3>1. /\ 3 + i \in 1 .. 2 + ((1 + n) + n) /\ ~ (3 + i <= 2) /\ (3 + i) - 2 = 1 + i
            /\ 1 + i \in 1 .. (1 + n) + n /\ 1 + i <= 1 + n /\ 1 + i \in 1 .. 1 + n
            /\ ~ (1 + i <= 1) /\ (1 + i) - 1 = i
        BY <1>1
      <3>2. w[3 + i] = r[1 + i]
        BY <2>5, <3>1, Zenon
      <3>3. w[3 + i] = ids[i]
        BY <2>2, <2>4, <3>1, <3>2, Zenon
      <3>4. /\ 3 + n + i \in 1 .. 2 + ((1 + n) + n) /\ ~ (3 + n + i <= 2)
            /\ (3 + n + i) - 2 = (1 + n) + i
            /\ (1 + n) + i \in 1 .. (1 + n) + n /\ ~ ((1 + n) + i <= 1 + n)
            /\ ((1 + n) + i) - (1 + n) = i
        BY <1>1
      <3>5. w[3 + n + i] = r[(1 + n) + i]
        BY <2>5, <3>4, Zenon
      <3>6. w[3 + n + i] = vals[i]
        BY <2>2, <3>4, <3>5, Zenon
      <3>. QED BY <1>4, <1>5, <3>3, <3>6
    <2>9. Len(w) = SectionLength(s)
      BY <1>1, <1>8, <2>5 DEF SectionLength, n
    <2>10. SectionWords(s) = w
      BY <2>3 DEF w
    <2>. QED BY <1>8, <2>5, <2>6, <2>7, <2>8, <2>9, <2>10 DEF n
  <1>. QED BY <1>1, <1>7, <1>8

\* The sections of a file begin where the function start has it, and the memory
\* is behind the last.
LaidFrom(f, start) ==
  /\ start \in [0 .. N -> Nat \ {0}]
  /\ start[0] = 1
  /\ \A c \in 0 .. N : start[c] <= start[N]
  /\ \A c \in Cpus :
       /\ start[c + 1] = start[c] + SectionLength(f[c])
       /\ \A j \in 1 .. SectionLength(f[c]) : Words(f)[start[c] + j - 1] = SectionWords(f[c])[j]
  /\ Words(f)[start[N]] = Word("memory", 0)
  /\ Len(Words(f)) = start[N]

Start(f) == CHOOSE start : LaidFrom(f, start)

LEMMA WordsLaid ==
  ASSUME NEW f \in Files
  PROVE  LaidFrom(f, Start(f))
  <1>. DEFINE seqs == [i \in 1 .. N |-> SectionWords(f[i - 1])]
              flat == FlattenSeq(seqs)
  <1>1. /\ \A c \in Cpus : f[c] \in Sections
        /\ \A i \in 1 .. N : i - 1 \in Cpus /\ seqs[i] = SectionWords(f[i - 1])
    BY DEF Files, Cpus
  <1>2. seqs \in [1 .. N -> Seq(WordSet)]
    <2>1. \A i \in 1 .. N : SectionWords(f[i - 1]) \in Seq(WordSet)
      BY <1>1, SectionWordsAre
    <2>. QED BY <2>1
  <1>3. Words(f) = Append(flat, Word("memory", 0))
    BY DEF Words
  <1>. HIDE DEF seqs
  <1>4. flat \in Seq(WordSet)
    BY <1>2, FlattenedAt
  <1>0. PICK start \in [0 .. N -> Nat \ {0}] : Behind(start, flat, seqs, N)
    BY <1>2, FlattenedAt
  <1>5. /\ start[0] = 1 /\ start[N] = Len(flat) + 1
        /\ \A c \in 0 .. N : start[c] <= start[N]
        /\ \A c \in 0 .. N - 1 :
             /\ start[c + 1] = start[c] + Len(seqs[c + 1])
             /\ \A j \in 1 .. Len(seqs[c + 1]) : flat[start[c] + j - 1] = seqs[c + 1][j]
    BY <1>0, Zenon DEF Behind
  <1>. HIDE DEF flat
  <1>6. Word("memory", 0) \in WordSet /\ Len(flat) \in Nat
    BY <1>4 DEF Word, WordSet
  <1>7. /\ Len(Words(f)) = Len(flat) + 1
        /\ \A i \in 1 .. Len(flat) : Words(f)[i] = flat[i]
        /\ Words(f)[Len(flat) + 1] = Word("memory", 0)
    BY <1>3, <1>4, <1>6, AppendProperties
  <1>8. ASSUME NEW c \in Cpus
        PROVE  /\ start[c + 1] = start[c] + SectionLength(f[c])
               /\ \A j \in 1 .. SectionLength(f[c]) :
                    Words(f)[start[c] + j - 1] = SectionWords(f[c])[j]
    <2>1. c \in 0 .. N - 1 /\ c + 1 \in 1 .. N /\ (c + 1) - 1 = c
      BY DEF Cpus
    <2>2. seqs[c + 1] = SectionWords(f[c])
      BY <1>1, <2>1
    <2>3. Len(seqs[c + 1]) = SectionLength(f[c])
      BY <1>1, <2>2, SectionWordsAre
    <2>4. start[c] \in Nat \ {0} /\ start[c + 1] \in Nat \ {0} /\ start[c + 1] <= start[N]
      BY <1>5, <2>1
    <2>5. start[c + 1] = start[c] + SectionLength(f[c])
      BY <1>5, <2>1, <2>3
    <2>6. ASSUME NEW j \in 1 .. SectionLength(f[c])
          PROVE  Words(f)[start[c] + j - 1] = SectionWords(f[c])[j]
      <3>1. SectionLength(f[c]) \in Nat
        BY <1>1 DEF SectionLength, Sections
      <3>2. start[c] + j - 1 \in 1 .. Len(flat)
        BY <1>5, <1>6, <2>4, <2>5, <3>1
      <3>3. flat[start[c] + j - 1] = seqs[c + 1][j]
        BY <1>5, <2>1, <2>3
      <3>. QED BY <1>7, <2>2, <3>2, <3>3
    <2>. QED BY <2>5, <2>6
  <1>9. LaidFrom(f, start)
    BY <1>5, <1>7, <1>8 DEF LaidFrom
  <1>. QED BY <1>9 DEF Start

\* What the reader finds when it is at the section of a vCPU.
LEMMA SectionFound ==
  ASSUME NEW f \in Files, NEW c \in Cpus
  PROVE  LET at == Start(f)[c] + 2
             s == f[c]
         IN  /\ s \in Sections /\ Len(s.ids) \in Nat
             /\ Start(f)[c] \in Nat \ {0}
             /\ s.listed =>
                  /\ Words(f)[at].kind = "list" /\ Words(f)[at].is = Len(s.ids)
                  /\ \A i \in 1 .. Len(s.ids) : /\ Words(f)[at + i].is = s.ids[i]
                                               /\ Words(f)[at + Len(s.ids) + i].is = s.values[i]
                  /\ Start(f)[c + 1] = at + 1 + 2 * Len(s.ids)
             /\ ~ s.listed =>
                  /\ Words(f)[at].kind # "list"
                  /\ Start(f)[c + 1] = at
  <1>. DEFINE start == Start(f)
              s == f[c]
              n == Len(s.ids)
  <1>1. LaidFrom(f, start)
    BY WordsLaid
  <1>2. s \in Sections /\ n \in Nat
    BY DEF Files, Sections
  <1>3. c \in 0 .. N /\ c + 1 \in 0 .. N
    BY DEF Cpus
  <1>4. start[c] \in Nat \ {0}
    BY <1>1, <1>3 DEF LaidFrom
  <1>5. /\ start[c + 1] = start[c] + SectionLength(s)
        /\ \A j \in 1 .. SectionLength(s) : Words(f)[start[c] + j - 1] = SectionWords(s)[j]
    BY <1>1 DEF LaidFrom
  <1>6. \A k, x : Word(k, x).kind = k /\ Word(k, x).is = x
    BY DEF Word
  <1>. HIDE DEF start, s
  <1>7. CASE s.listed
    <2>1. SectionLength(s) = 3 + 2 * n
      BY <1>7 DEF SectionLength
    <2>2. /\ SectionWords(s)[3] = Word("list", n)
          /\ \A i \in 1 .. n : /\ SectionWords(s)[3 + i] = Word("id", s.ids[i])
                               /\ SectionWords(s)[3 + n + i] = Word("value", s.values[i])
      BY <1>2, <1>7, SectionWordsAre
    <2>. HIDE DEF n
    <2>3. Words(f)[start[c] + 2] = Word("list", n)
      <3>1. 3 \in 1 .. SectionLength(s) /\ start[c] + 3 - 1 = start[c] + 2
        BY <1>2, <1>4, <2>1
      <3>2. Words(f)[start[c] + 3 - 1] = SectionWords(s)[3]
        BY <1>5, <3>1, Zenon
      <3>. QED BY <2>2, <3>1, <3>2, Zenon
    <2>4. ASSUME NEW i \in 1 .. n
          PROVE  /\ Words(f)[start[c] + 2 + i] = Word("id", s.ids[i])
                 /\ Words(f)[start[c] + 2 + n + i] = Word("value", s.values[i])
      <3>1. /\ 3 + i \in 1 .. SectionLength(s) /\ start[c] + (3 + i) - 1 = start[c] + 2 + i
            /\ 3 + n + i \in 1 .. SectionLength(s)
            /\ start[c] + (3 + n + i) - 1 = start[c] + 2 + n + i
        BY <1>2, <1>4, <2>1
      <3>2. /\ Words(f)[start[c] + (3 + i) - 1] = SectionWords(s)[3 + i]
            /\ Words(f)[start[c] + (3 + n + i) - 1] = SectionWords(s)[3 + n + i]
        BY <1>5, <3>1, Zenon
      <3>. QED BY <2>2, <3>1, <3>2, Zenon
    <2>5. start[c + 1] = start[c] + 2 + 1 + 2 * n
      BY <1>2, <1>4, <1>5, <2>1
    <2>6. /\ Words(f)[start[c] + 2].kind = "list" /\ Words(f)[start[c] + 2].is = n
          /\ \A i \in 1 .. n : /\ Words(f)[start[c] + 2 + i].is = s.ids[i]
                               /\ Words(f)[start[c] + 2 + n + i].is = s.values[i]
      <3>1. Words(f)[start[c] + 2].kind = "list" /\ Words(f)[start[c] + 2].is = n
        BY <2>3 DEF Word
      <3>2. ASSUME NEW i \in 1 .. n
            PROVE  /\ Words(f)[start[c] + 2 + i].is = s.ids[i]
                   /\ Words(f)[start[c] + 2 + n + i].is = s.values[i]
        <4>1. /\ Words(f)[start[c] + 2 + i] = Word("id", s.ids[i])
              /\ Words(f)[start[c] + 2 + n + i] = Word("value", s.values[i])
          BY <2>4
        <4>. QED BY <4>1 DEF Word
      <3>. QED BY <3>1, <3>2, Zenon
    <2>. QED BY <1>2, <1>4, <1>7, <2>5, <2>6, Zenon DEF start, s, n
  <1>8. CASE ~ s.listed
    <2>1. start[c + 1] = start[c] + 2
      BY <1>5, <1>8 DEF SectionLength
    <2>2. Words(f)[start[c + 1]].kind # "list"
      <3>1. CASE c + 1 = N
        <4>1. Words(f)[start[c + 1]] = Word("memory", 0)
          BY <1>1, <3>1 DEF LaidFrom
        <4>. QED BY <1>6, <4>1
      <3>2. CASE c + 1 # N
        <4>1. c + 1 \in Cpus
          BY <3>2 DEF Cpus
        <4>2. f[c + 1] \in Sections
          BY <4>1 DEF Files
        <4>3. SectionWords(f[c + 1])[1] = Word("state", 0) /\ 1 \in 1 .. SectionLength(f[c + 1])
          BY <4>2, SectionWordsAre DEF SectionLength, Sections
        <4>4. start[c + 1] \in Nat
          BY <1>1, <1>3 DEF LaidFrom
        <4>5. Words(f)[start[c + 1] + 1 - 1] = SectionWords(f[c + 1])[1]
          BY <1>1, <4>1, <4>3 DEF LaidFrom
        <4>6. Words(f)[start[c + 1]] = Word("state", 0)
          BY <4>3, <4>4, <4>5
        <4>. QED BY <1>6, <4>6
      <3>. QED BY <3>1, <3>2
    <2>. QED BY <1>2, <1>4, <1>8, <2>1, <2>2, Zenon DEF start, s, n
  <1>. QED BY <1>7, <1>8, Zenon DEF start, s, n

-----------------------------------------------------------------------------
(* The inductive invariant                                                     *)

\* What cpreg_array_len counts has been allocated, and has no id twice.
Arrays ==
  /\ regs \in [Cpus -> [Registers -> Nat]]
  /\ indexes \in [Cpus -> [1 .. Allocated -> Ids]]
  /\ values \in [Cpus -> [1 .. Allocated -> Nat]]
  /\ len \in [Cpus -> 0 .. Allocated]
  /\ \A c \in Cpus : Distinct(indexes[c], len[c])

\* Between two vCPUs the reader is where the section of the second begins.
AtSection == cpu < N \/ pos > 1 => pos = Start(loading)[cpu]

RestoreInv ==
  /\ changes \in 0 .. MaxChanges
  /\ cpu \in 0 .. N
  /\ pos \in Nat \ {0}
  /\ own \in Files
  /\ loading \in Files
  /\ Arrays
  /\ AtSection

LEMMA ListIs ==
  /\ Allocated \in Nat
  /\ List \in [1 .. Allocated -> Ids]
  /\ Registers \subseteq Ids
  /\ Distinct(List, Allocated)
  <1>1. Allocated \in Nat /\ List \in [1 .. Allocated -> Ids]
    BY LenProperties DEF Allocated
  <1>2. Registers \subseteq Ids
    BY <1>1 DEF Registers
  <1>3. Distinct(List, Allocated)
    <2>1. DOMAIN List = 1 .. Allocated
      BY <1>1
    <2>. QED BY <2>1, Zenon DEF Distinct, IsInjective
  <1>. QED BY <1>1, <1>2, <1>3

LEMMA NoListIsSection == NoList \in Sections
  <1>1. << >> \in Seq(Ids) /\ << >> \in Seq(Nat) /\ Len(<< >>) = 0
    BY EmptySeq
  <1>. QED BY <1>1 DEF NoList, Sections, Distinct

\* The files of other machines are files.
LEMMA ForeignAreFiles == ForeignFiles \subseteq Files
  <1>. DEFINE Made(l, missing) ==
                [c \in Cpus |-> IF c \in missing THEN NoList
                                ELSE Listing(l, [i \in 1 .. Len(l) |-> ForeignValue(c, i)])]
  <1>. SUFFICES ASSUME NEW l \in Foreign, NEW missing \in SUBSET Cpus
                PROVE  Made(l, missing) \in Files
    <2>1. ForeignFiles = {Made(l, missing) : l \in Foreign, missing \in SUBSET Cpus}
      BY DEF ForeignFiles
    <2>. HIDE DEF Made
    <2>. QED BY <2>1
  <1>1. ASSUME NEW c \in Cpus
        PROVE  Listing(l, [i \in 1 .. Len(l) |-> ForeignValue(c, i)]) \in Sections
    <2>. DEFINE vals == [i \in 1 .. Len(l) |-> ForeignValue(c, i)]
    <2>1. l \in Seq(Ids) /\ Len(l) \in Nat /\ DOMAIN l = 1 .. Len(l)
      BY LenProperties
    <2>2. c \in Nat
      BY DEF Cpus
    <2>3. vals \in [1 .. Len(l) -> Nat]
      BY <2>1, <2>2 DEF ForeignValue
    <2>. HIDE DEF vals
    <2>4. vals \in Seq(Nat) /\ Len(vals) = Len(l)
      BY <2>1, <2>3
    <2>5. Distinct(l, Len(l))
      BY <2>1, Zenon DEF Distinct, IsInjective
    <2>6. /\ Listing(l, vals).ids = l /\ Listing(l, vals).values = vals
          /\ Listing(l, vals) \in [listed : BOOLEAN, ids : Seq(Ids), values : Seq(Nat)]
      BY <2>1, <2>4 DEF Listing
    <2>7. Listing(l, vals) \in Sections
      BY <2>4, <2>5, <2>6, Zenon DEF Sections
    <2>. QED BY <2>7 DEF vals
  <1>. QED BY <1>1, NoListIsSection, Zenon DEF Files

LEMMA InitInv == Init => RestoreInv
  <1>. SUFFICES ASSUME Init PROVE RestoreInv
    OBVIOUS
  <1>1. own \in Files /\ loading \in Files
    BY NoListIsSection DEF Init, Files
  <1>2. Arrays
    BY ListIs DEF Init, Arrays
  <1>3. AtSection
    BY DEF Init, AtSection
  <1>. QED BY <1>1, <1>2, <1>3 DEF Init, RestoreInv

LEMMA RunGuestKeepsInv ==
  ASSUME RestoreInv, RunGuest
  PROVE  RestoreInv'
  <1>1. changes' \in 0 .. MaxChanges /\ changes + 1 \in Nat
    BY DEF RestoreInv, RunGuest
  <1>2. Arrays'
    BY <1>1 DEF RestoreInv, Arrays, RunGuest, Distinct
  <1>. QED BY <1>1, <1>2 DEF RestoreInv, RunGuest, AtSection

\* What is saved is a file again: the lists have the same length, and no id twice.
LEMMA SaveKeepsInv ==
  ASSUME RestoreInv, Save
  PROVE  RestoreInv'
  <1>1. ASSUME NEW c \in Cpus
        PROVE  Filled(c) \in [1 .. Allocated -> Nat]
    <2>1. ASSUME NEW i \in 1 .. Allocated
          PROVE  /\ indexes[c][i] \in Registers => regs[c][indexes[c][i]] \in Nat
                 /\ values[c][i] \in Nat
      <3>1. /\ regs[c] \in [Registers -> Nat]
            /\ values[c] \in [1 .. Allocated -> Nat]
        BY DEF RestoreInv, Arrays
      <3>. QED BY <3>1, Zenon
    <2>. QED BY <2>1 DEF Filled
  <1>2. ASSUME NEW c \in Cpus
        PROVE  Listing(SubSeq(indexes[c], 1, len[c]), SubSeq(Filled(c), 1, len[c])) \in Sections
    <2>. DEFINE k == len[c]
                ids == SubSeq(indexes[c], 1, k)
                vals == SubSeq(Filled(c), 1, k)
    <2>1. Allocated \in Nat /\ k \in 0 .. Allocated /\ k \in Nat
      BY ListIs DEF RestoreInv, Arrays
    <2>2. indexes[c] \in Seq(Ids) /\ Len(indexes[c]) = Allocated
      <3>1. indexes[c] \in [1 .. Allocated -> Ids]
        BY DEF RestoreInv, Arrays
      <3>. QED BY <2>1, <3>1
    <2>3. Filled(c) \in Seq(Nat) /\ Len(Filled(c)) = Allocated
      BY <1>1, <2>1
    <2>4. /\ ids \in Seq(Ids) /\ Len(ids) = k
          /\ \A i \in 1 .. k : ids[i] = indexes[c][i]
      BY <2>1, <2>2
    <2>5. vals \in Seq(Nat) /\ Len(vals) = k
      BY <2>1, <2>3
    <2>6. Distinct(indexes[c], k)
      BY DEF RestoreInv, Arrays
    <2>. HIDE DEF ids, vals, k
    <2>7. Distinct(ids, k)
      BY <2>4, <2>6, Zenon DEF Distinct
    <2>8. /\ Listing(ids, vals).ids = ids /\ Listing(ids, vals).values = vals
          /\ Listing(ids, vals) \in [listed : BOOLEAN, ids : Seq(Ids), values : Seq(Nat)]
      BY <2>4, <2>5 DEF Listing
    <2>9. Listing(ids, vals) \in Sections
      BY <2>4, <2>5, <2>7, <2>8, Zenon DEF Sections
    <2>. QED BY <2>9 DEF ids, vals, k
  <1>3. own' \in Files
    BY <1>2, NoListIsSection, Zenon DEF Save, Files
  <1>4. Arrays'
    BY <1>1 DEF RestoreInv, Arrays, Save
  <1>. QED BY <1>3, <1>4 DEF RestoreInv, Save, AtSection

LEMMA LoadKeepsInv ==
  ASSUME RestoreInv, Load
  PROVE  RestoreInv'
  <1>1. loading' \in Files
    BY ForeignAreFiles DEF RestoreInv, Load
  <1>2. Start(loading')[0] = 1
    BY <1>1, WordsLaid DEF LaidFrom
  <1>3. AtSection'
    BY <1>2 DEF Load, AtSection
  <1>4. Arrays'
    BY DEF RestoreInv, Arrays, Load
  <1>. QED BY <1>1, <1>3, <1>4 DEF RestoreInv, Load

\* A vCPU whose section is next: the reader is at it, and finds what is in it.
LEMMA AtVcpu ==
  ASSUME RestoreInv, cpu < N
  PROVE  LET s == loading[cpu]
             n == Len(s.ids)
         IN  /\ cpu \in Cpus /\ cpu + 1 \in 0 .. N
             /\ s \in Sections /\ n \in Nat
             /\ Start(loading)[cpu + 1] \in Nat \ {0}
             /\ HasList => /\ Claimed = n
                           /\ \A i \in 1 .. n : /\ Words(loading)[ListAt + i].is = s.ids[i]
                                                /\ Words(loading)[ListAt + n + i].is = s.values[i]
                           /\ Start(loading)[cpu + 1] = ListAt + 1 + 2 * n
             /\ ~ HasList => Start(loading)[cpu + 1] = ListAt
  <1>1. cpu \in Cpus /\ cpu + 1 \in 0 .. N /\ loading \in Files
    BY DEF RestoreInv, Cpus
  <1>. DEFINE at == Start(loading)[cpu] + 2
  <1>2. ListAt = at
    BY DEF RestoreInv, AtSection, ListAt, at
  <1>3. Start(loading)[cpu + 1] \in Nat \ {0}
    BY <1>1, WordsLaid DEF LaidFrom
  <1>4. loading[cpu].listed \in BOOLEAN
    BY <1>1 DEF Files, Sections
  <1>5. LET s == loading[cpu]
        IN  /\ s \in Sections /\ Len(s.ids) \in Nat
            /\ s.listed =>
                 /\ Words(loading)[at].kind = "list" /\ Words(loading)[at].is = Len(s.ids)
                 /\ \A i \in 1 .. Len(s.ids) : /\ Words(loading)[at + i].is = s.ids[i]
                                              /\ Words(loading)[at + Len(s.ids) + i].is = s.values[i]
                 /\ Start(loading)[cpu + 1] = at + 1 + 2 * Len(s.ids)
            /\ ~ s.listed =>
                 /\ Words(loading)[at].kind # "list"
                 /\ Start(loading)[cpu + 1] = at
    BY <1>1, SectionFound
  <1>. HIDE DEF at
  <1>6. CASE loading[cpu].listed
    <2>1. HasList
      BY <1>2, <1>5, <1>6 DEF HasList
    <2>. QED BY <1>1, <1>2, <1>3, <1>5, <1>6, <2>1, Zenon DEF Claimed
  <1>7. CASE ~ loading[cpu].listed
    <2>1. ~ HasList
      BY <1>2, <1>5, <1>7 DEF HasList
    <2>. QED BY <1>1, <1>2, <1>3, <1>5, <1>7, <2>1, Zenon
  <1>. QED BY <1>4, <1>6, <1>7, Zenon

LEMMA RejectKeepsInv ==
  ASSUME RestoreInv, Reject
  PROVE  RestoreInv'
  <1>1. cpu < N /\ ~ HasList /\ pos' = ListAt /\ cpu' = cpu + 1 /\ loading' = loading
    BY DEF Reject
  <1>2. /\ cpu' \in 0 .. N
        /\ pos' = Start(loading)[cpu']
        /\ pos' \in Nat \ {0}
    BY <1>1, AtVcpu
  <1>3. AtSection'
    BY <1>1, <1>2 DEF AtSection
  <1>4. Arrays'
    BY DEF RestoreInv, Arrays, Reject
  <1>. QED BY <1>2, <1>3, <1>4 DEF RestoreInv, Reject

\* How much of a list of n registers is restored where k are counted.
Fitting(n, k) == IF n < k THEN n ELSE k

\* What restoring one vCPU does, in terms of the section the file has for it.
LEMMA RestoreStep ==
  ASSUME RestoreInv, Restore
  PROVE  LET s == loading[cpu]
             k == Fitting(Len(s.ids), len[cpu])
         IN  /\ cpu \in Cpus
             /\ s \in Sections
             /\ k \in 0 .. Allocated /\ k <= Len(s.ids) /\ Count = k
             /\ cpu' \in 0 .. N /\ pos' \in Nat \ {0} /\ pos' = Start(loading)[cpu']
             /\ len' = [len EXCEPT ![cpu] = k]
             /\ indexes' = [indexes EXCEPT ![cpu] =
                              [i \in 1 .. Allocated |-> IF i <= k THEN s.ids[i] ELSE indexes[cpu][i]]]
             /\ values' = [values EXCEPT ![cpu] =
                             [i \in 1 .. Allocated |-> IF i <= k THEN s.values[i] ELSE values[cpu][i]]]
             /\ regs' = [regs EXCEPT ![cpu] = [r \in Registers |-> Restored(r)]]
  <1>. DEFINE s == loading[cpu]
              n == Len(s.ids)
              k == Fitting(n, len[cpu])
  <1>1. /\ cpu \in Cpus /\ s \in Sections /\ n \in Nat /\ cpu + 1 \in 0 .. N
        /\ Start(loading)[cpu + 1] \in Nat \ {0}
        /\ Claimed = n
        /\ \A i \in 1 .. n : /\ Words(loading)[ListAt + i].is = s.ids[i]
                             /\ Words(loading)[ListAt + n + i].is = s.values[i]
        /\ Start(loading)[cpu + 1] = ListAt + 1 + 2 * n
    BY AtVcpu, Zenon DEF Restore
  <1>2. len[cpu] \in 0 .. Allocated /\ Allocated \in Nat
    BY <1>1, ListIs DEF RestoreInv, Arrays
  <1>3. Count = k /\ Step = n
    BY <1>1, Zenon DEF Count, Step, Fitting
  <1>4. k \in 0 .. Allocated /\ k <= n
    BY <1>1, <1>2 DEF Fitting
  <1>. HIDE DEF s, n, k
  <1>5. (IF Count > Allocated THEN Count ELSE Allocated) = Allocated
    BY <1>2, <1>3, <1>4
  <1>6. \A i \in 1 .. Allocated : i <= k => i \in 1 .. n
    BY <1>1, <1>2, <1>4
  <1>7. Loaded(indexes[cpu], ListAt) =
          [i \in 1 .. Allocated |-> IF i <= k THEN s.ids[i] ELSE indexes[cpu][i]]
    <2>1. Loaded(indexes[cpu], ListAt) =
            [i \in 1 .. Allocated |-> IF i <= k THEN Words(loading)[ListAt + i].is ELSE indexes[cpu][i]]
      BY <1>3, <1>5, Zenon DEF Loaded
    <2>. QED BY <1>1, <1>6, <2>1, Zenon
  <1>8. Loaded(values[cpu], ListAt + Step) =
          [i \in 1 .. Allocated |-> IF i <= k THEN s.values[i] ELSE values[cpu][i]]
    <2>1. Loaded(values[cpu], ListAt + Step) =
            [i \in 1 .. Allocated |-> IF i <= k THEN Words(loading)[ListAt + n + i].is ELSE values[cpu][i]]
      BY <1>3, <1>5, Zenon DEF Loaded
    <2>. QED BY <1>1, <1>6, <2>1, Zenon
  <1>9. /\ cpu' = cpu + 1 /\ pos' = ListAt + 1 + 2 * n
        /\ len' = [len EXCEPT ![cpu] = k]
        /\ indexes' = [indexes EXCEPT ![cpu] = Loaded(indexes[cpu], ListAt)]
        /\ values' = [values EXCEPT ![cpu] = Loaded(values[cpu], ListAt + Step)]
        /\ regs' = [regs EXCEPT ![cpu] = [r \in Registers |-> Restored(r)]]
    BY <1>3, Zenon DEF Restore
  <1>10. cpu' \in 0 .. N /\ pos' \in Nat \ {0} /\ pos' = Start(loading)[cpu']
    BY <1>1, <1>9, Zenon
  <1>. QED BY <1>1, <1>3, <1>4, <1>7, <1>8, <1>9, <1>10, Zenon DEF s, n, k

\* A register in the part of the list that fits gets the value from beside its id;
\* the others stay as they are.
LEMMA RestoredIs ==
  ASSUME RestoreInv, Restore, NEW r \in Registers
  PROVE  LET s == loading[cpu]
             k == Fitting(Len(s.ids), len[cpu])
         IN  /\ regs'[cpu][r] = Restored(r)
             /\ \A i \in 1 .. k : s.ids[i] = r => Restored(r) = s.values[i]
             /\ (\A i \in 1 .. k : s.ids[i] # r) => Restored(r) = regs[cpu][r]
  <1>. DEFINE s == loading[cpu]
              k == Fitting(Len(s.ids), len[cpu])
  <1>1. /\ cpu \in Cpus /\ s \in Sections
        /\ k \in 0 .. Allocated /\ k <= Len(s.ids) /\ Count = k
    BY RestoreStep
  <1>2. regs'[cpu][r] = Restored(r)
    <2>1. regs' = [regs EXCEPT ![cpu] = [q \in Registers |-> Restored(q)]]
      BY RestoreStep
    <2>2. regs'[cpu] = [q \in Registers |-> Restored(q)]
      BY <1>1, <2>1 DEF RestoreInv, Arrays
    <2>. QED BY <2>2, Zenon
  <1>3. \A i \in 1 .. k : indexes'[cpu][i] = s.ids[i] /\ values'[cpu][i] = s.values[i]
    <2>1. /\ indexes' = [indexes EXCEPT ![cpu] =
                           [i \in 1 .. Allocated |-> IF i <= k THEN s.ids[i] ELSE indexes[cpu][i]]]
          /\ values' = [values EXCEPT ![cpu] =
                          [i \in 1 .. Allocated |-> IF i <= k THEN s.values[i] ELSE values[cpu][i]]]
      BY RestoreStep
    <2>2. \A i \in 1 .. k : i \in 1 .. Allocated /\ i <= k
      BY <1>1, ListIs
    <2>3. DOMAIN indexes = Cpus /\ DOMAIN values = Cpus
      BY DEF RestoreInv, Arrays
    <2>. HIDE DEF s, k
    <2>. DEFINE ids == [i \in 1 .. Allocated |-> IF i <= k THEN s.ids[i] ELSE indexes[cpu][i]]
                vals == [i \in 1 .. Allocated |-> IF i <= k THEN s.values[i] ELSE values[cpu][i]]
    <2>4. \A i \in 1 .. k : ids[i] = s.ids[i] /\ vals[i] = s.values[i]
      BY <2>2, SMTT(30)
    <2>. HIDE DEF ids, vals
    <2>5. indexes'[cpu] = ids /\ values'[cpu] = vals
      BY <1>1, <2>1, <2>3 DEF ids, vals
    <2>. QED BY <2>4, <2>5, Zenon
  <1>4. \A i, j \in 1 .. k : s.ids[i] = s.ids[j] => i = j
    <2>1. Distinct(s.ids, Len(s.ids)) /\ Len(s.ids) \in Nat /\ k \in Nat /\ k <= Len(s.ids)
      BY <1>1, ListIs DEF Sections
    <2>. HIDE DEF s, k
    <2>2. \A i \in 1 .. k : i \in 1 .. Len(s.ids)
      BY <2>1
    <2>. QED BY <2>1, <2>2, Zenon DEF Distinct
  <1>. HIDE DEF s, k
  <1>5. Restored(r) = IF \E i \in 1 .. k : indexes'[cpu][i] = r
                      THEN values'[cpu][CHOOSE i \in 1 .. k : indexes'[cpu][i] = r]
                      ELSE regs[cpu][r]
    BY <1>1, Zenon DEF Restored
  <1>6. ASSUME NEW i \in 1 .. k, s.ids[i] = r
        PROVE  Restored(r) = s.values[i]
    <2>. DEFINE j == CHOOSE j \in 1 .. k : indexes'[cpu][j] = r
    <2>1. indexes'[cpu][i] = r
      BY <1>3, <1>6
    <2>2. j \in 1 .. k /\ indexes'[cpu][j] = r
      BY <2>1, Zenon
    <2>3. Restored(r) = values'[cpu][j]
      BY <1>5, <2>1, Zenon
    <2>. HIDE DEF j
    <2>4. s.ids[j] = s.ids[i]
      BY <1>3, <1>6, <2>2
    <2>5. j = i
      BY <1>4, <2>2, <2>4
    <2>. QED BY <1>3, <2>3, <2>5
  <1>7. ASSUME \A i \in 1 .. k : s.ids[i] # r
        PROVE  Restored(r) = regs[cpu][r]
    <2>1. ~ \E i \in 1 .. k : indexes'[cpu][i] = r
      BY <1>3, <1>7, Zenon
    <2>. QED BY <1>5, <2>1, Zenon
  <1>. QED BY <1>2, <1>6, <1>7, Zenon DEF s, k

LEMMA RestoreKeepsInv ==
  ASSUME RestoreInv, Restore
  PROVE  RestoreInv'
  <1>. DEFINE s == loading[cpu]
              k == Fitting(Len(s.ids), len[cpu])
              ids == [i \in 1 .. Allocated |-> IF i <= k THEN s.ids[i] ELSE indexes[cpu][i]]
              vals == [i \in 1 .. Allocated |-> IF i <= k THEN s.values[i] ELSE values[cpu][i]]
  <1>1. /\ cpu \in Cpus /\ s \in Sections /\ k \in 0 .. Allocated /\ k <= Len(s.ids)
        /\ cpu' \in 0 .. N /\ pos' \in Nat \ {0} /\ pos' = Start(loading)[cpu']
        /\ len' = [len EXCEPT ![cpu] = k]
        /\ indexes' = [indexes EXCEPT ![cpu] = ids]
        /\ values' = [values EXCEPT ![cpu] = vals]
        /\ regs' = [regs EXCEPT ![cpu] = [r \in Registers |-> Restored(r)]]
    BY RestoreStep
  <1>2. Len(s.ids) \in Nat /\ Len(s.values) = Len(s.ids) /\ Allocated \in Nat
    BY <1>1, ListIs DEF Sections
  <1>3. \A i \in 1 .. k : s.ids[i] \in Ids /\ s.values[i] \in Nat
    <2>1. s.ids \in Seq(Ids) /\ s.values \in Seq(Nat)
      BY <1>1 DEF Sections
    <2>2. \A i \in 1 .. k : i \in 1 .. Len(s.ids)
      BY <1>1, <1>2
    <2>. HIDE DEF s, k
    <2>. QED BY <1>2, <2>1, <2>2, ElementOfSeq
  <1>4. \A r \in Registers : Restored(r) \in Nat
    <2>. TAKE r \in Registers
    <2>1. regs[cpu][r] \in Nat
      BY <1>1 DEF RestoreInv, Arrays
    <2>2. /\ \A i \in 1 .. k : s.ids[i] = r => Restored(r) = s.values[i]
          /\ (\A i \in 1 .. k : s.ids[i] # r) => Restored(r) = regs[cpu][r]
      BY RestoredIs
    <2>. HIDE DEF s, k
    <2>3. CASE \E i \in 1 .. k : s.ids[i] = r
      <3>1. PICK i \in 1 .. k : s.ids[i] = r
        BY <2>3
      <3>2. Restored(r) = s.values[i]
        BY <2>2, <3>1
      <3>. QED BY <1>3, <3>2
    <2>4. CASE \A i \in 1 .. k : s.ids[i] # r
      BY <2>1, <2>2, <2>4
    <2>. QED BY <2>3, <2>4
  <1>5. Distinct(s.ids, k)
    <2>1. Distinct(s.ids, Len(s.ids))
      BY <1>1 DEF Sections
    <2>2. \A i \in 1 .. k : i \in 1 .. Len(s.ids)
      BY <1>1, <1>2
    <2>. HIDE DEF s, k
    <2>. QED BY <2>1, <2>2, Zenon DEF Distinct
  <1>. HIDE DEF s, k
  <1>6. ids \in [1 .. Allocated -> Ids] /\ vals \in [1 .. Allocated -> Nat]
    <2>1. ASSUME NEW i \in 1 .. Allocated
          PROVE  /\ (IF i <= k THEN s.ids[i] ELSE indexes[cpu][i]) \in Ids
                 /\ (IF i <= k THEN s.values[i] ELSE values[cpu][i]) \in Nat
      <3>0. /\ indexes[cpu] \in [1 .. Allocated -> Ids]
            /\ values[cpu] \in [1 .. Allocated -> Nat]
        BY <1>1 DEF RestoreInv, Arrays
      <3>1. indexes[cpu][i] \in Ids /\ values[cpu][i] \in Nat
        BY <3>0, Zenon
      <3>2. i <= k => i \in 1 .. k
        BY <1>1
      <3>. QED BY <1>3, <3>1, <3>2, Zenon
    <2>. QED BY <2>1, Zenon
  <1>7. Distinct(ids, k)
    <2>1. \A i \in 1 .. k : ids[i] = s.ids[i]
      BY <1>1, <1>2
    <2>. HIDE DEF ids
    <2>. QED BY <1>5, <2>1, Zenon DEF Distinct
  <1>. HIDE DEF ids, vals
  <1>8. Arrays'
    <2>1. /\ regs' \in [Cpus -> [Registers -> Nat]]
          /\ indexes' \in [Cpus -> [1 .. Allocated -> Ids]]
          /\ values' \in [Cpus -> [1 .. Allocated -> Nat]]
          /\ len' \in [Cpus -> 0 .. Allocated]
      BY <1>1, <1>4, <1>6 DEF RestoreInv, Arrays
    <2>2. ASSUME NEW c \in Cpus PROVE Distinct(indexes'[c], len'[c])
      <3>1. CASE c = cpu
        <4>1. indexes'[c] = ids /\ len'[c] = k
          BY <1>1, <3>1 DEF RestoreInv, Arrays
        <4>. QED BY <1>7, <4>1
      <3>2. CASE c # cpu
        <4>1. indexes'[c] = indexes[c] /\ len'[c] = len[c]
          BY <1>1, <3>2 DEF RestoreInv, Arrays
        <4>. QED BY <4>1 DEF RestoreInv, Arrays
      <3>. QED BY <3>1, <3>2
    <2>. QED BY <2>1, <2>2 DEF Arrays
  <1>9. UNCHANGED <<changes, own, loading>>
    BY DEF Restore
  <1>10. AtSection'
    BY <1>1, <1>9 DEF AtSection
  <1>. QED BY <1>1, <1>8, <1>9, <1>10 DEF RestoreInv

-----------------------------------------------------------------------------
(* The theorems                                                                *)

THEOREM RestoreInvariant == Spec => []RestoreInv
  <1>1. RestoreInv /\ [Next]_vars => RestoreInv'
    <2>. SUFFICES ASSUME RestoreInv, [Next]_vars PROVE RestoreInv'
      OBVIOUS
    <2>1. CASE RunGuest
      BY <2>1, RunGuestKeepsInv
    <2>2. CASE Save
      BY <2>2, SaveKeepsInv
    <2>3. CASE Load
      BY <2>3, LoadKeepsInv
    <2>4. CASE Reject
      BY <2>4, RejectKeepsInv
    <2>5. CASE Restore
      BY <2>5, RestoreKeepsInv
    <2>6. CASE UNCHANGED vars
      BY <2>6 DEF vars, RestoreInv, Arrays, AtSection, Distinct
    <2>. QED BY <2>1, <2>2, <2>3, <2>4, <2>5, <2>6 DEF Next
  <1>. QED BY <1>1, InitInv, PTL DEF Spec

\* The reader stays within the buffer, and a vCPU within the arrays that were
\* allocated for it, however long the list in the file is.
THEOREM StaysWithinArrays == Spec => []RestoreTypeOK
  <1>1. RestoreInv => RestoreTypeOK
    <2>. SUFFICES ASSUME RestoreInv PROVE RestoreTypeOK
      OBVIOUS
    <2>1. LaidFrom(loading, Start(loading))
      BY WordsLaid DEF RestoreInv
    <2>2. pos \in 1 .. Len(Words(loading))
      <3>1. /\ Len(Words(loading)) = Start(loading)[N]
            /\ Start(loading)[N] \in Nat \ {0}
            /\ Start(loading)[cpu] <= Start(loading)[N]
        BY <2>1 DEF LaidFrom, RestoreInv
      <3>2. pos = 1 \/ pos = Start(loading)[cpu]
        BY DEF RestoreInv, AtSection
      <3>3. pos \in Nat \ {0}
        BY DEF RestoreInv
      <3>. QED BY <3>1, <3>2, <3>3
    <2>3. ASSUME NEW c \in Cpus
          PROVE  /\ len[c] \in 0 .. Allocated
                 /\ Len(indexes[c]) = Allocated
                 /\ Len(values[c]) = Allocated
                 /\ DOMAIN regs[c] = Registers
      <3>1. Allocated \in Nat
        BY ListIs
      <3>2. /\ indexes[c] \in [1 .. Allocated -> Ids]
            /\ values[c] \in [1 .. Allocated -> Nat]
            /\ len[c] \in 0 .. Allocated
            /\ DOMAIN regs[c] = Registers
        BY DEF RestoreInv, Arrays
      <3>. QED BY <3>1, <3>2
    <2>. QED BY <2>2, <2>3 DEF RestoreTypeOK, RestoreInv
  <1>. QED BY <1>1, RestoreInvariant, PTL

\* Whatever was rejected or truncated, the reader is at the memory behind the last
\* section when all vCPUs are restored.
THEOREM EndsAtMemory == Spec => []StaysAligned
  <1>1. RestoreInv => StaysAligned
    <2>. SUFFICES ASSUME RestoreInv, cpu = N, pos > 1
                  PROVE  Words(loading)[pos].kind = "memory"
      BY DEF StaysAligned
    <2>1. LaidFrom(loading, Start(loading))
      BY WordsLaid DEF RestoreInv
    <2>2. Words(loading)[pos] = Word("memory", 0)
      BY <2>1 DEF RestoreInv, AtSection, LaidFrom
    <2>. QED BY <2>2 DEF Word
  <1>. QED BY <1>1, RestoreInvariant, PTL

\* A vCPU gets its registers from its own section of the file only.
THEOREM RestoresOwn == Spec => RestoredFromOwn
  <1>. DEFINE Own ==
                \A c \in Cpus : regs'[c] # regs[c] =>
                  \/ changes' # changes
                  \/ /\ c = cpu
                     /\ \A r \in Registers : regs'[c][r] = regs[c][r] \/ Saved(c, r, regs'[c][r])
  <1>1. RestoreInv /\ [Next]_vars => [Own]_vars
    <2>. SUFFICES ASSUME RestoreInv, Next PROVE Own
      OBVIOUS
    <2>1. CASE RunGuest
      BY <2>1 DEF RunGuest, RestoreInv
    <2>2. CASE Save \/ Load \/ Reject
      BY <2>2 DEF Save, Load, Reject
    <2>3. CASE Restore
      <3>. DEFINE s == loading[cpu]
                  k == Fitting(Len(s.ids), len[cpu])
      <3>1. /\ cpu \in Cpus /\ s \in Sections /\ k \in 0 .. Allocated /\ k <= Len(s.ids)
            /\ regs' = [regs EXCEPT ![cpu] = [r \in Registers |-> Restored(r)]]
        BY <2>3, RestoreStep
      <3>2. \A c \in Cpus : c # cpu => regs'[c] = regs[c]
        BY <3>1 DEF RestoreInv, Arrays
      <3>3. ASSUME NEW r \in Registers
            PROVE  regs'[cpu][r] = regs[cpu][r] \/ Saved(cpu, r, regs'[cpu][r])
        <4>1. /\ regs'[cpu][r] = Restored(r)
              /\ \A i \in 1 .. k : s.ids[i] = r => Restored(r) = s.values[i]
              /\ (\A i \in 1 .. k : s.ids[i] # r) => Restored(r) = regs[cpu][r]
          BY <2>3, RestoredIs
        <4>2. \A i \in 1 .. k : i \in 1 .. Len(s.ids)
          <5>1. Len(s.ids) \in Nat
            BY <3>1 DEF Sections
          <5>. QED BY <3>1, <5>1
        <4>. HIDE DEF k
        <4>. QED BY <4>1, <4>2, Zenon DEF Saved
      <3>. HIDE DEF s, k
      <3>. QED BY <3>2, <3>3, Zenon
    <2>. QED BY <2>1, <2>2, <2>3 DEF Next
  <1>. HIDE DEF Own
  <1>2. RestoreInv /\ [Next]_vars => [Own]_vars
    BY <1>1
  <1>3. Spec => [][Own]_vars
    BY <1>2, RestoreInvariant, PTL DEF Spec
  <1>. QED BY <1>3 DEF Own, RestoredFromOwn

\* Truncating a list loses the registers that exceed the present length of the
\* machine's own list, and no others, whatever was restored and saved before.
THEOREM RestoresWhatFits == Spec => FittingRestored
  <1>. DEFINE Fits ==
                Restore =>
                  \A i \in 1 .. len[cpu] :
                    i <= Len(loading[cpu].ids) /\ loading[cpu].ids[i] \in Registers =>
                      regs'[cpu][loading[cpu].ids[i]] = loading[cpu].values[i]
  <1>1. RestoreInv /\ [Next]_vars => [Fits]_vars
    <2>. SUFFICES ASSUME RestoreInv, Restore,
                         NEW i \in 1 .. len[cpu],
                         i <= Len(loading[cpu].ids), loading[cpu].ids[i] \in Registers
                  PROVE  regs'[cpu][loading[cpu].ids[i]] = loading[cpu].values[i]
      BY Zenon
    <2>. DEFINE k == Fitting(Len(loading[cpu].ids), len[cpu])
    <2>1. loading[cpu] \in Sections
      BY RestoreStep
    <2>2. i \in 1 .. k
      <3>1. len[cpu] \in Nat /\ Len(loading[cpu].ids) \in Nat
        <4>1. cpu \in Cpus /\ len[cpu] \in 0 .. Allocated /\ Allocated \in Nat
          BY RestoreStep, ListIs DEF RestoreInv, Arrays
        <4>2. Len(loading[cpu].ids) \in Nat
          BY <2>1 DEF Sections
        <4>. QED BY <4>1, <4>2
      <3>. QED BY <3>1 DEF Fitting
    <2>3. /\ regs'[cpu][loading[cpu].ids[i]] = Restored(loading[cpu].ids[i])
          /\ \A j \in 1 .. k : loading[cpu].ids[j] = loading[cpu].ids[i] =>
                               Restored(loading[cpu].ids[i]) = loading[cpu].values[j]
      BY RestoredIs
    <2>. QED BY <2>2, <2>3, Zenon
  <1>. HIDE DEF Fits
  <1>2. RestoreInv /\ [Next]_vars => [Fits]_vars
    BY <1>1
  <1>3. Spec => [][Fits]_vars
    BY <1>2, RestoreInvariant, PTL DEF Spec
  <1>. QED BY <1>3 DEF Fits, FittingRestored

=============================================================================
