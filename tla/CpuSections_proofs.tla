-------------------------- MODULE CpuSections_proofs --------------------------
(* Proofs about CpuSections for every number of vCPUs and registers: no thread *)
(* leaves its buffer, every file is laid out, and however many threads create  *)
(* at the same time, nothing saved is older than the checkpoint.               *)
EXTENDS CpuSections, SequenceTheorems, TLAPS

USE SectionsAssumption

Changes == 0 .. MaxChanges

Words ==
  [kind : {"state", "system", "value"}, cpu : Cpus, change : Changes]
    \cup [kind : {"list"}, cpu : Cpus, count : Nat]
    \cup [kind : {"id"}, cpu : Cpus, register : Nat]
    \cup [kind : {"zero", "memory"}]

Typed ==
  /\ changes \in [Cpus -> Changes]
  /\ list \in [Cpus -> [1 .. Registers -> Changes]]
  /\ pc \in [Cpus -> Places]
  /\ cpu \in [Cpus -> 0 .. N]
  /\ buffer \in [Cpus -> [1 .. BufferSize -> Words]]
  /\ offset \in [Cpus -> 0 .. BufferSize]
  /\ next \in [Cpus -> 1 .. Registers + 1]
  /\ value \in [Cpus -> Changes]
  /\ file \in [Cpus -> Seq(Words)]
  /\ began \in [Cpus -> [Cpus -> Changes]]

\* How much of the buffer is filled where, and how long the file can be.
Sized(t) ==
  /\ pc[t] \in Places \ {"guest", "memory"} => cpu[t] < N
  /\ pc[t] = "state" => offset[t] = 0
  /\ pc[t] = "system" => offset[t] = 1
  /\ pc[t] \in {"fill", "store"} => offset[t] = 2
  /\ pc[t] = "write" => offset[t] \in {2, LongestSection}
  /\ pc[t] = "store" => next[t] <= Registers
  /\ pc[t] # "guest" => Len(file[t]) <= cpu[t] * LongestSection
  /\ Len(file[t]) <= N * LongestSection + 1

TypeInv == Typed /\ \A t \in Cpus : Sized(t)

-----------------------------------------------------------------------------
(* Sequences of words                                                          *)

\* The words behind the fixed part: the values come last.
LEMMA ListWordsAre ==
  ASSUME Typed, NEW c \in Cpus
  PROVE  /\ ListWords(c) \in Seq(Words)
         /\ Len(ListWords(c)) = LongestSection - 2
         /\ \A i \in 1 .. Len(ListWords(c)) : IsSaved(ListWords(c)[i]) =>
              \E r \in 1 .. Registers : ListWords(c)[i] = Value(c, list[c][r])
         /\ ListWords(c)[1] = ListHeader(c)
         /\ \A r \in 1 .. Registers : ListWords(c)[1 + r] = Id(c, r)
         /\ \A r \in 1 .. Registers : ListWords(c)[1 + Registers + r] = Value(c, list[c][r])
  <1> DEFINE head == <<ListHeader(c)>>
             ids == [r \in 1 .. Registers |-> Id(c, r)]
             vals == [r \in 1 .. Registers |-> Value(c, list[c][r])]
  <1>1. head \in Seq(Words) /\ Len(head) = 1 /\ head[1] = ListHeader(c)
    BY DEF ListHeader, Words
  <1>2. ids \in Seq(Words) /\ Len(ids) = Registers
    <2>1. ids \in [1 .. Registers -> Words]
      BY DEF Id, Words
    <2>. QED BY <2>1, SMT
  <1>3. vals \in Seq(Words) /\ Len(vals) = Registers
    <2>1. vals \in [1 .. Registers -> Words]
      BY DEF Value, Words, Typed
    <2>. QED BY <2>1, SMT
  <1>4. \A r \in 1 .. Registers : ids[r] = Id(c, r) /\ vals[r] = Value(c, list[c][r])
    OBVIOUS
  <1>5. ListWords(c) = head \o ids \o vals
    BY DEF ListWords
  <1>6. ~ IsSaved(ListHeader(c)) /\ \A r \in 1 .. Registers : ~ IsSaved(Id(c, r))
    BY DEF IsSaved, ListHeader, Id
  <1> HIDE DEF head, ids, vals
  <1>7. /\ head \o ids \in Seq(Words)
        /\ Len(head \o ids) = 1 + Registers
        /\ \A i \in 1 .. 1 + Registers :
             (head \o ids)[i] = IF i <= 1 THEN head[i] ELSE ids[i - 1]
    <2>1. /\ head \o ids \in Seq(Words)
          /\ Len(head \o ids) = Len(head) + Len(ids)
          /\ \A i \in 1 .. Len(head) + Len(ids) :
               (head \o ids)[i] = IF i <= Len(head) THEN head[i] ELSE ids[i - Len(head)]
      BY <1>1, <1>2, ConcatProperties, Zenon
    <2>. QED BY <2>1, <1>1, <1>2, Zenon
  <1>8. /\ (head \o ids) \o vals \in Seq(Words)
        /\ Len((head \o ids) \o vals) = 1 + Registers + Registers
        /\ \A i \in 1 .. 1 + Registers + Registers :
             ((head \o ids) \o vals)[i] =
               IF i <= 1 + Registers THEN (head \o ids)[i] ELSE vals[i - (1 + Registers)]
    <2>1. /\ (head \o ids) \o vals \in Seq(Words)
          /\ Len((head \o ids) \o vals) = Len(head \o ids) + Len(vals)
          /\ \A i \in 1 .. Len(head \o ids) + Len(vals) :
               ((head \o ids) \o vals)[i] =
                 IF i <= Len(head \o ids) THEN (head \o ids)[i] ELSE vals[i - Len(head \o ids)]
      BY <1>3, <1>7, ConcatProperties, Zenon
    <2>. QED BY <2>1, <1>3, <1>7, Zenon
  <1>9. Len(ListWords(c)) = 1 + Registers + Registers
    BY <1>5, <1>8
  <1>10. ASSUME NEW i \in 1 .. Len(ListWords(c)), IsSaved(ListWords(c)[i])
        PROVE  \E r \in 1 .. Registers : ListWords(c)[i] = Value(c, list[c][r])
    <2>0. i \in 1 .. 1 + Registers + Registers
      BY <1>9
    <2>1. CASE i <= 1 + Registers
      <3>1. ListWords(c)[i] = ListHeader(c) \/ \E r \in 1 .. Registers : ListWords(c)[i] = Id(c, r)
        <4>1. CASE i = 1
          BY <4>1, <1>1, <1>5, <1>7, <1>8
        <4>2. CASE i # 1
          <5>1. i \in 1 .. 1 + Registers /\ ~ (i <= 1) /\ i - 1 \in 1 .. Registers
            BY <4>2, <2>0, <2>1
          <5>2. ListWords(c)[i] = (head \o ids)[i]
            BY <5>1, <2>0, <2>1, <1>5, <1>8, Zenon
          <5>3. ListWords(c)[i] = ids[i - 1]
            BY <5>1, <5>2, <1>7, Zenon
          <5>. QED BY <5>1, <5>3, <1>4
        <4>. QED BY <4>1, <4>2
      <3>. QED BY <3>1, <1>6, <1>10
    <2>2. CASE i > 1 + Registers
      <3>1. i - (1 + Registers) \in 1 .. Registers /\ ~ (i <= 1 + Registers)
        BY <2>0, <2>2
      <3>2. ListWords(c)[i] = vals[i - (1 + Registers)]
        BY <2>0, <3>1, <1>5, <1>8, Zenon
      <3>. QED BY <3>1, <3>2, <1>4, Zenon
    <2>. QED BY <2>1, <2>2
  <1>11. Len(ListWords(c)) = LongestSection - 2
    BY <1>9 DEF LongestSection
  <1>12. ListWords(c) \in Seq(Words)
    BY <1>5, <1>8
  <1>13. ListWords(c)[1] = ListHeader(c)
    <2>1. 1 \in 1 .. 1 + Registers + Registers /\ 1 \in 1 .. 1 + Registers /\ 1 <= 1 + Registers /\ 1 <= 1
      OBVIOUS
    <2>. QED BY <2>1, <1>1, <1>5, <1>7, <1>8, Zenon
  <1>14. ASSUME NEW r \in 1 .. Registers PROVE ListWords(c)[1 + r] = Id(c, r)
    <2>1. /\ 1 + r \in 1 .. 1 + Registers + Registers /\ 1 + r \in 1 .. 1 + Registers
          /\ 1 + r <= 1 + Registers /\ ~ (1 + r <= 1) /\ (1 + r) - 1 = r
      OBVIOUS
    <2>2. ListWords(c)[1 + r] = (head \o ids)[1 + r]
      BY <2>1, <1>5, <1>8, Zenon
    <2>3. ListWords(c)[1 + r] = ids[(1 + r) - 1]
      BY <2>1, <2>2, <1>7, Zenon
    <2>. QED BY <2>1, <2>3, <1>4
  <1>15. ASSUME NEW r \in 1 .. Registers
         PROVE  ListWords(c)[1 + Registers + r] = Value(c, list[c][r])
    <2>1. /\ 1 + Registers + r \in 1 .. 1 + Registers + Registers
          /\ ~ (1 + Registers + r <= 1 + Registers)
          /\ (1 + Registers + r) - (1 + Registers) = r
      OBVIOUS
    <2>2. ListWords(c)[1 + Registers + r] = vals[(1 + Registers + r) - (1 + Registers)]
      BY <2>1, <1>5, <1>8, Zenon
    <2>. QED BY <2>1, <2>2, <1>4
  <1>. QED BY <1>10, <1>11, <1>12, <1>13, <1>14, <1>15, Zenon

\* memcpy to the buffer, where there is room.
LEMMA PutWords ==
  ASSUME Typed, NEW t \in Cpus, NEW words \in Seq(Words), Put(t, words),
         offset[t] + Len(words) <= BufferSize
  PROVE  /\ buffer' \in [Cpus -> [1 .. BufferSize -> Words]]
         /\ offset' \in [Cpus -> 0 .. BufferSize]
         /\ offset'[t] = offset[t] + Len(words)
         /\ \A u \in Cpus \ {t} : buffer'[u] = buffer[u] /\ offset'[u] = offset[u]
         /\ \A i \in 1 .. offset[t] : buffer'[t][i] = buffer[t][i]
         /\ \A i \in offset[t] + 1 .. offset'[t] :
              i - offset[t] \in 1 .. Len(words) /\ buffer'[t][i] = words[i - offset[t]]
  <1>1. Len(words) \in Nat /\ offset[t] \in Nat /\ BufferSize \in Nat
    BY DEF Typed
  <1>2. offset' = [offset EXCEPT ![t] = offset[t] + Len(words)]
    BY DEF Put
  <1>3. offset' \in [Cpus -> 0 .. BufferSize] /\ offset'[t] = offset[t] + Len(words)
    BY <1>1, <1>2 DEF Typed
  <1> DEFINE new == [i \in 1 .. BufferSize |->
                       IF i \in offset[t] + 1 .. offset[t] + Len(words)
                       THEN words[i - offset[t]] ELSE buffer[t][i]]
  <1>4. buffer' = [buffer EXCEPT ![t] = new]
    BY DEF Put
  <1>5. new \in [1 .. BufferSize -> Words]
    <2>1. ASSUME NEW i \in 1 .. BufferSize
          PROVE  (IF i \in offset[t] + 1 .. offset[t] + Len(words)
                  THEN words[i - offset[t]] ELSE buffer[t][i]) \in Words
      <3>1. CASE i \in offset[t] + 1 .. offset[t] + Len(words)
        <4>1. i - offset[t] \in 1 .. Len(words)
          BY <3>1, <1>1
        <4>. QED BY <4>1, <3>1, ElementOfSeq
      <3>2. CASE i \notin offset[t] + 1 .. offset[t] + Len(words)
        BY <3>2 DEF Typed
      <3>. QED BY <3>1, <3>2
    <2>. QED BY <2>1
  <1>6. /\ \A i \in 1 .. offset[t] : new[i] = buffer[t][i]
        /\ \A i \in offset[t] + 1 .. offset[t] + Len(words) :
             i - offset[t] \in 1 .. Len(words) /\ new[i] = words[i - offset[t]]
    BY <1>1
  <1> HIDE DEF new
  <1>. QED BY <1>2, <1>3, <1>4, <1>5, <1>6 DEF Typed

-----------------------------------------------------------------------------
(* Type correctness                                                            *)

LEMMA InitTyped == Init => TypeInv
  <1>. SUFFICES ASSUME Init PROVE TypeInv
    OBVIOUS
  <1>1. Zero \in Words /\ << >> \in Seq(Words) /\ Len(<< >>) = 0
    BY DEF Zero, Words
  <1>2. Typed
    BY <1>1 DEF Init, Typed, Changes, Cpus, Places
  <1>3. N * LongestSection \in Nat
    BY DEF LongestSection
  <1>4. ASSUME NEW t \in Cpus PROVE Sized(t)
    BY <1>1, <1>3 DEF Init, Sized, Places
  <1>. QED BY <1>2, <1>4 DEF TypeInv

\* One section more is no longer than the longest.
LEMMA OneSectionMore ==
  ASSUME NEW k \in 0 .. N - 1
  PROVE  /\ k * LongestSection \in Nat
         /\ (k + 1) * LongestSection = k * LongestSection + LongestSection
         /\ (k + 1) * LongestSection <= N * LongestSection
  <1>1. LongestSection \in Nat /\ k \in Nat /\ N \in Nat /\ k + 1 <= N
    BY DEF LongestSection
  <1> HIDE DEF LongestSection
  <1>2. \A a, b, m \in Nat : a <= b => a * m <= b * m
    BY SMT
  <1>3. \A a, m \in Nat : a * m \in Nat /\ (a + 1) * m = a * m + m
    BY SMT
  <1>. QED BY <1>1, <1>2, <1>3

\* A step of one thread leaves what belongs to the others alone.
Elsewhere(t) ==
  \A u \in Cpus \ {t} :
    /\ pc'[u] = pc[u] /\ cpu'[u] = cpu[u] /\ offset'[u] = offset[u]
    /\ next'[u] = next[u] /\ file'[u] = file[u]

LEMMA SizedElsewhere ==
  ASSUME TypeInv, NEW t \in Cpus, Elsewhere(t), Sized(t)'
  PROVE  \A u \in Cpus : Sized(u)'
  BY DEF TypeInv, Sized, Elsewhere

LEMMA BeginTyped ==
  ASSUME TypeInv, NEW t \in Cpus, Begin(t)
  PROVE  TypeInv'
  <1>1. Zero \in Words /\ << >> \in Seq(Words) /\ Len(<< >>) = 0
    BY DEF Zero, Words
  <1>2. Typed'
    BY <1>1 DEF TypeInv, Typed, Begin, Goto, Places
  <1>3. /\ pc'[t] = "state" /\ cpu'[t] = 0 /\ offset'[t] = 0 /\ file'[t] = << >>
        /\ Elsewhere(t)
    BY DEF TypeInv, Typed, Begin, Goto, Elsewhere
  <1>4. N * LongestSection \in Nat /\ 0 * LongestSection = 0
    BY DEF LongestSection
  <1>5. Sized(t)'
    BY <1>1, <1>3, <1>4 DEF Sized
  <1>. QED BY <1>2, <1>3, <1>5, SizedElsewhere DEF TypeInv

\* In the loop there is a vCPU whose section is being made.
LEMMA InTheLoop ==
  ASSUME TypeInv, NEW t \in Cpus, pc[t] \in Places \ {"guest", "memory"}
  PROVE  /\ Typed /\ Sized(t)
         /\ cpu[t] \in 0 .. N - 1 /\ cpu[t] \in Cpus
         /\ next[t] \in 1 .. Registers + 1
         /\ offset[t] \in 0 .. BufferSize
  <1>1. Typed /\ Sized(t)
    BY DEF TypeInv
  <1>2. cpu[t] \in 0 .. N /\ next[t] \in 1 .. Registers + 1 /\ offset[t] \in 0 .. BufferSize
    BY <1>1, Zenon DEF Typed
  <1>3. cpu[t] < N
    BY <1>1 DEF Sized
  <1>4. cpu[t] \in 0 .. N - 1
    BY <1>2, <1>3
  <1>. QED BY <1>1, <1>2, <1>4 DEF Cpus

LEMMA SaveStateTyped ==
  ASSUME TypeInv, NEW t \in Cpus, SaveState(t)
  PROVE  TypeInv'
  <1> DEFINE words == <<State(cpu[t], changes[cpu[t]])>>
  <1>0. pc[t] = "state" /\ pc[t] \in Places \ {"guest", "memory"}
    BY DEF SaveState, Goto, Places
  <1>1. cpu[t] \in Cpus /\ offset[t] = 0 /\ Typed
    BY <1>0, InTheLoop DEF Sized
  <1>2. words \in Seq(Words) /\ Len(words) = 1
    BY <1>1 DEF State, Words, Typed
  <1>3. Put(t, words)
    BY DEF SaveState
  <1> HIDE DEF words
  <1>4. /\ buffer' \in [Cpus -> [1 .. BufferSize -> Words]]
        /\ offset' \in [Cpus -> 0 .. BufferSize]
        /\ offset'[t] = 1
        /\ \A u \in Cpus \ {t} : offset'[u] = offset[u]
    <2>1. offset[t] + Len(words) <= BufferSize
      BY <1>1, <1>2 DEF LongestSection
    <2>2. offset'[t] = offset[t] + Len(words)
      BY <2>1, <1>1, <1>2, <1>3, PutWords, Zenon
    <2>3. /\ buffer' \in [Cpus -> [1 .. BufferSize -> Words]]
          /\ offset' \in [Cpus -> 0 .. BufferSize]
          /\ \A u \in Cpus \ {t} : offset'[u] = offset[u]
      BY <2>1, <1>1, <1>2, <1>3, PutWords, Zenon
    <2>. QED BY <2>2, <2>3, <1>1, <1>2 DEF LongestSection
  <1>5. Typed'
    BY <1>1, <1>4 DEF Typed, SaveState, Goto, Places
  <1>6. pc'[t] = "system" /\ Elsewhere(t)
    BY <1>1, <1>4 DEF Typed, SaveState, Goto, Elsewhere
  <1>7. Sized(t)'
    BY <1>1, <1>4, <1>6 DEF TypeInv, Sized, SaveState, Goto, Cpus, Places
  <1>. QED BY <1>5, <1>6, <1>7, SizedElsewhere DEF TypeInv

LEMMA SaveSystemTyped ==
  ASSUME TypeInv, NEW t \in Cpus, SaveSystem(t)
  PROVE  TypeInv'
  <1> DEFINE words == <<System(cpu[t], changes[cpu[t]])>>
  <1>0. pc[t] = "system" /\ pc[t] \in Places \ {"guest", "memory"}
    BY DEF SaveSystem, Goto, Places
  <1>1. cpu[t] \in Cpus /\ offset[t] = 1 /\ Typed
    BY <1>0, InTheLoop DEF Sized
  <1>2. words \in Seq(Words) /\ Len(words) = 1
    BY <1>1 DEF System, Words, Typed
  <1>3. Put(t, words)
    BY DEF SaveSystem
  <1> HIDE DEF words
  <1>4. /\ buffer' \in [Cpus -> [1 .. BufferSize -> Words]]
        /\ offset' \in [Cpus -> 0 .. BufferSize]
        /\ offset'[t] = 2
        /\ \A u \in Cpus \ {t} : offset'[u] = offset[u]
    <2>1. offset[t] + Len(words) <= BufferSize
      BY <1>1, <1>2 DEF LongestSection
    <2>2. offset'[t] = offset[t] + Len(words)
      BY <2>1, <1>1, <1>2, <1>3, PutWords, Zenon
    <2>3. /\ buffer' \in [Cpus -> [1 .. BufferSize -> Words]]
          /\ offset' \in [Cpus -> 0 .. BufferSize]
          /\ \A u \in Cpus \ {t} : offset'[u] = offset[u]
      BY <2>1, <1>1, <1>2, <1>3, PutWords, Zenon
    <2>4. offset'[t] = 2
      BY <2>2, <1>1, <1>2
    <2>. QED BY <2>3, <2>4, Zenon
  <1>5. Typed'
    <2>1. UNCHANGED <<changes, list, cpu, value, file, began>>
      BY DEF SaveSystem
    <2>2. pc' \in [Cpus -> Places] /\ next' \in [Cpus -> 1 .. Registers + 1]
      BY <1>1 DEF Typed, SaveSystem, Goto, Places
    <2>. QED BY <1>1, <1>4, <2>1, <2>2, Zenon DEF Typed
  <1>6. pc'[t] = "fill" /\ Elsewhere(t)
    BY <1>1, <1>4 DEF Typed, SaveSystem, Goto, Elsewhere
  <1>7. Sized(t)'
    BY <1>1, <1>4, <1>6 DEF TypeInv, Sized, SaveSystem, Goto, Cpus, Places
  <1>. QED BY <1>5, <1>6, <1>7, SizedElsewhere DEF TypeInv

LEMMA FillTyped ==
  ASSUME TypeInv, NEW t \in Cpus,
         ReadRegister(t) \/ StoreRegister(t) \/ FillFails(t)
  PROVE  TypeInv'
  <1>0. pc[t] \in Places \ {"guest", "memory"}
    BY DEF ReadRegister, StoreRegister, FillFails, Goto, Places
  <1>1. Typed /\ Sized(t) /\ cpu[t] \in Cpus /\ next[t] \in 1 .. Registers + 1
    BY <1>0, InTheLoop
  <1>2. CASE ReadRegister(t)
    <2>1. Typed'
      BY <1>1, <1>2 DEF Typed, ReadRegister, Goto, Places
    <2>2. pc'[t] = "store" /\ Elsewhere(t)
      BY <1>1, <1>2 DEF Typed, ReadRegister, Goto, Elsewhere
    <2>3. Sized(t)'
      BY <1>1, <1>2, <2>2 DEF Sized, ReadRegister, Goto, Places
    <2>. QED BY <2>1, <2>2, <2>3, SizedElsewhere DEF TypeInv
  <1>3. CASE StoreRegister(t)
    <2>1. next[t] \in 1 .. Registers /\ next[t] + 1 \in 1 .. Registers + 1
      BY <1>1, <1>3 DEF Sized, StoreRegister, Goto
    <2>2. list' \in [Cpus -> [1 .. Registers -> Changes]] /\ next' \in [Cpus -> 1 .. Registers + 1]
      BY <1>1, <1>3, <2>1 DEF Typed, StoreRegister
    <2>3. Typed'
      BY <1>1, <1>3, <2>2 DEF Typed, StoreRegister, Goto, Places
    <2>4. pc'[t] = "fill" /\ Elsewhere(t)
      BY <1>1, <1>3 DEF Typed, StoreRegister, Goto, Elsewhere
    <2>5. Sized(t)'
      BY <1>1, <1>3, <2>4 DEF Sized, StoreRegister, Goto, Places
    <2>. QED BY <2>3, <2>4, <2>5, SizedElsewhere DEF TypeInv
  <1>4. CASE FillFails(t)
    <2>1. Typed'
      BY <1>1, <1>4 DEF Typed, FillFails, Goto, Places
    <2>2. pc'[t] = "write" /\ Elsewhere(t)
      BY <1>1, <1>4 DEF Typed, FillFails, Goto, Elsewhere
    <2>3. Sized(t)'
      BY <1>1, <1>4, <2>2 DEF Sized, FillFails, Goto, Places
    <2>. QED BY <2>1, <2>2, <2>3, SizedElsewhere DEF TypeInv
  <1>. QED BY <1>2, <1>3, <1>4

LEMMA SaveListTyped ==
  ASSUME TypeInv, NEW t \in Cpus, SaveList(t)
  PROVE  TypeInv'
  <1>0. pc[t] = "fill" /\ pc[t] \in Places \ {"guest", "memory"}
    BY DEF SaveList, Goto, Places
  <1>1. cpu[t] \in Cpus /\ offset[t] = 2 /\ Typed
    BY <1>0, InTheLoop DEF Sized
  <1>2. ListWords(cpu[t]) \in Seq(Words) /\ Len(ListWords(cpu[t])) = LongestSection - 2
    BY <1>1, ListWordsAre
  <1>3. Put(t, ListWords(cpu[t]))
    BY DEF SaveList
  <1>4. /\ buffer' \in [Cpus -> [1 .. BufferSize -> Words]]
        /\ offset' \in [Cpus -> 0 .. BufferSize]
        /\ offset'[t] = LongestSection
        /\ \A u \in Cpus \ {t} : offset'[u] = offset[u]
    <2>1. offset[t] + Len(ListWords(cpu[t])) <= BufferSize
      BY <1>1, <1>2 DEF LongestSection
    <2>2. offset'[t] = offset[t] + Len(ListWords(cpu[t]))
      BY <2>1, <1>1, <1>2, <1>3, PutWords, Zenon
    <2>3. /\ buffer' \in [Cpus -> [1 .. BufferSize -> Words]]
          /\ offset' \in [Cpus -> 0 .. BufferSize]
          /\ \A u \in Cpus \ {t} : offset'[u] = offset[u]
      BY <2>1, <1>1, <1>2, <1>3, PutWords, Zenon
    <2>. QED BY <2>2, <2>3, <1>1, <1>2 DEF LongestSection
  <1>5. Typed'
    BY <1>1, <1>4 DEF Typed, SaveList, Goto, Places
  <1>6. pc'[t] = "write" /\ Elsewhere(t)
    BY <1>1, <1>4 DEF Typed, SaveList, Goto, Elsewhere
  <1>7. Sized(t)'
    BY <1>1, <1>4, <1>6 DEF TypeInv, Sized, SaveList, Goto, Cpus, Places
  <1>. QED BY <1>5, <1>6, <1>7, SizedElsewhere DEF TypeInv

LEMMA WriteSectionTyped ==
  ASSUME TypeInv, NEW t \in Cpus, WriteSection(t)
  PROVE  TypeInv'
  <1>0. pc[t] \in Places \ {"guest", "memory"} /\ pc[t] = "write"
    BY DEF WriteSection, Places
  <1>1. Typed /\ Sized(t) /\ cpu[t] \in 0 .. N - 1 /\ offset[t] \in {2, LongestSection}
    BY <1>0, InTheLoop DEF Sized
  <1>2. offset[t] \in 0 .. LongestSection /\ offset[t] \in 0 .. BufferSize
    BY <1>1 DEF LongestSection
  <1> DEFINE part == SubSeq(buffer[t], 1, offset[t])
  <1>3. part \in Seq(Words) /\ Len(part) = offset[t]
    <2>1. buffer[t] \in Seq(Words) /\ Len(buffer[t]) = BufferSize
      BY <1>1 DEF Typed
    <2>. QED BY <2>1, <1>2, SubSeqProperties
  <1>4. file' = [file EXCEPT ![t] = file[t] \o part]
    BY DEF WriteSection
  <1> HIDE DEF part
  <1>5. file[t] \in Seq(Words) /\ Len(file[t]) \in Nat
    BY <1>1 DEF Typed
  <1>6. file[t] \o part \in Seq(Words) /\ Len(file[t] \o part) = Len(file[t]) + Len(part)
    BY <1>3, <1>5, ConcatProperties, Zenon
  <1>7. file' \in [Cpus -> Seq(Words)] /\ file'[t] = file[t] \o part
    BY <1>1, <1>4, <1>6 DEF Typed
  <1>8. Typed'
    <2>1. cpu[t] + 1 \in 0 .. N /\ 0 \in 0 .. BufferSize
      BY <1>1
    <2>2. /\ cpu' \in [Cpus -> 0 .. N] /\ offset' \in [Cpus -> 0 .. BufferSize]
          /\ pc' \in [Cpus -> Places]
      BY <1>1, <2>1 DEF Typed, WriteSection, Places
    <2>. QED BY <1>1, <1>7, <2>2 DEF Typed, WriteSection
  <1>9. Elsewhere(t) /\ cpu'[t] = cpu[t] + 1 /\ offset'[t] = 0
    BY <1>1, <1>4 DEF Typed, WriteSection, Elsewhere
  <1>10. pc'[t] = IF cpu[t] + 1 < N THEN "state" ELSE "memory"
    BY <1>1 DEF Typed, WriteSection
  <1>11. Len(file'[t]) <= cpu'[t] * LongestSection
    <2>1. Len(file[t]) <= cpu[t] * LongestSection
      BY <1>0, <1>1 DEF Sized
    <2>2. /\ cpu[t] * LongestSection \in Nat
          /\ (cpu[t] + 1) * LongestSection = cpu[t] * LongestSection + LongestSection
      BY <1>1, OneSectionMore
    <2>3. LongestSection \in Nat
      BY DEF LongestSection
    <2> HIDE DEF LongestSection
    <2>4. Len(file'[t]) <= cpu[t] * LongestSection + LongestSection
      BY <1>2, <1>3, <1>5, <1>6, <1>7, <2>1, <2>2, <2>3
    <2>. QED BY <2>2, <2>4, <1>9
  <1>12. cpu'[t] * LongestSection <= N * LongestSection
    BY <1>1, <1>9, OneSectionMore
  <1>13. Len(file'[t]) <= N * LongestSection + 1
    <2>1. Len(file'[t]) \in Nat
      BY <1>6, <1>3, <1>2, <1>5, <1>7
    <2>2. cpu'[t] * LongestSection \in Nat /\ N * LongestSection \in Nat
      BY <1>1, <1>9 DEF LongestSection
    <2>. QED BY <2>1, <2>2, <1>11, <1>12
  <1>14. Sized(t)'
    BY <1>1, <1>9, <1>10, <1>11, <1>13 DEF Sized
  <1>. QED BY <1>8, <1>9, <1>14, SizedElsewhere DEF TypeInv

LEMMA WriteMemoryTyped ==
  ASSUME TypeInv, NEW t \in Cpus, WriteMemory(t)
  PROVE  TypeInv'
  <1>1. Typed /\ Sized(t) /\ pc[t] = "memory"
    BY DEF TypeInv, WriteMemory, Goto
  <1>2. file[t] \in Seq(Words) /\ Memory \in Words /\ cpu[t] \in 0 .. N
    BY <1>1 DEF Typed, Memory, Words
  <1>3. Append(file[t], Memory) \in Seq(Words) /\ Len(Append(file[t], Memory)) = Len(file[t]) + 1
    BY <1>2, AppendProperties
  <1>4. file' = [file EXCEPT ![t] = Append(file[t], Memory)]
    BY DEF WriteMemory
  <1>5. file' \in [Cpus -> Seq(Words)] /\ Len(file'[t]) = Len(file[t]) + 1
    BY <1>1, <1>3, <1>4 DEF Typed
  <1>6. Typed'
    BY <1>1, <1>5 DEF Typed, WriteMemory, Goto, Places
  <1>7. Elsewhere(t) /\ pc'[t] = "guest"
    BY <1>1, <1>4 DEF Typed, WriteMemory, Goto, Elsewhere
  <1>8. Len(file[t]) <= cpu[t] * LongestSection /\ Len(file[t]) \in Nat
    BY <1>1, <1>2 DEF Sized
  <1>9. /\ cpu[t] * LongestSection <= N * LongestSection
        /\ cpu[t] * LongestSection \in Nat /\ N * LongestSection \in Nat
    <2>1. \A a, b, m \in Nat : a <= b => a * m <= b * m /\ a * m \in Nat
      BY SMT
    <2>2. LongestSection \in Nat /\ cpu[t] \in Nat /\ N \in Nat /\ cpu[t] <= N /\ N <= N
      BY <1>2 DEF LongestSection
    <2>. QED BY <2>1, <2>2, Zenon
  <1>10. Len(file'[t]) <= N * LongestSection + 1
    BY <1>5, <1>8, <1>9
  <1>11. Sized(t)'
    BY <1>7, <1>10 DEF Sized
  <1>. QED BY <1>6, <1>7, <1>11, SizedElsewhere DEF TypeInv

LEMMA TypedStep == TypeInv /\ [Next]_vars => TypeInv'
  <1>. SUFFICES ASSUME TypeInv, [Next]_vars PROVE TypeInv'
    OBVIOUS
  <1>1. CASE UNCHANGED vars
    BY <1>1 DEF vars, threadVars, TypeInv, Typed, Sized
  <1>2. ASSUME NEW t \in Cpus, RunGuest(t) PROVE TypeInv'
    <2>0. Typed /\ changes[t] \in 0 .. MaxChanges
      BY DEF TypeInv, Typed, Changes
    <2>1. changes[t] + 1 \in 0 .. MaxChanges
      BY <1>2, <2>0 DEF RunGuest
    <2>2. Typed'
      BY <1>2, <2>0, <2>1 DEF Typed, Changes, RunGuest, threadVars
    <2>. QED BY <1>2, <2>2 DEF TypeInv, Sized, RunGuest, threadVars
  <1>3. ASSUME Next PROVE TypeInv'
    BY <1>2, <1>3, BeginTyped, SaveStateTyped, SaveSystemTyped, FillTyped, SaveListTyped,
       WriteSectionTyped, WriteMemoryTyped DEF Next
  <1>. QED BY <1>1, <1>3

\* No thread ever leaves its buffer, its register list or its loop
\* (checkpoint_create, checkpoint_save_dynamic_cpregs), whatever the others do.
THEOREM SectionsTypeCorrect == Spec => []SectionsTypeOK
  <1>1. TypeInv => SectionsTypeOK
    <2>. SUFFICES ASSUME TypeInv PROVE SectionsTypeOK
      OBVIOUS
    <2>1. Typed /\ \A t \in Cpus : Sized(t)
      BY DEF TypeInv
    <2>2. ASSUME NEW t \in Cpus
          PROVE  /\ cpu[t] \in 0 .. N /\ offset[t] \in 0 .. BufferSize
                 /\ next[t] \in 1 .. Registers + 1 /\ value[t] \in 0 .. MaxChanges
      BY <2>1 DEF Typed, Changes
    <2>. QED BY <2>1, <2>2 DEF SectionsTypeOK, Typed, Sized, Changes
  <1>. QED BY <1>1, InitTyped, TypedStep, PTL DEF Spec

-----------------------------------------------------------------------------
(* The layout of the file                                                      *)

\* The first n sections of a file lie one behind the other up to a place.
LaidIn(f, n, place) ==
  \E start \in [0 .. n -> 1 .. place] :
    /\ start[0] = 1 /\ start[n] = place
    /\ \A c \in 0 .. n - 1 : SectionAt(f, c, start[c], start[c + 1])

\* In the loop the sections of the vCPUs before the present one are in the file, and
\* so far as its own is made it is in the buffer.
ThreadLaid(t) ==
  /\ pc[t] # "guest" => LaidIn(file[t], cpu[t], Len(file[t]) + 1)
  /\ pc[t] = "memory" => cpu[t] = N
  /\ pc[t] \in {"system", "fill", "store"} =>
       buffer[t][1].kind = "state" /\ buffer[t][1].cpu = cpu[t]
  /\ pc[t] \in {"fill", "store"} =>
       buffer[t][2].kind = "system" /\ buffer[t][2].cpu = cpu[t]
  /\ pc[t] = "write" => SectionAt(buffer[t], cpu[t], 1, offset[t] + 1)
  /\ Finished(t) =>
       LaidIn(file[t], N, Len(file[t])) /\ file[t][Len(file[t])] = Memory

LayoutInv == TypeInv /\ \A t \in Cpus : ThreadLaid(t)

\* A section that is copied elsewhere is one there.
LEMMA SectionMoved ==
  ASSUME NEW f, NEW g, NEW c, NEW i \in Nat, NEW j \in Nat, NEW d \in Nat,
         SectionAt(f, c, i, j), \A k \in i .. j - 1 : g[k + d] = f[k]
  PROVE  SectionAt(g, c, i + d, j + d)
  <1>1. j = i + 2 \/ j = i + LongestSection
    BY DEF SectionAt
  <1>2. i \in i .. j - 1 /\ i + 1 \in i .. j - 1
    BY <1>1 DEF LongestSection
  <1>3. g[i + d] = f[i] /\ g[(i + d) + 1] = f[i + 1]
    <2>1. g[i + d] = f[i] /\ g[(i + 1) + d] = f[i + 1] /\ (i + 1) + d = (i + d) + 1
      BY <1>2
    <2>. QED BY <2>1
  <1>4. CASE c \in Unlistable /\ j = i + 2
    <2>1. j + d = (i + d) + 2
      BY <1>4
    <2>. QED BY <1>3, <1>4, <2>1 DEF SectionAt
  <1>5. CASE ~ (c \in Unlistable /\ j = i + 2)
    <2>1. /\ j = i + LongestSection /\ f[i + 2] = ListHeader(c)
          /\ \A r \in 1 .. Registers :
               /\ f[i + 2 + r] = Id(c, r)
               /\ f[i + 2 + Registers + r].kind = "value"
               /\ f[i + 2 + Registers + r].cpu = c
      BY <1>5 DEF SectionAt
    <2>2. j + d = (i + d) + LongestSection
      BY <2>1 DEF LongestSection
    <2>3. g[(i + d) + 2] = f[i + 2]
      <3>1. i + 2 \in i .. j - 1 /\ (i + 2) + d = (i + d) + 2
        BY <2>1 DEF LongestSection
      <3>2. g[(i + 2) + d] = f[i + 2]
        BY <3>1
      <3>. QED BY <3>1, <3>2
    <2>4. ASSUME NEW r \in 1 .. Registers
          PROVE  /\ g[(i + d) + 2 + r] = f[i + 2 + r]
                 /\ g[(i + d) + 2 + Registers + r] = f[i + 2 + Registers + r]
      <3>1. i + 2 + r \in i .. j - 1 /\ (i + 2 + r) + d = (i + d) + 2 + r
        BY <2>1 DEF LongestSection
      <3>2. /\ i + 2 + Registers + r \in i .. j - 1
            /\ (i + 2 + Registers + r) + d = (i + d) + 2 + Registers + r
        BY <2>1 DEF LongestSection
      <3>3. g[(i + 2 + r) + d] = f[i + 2 + r]
        BY <3>1
      <3>4. g[(i + 2 + Registers + r) + d] = f[i + 2 + Registers + r]
        BY <3>2
      <3>. QED BY <3>1, <3>2, <3>3, <3>4, Zenon
    <2>. QED BY <1>3, <2>1, <2>2, <2>3, <2>4, Zenon DEF SectionAt
  <1>. QED BY <1>4, <1>5

\* What lies before a place stays as it is when a file grows behind it.
LEMMA LaidKept ==
  ASSUME NEW f, NEW g, NEW n \in Nat, NEW place \in Nat \ {0},
         LaidIn(f, n, place), \A k \in 1 .. place - 1 : g[k] = f[k]
  PROVE  LaidIn(g, n, place)
  <1>1. PICK start \in [0 .. n -> 1 .. place] :
          /\ start[0] = 1 /\ start[n] = place
          /\ \A c \in 0 .. n - 1 : SectionAt(f, c, start[c], start[c + 1])
    BY DEF LaidIn
  <1>2. ASSUME NEW c \in 0 .. n - 1 PROVE SectionAt(g, c, start[c], start[c + 1])
    <2>1. start[c] \in 1 .. place /\ start[c + 1] \in 1 .. place
      BY <1>1
    <2> DEFINE i == start[c]
               j == start[c + 1]
    <2>2. SectionAt(f, c, i, j)
      BY <1>1
    <2>3. i \in 1 .. place /\ j \in 1 .. place
      BY <2>1
    <2> HIDE DEF i, j
    <2>4. i \in Nat /\ j \in Nat /\ 0 \in Nat /\ i + 0 = i /\ j + 0 = j
      BY <2>3
    <2>5. \A k \in i .. j - 1 : g[k + 0] = f[k]
      BY <2>3
    <2>6. SectionAt(g, c, i + 0, j + 0)
      BY <2>2, <2>4, <2>5, SectionMoved
    <2>7. SectionAt(g, c, i, j)
      BY <2>4, <2>6
    <2>. QED BY <2>7 DEF i, j
  <1>. QED BY <1>1, <1>2 DEF LaidIn

\* One section more.
LEMMA LaidFurther ==
  ASSUME NEW f, NEW n \in Nat, NEW place \in Nat, NEW end \in Nat, place <= end,
         LaidIn(f, n, place), SectionAt(f, n, place, end)
  PROVE  LaidIn(f, n + 1, end)
  <1>1. PICK start \in [0 .. n -> 1 .. place] :
          /\ start[0] = 1 /\ start[n] = place
          /\ \A c \in 0 .. n - 1 : SectionAt(f, c, start[c], start[c + 1])
    BY DEF LaidIn
  <1> DEFINE s == [c \in 0 .. n + 1 |-> IF c <= n THEN start[c] ELSE end]
  <1>2. s \in [0 .. n + 1 -> 1 .. end]
    <2>1. start[0] \in 1 .. place
      BY <1>1
    <2>2. \A c \in 0 .. n : start[c] \in 1 .. place
      BY <1>1
    <2>. QED BY <2>1, <2>2
  <1>3. (\A c \in 0 .. n : s[c] = start[c]) /\ s[n + 1] = end
    OBVIOUS
  <1> HIDE DEF s
  <1>4. ASSUME NEW c \in 0 .. n PROVE SectionAt(f, c, s[c], s[c + 1])
    <2>1. CASE c = n
      BY <1>1, <1>3, <2>1
    <2>2. CASE c # n
      <3>1. c \in 0 .. n - 1 /\ c + 1 \in 0 .. n
        BY <2>2
      <3>. QED BY <1>1, <1>3, <3>1
    <2>. QED BY <2>1, <2>2
  <1>5. (n + 1) - 1 = n /\ 0 \in 0 .. n
    OBVIOUS
  <1>6. s[0] = 1 /\ s[n + 1] = end
    BY <1>1, <1>3, <1>5
  <1>. QED BY <1>2, <1>4, <1>5, <1>6, Zenon DEF LaidIn

\* A step of one thread leaves what the others have laid out alone.
LEMMA LaidElsewhere ==
  ASSUME LayoutInv, NEW t \in Cpus, TypeInv', ThreadLaid(t)',
         \A u \in Cpus \ {t} : /\ pc'[u] = pc[u] /\ cpu'[u] = cpu[u] /\ file'[u] = file[u]
                               /\ offset'[u] = offset[u] /\ buffer'[u] = buffer[u]
  PROVE  LayoutInv'
  <1>1. ASSUME NEW u \in Cpus \ {t} PROVE ThreadLaid(u)'
    <2>1. ThreadLaid(u)
      BY DEF LayoutInv
    <2>2. /\ pc'[u] = pc[u] /\ cpu'[u] = cpu[u] /\ file'[u] = file[u]
          /\ offset'[u] = offset[u] /\ buffer'[u] = buffer[u]
      OBVIOUS
    <2>. QED BY <2>1, <2>2 DEF ThreadLaid, Finished
  <1>. QED BY <1>1 DEF LayoutInv

LEMMA LayoutInit == Init => LayoutInv
  <1>. SUFFICES ASSUME Init PROVE \A t \in Cpus : ThreadLaid(t)
    BY InitTyped DEF LayoutInv
  <1>. QED BY DEF Init, ThreadLaid, Finished

LEMMA LayoutBegin ==
  ASSUME LayoutInv, NEW t \in Cpus, Begin(t), TypeInv'
  PROVE  LayoutInv'
  <1>1. Typed
    BY DEF LayoutInv, TypeInv
  <1>2. /\ pc'[t] = "state" /\ cpu'[t] = 0 /\ file'[t] = << >>
        /\ \A u \in Cpus \ {t} : /\ pc'[u] = pc[u] /\ cpu'[u] = cpu[u] /\ file'[u] = file[u]
                                 /\ offset'[u] = offset[u] /\ buffer'[u] = buffer[u]
    BY <1>1 DEF Begin, Goto, Typed
  <1>3. LaidIn(file'[t], 0, 1)
    <2> DEFINE start == [c \in 0 .. 0 |-> 1]
    <2>1. start \in [0 .. 0 -> 1 .. 1] /\ start[0] = 1
      OBVIOUS
    <2>2. 0 .. 0 - 1 = {}
      OBVIOUS
    <2>. QED BY <2>1, <2>2 DEF LaidIn
  <1>4. Len(file'[t]) + 1 = 1
    BY <1>2
  <1>5. ThreadLaid(t)'
    BY <1>2, <1>3, <1>4 DEF ThreadLaid, Finished
  <1>. QED BY <1>2, <1>5, LaidElsewhere

\* The state, and behind it the system registers, are put into the buffer.
LEMMA LayoutSaveState ==
  ASSUME LayoutInv, NEW t \in Cpus, SaveState(t) \/ SaveSystem(t), TypeInv'
  PROVE  LayoutInv'
  <1>1. TypeInv /\ ThreadLaid(t)
    BY DEF LayoutInv
  <1>2. PICK word \in {State(cpu[t], changes[cpu[t]]), System(cpu[t], changes[cpu[t]])} :
          Put(t, <<word>>) /\ (pc[t] = "state" => word.kind = "state")
                           /\ (pc[t] = "system" => word.kind = "system")
    BY DEF SaveState, SaveSystem, Goto, State, System
  <1>3. pc[t] \in {"state", "system"} /\ pc[t] \in Places \ {"guest", "memory"}
    BY DEF SaveState, SaveSystem, Goto, Places
  <1>4. /\ Typed /\ cpu[t] \in Cpus
        /\ offset[t] = IF pc[t] = "state" THEN 0 ELSE 1
    BY <1>1, <1>3, InTheLoop DEF Sized
  <1>5. word \in Words /\ word.cpu = cpu[t]
    BY <1>2, <1>4 DEF State, System, Words, Typed
  <1> DEFINE words == <<word>>
  <1>6. words \in Seq(Words) /\ Len(words) = 1 /\ words[1] = word
    BY <1>5
  <1>7. Put(t, words)
    BY <1>2
  <1> HIDE DEF words
  <1>8. offset[t] + Len(words) <= BufferSize
    BY <1>4, <1>6 DEF LongestSection
  <1>9. /\ offset'[t] = offset[t] + Len(words)
        /\ \A u \in Cpus \ {t} : buffer'[u] = buffer[u] /\ offset'[u] = offset[u]
        /\ \A i \in 1 .. offset[t] : buffer'[t][i] = buffer[t][i]
        /\ \A i \in offset[t] + 1 .. offset'[t] : buffer'[t][i] = words[i - offset[t]]
    BY <1>4, <1>6, <1>7, <1>8, PutWords, Zenon
  <1>10. \A u \in Cpus \ {t} : /\ pc'[u] = pc[u] /\ cpu'[u] = cpu[u] /\ file'[u] = file[u]
                               /\ offset'[u] = offset[u] /\ buffer'[u] = buffer[u]
    BY <1>4, <1>9 DEF SaveState, SaveSystem, Goto, Typed
  <1>11. cpu' = cpu /\ file' = file
    BY DEF SaveState, SaveSystem
  <1>12. LaidIn(file[t], cpu[t], Len(file[t]) + 1)
    BY <1>1, <1>3 DEF ThreadLaid
  <1>13. LaidIn(file'[t], cpu'[t], Len(file'[t]) + 1)
    BY <1>11, <1>12
  <1>14. CASE pc[t] = "state"
    <2>1. pc'[t] = "system"
      BY <1>4, <1>14 DEF SaveState, SaveSystem, Goto, Typed
    <2>2. buffer'[t][1] = word
      BY <1>4, <1>6, <1>9, <1>14
    <2>3. buffer'[t][1].kind = "state" /\ buffer'[t][1].cpu = cpu'[t]
      BY <1>2, <1>5, <1>11, <1>14, <2>2
    <2>4. ThreadLaid(t)'
      BY <1>13, <2>1, <2>3 DEF ThreadLaid, Finished
    <2>. QED BY <1>10, <2>4, LaidElsewhere
  <1>15. CASE pc[t] = "system"
    <2>1. pc'[t] = "fill"
      BY <1>4, <1>15 DEF SaveState, SaveSystem, Goto, Typed
    <2>2. buffer'[t][2] = word /\ buffer'[t][1] = buffer[t][1]
      BY <1>4, <1>6, <1>9, <1>15
    <2>3. buffer'[t][2].kind = "system" /\ buffer'[t][2].cpu = cpu'[t]
      BY <1>2, <1>5, <1>11, <1>15, <2>2
    <2>4. buffer'[t][1].kind = "state" /\ buffer'[t][1].cpu = cpu'[t]
      BY <1>1, <1>11, <1>15, <2>2 DEF ThreadLaid
    <2>5. ThreadLaid(t)'
      BY <1>13, <2>1, <2>3, <2>4 DEF ThreadLaid, Finished
    <2>. QED BY <1>10, <2>5, LaidElsewhere
  <1>. QED BY <1>3, <1>14, <1>15

\* The register list is filled, or cannot be: then the section ends here.
LEMMA LayoutFill ==
  ASSUME LayoutInv, NEW t \in Cpus, ReadRegister(t) \/ StoreRegister(t) \/ FillFails(t), TypeInv'
  PROVE  LayoutInv'
  <1>1. TypeInv /\ ThreadLaid(t) /\ Typed /\ Sized(t)
    BY DEF LayoutInv, TypeInv
  <1>2. /\ pc[t] \in {"fill", "store"}
        /\ UNCHANGED <<cpu, file, buffer, offset>>
        /\ \A u \in Cpus \ {t} : pc'[u] = pc[u]
    BY <1>1 DEF ReadRegister, StoreRegister, FillFails, Goto, Typed
  <1>3. pc'[t] \in {"fill", "store"} \/ (pc'[t] = "write" /\ cpu[t] \in Unlistable)
    <2>1. CASE ReadRegister(t)
      <3>1. pc \in [Cpus -> Places] /\ pc' = [pc EXCEPT ![t] = "store"]
        BY <1>1, <2>1 DEF ReadRegister, Goto, Typed
      <3>2. pc'[t] = "store"
        BY <3>1
      <3>. QED BY <3>2
    <2>2. CASE StoreRegister(t)
      <3>1. pc \in [Cpus -> Places] /\ pc' = [pc EXCEPT ![t] = "fill"]
        BY <1>1, <2>2 DEF StoreRegister, Goto, Typed
      <3>2. pc'[t] = "fill"
        BY <3>1
      <3>. QED BY <3>2
    <2>3. CASE FillFails(t)
      BY <1>1, <2>3 DEF FillFails, Goto, Typed
    <2>. QED BY <2>1, <2>2, <2>3
  <1>4. /\ LaidIn(file[t], cpu[t], Len(file[t]) + 1) /\ offset[t] = 2
        /\ buffer[t][1].kind = "state" /\ buffer[t][1].cpu = cpu[t]
        /\ buffer[t][2].kind = "system" /\ buffer[t][2].cpu = cpu[t]
    BY <1>1, <1>2 DEF ThreadLaid, Sized
  <1>5. CASE pc'[t] \in {"fill", "store"}
    <2>1. ThreadLaid(t)'
      BY <1>2, <1>4, <1>5 DEF ThreadLaid, Finished
    <2>. QED BY <1>2, <2>1, LaidElsewhere
  <1>6. CASE pc'[t] = "write" /\ cpu[t] \in Unlistable
    <2>1. SectionAt(buffer[t], cpu[t], 1, 3)
      BY <1>4, <1>6 DEF SectionAt
    <2>2. offset[t] + 1 = 3
      BY <1>4
    <2>3. ThreadLaid(t)'
      BY <1>2, <1>4, <1>6, <2>1, <2>2 DEF ThreadLaid, Finished
    <2>. QED BY <1>2, <2>3, LaidElsewhere
  <1>. QED BY <1>3, <1>5, <1>6

\* The register list is put behind the two.
LEMMA LayoutSaveList ==
  ASSUME LayoutInv, NEW t \in Cpus, SaveList(t), TypeInv'
  PROVE  LayoutInv'
  <1>1. TypeInv /\ ThreadLaid(t)
    BY DEF LayoutInv
  <1>2. pc[t] = "fill" /\ pc[t] \in Places \ {"guest", "memory"}
    BY DEF SaveList, Goto, Places
  <1>3. Typed /\ cpu[t] \in Cpus /\ offset[t] = 2
    BY <1>1, <1>2, InTheLoop DEF Sized
  <1> DEFINE words == ListWords(cpu[t])
             c == cpu[t]
             b == buffer'[t]
  <1>4. /\ words \in Seq(Words) /\ Len(words) = LongestSection - 2
        /\ words[1] = ListHeader(c)
        /\ \A r \in 1 .. Registers : words[1 + r] = Id(c, r)
        /\ \A r \in 1 .. Registers : words[1 + Registers + r] = Value(c, list[c][r])
    BY <1>3, ListWordsAre
  <1>5. Put(t, words)
    BY DEF SaveList
  <1> HIDE DEF words
  <1>6. offset[t] + Len(words) <= BufferSize
    BY <1>3, <1>4 DEF LongestSection
  <1>7. /\ offset'[t] = offset[t] + Len(words)
        /\ \A u \in Cpus \ {t} : buffer'[u] = buffer[u] /\ offset'[u] = offset[u]
        /\ \A i \in 1 .. offset[t] : buffer'[t][i] = buffer[t][i]
        /\ \A i \in offset[t] + 1 .. offset'[t] : buffer'[t][i] = words[i - offset[t]]
    BY <1>3, <1>4, <1>5, <1>6, PutWords, Zenon
  <1>8. offset'[t] = LongestSection
    BY <1>3, <1>4, <1>7 DEF LongestSection
  <1>9. /\ pc'[t] = "write" /\ cpu' = cpu /\ file' = file
        /\ \A u \in Cpus \ {t} : pc'[u] = pc[u]
    BY <1>3 DEF SaveList, Goto, Typed
  <1>10. /\ LaidIn(file[t], cpu[t], Len(file[t]) + 1)
         /\ buffer[t][1].kind = "state" /\ buffer[t][1].cpu = c
         /\ buffer[t][2].kind = "system" /\ buffer[t][2].cpu = c
    BY <1>1, <1>2 DEF ThreadLaid
  <1>11. b[1] = buffer[t][1] /\ b[2] = buffer[t][2]
    BY <1>3, <1>7
  <1>12. \A i \in 1 .. LongestSection - 2 : b[i + 2] = words[i]
    <2>. TAKE i \in 1 .. LongestSection - 2
    <2>1. i + 2 \in 2 + 1 .. LongestSection /\ (i + 2) - 2 = i
      BY DEF LongestSection
    <2>2. b[i + 2] = words[(i + 2) - 2]
      BY <1>3, <1>7, <1>8, <2>1
    <2>. QED BY <2>1, <2>2
  <1> HIDE DEF b
  <1>13. b[1 + 2] = ListHeader(c)
    BY <1>4, <1>12 DEF LongestSection
  <1>14. ASSUME NEW r \in 1 .. Registers
         PROVE  b[1 + 2 + r] = Id(c, r) /\ b[1 + 2 + Registers + r] = Value(c, list[c][r])
    <2>1. /\ 1 + r \in 1 .. LongestSection - 2 /\ (1 + r) + 2 = 1 + 2 + r
          /\ 1 + Registers + r \in 1 .. LongestSection - 2
          /\ (1 + Registers + r) + 2 = 1 + 2 + Registers + r
      BY DEF LongestSection
    <2>2. b[(1 + r) + 2] = words[1 + r] /\ b[(1 + Registers + r) + 2] = words[1 + Registers + r]
      BY <1>12, <2>1, Zenon
    <2>. QED BY <1>4, <2>1, <2>2, Zenon
  <1>15. SectionAt(b, c, 1, 1 + LongestSection)
    <2>1. \A v : Value(c, v).kind = "value" /\ Value(c, v).cpu = c
      BY DEF Value
    <2>2. b[1].kind = "state" /\ b[1].cpu = c /\ b[1 + 1].kind = "system" /\ b[1 + 1].cpu = c
      BY <1>10, <1>11
    <2>3. \A r \in 1 .. Registers : /\ b[1 + 2 + r] = Id(c, r)
                                   /\ b[1 + 2 + Registers + r].kind = "value"
                                   /\ b[1 + 2 + Registers + r].cpu = c
      BY <1>14, <2>1, Zenon
    <2>. QED BY <1>13, <2>2, <2>3, Zenon DEF SectionAt
  <1>16. 1 + LongestSection = offset'[t] + 1
    BY <1>8 DEF LongestSection
  <1>17. SectionAt(buffer'[t], cpu'[t], 1, offset'[t] + 1)
    BY <1>9, <1>15, <1>16 DEF b
  <1>18. ThreadLaid(t)'
    BY <1>9, <1>10, <1>17 DEF ThreadLaid, Finished
  <1>. QED BY <1>7, <1>9, <1>18, LaidElsewhere

\* The section goes behind those in the file.
LEMMA LayoutWriteSection ==
  ASSUME LayoutInv, NEW t \in Cpus, WriteSection(t), TypeInv'
  PROVE  LayoutInv'
  <1>1. TypeInv /\ ThreadLaid(t)
    BY DEF LayoutInv
  <1>2. pc[t] = "write" /\ pc[t] \in Places \ {"guest", "memory"}
    BY DEF WriteSection, Places
  <1>3. /\ Typed /\ Sized(t) /\ cpu[t] \in 0 .. N - 1 /\ offset[t] \in 0 .. BufferSize
        /\ offset[t] \in Nat
    BY <1>1, <1>2, InTheLoop
  <1> DEFINE part == SubSeq(buffer[t], 1, offset[t])
             n == Len(file[t])
             m == offset[t]
             f == file'[t]
             c == cpu[t]
  <1>4. /\ part \in Seq(Words) /\ Len(part) = m
        /\ \A i \in 1 .. m : part[i] = buffer[t][i]
    <2>1. buffer[t] \in Seq(Words) /\ Len(buffer[t]) = BufferSize
      BY <1>3 DEF Typed
    <2>. QED BY <2>1, <1>3, SubSeqProperties
  <1>5. file[t] \in Seq(Words) /\ n \in Nat
    BY <1>3 DEF Typed
  <1>6. f = file[t] \o part
    BY <1>3 DEF WriteSection, Typed
  <1> HIDE DEF part
  <1>7. /\ Len(f) = n + m
        /\ \A i \in 1 .. n + m : f[i] = IF i <= n THEN file[t][i] ELSE part[i - n]
    <2>1. /\ Len(file[t] \o part) = Len(file[t]) + Len(part)
          /\ \A i \in 1 .. Len(file[t]) + Len(part) :
               (file[t] \o part)[i] = IF i <= Len(file[t]) THEN file[t][i] ELSE part[i - Len(file[t])]
      BY <1>4, <1>5, ConcatProperties, Zenon
    <2>. QED BY <1>4, <1>6, <2>1, Zenon
  <1>8. /\ cpu'[t] = c + 1 /\ pc'[t] = IF c + 1 < N THEN "state" ELSE "memory"
        /\ \A u \in Cpus \ {t} : /\ pc'[u] = pc[u] /\ cpu'[u] = cpu[u] /\ file'[u] = file[u]
                                 /\ offset'[u] = offset[u] /\ buffer'[u] = buffer[u]
    BY <1>3 DEF WriteSection, Typed
  <1>9. LaidIn(file[t], c, n + 1) /\ SectionAt(buffer[t], c, 1, m + 1)
    BY <1>1, <1>2 DEF ThreadLaid
  <1> HIDE DEF n, m, f, c
  <1>10. m \in Nat /\ c \in Nat /\ n + 1 \in Nat \ {0}
    BY <1>3, <1>5 DEF m, c
  <1>11. \A k \in 1 .. (n + 1) - 1 : f[k] = file[t][k]
    BY <1>5, <1>7, <1>10
  <1>12. \A k \in 1 .. (m + 1) - 1 : f[k + n] = buffer[t][k]
    <2>. TAKE k \in 1 .. (m + 1) - 1
    <2>1. k + n \in 1 .. n + m /\ ~ (k + n <= n) /\ (k + n) - n = k /\ k \in 1 .. m
      BY <1>5, <1>10
    <2>2. f[k + n] = part[(k + n) - n]
      BY <1>7, <2>1, Zenon
    <2>. QED BY <1>4, <2>1, <2>2
  <1>13. LaidIn(f, c, n + 1)
    BY <1>9, <1>10, <1>11, LaidKept
  <1>14. SectionAt(f, c, n + 1, n + m + 1)
    <2>0. 1 \in Nat /\ m + 1 \in Nat /\ n \in Nat
      BY <1>5, <1>10
    <2>1. SectionAt(f, c, 1 + n, (m + 1) + n)
      BY <1>9, <1>12, <2>0, SectionMoved, Zenon
    <2>2. 1 + n = n + 1 /\ (m + 1) + n = n + m + 1
      BY <1>5, <1>10
    <2>. QED BY <2>1, <2>2
  <1>15. LaidIn(f, c + 1, n + m + 1)
    <2>1. n + 1 <= n + m + 1 /\ n + m + 1 \in Nat
      BY <1>5, <1>10
    <2>. QED BY <1>10, <1>13, <1>14, <2>1, LaidFurther
  <1>16. LaidIn(file'[t], cpu'[t], Len(file'[t]) + 1)
    <2>1. Len(f) + 1 = n + m + 1
      BY <1>7
    <2>2. LaidIn(f, c + 1, Len(f) + 1)
      BY <1>15, <2>1
    <2>. QED BY <1>8, <2>2 DEF f
  <1>17. pc'[t] \in {"state", "memory"} /\ (pc'[t] = "memory" => cpu'[t] = N)
    BY <1>3, <1>8 DEF c
  <1>18. ThreadLaid(t)'
    BY <1>16, <1>17 DEF ThreadLaid, Finished
  <1>. QED BY <1>8, <1>18, LaidElsewhere

\* Behind the last section comes the memory.
LEMMA LayoutWriteMemory ==
  ASSUME LayoutInv, NEW t \in Cpus, WriteMemory(t), TypeInv'
  PROVE  LayoutInv'
  <1>1. Typed /\ ThreadLaid(t) /\ pc[t] = "memory"
    BY DEF LayoutInv, TypeInv, WriteMemory, Goto
  <1>2. /\ pc'[t] = "guest" /\ file'[t] = Append(file[t], Memory)
        /\ \A u \in Cpus \ {t} : /\ pc'[u] = pc[u] /\ cpu'[u] = cpu[u] /\ file'[u] = file[u]
                                 /\ offset'[u] = offset[u] /\ buffer'[u] = buffer[u]
    BY <1>1 DEF WriteMemory, Goto, Typed
  <1>3. file[t] \in Seq(Words) /\ Memory \in Words /\ Len(file[t]) \in Nat
    BY <1>1 DEF Typed, Memory, Words
  <1>4. /\ Len(file'[t]) = Len(file[t]) + 1
        /\ \A i \in 1 .. Len(file[t]) : file'[t][i] = file[t][i]
        /\ file'[t][Len(file[t]) + 1] = Memory
    BY <1>2, <1>3, AppendProperties
  <1>5. LaidIn(file[t], N, Len(file[t]) + 1)
    BY <1>1 DEF ThreadLaid
  <1>6. LaidIn(file'[t], N, Len(file[t]) + 1)
    <2>1. \A k \in 1 .. (Len(file[t]) + 1) - 1 : file'[t][k] = file[t][k]
      BY <1>3, <1>4
    <2>2. Len(file[t]) + 1 \in Nat \ {0} /\ N \in Nat
      BY <1>3
    <2>. QED BY <1>5, <2>1, <2>2, LaidKept
  <1>7. ThreadLaid(t)'
    BY <1>2, <1>4, <1>6 DEF ThreadLaid
  <1>. QED BY <1>2, <1>7, LaidElsewhere

LEMMA LayoutStep == LayoutInv /\ [Next]_vars => LayoutInv'
  <1>. SUFFICES ASSUME LayoutInv, [Next]_vars PROVE LayoutInv'
    OBVIOUS
  <1>1. TypeInv'
    BY TypedStep DEF LayoutInv
  <1>2. ASSUME UNCHANGED threadVars PROVE LayoutInv'
    <2>1. ASSUME NEW t \in Cpus PROVE ThreadLaid(t)'
      <3>1. ThreadLaid(t)
        BY DEF LayoutInv
      <3>. QED BY <1>2, <3>1 DEF threadVars, ThreadLaid, Finished
    <2>. QED BY <1>1, <2>1 DEF LayoutInv
  <1>3. CASE UNCHANGED vars
    BY <1>2, <1>3 DEF vars
  <1>4. CASE Next
    <2>1. PICK t \in Cpus :
            \/ RunGuest(t) \/ Begin(t) \/ SaveState(t) \/ SaveSystem(t)
            \/ ReadRegister(t) \/ StoreRegister(t) \/ FillFails(t) \/ SaveList(t)
            \/ WriteSection(t) \/ WriteMemory(t)
      BY <1>4 DEF Next
    <2>2. CASE RunGuest(t)
      BY <1>2, <2>2 DEF RunGuest
    <2>3. CASE ~ RunGuest(t)
      BY <1>1, <2>1, <2>3, LayoutBegin, LayoutSaveState, LayoutFill, LayoutSaveList,
         LayoutWriteSection, LayoutWriteMemory
    <2>. QED BY <2>2, <2>3
  <1>. QED BY <1>3, <1>4

\* Every file that is finished has the sections of all vCPUs one behind the other
\* and the memory behind them, each section with the shape a reader expects, however
\* many threads create checkpoints at the same time and fill the same register lists.
THEOREM FileLaidOut == Spec => []LaidOut
  <1>1. LayoutInv => LaidOut
    <2>. SUFFICES ASSUME LayoutInv, NEW t \in Cpus, Finished(t)
                  PROVE  \E start \in [0 .. N -> 1 .. Len(file[t])] :
                           /\ start[0] = 1
                           /\ \A c \in Cpus : SectionAt(file[t], c, start[c], start[c + 1])
                           /\ start[N] = Len(file[t]) /\ file[t][start[N]] = Memory
      BY DEF LaidOut
    <2>1. LaidIn(file[t], N, Len(file[t])) /\ file[t][Len(file[t])] = Memory
      BY DEF LayoutInv, ThreadLaid
    <2>. QED BY <2>1 DEF LaidIn, Cpus
  <1>. QED BY <1>1, LayoutInit, LayoutStep, PTL DEF Spec

-----------------------------------------------------------------------------
(* What is saved is not older than the checkpoint, and of the creator's own     *)
(* vCPU is what it was then, although other threads create at the same time.    *)

Loop == {"state", "system", "fill", "store", "write"}

\* For the checkpoint of thread k: change v of vCPU c is not from before it, and of
\* its own vCPU is the one it began with, unless an older value was then in hand.
Current(k, c, v) ==
  c \in undisturbed[k] => began[k][c] <= v /\ (c = k => v = began[k][k])

Good(k, w) == IsSaved(w) => Current(k, w.cpu, w.change)

\* The vCPU of a creator stands still.
AtRest(k) ==
  /\ pc[k] # "guest" => changes[k] = began[k][k]
  /\ \A c \in Cpus : began[k][c] <= changes[c]

FileGood(k) == \A j \in 1 .. Len(file[k]) : Good(k, file[k][j])

BufferGood(k) == pc[k] \in Loop => \A j \in 1 .. offset[k] : Good(k, buffer[k][j])

\* What any thread is about to store in a list.
HandsGood(k) ==
  pc[k] # "guest" => \A u \in Cpus : pc[u] = "store" => Current(k, cpu[u], value[u])

\* The part of the present list that the thread has filled, and others perhaps again.
ListGood(k) ==
  pc[k] \in {"fill", "store"} =>
    \A r \in 1 .. Registers : r < next[k] => Current(k, cpu[k], list[cpu[k]][r])

Kept(k) == AtRest(k) /\ FileGood(k) /\ BufferGood(k) /\ HandsGood(k) /\ ListGood(k)

KeptInv ==
  /\ TypeInv
  /\ undisturbed \in [Cpus -> SUBSET Cpus]
  /\ \A k \in Cpus : Kept(k)

LEMMA KeptInit == Init => KeptInv
  <1>. SUFFICES ASSUME Init PROVE KeptInv
    OBVIOUS
  <1>1. undisturbed \in [Cpus -> SUBSET Cpus]
    BY DEF Init
  <1>2. ASSUME NEW k \in Cpus PROVE Kept(k)
    <2>1. pc[k] = "guest" /\ Len(file[k]) = 0
      BY DEF Init
    <2>2. AtRest(k)
      BY DEF Init, AtRest
    <2>3. FileGood(k)
      BY <2>1 DEF FileGood
    <2>. QED BY <2>1, <2>2, <2>3 DEF Kept, BufferGood, HandsGood, ListGood, Loop
  <1>. QED BY <1>1, <1>2, InitTyped DEF KeptInv

\* The present state of the vCPU that is saved is current for every creator.
LEMMA PresentCurrent ==
  ASSUME KeptInv, NEW k \in Cpus, pc[k] # "guest", NEW c \in Cpus
  PROVE  Current(k, c, changes[c])
  BY DEF KeptInv, Kept, AtRest, Current

\* The steps of another thread that neither read nor store a register.
LEMMA KeptElsewhere ==
  ASSUME KeptInv, NEW t \in Cpus, NEW k \in Cpus \ {t},
         \/ Begin(t) \/ SaveState(t) \/ SaveSystem(t) \/ FillFails(t) \/ SaveList(t)
         \/ WriteSection(t) \/ WriteMemory(t)
  PROVE  Kept(k)'
  <1>1. Typed
    BY DEF KeptInv, TypeInv
  <1>2. /\ UNCHANGED <<changes, list, value>>
        /\ pc'[t] # "store"
        /\ \A u \in Cpus \ {t} : /\ pc'[u] = pc[u] /\ cpu'[u] = cpu[u] /\ next'[u] = next[u]
                                 /\ file'[u] = file[u] /\ began'[u] = began[u]
                                 /\ undisturbed'[u] = undisturbed[u]
    <2>1. CASE Begin(t)
      BY <1>1, <2>1 DEF KeptInv, Begin, Goto, Typed
    <2>2. CASE SaveState(t) \/ SaveSystem(t)
      BY <1>1, <2>2 DEF SaveState, SaveSystem, Goto, Typed
    <2>3. CASE FillFails(t) \/ SaveList(t)
      BY <1>1, <2>3 DEF FillFails, SaveList, Goto, Typed
    <2>4. CASE WriteSection(t) \/ WriteMemory(t)
      BY <1>1, <2>4 DEF WriteSection, WriteMemory, Goto, Typed
    <2>. QED BY <2>1, <2>2, <2>3, <2>4
  <1>3. buffer'[k] = buffer[k] /\ offset'[k] = offset[k]
    <2>1. CASE Begin(t) \/ FillFails(t) \/ WriteSection(t) \/ WriteMemory(t)
      BY <1>1, <2>1 DEF Begin, FillFails, WriteSection, WriteMemory, Typed
    <2>2. CASE SaveState(t) \/ SaveSystem(t)
      BY <1>1, <2>2 DEF SaveState, SaveSystem, Put, Typed
    <2>3. CASE SaveList(t)
      BY <1>1, <2>3 DEF SaveList, Put, Typed
    <2>. QED BY <2>1, <2>2, <2>3
  <1>4. Kept(k)
    BY DEF KeptInv
  <1>5. AtRest(k)'
    BY <1>2, <1>4 DEF Kept, AtRest
  <1>6. FileGood(k)'
    BY <1>2, <1>4 DEF Kept, FileGood, Good, Current
  <1>7. BufferGood(k)'
    BY <1>2, <1>3, <1>4 DEF Kept, BufferGood, Good, Current
  <1>8. HandsGood(k)'
    BY <1>2, <1>4 DEF Kept, HandsGood, Current
  <1>9. ListGood(k)'
    BY <1>2, <1>4 DEF Kept, ListGood, Current
  <1>. QED BY <1>5, <1>6, <1>7, <1>8, <1>9 DEF Kept

LEMMA KeptRunGuest ==
  ASSUME KeptInv, NEW t \in Cpus, RunGuest(t), NEW k \in Cpus
  PROVE  Kept(k)'
  <1>1. Typed /\ Kept(k)
    BY DEF KeptInv, TypeInv
  <1>2. UNCHANGED <<list, pc, cpu, buffer, offset, next, value, file, began, undisturbed>>
    BY DEF RunGuest, threadVars
  <1>3. /\ pc[t] = "guest" /\ changes'[t] = changes[t] + 1
        /\ \A c \in Cpus \ {t} : changes'[c] = changes[c]
    BY <1>1 DEF RunGuest, Typed
  <1>4. \A c \in Cpus : changes[c] \in Nat /\ began[k][c] \in Nat
    BY <1>1 DEF Typed, Changes
  <1>5. AtRest(k)'
    BY <1>1, <1>2, <1>3, <1>4 DEF Kept, AtRest
  <1>. QED BY <1>1, <1>2, <1>5
           DEF Kept, FileGood, BufferGood, HandsGood, ListGood, Good, Current

LEMMA KeptBegin ==
  ASSUME KeptInv, NEW t \in Cpus, Begin(t)
  PROVE  Kept(t)'
  <1>1. Typed
    BY DEF KeptInv, TypeInv
  <1>2. /\ pc'[t] = "state" /\ Len(file'[t]) = 0 /\ offset'[t] = 0
        /\ began'[t] = changes /\ undisturbed'[t] = UpToDate
        /\ UNCHANGED <<changes, value>>
        /\ \A u \in Cpus \ {t} : pc'[u] = pc[u] /\ cpu'[u] = cpu[u]
    BY <1>1 DEF KeptInv, Begin, Goto, Typed
  <1>3. \A c \in Cpus : changes[c] \in Nat
    BY <1>1 DEF Typed, Changes
  <1>4. AtRest(t)'
    BY <1>2, <1>3 DEF AtRest
  <1>5. FileGood(t)' /\ BufferGood(t)' /\ ListGood(t)'
    BY <1>2 DEF FileGood, BufferGood, ListGood
  <1>6. HandsGood(t)'
    <2>1. ASSUME NEW u \in Cpus, pc'[u] = "store"
          PROVE  Current(t, cpu[u], value[u])'
      <3>1. pc[u] = "store" /\ cpu'[u] = cpu[u] /\ value'[u] = value[u]
        BY <1>2, <2>1
      <3>2. cpu[u] \in UpToDate => cpu[u] \in Cpus /\ value[u] = changes[cpu[u]]
        BY <3>1 DEF UpToDate
      <3>. QED BY <1>2, <1>3, <3>1, <3>2 DEF Current
    <2>. QED BY <2>1 DEF HandsGood
  <1>. QED BY <1>4, <1>5, <1>6 DEF Kept

\* Current words keep the buffer good.
LEMMA PutGood ==
  ASSUME KeptInv, NEW t \in Cpus, pc[t] \in Loop,
         NEW words \in Seq(Words), Put(t, words), offset[t] + Len(words) <= BufferSize,
         \A i \in 1 .. Len(words) : Good(t, words[i]),
         UNCHANGED <<began, undisturbed>>
  PROVE  BufferGood(t)'
  <1>1. Typed /\ BufferGood(t)
    BY DEF KeptInv, Kept, TypeInv
  <1>2. /\ offset'[t] = offset[t] + Len(words)
        /\ \A i \in 1 .. offset[t] : buffer'[t][i] = buffer[t][i]
        /\ \A i \in offset[t] + 1 .. offset'[t] :
              i - offset[t] \in 1 .. Len(words) /\ buffer'[t][i] = words[i - offset[t]]
    BY <1>1, PutWords, Zenon
  <1>3. offset[t] \in Nat /\ Len(words) \in Nat
    BY <1>1 DEF Typed
  <1>4. ASSUME NEW j \in 1 .. offset'[t] PROVE Good(t, buffer'[t][j])
    <2>1. CASE j \in 1 .. offset[t]
      BY <1>1, <1>2, <2>1 DEF BufferGood
    <2>2. CASE j \in offset[t] + 1 .. offset'[t]
      BY <1>2, <2>2
    <2>. QED BY <1>2, <1>3, <2>1, <2>2
  <1>. QED BY <1>4 DEF BufferGood, Good, Current

\* In its loop a thread that neither reads nor stores changes its buffer only.
LEMMA KeptInLoop ==
  ASSUME KeptInv, NEW t \in Cpus, SaveState(t) \/ SaveSystem(t) \/ FillFails(t) \/ SaveList(t)
  PROVE  AtRest(t)' /\ FileGood(t)' /\ HandsGood(t)' /\ ListGood(t)'
  <1>1. Typed /\ Kept(t)
    BY DEF KeptInv, TypeInv
  <1>2. /\ pc[t] \in Loop /\ pc'[t] \in {"system", "fill", "write"}
        /\ pc'[t] = "fill" => next'[t] = 1
        /\ \A u \in Cpus \ {t} : pc'[u] = pc[u]
        /\ UNCHANGED <<changes, list, cpu, value, file, began, undisturbed>>
    BY <1>1 DEF SaveState, SaveSystem, FillFails, SaveList, Goto, Loop, Typed
  <1>3. AtRest(t)'
    BY <1>1, <1>2 DEF Kept, AtRest, Loop
  <1>4. FileGood(t)'
    BY <1>1, <1>2 DEF Kept, FileGood, Good, Current
  <1>5. HandsGood(t)'
    BY <1>1, <1>2 DEF Kept, HandsGood, Loop, Current
  <1>6. ListGood(t)'
    BY <1>2 DEF ListGood
  <1>. QED BY <1>3, <1>4, <1>5, <1>6

LEMMA KeptSaveState ==
  ASSUME KeptInv, NEW t \in Cpus, SaveState(t) \/ SaveSystem(t)
  PROVE  Kept(t)'
  <1>1. Typed
    BY DEF KeptInv, TypeInv
  <1>2. /\ pc[t] \in {"state", "system"} /\ pc[t] \in Loop /\ pc[t] # "guest"
        /\ UNCHANGED <<began, undisturbed>>
    BY DEF SaveState, SaveSystem, Goto, Loop
  <1>3. cpu[t] \in Cpus /\ offset[t] \in {0, 1}
    BY <1>2, InTheLoop DEF KeptInv, Loop, Places, Sized
  <1>4. PICK word \in {State(cpu[t], changes[cpu[t]]), System(cpu[t], changes[cpu[t]])} :
          Put(t, <<word>>)
    BY DEF SaveState, SaveSystem
  <1>5. word \in Words /\ word.cpu = cpu[t] /\ word.change = changes[cpu[t]]
    <2>1. changes[cpu[t]] \in Changes
      BY <1>1, <1>3 DEF Typed
    <2>2. CASE word = State(cpu[t], changes[cpu[t]])
      BY <1>3, <2>1, <2>2 DEF State, Words
    <2>3. CASE word = System(cpu[t], changes[cpu[t]])
      BY <1>3, <2>1, <2>3 DEF System, Words
    <2>. QED BY <1>4, <2>2, <2>3
  <1> DEFINE words == <<word>>
  <1>6. words \in Seq(Words) /\ Len(words) = 1 /\ \A i \in 1 .. 1 : words[i] = word
    BY <1>5
  <1>7. Put(t, words)
    BY <1>4
  <1> HIDE DEF words
  <1>8. offset[t] + Len(words) <= BufferSize
    BY <1>3, <1>6 DEF LongestSection
  <1>9. \A i \in 1 .. Len(words) : Good(t, words[i])
    BY <1>2, <1>3, <1>5, <1>6, PresentCurrent DEF Good
  <1>10. BufferGood(t)'
    BY <1>2, <1>6, <1>7, <1>8, <1>9, PutGood, Zenon
  <1>. QED BY <1>10, KeptInLoop DEF Kept

LEMMA KeptFillFails ==
  ASSUME KeptInv, NEW t \in Cpus, FillFails(t)
  PROVE  Kept(t)'
  <1>1. pc[t] \in Loop /\ UNCHANGED <<buffer, offset, began, undisturbed>>
    BY DEF FillFails, Goto, Loop
  <1>2. BufferGood(t)'
    BY <1>1 DEF KeptInv, Kept, BufferGood, Good, Current
  <1>. QED BY <1>2, KeptInLoop DEF Kept

LEMMA KeptSaveList ==
  ASSUME KeptInv, NEW t \in Cpus, SaveList(t)
  PROVE  Kept(t)'
  <1>1. Typed
    BY DEF KeptInv, TypeInv
  <1>2. pc[t] = "fill" /\ pc[t] \in Loop /\ next[t] > Registers /\ UNCHANGED <<began, undisturbed>>
    BY DEF SaveList, Goto, Loop
  <1>3. cpu[t] \in Cpus /\ offset[t] = 2 /\ next[t] \in 1 .. Registers + 1
    BY <1>2, InTheLoop DEF KeptInv, Loop, Places, Sized
  <1> DEFINE words == ListWords(cpu[t])
  <1>4. /\ words \in Seq(Words) /\ Len(words) = LongestSection - 2
        /\ \A i \in 1 .. Len(words) : IsSaved(words[i]) =>
              \E r \in 1 .. Registers : words[i] = Value(cpu[t], list[cpu[t]][r])
    BY <1>1, <1>3, ListWordsAre
  <1>5. Put(t, words)
    BY DEF SaveList
  <1> HIDE DEF words
  <1>6. offset[t] + Len(words) <= BufferSize
    BY <1>3, <1>4 DEF LongestSection
  <1>7. \A r \in 1 .. Registers : Current(t, cpu[t], list[cpu[t]][r])
    BY <1>2, <1>3 DEF KeptInv, Kept, ListGood
  <1>8. \A v : Value(cpu[t], v).cpu = cpu[t] /\ Value(cpu[t], v).change = v
    BY DEF Value
  <1>9. ASSUME NEW i \in 1 .. Len(words) PROVE Good(t, words[i])
    <2>. SUFFICES ASSUME IsSaved(words[i]) PROVE Current(t, words[i].cpu, words[i].change)
      BY DEF Good
    <2>1. PICK r \in 1 .. Registers : words[i] = Value(cpu[t], list[cpu[t]][r])
      BY <1>4, Zenon
    <2>2. words[i].cpu = cpu[t] /\ words[i].change = list[cpu[t]][r]
      BY <1>8, <2>1, Zenon
    <2>. QED BY <1>7, <2>2
  <1>10. BufferGood(t)'
    BY <1>2, <1>4, <1>5, <1>6, <1>9, PutGood, Zenon
  <1>. QED BY <1>10, KeptInLoop DEF Kept

\* What a thread reads is current for all that are creating then.
LEMMA KeptRead ==
  ASSUME KeptInv, NEW t \in Cpus, ReadRegister(t), NEW k \in Cpus
  PROVE  Kept(k)'
  <1>1. Typed /\ Kept(k)
    BY DEF KeptInv, TypeInv
  <1>2. /\ pc[t] = "fill" /\ pc'[t] = "store" /\ value'[t] = changes[cpu[t]]
        /\ \A u \in Cpus \ {t} : pc'[u] = pc[u] /\ value'[u] = value[u]
        /\ UNCHANGED <<changes, list, cpu, buffer, offset, next, file, began, undisturbed>>
    BY <1>1 DEF ReadRegister, Goto, Typed
  <1>3. /\ pc'[k] # "guest" => pc[k] # "guest"
        /\ pc'[k] \in Loop => pc[k] \in Loop
        /\ pc'[k] \in {"fill", "store"} => pc[k] \in {"fill", "store"}
    BY <1>2 DEF Loop
  <1>4. AtRest(k)' /\ FileGood(k)' /\ BufferGood(k)' /\ ListGood(k)'
    BY <1>1, <1>2, <1>3 DEF Kept, AtRest, FileGood, BufferGood, ListGood, Good, Current
  <1>5. HandsGood(k)'
    <2>1. ASSUME pc'[k] # "guest", NEW u \in Cpus, pc'[u] = "store"
          PROVE  Current(k, cpu[u], value[u])'
      <3>1. CASE u = t
        <4>1. cpu[t] \in Cpus
          BY <1>2, InTheLoop DEF KeptInv, Places
        <4>2. Current(k, cpu[t], changes[cpu[t]])
          BY <1>3, <2>1, <4>1, PresentCurrent
        <4>. QED BY <1>2, <3>1, <4>2 DEF Current
      <3>2. CASE u # t
        BY <1>1, <1>2, <1>3, <2>1, <3>2 DEF Kept, HandsGood, Current
      <3>. QED BY <3>1, <3>2
    <2>. QED BY <2>1 DEF HandsGood
  <1>. QED BY <1>4, <1>5 DEF Kept

\* What a thread stores may come into the list another one is filling.
LEMMA KeptStore ==
  ASSUME KeptInv, NEW t \in Cpus, StoreRegister(t), NEW k \in Cpus
  PROVE  Kept(k)'
  <1>1. Typed /\ Kept(k)
    BY DEF KeptInv, TypeInv
  <1>2. /\ pc[t] = "store" /\ pc'[t] = "fill"
        /\ list' = [list EXCEPT ![cpu[t]][next[t]] = value[t]]
        /\ next'[t] = next[t] + 1
        /\ \A u \in Cpus \ {t} : pc'[u] = pc[u] /\ next'[u] = next[u]
        /\ UNCHANGED <<changes, cpu, buffer, offset, value, file, began, undisturbed>>
    BY <1>1 DEF StoreRegister, Goto, Typed
  <1>3. /\ pc'[k] # "guest" => pc[k] # "guest"
        /\ pc'[k] \in Loop => pc[k] \in Loop
        /\ pc'[k] \in {"fill", "store"} => pc[k] \in {"fill", "store"}
    BY <1>2 DEF Loop
  <1>4. AtRest(k)' /\ FileGood(k)' /\ BufferGood(k)'
    BY <1>1, <1>2, <1>3 DEF Kept, AtRest, FileGood, BufferGood, Good, Current
  <1>5. HandsGood(k)'
    <2>1. \A u \in Cpus : pc'[u] = "store" => pc[u] = "store"
      BY <1>2
    <2>. QED BY <1>1, <1>2, <1>3, <2>1 DEF Kept, HandsGood, Current
  <1>6. ListGood(k)'
    <2>1. ASSUME pc'[k] \in {"fill", "store"}, NEW r \in 1 .. Registers, r < next'[k]
          PROVE  Current(k, cpu[k], list'[cpu[k]][r])
      <3>1. cpu[k] \in Cpus /\ cpu[t] \in Cpus /\ next[k] \in 1 .. Registers + 1
        BY <1>2, <1>3, <2>1, InTheLoop DEF KeptInv, Places
      <3>2. pc[k] # "guest" /\ Current(k, cpu[t], value[t])
        BY <1>1, <1>2, <1>3, <2>1 DEF Kept, HandsGood
      <3>3. CASE cpu[k] = cpu[t] /\ r = next[t]
        <4>1. list'[cpu[k]][r] = value[t]
          BY <1>1, <1>2, <3>1, <3>3 DEF Typed
        <4>. QED BY <3>2, <3>3, <4>1
      <3>4. CASE ~ (cpu[k] = cpu[t] /\ r = next[t])
        <4>1. list'[cpu[k]][r] = list[cpu[k]][r]
          BY <1>1, <1>2, <3>1, <3>4 DEF Typed
        <4>2. r < next[k]
          BY <1>2, <2>1, <3>1, <3>4
        <4>. QED BY <1>1, <1>3, <2>1, <4>1, <4>2 DEF Kept, ListGood
      <3>. QED BY <3>3, <3>4
    <2>. QED BY <1>2, <2>1 DEF ListGood, Current
  <1>. QED BY <1>4, <1>5, <1>6 DEF Kept

\* What is behind the old part of a file that was appended to.
LEMMA Joined ==
  ASSUME NEW s \in Seq(Words), NEW p \in Seq(Words), NEW w, w = s \o p
  PROVE  /\ Len(w) = Len(s) + Len(p)
         /\ \A i \in 1 .. Len(s) + Len(p) : w[i] = IF i <= Len(s) THEN s[i] ELSE p[i - Len(s)]
  BY ConcatProperties, Zenon

LEMMA KeptWriteSection ==
  ASSUME KeptInv, NEW t \in Cpus, WriteSection(t)
  PROVE  Kept(t)'
  <1>1. Typed /\ Kept(t)
    BY DEF KeptInv, TypeInv
  <1>2. /\ pc[t] = "write" /\ pc[t] \in Loop /\ pc'[t] \in {"state", "memory"} /\ offset'[t] = 0
        /\ \A u \in Cpus \ {t} : pc'[u] = pc[u] /\ cpu'[u] = cpu[u]
        /\ UNCHANGED <<changes, list, value, began, undisturbed>>
    BY <1>1 DEF WriteSection, Loop, Typed
  <1>3. offset[t] \in 0 .. BufferSize
    BY <1>2, InTheLoop DEF KeptInv, Loop, Places
  <1> DEFINE part == SubSeq(buffer[t], 1, offset[t])
  <1>4. /\ part \in Seq(Words) /\ Len(part) = offset[t]
        /\ \A i \in 1 .. offset[t] : part[i] = buffer[t][i]
    <2>1. buffer[t] \in Seq(Words) /\ Len(buffer[t]) = BufferSize
      BY <1>1 DEF Typed
    <2>. QED BY <2>1, <1>3, SubSeqProperties
  <1>5. file' = [file EXCEPT ![t] = file[t] \o part]
    BY DEF WriteSection
  <1> HIDE DEF part
  <1>6. file[t] \in Seq(Words) /\ Len(file[t]) \in Nat /\ file'[t] = file[t] \o part
    BY <1>1, <1>5 DEF Typed
  <1>7. /\ Len(file'[t]) = Len(file[t]) + Len(part)
        /\ \A i \in 1 .. Len(file[t]) + Len(part) :
             file'[t][i] = IF i <= Len(file[t]) THEN file[t][i] ELSE part[i - Len(file[t])]
    <2> DEFINE whole == file'[t]
               front == file[t]
    <2>1. whole = front \o part /\ front \in Seq(Words)
      BY <1>6
    <2> HIDE DEF whole, front
    <2>2. /\ Len(whole) = Len(front) + Len(part)
          /\ \A i \in 1 .. Len(front) + Len(part) :
               whole[i] = IF i <= Len(front) THEN front[i] ELSE part[i - Len(front)]
      BY <1>4, <2>1, Joined
    <2>. QED BY <2>2 DEF whole, front
  <1>8. ASSUME NEW j \in 1 .. Len(file'[t]) PROVE Good(t, file'[t][j])
    <2>1. CASE j <= Len(file[t])
      BY <1>1, <1>6, <1>7, <2>1 DEF Kept, FileGood
    <2>2. CASE ~ (j <= Len(file[t]))
      <3>1. j - Len(file[t]) \in 1 .. offset[t] /\ j \in 1 .. Len(file[t]) + Len(part)
        BY <1>3, <1>4, <1>6, <1>7, <2>2
      <3>2. file'[t][j] = buffer[t][j - Len(file[t])]
        BY <1>4, <1>7, <2>2, <3>1
      <3>. QED BY <1>1, <1>2, <3>1, <3>2 DEF Kept, BufferGood
    <2>. QED BY <2>1, <2>2
  <1>9. FileGood(t)'
    BY <1>2, <1>8 DEF FileGood, Good, Current
  <1>10. AtRest(t)' /\ HandsGood(t)'
    BY <1>1, <1>2 DEF Kept, AtRest, HandsGood, Loop, Current
  <1>11. BufferGood(t)' /\ ListGood(t)'
    BY <1>2 DEF BufferGood, ListGood
  <1>. QED BY <1>9, <1>10, <1>11 DEF Kept

LEMMA KeptWriteMemory ==
  ASSUME KeptInv, NEW t \in Cpus, WriteMemory(t)
  PROVE  Kept(t)'
  <1>1. Typed /\ Kept(t)
    BY DEF KeptInv, TypeInv
  <1>2. pc'[t] = "guest" /\ file'[t] = Append(file[t], Memory) /\ UNCHANGED <<changes, began, undisturbed>>
    BY <1>1 DEF WriteMemory, Goto, Typed
  <1>3. ~ IsSaved(Memory) /\ Memory \in Words
    BY DEF IsSaved, Memory, Words
  <1>4. file[t] \in Seq(Words) /\ Len(file[t]) \in Nat
    BY <1>1 DEF Typed
  <1>5. /\ Len(file'[t]) = Len(file[t]) + 1
        /\ \A i \in 1 .. Len(file[t]) : file'[t][i] = file[t][i]
        /\ file'[t][Len(file[t]) + 1] = Memory
    BY <1>2, <1>3, <1>4, AppendProperties
  <1>6. ASSUME NEW j \in 1 .. Len(file'[t]) PROVE Good(t, file'[t][j])
    <2>1. CASE j \in 1 .. Len(file[t])
      BY <1>1, <1>5, <2>1 DEF Kept, FileGood
    <2>2. CASE j = Len(file[t]) + 1
      BY <1>3, <1>5, <2>2 DEF Good
    <2>. QED BY <1>4, <1>5, <2>1, <2>2
  <1>7. FileGood(t)'
    BY <1>2, <1>6 DEF FileGood, Good, Current
  <1>8. AtRest(t)' /\ HandsGood(t)' /\ BufferGood(t)' /\ ListGood(t)'
    BY <1>1, <1>2 DEF Kept, AtRest, HandsGood, BufferGood, ListGood, Loop
  <1>. QED BY <1>7, <1>8 DEF Kept

LEMMA KeptStep == KeptInv /\ [Next]_vars => KeptInv'
  <1>. SUFFICES ASSUME KeptInv, [Next]_vars PROVE KeptInv'
    OBVIOUS
  <1>1. TypeInv'
    BY TypedStep DEF KeptInv
  <1>2. CASE UNCHANGED vars
    BY <1>1, <1>2 DEF vars, threadVars, KeptInv, Kept, AtRest, FileGood, BufferGood, HandsGood,
                      ListGood, Good, Current
  <1>3. CASE Next
    <2>1. PICK t \in Cpus :
            \/ RunGuest(t) \/ Begin(t) \/ SaveState(t) \/ SaveSystem(t)
            \/ ReadRegister(t) \/ StoreRegister(t) \/ FillFails(t) \/ SaveList(t)
            \/ WriteSection(t) \/ WriteMemory(t)
      BY <1>3 DEF Next
    <2>2. undisturbed' \in [Cpus -> SUBSET Cpus]
      <3>1. UpToDate \in SUBSET Cpus
        BY DEF UpToDate
      <3>2. undisturbed' = undisturbed \/ undisturbed' = [undisturbed EXCEPT ![t] = UpToDate]
        BY <2>1 DEF RunGuest, threadVars, Begin, SaveState, SaveSystem, ReadRegister, StoreRegister,
                    FillFails, SaveList, WriteSection, WriteMemory
      <3>. QED BY <3>1, <3>2 DEF KeptInv
    <2>3. ASSUME NEW k \in Cpus PROVE Kept(k)'
      <3>1. CASE RunGuest(t) \/ ReadRegister(t) \/ StoreRegister(t)
        BY <3>1, KeptRunGuest, KeptRead, KeptStore
      <3>2. CASE ~ (RunGuest(t) \/ ReadRegister(t) \/ StoreRegister(t)) /\ k = t
        BY <2>1, <3>2, KeptBegin, KeptSaveState, KeptFillFails, KeptSaveList, KeptWriteSection,
           KeptWriteMemory
      <3>3. CASE ~ (RunGuest(t) \/ ReadRegister(t) \/ StoreRegister(t)) /\ k # t
        BY <2>1, <3>3, KeptElsewhere
      <3>. QED BY <3>1, <3>2, <3>3
    <2>. QED BY <1>1, <2>2, <2>3 DEF KeptInv
  <1>. QED BY <1>2, <1>3

\* For any number of threads that create at the same time and fill the same register
\* lists: the vCPU of each is saved exactly as it was when it came to the checkpoint
\* (checkpoint_save_arm64_cpu_state), unless another thread then had an older value of
\* it in hand.
THEOREM OwnSectionKept == Spec => []OwnSectionExact
  <1>1. KeptInv => OwnSectionExact
    <2>. SUFFICES ASSUME KeptInv, NEW t \in Cpus, t \in undisturbed[t], NEW i \in 1 .. Len(file[t]),
                         IsSaved(file[t][i]), file[t][i].cpu = t
                  PROVE  file[t][i].change = began[t][t]
      BY DEF OwnSectionExact
    <2>. QED BY DEF KeptInv, Kept, FileGood, Good, Current
  <1>. QED BY <1>1, KeptInit, KeptStep, PTL DEF Spec

\* And with the same exception nothing saved of any vCPU is from before the checkpoint.
THEOREM NothingOlderSaved == Spec => []NothingOlder
  <1>1. KeptInv => NothingOlder
    <2>. SUFFICES ASSUME KeptInv, NEW t \in Cpus, NEW i \in 1 .. Len(file[t]),
                         IsSaved(file[t][i]), file[t][i].cpu \in undisturbed[t]
                  PROVE  began[t][file[t][i].cpu] <= file[t][i].change
      BY DEF NothingOlder
    <2>. QED BY DEF KeptInv, Kept, FileGood, Good, Current
  <1>. QED BY <1>1, KeptInit, KeptStep, PTL DEF Spec

=============================================================================
