-------------------------- MODULE PageTableWalk_proofs --------------------------
(* Proofs about PageTableWalk for every number of frames, entries, levels and  *)
(* tables kept, and however often the guest writes: the walk stays within its  *)
(* arrays, what it saves can be followed from the root and leads nowhere else, *)
(* and every step takes it closer to its end.                                  *)
EXTENDS PageTableWalk, SequenceTheorems, WellFoundedInduction, TLAPS

USE WalkAssumption

Frames == [at : Nat \ {0}, next : 0 .. PTRS]

\* The callers of a call are one level up each, so the recursion is never deeper
\* than the levels.
LevelsRight == \A d \in 1 .. Depth : saved[root][stack[d].at].level = d - 1

\* Entry slot of the k-th saved table is still to be looked at.
Pending(r, k, slot) ==
  r = root /\ \E d \in 1 .. Depth : stack[d].at = k /\ stack[d].next <= slot

\* The table that entry slot of the k-th saved one points to is saved.
Followed(r, k, slot) ==
  \E m \in 1 .. Len(saved[r]) : 
    /\ saved[r][m].addr = saved[r][k].data[slot]
    /\ saved[r][m].level = saved[r][k].level + 1

\* Every entry that points to a table is dealt with, pending, or lost to the limit.
Accounted ==
  \A r \in Roots : \A k \in 1 .. Len(saved[r]), slot \in Slots :
    saved[r][k].level < LEVELS - 1 /\ saved[r][k].data[slot] # NoTable =>
      Len(saved[r]) = MAX_TABLES \/ Followed(r, k, slot) \/ Pending(r, k, slot)

WalkInv == WalkTypeOK /\ LevelsRight /\ Connected /\ Accounted

-----------------------------------------------------------------------------
(* Type correctness                                                            *)

\* Initially nothing is saved, and the walk has not started.
LEMMA WalkInit == Init => WalkInv
  <1>. SUFFICES ASSUME Init PROVE WalkInv
    OBVIOUS
  <1>. USE DEF Init, Depth, Roots
  <1>1. << >> \in Seq(Entry) /\ << >> \in Seq(Frames) /\ Len(<< >>) = 0
    BY EmptySeq
  <1>2. saved \in [Roots -> Seq(Entry)] /\ \A r \in Roots : Len(saved[r]) = 0
    BY <1>1
  <1>3. Depth = 0 /\ 1 .. Depth = {}
    BY <1>1
  <1>4. WalkTypeOK
    BY <1>1, <1>2, <1>3 DEF WalkTypeOK, Frames
  <1>5. \A r \in Roots : 1 .. Len(saved[r]) = {}
    BY <1>2
  <1>. QED BY <1>3, <1>4, <1>5 DEF WalkInv, LevelsRight, Connected, Accounted

\* What the walk knows about the innermost call and the table it is in.
LEMMA InnermostCall ==
  ASSUME WalkTypeOK, LevelsRight, stack # << >>
  PROVE  /\ Depth \in Nat \ {0}
         /\ root \in Roots
         /\ Frame \in Frames
         /\ Frame.at \in 1 .. Len(saved[root])
         /\ Current \in Entry
         /\ Current.level = Depth - 1
  <1>1. Depth \in Nat \ {0} /\ Frame \in Frames
    <2>1. stack \in Seq(Frames)
      BY DEF WalkTypeOK, Frames
    <2>2. Depth \in Nat \ {0}
      BY <2>1 DEF Depth
    <2>3. Depth \in 1 .. Len(stack)
      BY <2>2 DEF Depth
    <2>. QED BY <2>1, <2>2, <2>3, ElementOfSeq DEF Frame
  <1>2. root \in Roots
    BY DEF WalkTypeOK, Roots
  <1>3. Depth \in 1 .. Depth
    BY <1>1
  <1>4. Frame.at \in 1 .. Len(saved[root]) /\ Current.level = Depth - 1
    <2>1. stack[Depth].at \in Nat \ {0} /\ stack[Depth].at <= Len(saved[root])
      BY <1>1, <1>3 DEF WalkTypeOK, Frame, Frames
    <2>2. saved[root][stack[Depth].at].level = Depth - 1
      BY <1>3 DEF LevelsRight
    <2>3. Len(saved[root]) \in Nat
      BY <1>2 DEF WalkTypeOK
    <2>. QED BY <2>1, <2>2, <2>3 DEF Frame, Current
  <1>5. Current \in Entry
    BY <1>2, <1>4 DEF WalkTypeOK, Current
  <1>. QED BY <1>1, <1>2, <1>4, <1>5

\* Going on to the next entry keeps the stack's shape.
LEMMA NextSlotFrames ==
  ASSUME WalkTypeOK, LevelsRight, Looping
  PROVE  /\ NextSlot \in Seq(Frames)
         /\ Len(NextSlot) = Depth
         /\ \A d \in 1 .. Depth : NextSlot[d].at = stack[d].at
         /\ \A d \in 1 .. Depth : d # Depth => NextSlot[d] = stack[d]
         /\ NextSlot[Depth].next = Frame.next + 1
  <1>. DEFINE further == [Frame EXCEPT !.next = Frame.next + 1]
  <1>1. stack # << >> /\ Frame.next < PTRS
    BY DEF Looping
  <1>2. Depth \in Nat \ {0} /\ Frame \in Frames
    BY <1>1, InnermostCall
  <1>3. stack \in Seq(Frames) /\ Depth \in 1 .. Len(stack)
    BY <1>2 DEF WalkTypeOK, Frames, Depth
  <1>4. further \in Frames /\ further.at = Frame.at /\ further.next = Frame.next + 1
    BY <1>1, <1>2 DEF Frames
  <1>5. NextSlot = [stack EXCEPT ![Depth] = further]
    BY DEF NextSlot, Frame
  <1>. HIDE DEF further
  <1>6. /\ NextSlot \in Seq(Frames)
        /\ Len(NextSlot) = Len(stack)
        /\ \A d \in 1 .. Len(stack) : NextSlot[d] = IF d = Depth THEN further ELSE stack[d]
    BY <1>3, <1>4, <1>5, ExceptSeq
  <1>7. Len(stack) = Depth
    BY DEF Depth
  <1>8. Frame = stack[Depth] /\ Depth \in 1 .. Depth
    BY <1>2 DEF Frame
  <1>. QED BY <1>4, <1>6, <1>7, <1>8

\* What a visit leaves behind: one more table saved, one more frame on the stack.
Visited(page, level, callers) ==
  /\ saved' \in [Roots -> Seq(Entry)]
  /\ Len(saved'[root]) = Len(saved[root]) + 1
  /\ \A k \in 1 .. Len(saved[root]) : saved'[root][k] = saved[root][k]
  /\ saved'[root][Len(saved[root]) + 1].addr = page
  /\ saved'[root][Len(saved[root]) + 1].level = level
  /\ saved'[root][Len(saved[root]) + 1].data = memory[page]
  /\ \A r \in Roots : r # root => saved'[r] = saved[r]
  /\ stack' \in Seq(Frames)
  /\ Len(stack') = Len(callers) + 1
  /\ \A d \in 1 .. Len(callers) : stack'[d] = callers[d]
  /\ stack'[Len(callers) + 1].at = Len(saved[root]) + 1
  /\ stack'[Len(callers) + 1].next = 0

\* What a call that reads a table leaves behind.
LEMMA VisitSaves ==
  ASSUME WalkTypeOK, root \in Roots, Len(saved[root]) < MAX_TABLES,
         NEW page \in Pages, NEW level \in Levels, NEW callers \in Seq(Frames),
         Visit(page, level, callers)
  PROVE  Visited(page, level, callers)
  <1>. DEFINE entry == [addr |-> page, level |-> level, data |-> memory[page]]
              frame == [at |-> Len(saved[root]) + 1, next |-> 0]
              before == saved[root]
  <1>1. before \in Seq(Entry) /\ Len(before) \in Nat
    BY DEF WalkTypeOK
  <1>2. entry \in Entry /\ entry.addr = page /\ entry.level = level /\ entry.data = memory[page]
    BY DEF WalkTypeOK, Entry
  <1>3. frame \in Frames /\ frame.at = Len(before) + 1 /\ frame.next = 0
    BY <1>1 DEF Frames
  <1>4. /\ saved' = [saved EXCEPT ![root] = Append(before, entry)]
        /\ stack' = Append(callers, frame)
    BY DEF Visit
  <1>. HIDE DEF entry, frame
  <1>5. /\ Append(before, entry) \in Seq(Entry)
        /\ Len(Append(before, entry)) = Len(before) + 1
        /\ \A k \in 1 .. Len(before) : Append(before, entry)[k] = before[k]
        /\ Append(before, entry)[Len(before) + 1] = entry
    BY <1>1, <1>2, AppendProperties
  <1>6. /\ stack' \in Seq(Frames)
        /\ Len(stack') = Len(callers) + 1
        /\ \A d \in 1 .. Len(callers) : stack'[d] = callers[d]
        /\ stack'[Len(callers) + 1] = frame
    BY <1>3, <1>4, AppendProperties
  <1>7. saved \in [Roots -> Seq(Entry)]
    BY DEF WalkTypeOK
  <1>8. saved'[root] = Append(before, entry) /\ \A r \in Roots : r # root => saved'[r] = saved[r]
    BY <1>4, <1>7
  <1>9. saved' \in [Roots -> Seq(Entry)]
    BY <1>4, <1>5, <1>7
  <1>. QED BY <1>2, <1>3, <1>5, <1>6, <1>8, <1>9 DEF Visited

-----------------------------------------------------------------------------
(* The steps                                                                   *)

\* Recursing into a table.
LEMMA DescendStep ==
  ASSUME WalkInv, Descend
  PROVE  WalkInv'
  <1>. DEFINE n == Len(saved[root])
  <1>1. WalkTypeOK /\ LevelsRight /\ Connected /\ Accounted
    BY DEF WalkInv
  <1>2. Looping /\ stack # << >> /\ Current.level < LEVELS - 1 /\ Frame.next < PTRS
    BY DEF Looping, Descend
  <1>3. /\ Depth \in Nat \ {0} /\ root \in Roots /\ Frame \in Frames
        /\ Frame.at \in 1 .. n /\ Current \in Entry /\ Current.level = Depth - 1
    BY <1>1, <1>2, InnermostCall
  <1>4. Frame.next \in Slots /\ Frame.next \in Nat /\ n \in Nat /\ n < MAX_TABLES
    BY <1>1, <1>2, <1>3 DEF Slots, Frames, WalkTypeOK, Descend
  <1>5. Pte \in Pages
    BY <1>3, <1>4 DEF Pte, Entry, Pointers, Descend
  <1>6. Current.level + 1 \in Levels /\ Current.level + 1 = Depth
    BY <1>2, <1>3 DEF Levels
  <1>7. /\ NextSlot \in Seq(Frames) /\ Len(NextSlot) = Depth
        /\ \A d \in 1 .. Depth : NextSlot[d].at = stack[d].at
        /\ \A d \in 1 .. Depth : d # Depth => NextSlot[d] = stack[d]
        /\ NextSlot[Depth].next = Frame.next + 1
    BY <1>1, <1>2, NextSlotFrames
  <1>8. Visit(Pte, Current.level + 1, NextSlot)
    BY DEF Descend
  <1>9. /\ saved' \in [Roots -> Seq(Entry)]
        /\ Len(saved'[root]) = n + 1
        /\ \A k \in 1 .. n : saved'[root][k] = saved[root][k]
        /\ saved'[root][n + 1].addr = Pte
        /\ saved'[root][n + 1].level = Current.level + 1
        /\ \A r \in Roots : r # root => saved'[r] = saved[r]
        /\ stack' \in Seq(Frames)
        /\ Len(stack') = Len(NextSlot) + 1
        /\ \A d \in 1 .. Len(NextSlot) : stack'[d] = NextSlot[d]
        /\ stack'[Len(NextSlot) + 1].at = n + 1
        /\ stack'[Len(NextSlot) + 1].next = 0
    <2>. DEFINE level == Current.level + 1
    <2>1. level \in Levels /\ Len(NextSlot) \in Nat /\ Visit(Pte, level, NextSlot)
      BY <1>6, <1>7, <1>8
    <2>. HIDE DEF level
    <2>2. Visited(Pte, level, NextSlot)
      BY <1>1, <1>3, <1>4, <1>5, <1>7, <2>1, VisitSaves
    <2>. QED BY <2>2, Zenon DEF level, Visited
  <1>10. /\ root' = root /\ memory' = memory /\ writes' = writes /\ ttbr' = ttbr
    BY DEF Descend
  <1>11. /\ Depth' = Depth + 1
         /\ \A d \in 1 .. Depth : stack'[d].at = stack[d].at
         /\ \A d \in 1 .. Depth : d # Depth => stack'[d] = stack[d]
         /\ stack'[Depth].next = Frame.next + 1
         /\ stack'[Depth + 1].at = n + 1
         /\ stack'[Depth + 1].next = 0
    <2>1. Len(NextSlot) = Depth /\ Depth' = Len(stack')
      BY <1>7 DEF Depth
    <2>2. \A d \in 1 .. Depth : stack'[d] = NextSlot[d]
      BY <1>9, <2>1
    <2>3. Depth' = Depth + 1 /\ stack'[Depth + 1].at = n + 1 /\ stack'[Depth + 1].next = 0
      BY <1>9, <2>1
    <2>4. Depth \in 1 .. Depth
      BY <1>3
    <2>. QED BY <1>7, <2>2, <2>3, <2>4
  <1>12. \A d \in 1 .. Depth : stack[d].at \in 1 .. n
    <2>. TAKE d \in 1 .. Depth
    <2>1. stack[d] \in Frames
      BY <1>1, ElementOfSeq DEF WalkTypeOK, Depth, Frames
    <2>2. stack[d].at <= n
      BY <1>1 DEF WalkTypeOK
    <2>. QED BY <1>4, <2>1, <2>2 DEF Frames
  <1>13. Len(saved'[root']) = n + 1
    BY <1>9, <1>10
  <1>14. WalkTypeOK'
    <2>1. \A r \in Roots : Len(saved'[r]) <= MAX_TABLES
      <3>. TAKE r \in Roots
      <3>1. CASE r = root
        BY <1>4, <1>9, <3>1
      <3>2. CASE r # root
        BY <1>1, <1>9, <3>2 DEF WalkTypeOK
      <3>. QED BY <3>1, <3>2
    <2>2. \A d \in 1 .. Depth' : stack'[d].at <= Len(saved'[root'])
      <3>1. \A d \in 1 .. Depth : stack'[d].at <= n + 1
        BY <1>4, <1>11, <1>12
      <3>2. stack'[Depth + 1].at <= n + 1
        BY <1>4, <1>11
      <3>3. \A d \in 1 .. Depth' : d \in 1 .. Depth \/ d = Depth + 1
        BY <1>3, <1>11
      <3>. QED BY <1>13, <3>1, <3>2, <3>3
    <2>3. Depth' <= LEVELS
      BY <1>2, <1>3, <1>11
    <2>4. root # 2
      BY <1>3 DEF Roots
    <2>5. root' \in 0 .. 2 /\ root' # 2
      BY <1>1, <1>10, <2>4 DEF WalkTypeOK
    <2>6. /\ memory' \in [Pages -> [Slots -> Pointers]]
          /\ writes' \in 0 .. MaxWrites
          /\ ttbr' \in [Roots -> Pointers]
      BY <1>1, <1>10 DEF WalkTypeOK
    <2>7. /\ saved' \in [Roots -> Seq(Entry)]
          /\ stack' \in Seq([at : Nat \ {0}, next : 0 .. PTRS])
      BY <1>9, Zenon DEF Frames
    <2>. QED BY <2>1, <2>2, <2>3, <2>5, <2>6, <2>7, Zenon DEF WalkTypeOK
  <1>15. LevelsRight'
    <2>1. \A d \in 1 .. Depth : saved'[root'][stack'[d].at].level = d - 1
      BY <1>1, <1>9, <1>10, <1>11, <1>12 DEF LevelsRight
    <2>2. saved'[root'][stack'[Depth + 1].at].level = Depth + 1 - 1
      BY <1>3, <1>6, <1>9, <1>10, <1>11
    <2>. QED BY <1>3, <1>11, <2>1, <2>2 DEF LevelsRight
  <1>16. Connected'
    <2>. SUFFICES ASSUME NEW r \in Roots, NEW k \in 1 .. Len(saved'[r])
                  PROVE  IF k = 1
                           THEN saved'[r][k].addr = ttbr[r] /\ saved'[r][k].level = 0
                           ELSE \E m \in 1 .. k - 1 : RefersTo(saved'[r][m], saved'[r][k])
      BY <1>10 DEF Connected
    <2>1. CASE r # root
      BY <1>1, <1>9, <2>1 DEF Connected
    <2>2. CASE r = root /\ k \in 1 .. n
      <3>1. saved'[r][k] = saved[r][k] /\ \A m \in 1 .. k - 1 : saved'[r][m] = saved[r][m]
        BY <1>4, <1>9, <2>2
      <3>2. IF k = 1
              THEN saved[r][k].addr = ttbr[r] /\ saved[r][k].level = 0
              ELSE \E m \in 1 .. k - 1 : RefersTo(saved[r][m], saved[r][k])
        BY <1>1, <2>2 DEF Connected
      <3>. QED BY <3>1, <3>2
    <2>3. CASE r = root /\ k = n + 1
      <3>1. Frame.at \in 1 .. k - 1 /\ k # 1
        BY <1>3, <1>4, <2>3
      <3>2. saved'[r][Frame.at] = Current
        BY <1>3, <1>9, <2>3 DEF Current
      <3>3. RefersTo(Current, saved'[r][k])
        BY <1>4, <1>9, <2>3 DEF RefersTo, Pte
      <3>. QED BY <3>1, <3>2, <3>3
    <2>. QED BY <1>4, <1>9, <2>1, <2>2, <2>3
  <1>17. Accounted'
    <2>. SUFFICES ASSUME NEW r \in Roots, NEW k \in 1 .. Len(saved'[r]), NEW slot \in Slots,
                         saved'[r][k].level < LEVELS - 1, saved'[r][k].data[slot] # NoTable
                  PROVE  Len(saved'[r]) = MAX_TABLES \/ Followed(r, k, slot)' \/ Pending(r, k, slot)'
      BY DEF Accounted
    <2>1. CASE r # root
      <3>1. saved'[r] = saved[r]
        BY <1>9, <2>1
      <3>2. ~ Pending(r, k, slot)
        BY <2>1 DEF Pending
      <3>3. Len(saved[r]) = MAX_TABLES \/ Followed(r, k, slot)
        <4>1. /\ k \in 1 .. Len(saved[r])
              /\ saved[r][k].level < LEVELS - 1 /\ saved[r][k].data[slot] # NoTable
          BY <3>1
        <4>. QED BY <1>1, <3>2, <4>1 DEF Accounted
      <3>. QED BY <3>1, <3>3 DEF Followed
    <2>2. CASE r = root /\ k = n + 1
      <3>1. Depth + 1 \in 1 .. Depth' /\ stack'[Depth + 1].at = k /\ stack'[Depth + 1].next <= slot
        BY <1>3, <1>11, <2>2 DEF Slots
      <3>. QED BY <1>10, <2>2, <3>1 DEF Pending
    <2>3. CASE r = root /\ k \in 1 .. n
      <3>1. saved'[r][k] = saved[r][k]
        BY <1>9, <2>3
      <3>2. Followed(r, k, slot) \/ Pending(r, k, slot)
        BY <1>1, <1>4, <2>3, <3>1 DEF Accounted
      <3>3. CASE Followed(r, k, slot)
        <4>1. PICK m \in 1 .. n : /\ saved[r][m].addr = saved[r][k].data[slot]
                                 /\ saved[r][m].level = saved[r][k].level + 1
          BY <2>3, <3>3 DEF Followed
        <4>2. saved'[r][m] = saved[r][m] /\ m \in 1 .. Len(saved'[r])
          BY <1>4, <1>9, <2>3
        <4>. QED BY <3>1, <4>1, <4>2 DEF Followed
      <3>4. CASE Pending(r, k, slot)
        <4>1. PICK d \in 1 .. Depth : stack[d].at = k /\ stack[d].next <= slot
          BY <3>4 DEF Pending
        <4>2. d \in 1 .. Depth' /\ stack'[d].at = k
          BY <1>3, <1>11, <4>1
        <4>3. CASE d # Depth
          BY <1>10, <1>11, <2>3, <4>1, <4>2, <4>3 DEF Pending
        <4>4. CASE d = Depth /\ slot = Frame.next
          <5>1. saved[r][k].data[slot] = Pte /\ saved[r][k].level = Current.level
            BY <2>3, <4>1, <4>4 DEF Pte, Current, Frame
          <5>2. n + 1 \in 1 .. Len(saved'[r])
            BY <1>4, <1>9, <2>3
          <5>. QED BY <1>9, <2>3, <3>1, <5>1, <5>2 DEF Followed
        <4>5. CASE d = Depth /\ slot # Frame.next
          <5>1. Frame.next + 1 <= slot
            BY <1>4, <4>1, <4>5 DEF Frame, Slots
          <5>. QED BY <1>10, <1>11, <2>3, <4>2, <4>5, <5>1 DEF Pending
        <4>. QED BY <4>3, <4>4, <4>5
      <3>. QED BY <3>2, <3>3, <3>4
    <2>. QED BY <1>4, <1>9, <2>1, <2>2, <2>3
  <1>. QED BY <1>14, <1>15, <1>16, <1>17 DEF WalkInv

\* Going on to the next entry, of an entry that needs no more of it.
LEMMA NextSlotStep ==
  ASSUME WalkInv, Looping, stack' = NextSlot,
         UNCHANGED <<memory, writes, ttbr, root, saved>>,
         Pte = NoTable \/ Len(saved[root]) = MAX_TABLES
  PROVE  WalkInv'
  <1>1. WalkTypeOK /\ LevelsRight /\ Connected /\ Accounted
    BY DEF WalkInv
  <1>2. stack # << >> /\ Current.level < LEVELS - 1 /\ Frame.next < PTRS
    BY DEF Looping
  <1>3. /\ Depth \in Nat \ {0} /\ root \in Roots /\ Frame \in Frames
        /\ Frame.at \in 1 .. Len(saved[root])
    BY <1>1, <1>2, InnermostCall
  <1>4. Frame.next \in Nat
    BY <1>3 DEF Frames
  <1>5. /\ stack' \in Seq(Frames) /\ Depth' = Depth
        /\ \A d \in 1 .. Depth : stack'[d].at = stack[d].at
        /\ \A d \in 1 .. Depth : d # Depth => stack'[d] = stack[d]
        /\ stack'[Depth].next = Frame.next + 1
    BY <1>1, NextSlotFrames DEF Depth
  <1>6. WalkTypeOK'
    <2>1. \A d \in 1 .. Depth' : stack'[d].at <= Len(saved[root])
      BY <1>1, <1>5 DEF WalkTypeOK
    <2>2. root # 2
      BY <1>3 DEF Roots
    <2>. QED BY <1>1, <1>5, <2>1, <2>2 DEF WalkTypeOK, Frames
  <1>7. LevelsRight'
    BY <1>1, <1>5 DEF LevelsRight
  <1>8. Connected'
    BY <1>1 DEF Connected, RefersTo
  <1>9. Accounted'
    <2>. SUFFICES ASSUME NEW r \in Roots, NEW k \in 1 .. Len(saved[r]), NEW slot \in Slots,
                         saved[r][k].level < LEVELS - 1, saved[r][k].data[slot] # NoTable,
                         Len(saved[r]) # MAX_TABLES, Pending(r, k, slot)
                  PROVE  Pending(r, k, slot)'
      BY <1>1 DEF Accounted, Followed
    <2>1. r = root
      BY DEF Pending
    <2>2. PICK d \in 1 .. Depth : stack[d].at = k /\ stack[d].next <= slot
      BY DEF Pending
    <2>3. CASE d # Depth
      BY <1>5, <2>1, <2>2, <2>3 DEF Pending
    <2>4. CASE d = Depth
      <3>1. slot # Frame.next
        BY <2>1, <2>2, <2>4 DEF Pte, Current, Frame
      <3>2. Frame.next + 1 <= slot
        BY <1>4, <2>2, <2>4, <3>1 DEF Frame, Slots
      <3>. QED BY <1>5, <2>1, <2>2, <2>4, <3>2 DEF Pending
    <2>. QED BY <2>3, <2>4
  <1>. QED BY <1>6, <1>7, <1>8, <1>9 DEF WalkInv

\* The return of a call, whose loop has dealt with all entries, if it had one.
LEMMA ReturnStep ==
  ASSUME WalkInv, Return
  PROVE  WalkInv'
  <1>1. WalkTypeOK /\ LevelsRight /\ Connected /\ Accounted
    BY DEF WalkInv
  <1>2. /\ stack # << >> /\ ~ Looping /\ stack' = SubSeq(stack, 1, Depth - 1)
        /\ UNCHANGED <<memory, writes, ttbr, root, saved>>
    BY DEF Return
  <1>3. /\ Depth \in Nat \ {0} /\ root \in Roots /\ Frame \in Frames
        /\ Frame.at \in 1 .. Len(saved[root])
    BY <1>1, <1>2, InnermostCall
  <1>4. stack \in Seq(Frames) /\ \A d \in 1 .. Depth - 1 : stack[d] \in Frames
    <2>1. stack \in Seq(Frames)
      BY <1>1 DEF WalkTypeOK, Frames
    <2>2. \A d \in 1 .. Depth - 1 : d \in 1 .. Len(stack)
      BY <1>3 DEF Depth
    <2>. QED BY <2>1, <2>2, ElementOfSeq
  <1>5. /\ stack' \in Seq(Frames) /\ Depth' = Depth - 1
        /\ \A d \in 1 .. Depth - 1 : stack'[d] = stack[d]
    <2>1. 1 \in Int /\ Depth - 1 \in Int
      BY <1>3
    <2>2. /\ stack' \in Seq(Frames)
          /\ Len(stack') = IF 1 <= Depth - 1 THEN Depth - 1 - 1 + 1 ELSE 0
          /\ \A i \in 1 .. Depth - 1 - 1 + 1 : stack'[i] = stack[1 + i - 1]
      BY <1>2, <1>4, <2>1, SubSeqProperties
    <2>3. Len(stack') = Depth - 1 /\ \A i \in 1 .. Depth - 1 : stack'[i] = stack[i]
      BY <1>3, <2>2
    <2>. QED BY <2>2, <2>3 DEF Depth
  <1>6. \A d \in 1 .. Depth' : d \in 1 .. Depth /\ stack'[d] = stack[d]
    BY <1>3, <1>5
  <1>7. WalkTypeOK'
    <2>1. \A d \in 1 .. Depth' : stack'[d].at <= Len(saved[root])
      BY <1>1, <1>6 DEF WalkTypeOK
    <2>2. Depth' <= LEVELS /\ root # 2
      BY <1>1, <1>3, <1>5 DEF WalkTypeOK, Roots
    <2>. QED BY <1>1, <1>2, <1>5, <2>1, <2>2 DEF WalkTypeOK, Frames
  <1>8. LevelsRight'
    BY <1>1, <1>2, <1>6 DEF LevelsRight
  <1>9. Connected'
    BY <1>1, <1>2 DEF Connected, RefersTo
  <1>10. Accounted'
    <2>. SUFFICES ASSUME NEW r \in Roots, NEW k \in 1 .. Len(saved[r]), NEW slot \in Slots,
                         saved[r][k].level < LEVELS - 1, saved[r][k].data[slot] # NoTable,
                         Pending(r, k, slot)
                  PROVE  Pending(r, k, slot)'
      BY <1>1, <1>2 DEF Accounted, Followed
    <2>1. r = root
      BY DEF Pending
    <2>2. PICK d \in 1 .. Depth : stack[d].at = k /\ stack[d].next <= slot
      BY DEF Pending
    <2>3. d # Depth
      <3>1. SUFFICES ASSUME d = Depth PROVE FALSE
        OBVIOUS
      <3>2. k = Frame.at /\ Frame.next <= slot
        BY <2>2, <3>1 DEF Frame
      <3>3. Frame.next < PTRS
        BY <1>3, <3>2 DEF Slots, Frames
      <3>4. Current.level < LEVELS - 1
        BY <2>1, <3>2 DEF Current
      <3>. QED BY <1>2, <3>3, <3>4 DEF Looping
    <2>4. d \in 1 .. Depth'
      BY <1>3, <1>5, <2>3
    <2>. QED BY <1>2, <1>6, <2>1, <2>2, <2>4 DEF Pending
  <1>. QED BY <1>7, <1>8, <1>9, <1>10 DEF WalkInv

\* The call for the root table of a TTBR.
LEMMA WalkRootStep ==
  ASSUME WalkInv, WalkRoot
  PROVE  WalkInv'
  <1>1. WalkTypeOK /\ LevelsRight /\ Connected /\ Accounted
    BY DEF WalkInv
  <1>2. /\ root \in Roots /\ saved[root] = << >> /\ ttbr[root] # NoTable
        /\ Visit(ttbr[root], 0, << >>)
        /\ memory' = memory /\ writes' = writes /\ ttbr' = ttbr /\ root' = root
    BY DEF WalkRoot
  <1>3. Len(saved[root]) = 0 /\ << >> \in Seq(Frames) /\ Len(<< >>) = 0
    BY <1>2, EmptySeq
  <1>4. ttbr[root] \in Pages /\ 0 \in Levels
    BY <1>1, <1>2 DEF WalkTypeOK, Pointers, Levels
  <1>5. Len(saved[root]) < MAX_TABLES
    BY <1>3
  <1>6. /\ saved' \in [Roots -> Seq(Entry)]
        /\ Len(saved'[root]) = 1
        /\ saved'[root][1].addr = ttbr[root]
        /\ saved'[root][1].level = 0
        /\ \A r \in Roots : r # root => saved'[r] = saved[r]
        /\ stack' \in Seq(Frames)
        /\ Len(stack') = 1
        /\ stack'[1].at = 1
        /\ stack'[1].next = 0
    <2>. DEFINE n == Len(saved[root])
                l == Len(<< >>)
    <2>1. /\ saved' \in [Roots -> Seq(Entry)]
          /\ Len(saved'[root]) = n + 1
          /\ saved'[root][n + 1].addr = ttbr[root]
          /\ saved'[root][n + 1].level = 0
          /\ \A r \in Roots : r # root => saved'[r] = saved[r]
          /\ stack' \in Seq(Frames)
          /\ Len(stack') = l + 1
          /\ stack'[l + 1].at = n + 1
          /\ stack'[l + 1].next = 0
      <3>1. Visited(ttbr[root], 0, << >>)
        BY <1>1, <1>2, <1>3, <1>4, <1>5, VisitSaves
      <3>. QED BY <3>1, Zenon DEF Visited
    <2>2. n + 1 = 1 /\ l + 1 = 1
      BY <1>3
    <2>. QED BY <2>1, <2>2
  <1>7. Depth' = 1 /\ \A d \in 1 .. Depth' : d = 1
    BY <1>6 DEF Depth
  <1>8. WalkTypeOK'
    <2>1. \A r \in Roots : Len(saved'[r]) <= MAX_TABLES
      <3>. TAKE r \in Roots
      <3>1. CASE r = root
        <4>1. Len(saved'[r]) = 1
          BY <1>6, <3>1
        <4>. QED BY <4>1
      <3>2. CASE r # root
        BY <1>1, <1>6, <3>2 DEF WalkTypeOK
      <3>. QED BY <3>1, <3>2
    <2>2. \A d \in 1 .. Depth' : stack'[d].at <= Len(saved'[root'])
      BY <1>2, <1>6, <1>7
    <2>3. Depth' <= LEVELS /\ root # 2
      BY <1>2, <1>7 DEF Roots
    <2>. QED BY <1>1, <1>2, <1>6, <2>1, <2>2, <2>3 DEF WalkTypeOK, Frames
  <1>9. LevelsRight'
    BY <1>2, <1>6, <1>7 DEF LevelsRight
  <1>10. Connected'
    <2>. SUFFICES ASSUME NEW r \in Roots, NEW k \in 1 .. Len(saved'[r])
                  PROVE  IF k = 1
                           THEN saved'[r][k].addr = ttbr[r] /\ saved'[r][k].level = 0
                           ELSE \E m \in 1 .. k - 1 : RefersTo(saved'[r][m], saved'[r][k])
      BY <1>2 DEF Connected
    <2>1. CASE r # root
      BY <1>1, <1>6, <2>1 DEF Connected
    <2>2. CASE r = root
      <3>1. k = 1
        <4>1. Len(saved'[r]) = 1
          BY <1>6, <2>2
        <4>. QED BY <4>1
      <3>. QED BY <1>6, <2>2, <3>1
    <2>. QED BY <2>1, <2>2
  <1>11. Accounted'
    <2>. SUFFICES ASSUME NEW r \in Roots, NEW k \in 1 .. Len(saved'[r]), NEW slot \in Slots,
                         saved'[r][k].level < LEVELS - 1, saved'[r][k].data[slot] # NoTable
                  PROVE  Len(saved'[r]) = MAX_TABLES \/ Followed(r, k, slot)' \/ Pending(r, k, slot)'
      BY DEF Accounted
    <2>1. CASE r # root
      <3>1. saved'[r] = saved[r]
        BY <1>6, <2>1
      <3>2. ~ Pending(r, k, slot)
        BY <2>1 DEF Pending
      <3>3. /\ k \in 1 .. Len(saved[r])
            /\ saved[r][k].level < LEVELS - 1 /\ saved[r][k].data[slot] # NoTable
        BY <3>1
      <3>4. Len(saved[r]) = MAX_TABLES \/ Followed(r, k, slot)
        BY <1>1, <3>2, <3>3 DEF Accounted
      <3>. QED BY <3>1, <3>4 DEF Followed
    <2>2. CASE r = root
      <3>1. k = 1
        <4>1. Len(saved'[r]) = 1
          BY <1>6, <2>2
        <4>. QED BY <4>1
      <3>2. 1 \in 1 .. Depth' /\ stack'[1].at = k /\ stack'[1].next <= slot
        BY <1>6, <1>7, <3>1 DEF Slots
      <3>. QED BY <1>2, <2>2, <3>2 DEF Pending
    <2>. QED BY <2>1, <2>2
  <1>. QED BY <1>8, <1>9, <1>10, <1>11 DEF WalkInv

\* The end of one TTBR's walk: nothing is pending.
LEMMA RootDoneStep ==
  ASSUME WalkInv, RootDone
  PROVE  WalkInv'
  <1>1. WalkTypeOK /\ LevelsRight /\ Connected /\ Accounted
    BY DEF WalkInv
  <1>2. /\ root \in Roots /\ stack = << >> /\ root' = root + 1
        /\ memory' = memory /\ writes' = writes /\ ttbr' = ttbr /\ saved' = saved /\ stack' = stack
    BY DEF RootDone
  <1>3. Depth = 0 /\ Depth' = 0 /\ 1 .. Depth = {} /\ 1 .. Depth' = {}
    <2>1. Len(stack) = 0 /\ Len(stack') = 0
      BY <1>2, EmptySeq
    <2>. QED BY <2>1 DEF Depth
  <1>4. WalkTypeOK'
    <2>1. root' \in 0 .. 2
      BY <1>2 DEF Roots
    <2>. QED BY <1>1, <1>2, <1>3, <2>1 DEF WalkTypeOK
  <1>5. LevelsRight' /\ Connected'
    BY <1>1, <1>2, <1>3 DEF LevelsRight, Connected, RefersTo
  <1>6. Accounted'
    BY <1>1, <1>2, <1>3 DEF Accounted, Followed, Pending
  <1>. QED BY <1>4, <1>5, <1>6 DEF WalkInv

\* The guest's writes only change the memory.
LEMMA GuestWritesStep ==
  ASSUME WalkInv, GuestWrites
  PROVE  WalkInv'
  <1>1. WalkTypeOK /\ LevelsRight /\ Connected /\ Accounted
    BY DEF WalkInv
  <1>2. /\ ttbr' = ttbr /\ root' = root /\ saved' = saved /\ stack' = stack
        /\ writes < MaxWrites /\ writes' = writes + 1
    BY DEF GuestWrites, walkVars
  <1>3. memory' \in [Pages -> [Slots -> Pointers]]
    <2>1. memory \in [Pages -> [Slots -> Pointers]]
      BY <1>1 DEF WalkTypeOK
    <2>2. PICK page \in Pages, slot \in Slots, to \in Pointers :
            memory' = [memory EXCEPT ![page][slot] = to]
      BY DEF GuestWrites
    <2>. QED BY <2>1, <2>2
  <1>4. Depth' = Depth
    BY <1>2 DEF Depth
  <1>5. WalkTypeOK'
    <2>1. writes' \in 0 .. MaxWrites
      BY <1>1, <1>2 DEF WalkTypeOK
    <2>. QED BY <1>1, <1>2, <1>3, <1>4, <2>1 DEF WalkTypeOK
  <1>6. LevelsRight' /\ Connected' /\ Accounted'
    BY <1>1, <1>2, <1>4 DEF LevelsRight, Connected, RefersTo, Accounted, Followed, Pending
  <1>. QED BY <1>5, <1>6 DEF WalkInv

-----------------------------------------------------------------------------
(* The theorems                                                                *)

\* Every step keeps the invariant.
LEMMA WalkStep == WalkInv /\ [Next]_vars => WalkInv'
  <1>. SUFFICES ASSUME WalkInv, [Next]_vars PROVE WalkInv'
    OBVIOUS
  <1>1. CASE Descend
    BY <1>1, DescendStep
  <1>2. CASE AtLimit
    <2>1. Len(saved[root]) = MAX_TABLES
      <3>1. WalkTypeOK /\ LevelsRight /\ stack # << >>
        BY <1>2 DEF AtLimit, Looping, WalkInv
      <3>2. root \in Roots
        BY <3>1, InnermostCall
      <3>3. Len(saved[root]) \in Nat /\ Len(saved[root]) <= MAX_TABLES
        BY <3>1, <3>2 DEF WalkTypeOK
      <3>. QED BY <1>2, <3>3 DEF AtLimit
    <2>. QED BY <1>2, <2>1, NextSlotStep DEF AtLimit
  <1>3. CASE NotATable
    BY <1>3, NextSlotStep DEF NotATable
  <1>4. CASE Return
    BY <1>4, ReturnStep
  <1>5. CASE WalkRoot
    BY <1>5, WalkRootStep
  <1>6. CASE RootDone
    BY <1>6, RootDoneStep
  <1>7. CASE GuestWrites
    BY <1>7, GuestWritesStep
  <1>8. CASE UNCHANGED vars
    BY <1>8 DEF vars, walkVars, WalkInv, WalkTypeOK, LevelsRight, Connected, RefersTo,
                Accounted, Followed, Pending, Depth
  <1>. QED BY <1>1, <1>2, <1>3, <1>4, <1>5, <1>6, <1>7, <1>8 DEF Next, Walk

\* The invariant holds throughout.
LEMMA WalkInvariance == Spec => []WalkInv
  BY WalkInit, WalkStep, PTL DEF Spec

\* The walk stays within its arrays of MAX_PAGE_TABLES entries and within the
\* levels, whatever the tables hold and however they change meanwhile.
THEOREM WalkTypeCorrect == Spec => []WalkTypeOK
  <1>1. WalkInv => WalkTypeOK
    BY DEF WalkInv
  <1>. QED BY <1>1, WalkInvariance, PTL

\* What is saved can be followed from the root, for any guest that goes on
\* rewriting its tables.
THEOREM SavedConnected == Spec => []Connected
  <1>1. WalkInv => Connected
    BY DEF WalkInv
  <1>. QED BY <1>1, WalkInvariance, PTL

\* Unless the limit cut the walk off, no saved entry points out of what is saved.
THEOREM SavedClosed == Spec => []NothingDangles
  <1>1. WalkInv => NothingDangles
    <2>. SUFFICES ASSUME WalkInv, NEW r \in Roots, r < root, Len(saved[r]) < MAX_TABLES,
                         NEW k \in 1 .. Len(saved[r]), NEW slot \in Slots,
                         saved[r][k].level < LEVELS - 1, saved[r][k].data[slot] # NoTable
                  PROVE  \E f \in {saved[r][m] : m \in 1 .. Len(saved[r])} :
                           f.addr = saved[r][k].data[slot] /\ f.level = saved[r][k].level + 1
      BY DEF NothingDangles
    <2>1. Len(saved[r]) \in Nat /\ Len(saved[r]) # MAX_TABLES /\ r # root
      BY DEF WalkInv, WalkTypeOK, Roots
    <2>2. Followed(r, k, slot)
      BY <2>1 DEF WalkInv, Accounted, Pending
    <2>. QED BY <2>2 DEF Followed
  <1>. QED BY <1>1, WalkInvariance, PTL

-----------------------------------------------------------------------------
(* The whole tree                                                              *)

\* While no guest writes, what was saved of a table is what memory holds of it.
AtRest ==
  writes = 0 =>
    \A r \in Roots : \A k \in 1 .. Len(saved[r]) :
      saved[r][k].data = memory[saved[r][k].addr]

\* A TTBR the walk has passed has its root table saved, or is 0.
RootsSaved == \A r \in Roots : r < root => saved[r] # << >> \/ ttbr[r] = NoTable

TreeInv == WalkInv /\ AtRest /\ RootsSaved

LEMMA TreeInit == Init => TreeInv
  <1>. SUFFICES ASSUME Init PROVE AtRest /\ RootsSaved
    BY WalkInit DEF TreeInv
  <1>1. \A r \in Roots : Len(saved[r]) = 0
    BY EmptySeq DEF Init
  <1>2. AtRest
    BY <1>1 DEF AtRest
  <1>3. RootsSaved
    BY DEF Init, RootsSaved, Roots
  <1>. QED BY <1>2, <1>3

\* Saving one more table, as it is in memory, keeps the copies true.
LEMMA VisitRests ==
  ASSUME TreeInv, root \in Roots, Len(saved[root]) < MAX_TABLES,
         NEW page \in Pages, NEW level \in Levels, NEW callers \in Seq(Frames),
         Visit(page, level, callers),
         UNCHANGED <<memory, writes, ttbr, root>>
  PROVE  AtRest' /\ RootsSaved'
  <1>. DEFINE n == Len(saved[root])
  <1>1. WalkTypeOK
    BY DEF TreeInv, WalkInv
  <1>2. /\ Len(saved'[root]) = n + 1
        /\ \A k \in 1 .. n : saved'[root][k] = saved[root][k]
        /\ saved'[root][n + 1].addr = page
        /\ saved'[root][n + 1].data = memory[page]
        /\ \A r \in Roots : r # root => saved'[r] = saved[r]
    BY <1>1, VisitSaves DEF Visited
  <1>3. n \in Nat
    BY <1>1 DEF WalkTypeOK
  <1>4. AtRest'
    <2>. SUFFICES ASSUME writes = 0, NEW r \in Roots, NEW k \in 1 .. Len(saved'[r])
                  PROVE  saved'[r][k].data = memory[saved'[r][k].addr]
      BY DEF AtRest
    <2>1. CASE r # root
      <3>1. saved'[r] = saved[r] /\ k \in 1 .. Len(saved[r])
        BY <1>2, <2>1
      <3>. QED BY <3>1 DEF TreeInv, AtRest
    <2>2. CASE r = root /\ k \in 1 .. n
      <3>1. saved'[r][k] = saved[r][k]
        BY <1>2, <2>2
      <3>. QED BY <2>2, <3>1 DEF TreeInv, AtRest
    <2>3. CASE r = root /\ k = n + 1
      BY <1>2, <2>3
    <2>. QED BY <1>2, <1>3, <2>1, <2>2, <2>3
  <1>5. RootsSaved'
    <2>1. \A r \in Roots : r < root => saved'[r] = saved[r]
      BY <1>2 DEF Roots
    <2>. QED BY <2>1 DEF TreeInv, RootsSaved
  <1>. QED BY <1>4, <1>5

LEMMA TreeStep == TreeInv /\ [Next]_vars => TreeInv'
  <1>. SUFFICES ASSUME TreeInv, [Next]_vars PROVE AtRest' /\ RootsSaved'
    BY WalkStep DEF TreeInv
  <1>1. WalkTypeOK /\ LevelsRight /\ AtRest /\ RootsSaved
    BY DEF TreeInv, WalkInv
  <1>2. ASSUME UNCHANGED <<memory, writes, ttbr, root, saved>> PROVE AtRest' /\ RootsSaved'
    BY <1>1, <1>2 DEF AtRest, RootsSaved
  <1>3. CASE Descend
    <2>1. Looping /\ stack # << >> /\ Current.level < LEVELS - 1 /\ Frame.next < PTRS
      BY <1>3 DEF Looping, Descend
    <2>2. /\ root \in Roots /\ Frame \in Frames /\ Current \in Entry
          /\ Current.level = Depth - 1 /\ Depth \in Nat \ {0}
      BY <1>1, <2>1, InnermostCall
    <2>3. Frame.next \in Slots
      BY <2>1, <2>2 DEF Slots, Frames
    <2>4. Pte \in Pages
      BY <1>3, <2>2, <2>3 DEF Pte, Entry, Pointers, Descend
    <2>5. Current.level + 1 \in Levels
      BY <2>1, <2>2 DEF Levels
    <2>6. NextSlot \in Seq(Frames)
      BY <1>1, <2>1, NextSlotFrames
    <2>. QED BY <1>3, <2>2, <2>4, <2>5, <2>6, VisitRests DEF Descend
  <1>4. CASE WalkRoot
    <2>1. /\ root \in Roots /\ saved[root] = << >> /\ ttbr[root] # NoTable
          /\ Visit(ttbr[root], 0, << >>) /\ UNCHANGED <<memory, writes, ttbr, root>>
      BY <1>4 DEF WalkRoot
    <2>2. Len(saved[root]) = 0 /\ << >> \in Seq(Frames)
      BY <2>1, EmptySeq
    <2>3. ttbr[root] \in Pages /\ 0 \in Levels
      BY <1>1, <2>1 DEF WalkTypeOK, Pointers, Levels
    <2>4. Len(saved[root]) < MAX_TABLES
      BY <2>2
    <2>. QED BY <2>1, <2>2, <2>3, <2>4, VisitRests
  <1>5. CASE RootDone
    <2>1. /\ root \in Roots /\ root' = root + 1
          /\ UNCHANGED <<memory, writes, ttbr, saved>>
          /\ saved[root] # << >> \/ ttbr[root] = NoTable
      BY <1>5 DEF RootDone
    <2>2. \A r \in Roots : r < root' => r < root \/ r = root
      BY <2>1 DEF Roots
    <2>. QED BY <1>1, <2>1, <2>2 DEF AtRest, RootsSaved
  <1>6. CASE GuestWrites
    <2>1. UNCHANGED <<ttbr, root, saved>> /\ writes' = writes + 1
      BY <1>6 DEF GuestWrites, walkVars
    <2>2. writes' # 0
      BY <1>1, <2>1 DEF WalkTypeOK
    <2>. QED BY <1>1, <2>1, <2>2 DEF AtRest, RootsSaved
  <1>7. CASE AtLimit
    BY <1>2, <1>7 DEF AtLimit
  <1>8. CASE NotATable
    BY <1>2, <1>8 DEF NotATable
  <1>9. CASE Return
    BY <1>2, <1>9 DEF Return
  <1>10. CASE UNCHANGED vars
    BY <1>2, <1>10 DEF vars, walkVars
  <1>. QED BY <1>3, <1>4, <1>5, <1>6, <1>7, <1>8, <1>9, <1>10 DEF Next, Walk

\* A set that holds 0, and with each number the next one, holds all of them.
LEMMA UpFromZero ==
  ASSUME NEW S, 0 \in S, \A n \in Nat : n \in S => n + 1 \in S
  PROVE  Nat \subseteq S
  <1>. DEFINE T == Nat \ S
              R == OpToRel(<, Nat)
  <1>1. SUFFICES ASSUME T # {} PROVE FALSE
    OBVIOUS
  <1>2. IsWellFoundedOn(R, Nat)
    BY NatLessThanWellFounded
  <1>3. \A x, y \in Nat : y < x => <<y, x>> \in R
    BY DEF OpToRel
  <1>. HIDE DEF R
  <1>4. PICK x \in T : \A y \in T : ~ (<<y, x>> \in R)
    BY <1>1, <1>2, WFMin
  <1>5. x \in Nat /\ x # 0 /\ x \notin S
    BY <1>4
  <1>6. x - 1 \in Nat /\ x - 1 + 1 = x /\ x - 1 < x
    BY <1>5
  <1>7. x - 1 \in S
    BY <1>3, <1>4, <1>5, <1>6
  <1>. QED BY <1>5, <1>6, <1>7

\* A function given level by level, each by the one above it, exists up to any level.
LEMMA LevelsFunction ==
  ASSUME NEW first
  PROVE  \A n \in Nat : \E f : f = [h \in 0 .. n |-> IF h = 0 THEN first ELSE PointedTo(f[h - 1])]
  <1>. DEFINE Rec(n, f) == f = [h \in 0 .. n |-> IF h = 0 THEN first ELSE PointedTo(f[h - 1])]
              S == {n \in Nat : \E f : Rec(n, f)}
  <1>1. 0 \in S
    <2>. DEFINE f == [h \in 0 .. 0 |-> first]
    <2>1. Rec(0, f)
      OBVIOUS
    <2>. QED BY <2>1
  <1>2. \A n \in Nat : n \in S => n + 1 \in S
    <2>. SUFFICES ASSUME NEW n \in Nat, NEW f, Rec(n, f) PROVE \E g : Rec(n + 1, g)
      OBVIOUS
    <2>. DEFINE g == [h \in 0 .. n + 1 |-> IF h = 0 THEN first ELSE PointedTo(f[h - 1])]
    <2>1. ASSUME NEW h \in 0 .. n + 1, h # 0 PROVE g[h - 1] = f[h - 1]
      <3>1. h - 1 \in 0 .. n /\ h - 1 \in 0 .. n + 1
        BY <2>1
      <3>. QED BY <3>1
    <2>2. \A h \in 0 .. n + 1 : (IF h = 0 THEN first ELSE PointedTo(f[h - 1])) = (IF h = 0 THEN first ELSE PointedTo(g[h - 1]))
      BY <2>1, Zenon
    <2>3. Rec(n + 1, g)
      BY <2>2, Zenon
    <2>. QED BY <2>3
  <1>. HIDE DEF S
  <1>3. Nat \subseteq S
    BY <1>1, <1>2, UpFromZero
  <1>. QED BY <1>3 DEF S

\* What a walk of hops steps reaches: the root, then what the level before points to.
LEMMA ReachedLevels ==
  ASSUME NEW r \in Roots
  PROVE  /\ Reached(r)[0] = {ttbr[r]} \ {NoTable}
         /\ \A h \in Levels : h # 0 => Reached(r)[h] = PointedTo(Reached(r)[h - 1])
  <1>1. \E f : f = [h \in Levels |-> IF h = 0 THEN {ttbr[r]} \ {NoTable} ELSE PointedTo(f[h - 1])]
    <2>. DEFINE first == {ttbr[r]} \ {NoTable}
                last == LEVELS - 1
    <2>1. last \in Nat
      BY WalkAssumption
    <2>. HIDE DEF first, last
    <2>2. \A n \in Nat :
            \E f : f = [h \in 0 .. n |-> IF h = 0 THEN first ELSE PointedTo(f[h - 1])]
      BY LevelsFunction
    <2>3. \E f : f = [h \in 0 .. last |-> IF h = 0 THEN first ELSE PointedTo(f[h - 1])]
      BY <2>1, <2>2
    <2>. QED BY <2>3 DEF Levels, first, last
  <1>2. Reached(r)
          = CHOOSE f : f = [h \in Levels |-> IF h = 0 THEN {ttbr[r]} \ {NoTable} ELSE PointedTo(f[h - 1])]
    BY Zenon DEF Reached
  <1>3. Reached(r)
          = [h \in Levels |-> IF h = 0 THEN {ttbr[r]} \ {NoTable} ELSE PointedTo(Reached(r)[h - 1])]
    BY <1>1, <1>2, Zenon
  <1>4. 0 \in Levels
    BY WalkAssumption DEF Levels
  <1>. QED BY <1>3, <1>4

\* What is saved at the first level is the root table, when there is one.
LEMMA RootLevel ==
  ASSUME TreeInv, Finished, NEW r \in Roots
  PROVE  SavedAt(r, 0) = {ttbr[r]} \ {NoTable}
  <1>1. saved[r] \in Seq(Entry) /\ Len(saved[r]) \in Nat /\ Connected
    BY DEF TreeInv, WalkInv, WalkTypeOK
  <1>2. \A k \in 1 .. Len(saved[r]) : saved[r][k].addr \in Pages /\ saved[r][k].level \in Nat
    <2>1. \A e \in Entry : e.addr \in Pages /\ e.level \in Nat
      BY DEF Entry, Levels
    <2>2. \A k \in 1 .. Len(saved[r]) : saved[r][k] \in Entry
      BY <1>1, ElementOfSeq
    <2>. QED BY <2>1, <2>2
  <1>3. ASSUME NEW k \in 1 .. Len(saved[r]), saved[r][k].level = 0
        PROVE  k = 1
    <2>. SUFFICES ASSUME k # 1 PROVE FALSE
      OBVIOUS
    <2>1. PICK m \in 1 .. k - 1 : RefersTo(saved[r][m], saved[r][k])
      BY <1>1 DEF Connected
    <2>2. saved[r][m].level \in Nat
      BY <1>1, <1>2
    <2>. QED BY <1>3, <2>1, <2>2 DEF RefersTo
  <1>4. CASE saved[r] = << >>
    <2>1. Len(saved[r]) = 0
      BY <1>4, EmptySeq
    <2>2. ttbr[r] = NoTable
      BY <1>4 DEF TreeInv, RootsSaved, Finished, Roots
    <2>. QED BY <2>1, <2>2 DEF SavedAt
  <1>5. CASE saved[r] # << >>
    <2>1. 1 \in 1 .. Len(saved[r])
      BY <1>1, <1>5, EmptySeq
    <2>2. saved[r][1].addr = ttbr[r] /\ saved[r][1].level = 0
      BY <1>1, <2>1 DEF Connected
    <2>3. ttbr[r] # NoTable
      BY <1>2, <2>1, <2>2
    <2>. QED BY <1>3, <2>1, <2>2, <2>3 DEF SavedAt
  <1>. QED BY <1>4, <1>5

\* What is saved at a level is what the tables saved one level up point to.
LEMMA LevelBelow ==
  ASSUME TreeInv, Finished, writes = 0,
         NEW r \in Roots, Len(saved[r]) < MAX_TABLES,
         NEW h \in Levels, h + 1 \in Levels
  PROVE  SavedAt(r, h + 1) = PointedTo(SavedAt(r, h))
  <1>1. /\ saved[r] \in Seq(Entry) /\ Len(saved[r]) \in Nat
        /\ Connected /\ Accounted /\ AtRest /\ root = 2
    BY DEF TreeInv, WalkInv, WalkTypeOK, Finished
  <1>2. \A k \in 1 .. Len(saved[r]) :
          /\ saved[r][k].addr \in Pages /\ saved[r][k].level \in Nat
          /\ saved[r][k].data = memory[saved[r][k].addr]
    <2>1. \A e \in Entry : e.addr \in Pages /\ e.level \in Nat
      BY DEF Entry, Levels
    <2>2. \A k \in 1 .. Len(saved[r]) : saved[r][k] \in Entry
      BY <1>1, ElementOfSeq
    <2>. QED BY <1>1, <2>1, <2>2 DEF AtRest
  <1>3. h \in Nat /\ h < LEVELS - 1
    BY DEF Levels
  <1>4. ASSUME NEW x \in SavedAt(r, h + 1)
        PROVE  x \in PointedTo(SavedAt(r, h))
    <2>1. PICK k \in 1 .. Len(saved[r]) : saved[r][k].level = h + 1 /\ x = saved[r][k].addr
      BY DEF SavedAt
    <2>2. k # 1
      BY <1>1, <1>3, <2>1 DEF Connected
    <2>3. PICK m \in 1 .. k - 1 : RefersTo(saved[r][m], saved[r][k])
      BY <1>1, <2>2 DEF Connected
    <2>4. PICK slot \in Slots : saved[r][m].data[slot] = x
      BY <2>1, <2>3 DEF RefersTo
    <2>5. m \in 1 .. Len(saved[r]) /\ saved[r][m].level = h
      <3>1. m \in 1 .. Len(saved[r])
        BY <1>1
      <3>. QED BY <1>2, <1>3, <2>1, <2>3, <3>1 DEF RefersTo
    <2>6. saved[r][m].addr \in SavedAt(r, h) /\ x = memory[saved[r][m].addr][slot]
      BY <1>2, <2>4, <2>5 DEF SavedAt
    <2>7. x # NoTable
      BY <1>2, <2>1
    <2>. QED BY <2>6, <2>7 DEF PointedTo
  <1>5. ASSUME NEW x \in PointedTo(SavedAt(r, h))
        PROVE  x \in SavedAt(r, h + 1)
    <2>1. PICK page \in SavedAt(r, h), slot \in Slots : x = memory[page][slot] /\ x # NoTable
      BY DEF PointedTo
    <2>2. PICK k \in 1 .. Len(saved[r]) : saved[r][k].level = h /\ page = saved[r][k].addr
      BY DEF SavedAt
    <2>3. saved[r][k].data[slot] = x
      BY <1>2, <2>1, <2>2
    <2>4. Followed(r, k, slot)
      <3>1. ~ Pending(r, k, slot)
        BY <1>1 DEF Pending, Roots
      <3>2. Len(saved[r]) # MAX_TABLES
        BY <1>1
      <3>3. saved[r][k].level < LEVELS - 1 /\ saved[r][k].data[slot] # NoTable
        BY <1>3, <2>1, <2>2, <2>3
      <3>. QED BY <1>1, <3>1, <3>2, <3>3 DEF Accounted
    <2>. QED BY <2>2, <2>3, <2>4 DEF Followed, SavedAt
  <1>. QED BY <1>4, <1>5

\* A guest at rest whose walk is not cut off finds its whole translation tree in
\* the file, level by level, and nothing else: however many levels there are, and
\* whatever the tables point to, themselves and each other included.
THEOREM SavesWholeTree == Spec => []WholeTree
  <1>1. TreeInv => WholeTree
    <2>. SUFFICES ASSUME TreeInv, Finished, writes = 0,
                         NEW r \in Roots, Len(saved[r]) < MAX_TABLES
                  PROVE  \A level \in Levels : SavedAt(r, level) = Reached(r)[level]
      BY DEF WholeTree
    <2>. DEFINE S == {level \in Nat : level \in Levels => SavedAt(r, level) = Reached(r)[level]}
    <2>1. 0 \in S
      BY RootLevel, ReachedLevels
    <2>2. \A h \in Nat : h \in S => h + 1 \in S
      <3>. SUFFICES ASSUME NEW h \in S, h + 1 \in Levels
                    PROVE  SavedAt(r, h + 1) = Reached(r)[h + 1]
        OBVIOUS
      <3>1. h \in Nat /\ h \in Levels /\ h + 1 # 0 /\ h + 1 - 1 = h
        BY DEF Levels
      <3>2. SavedAt(r, h) = Reached(r)[h]
        BY <3>1
      <3>3. Reached(r)[h + 1] = PointedTo(Reached(r)[h])
        BY <3>1, ReachedLevels
      <3>. QED BY <3>1, <3>2, <3>3, LevelBelow
    <2>. HIDE DEF S
    <2>3. Nat \subseteq S
      BY <2>1, <2>2, UpFromZero
    <2>4. \A level \in Levels : level \in Nat
      BY DEF Levels
    <2>. QED BY <2>3, <2>4 DEF S
  <1>. QED BY <1>1, TreeInit, TreeStep, PTL DEF Spec


-----------------------------------------------------------------------------
(* The end of the walk                                                         *)

\* The places for tables that are left, and one for the end of each TTBR's walk.
PlacesLeft ==
  IF root = 0 THEN (MAX_TABLES + 1 - Len(saved[0])) + (MAX_TABLES + 1 - Len(saved[1]))
  ELSE IF root = 1 THEN MAX_TABLES + 1 - Len(saved[1])
  ELSE 0

\* The turns that are left in the loop of the innermost call.
TurnsLeft == IF stack = << >> THEN 0 ELSE PTRS - Frame.next

\* Places, depth and turns as the digits of one number, places in front.
WorkLeft == (PlacesLeft * (LEVELS + 1) + Depth) * (PTRS + 1) + TurnsLeft

\* A smaller digit in front makes the number smaller, whatever comes behind it.
LEMMA FrontDigit ==
  ASSUME NEW a \in Nat, NEW b \in Nat, a < b, NEW base \in Nat,
         NEW x \in 0 .. base, NEW y \in Nat
  PROVE  a * (base + 1) + x < b * (base + 1) + y
  <1>. DEFINE k == b - a - 1
  <1>1. k \in Nat /\ b = a + k + 1
    OBVIOUS
  <1>. HIDE DEF k
  <1>2. b * (base + 1) = a * (base + 1) + k * (base + 1) + (base + 1)
    BY <1>1
  <1>3. k * (base + 1) \in Nat /\ a * (base + 1) \in Nat /\ b * (base + 1) \in Nat
    BY <1>1
  <1>. QED BY <1>2, <1>3

Digits == PlacesLeft \in Nat /\ Depth \in 0 .. LEVELS /\ TurnsLeft \in 0 .. PTRS

LEMMA DigitsAre == WalkInv => Digits
  <1>. SUFFICES ASSUME WalkInv PROVE Digits
    OBVIOUS
  <1>1. WalkTypeOK /\ LevelsRight
    BY DEF WalkInv
  <1>2. Depth \in 0 .. LEVELS
    <2>1. stack \in Seq(Frames)
      BY <1>1 DEF WalkTypeOK, Frames
    <2>2. Len(stack) \in Nat
      BY <2>1
    <2>. QED BY <1>1, <2>2 DEF Depth, WalkTypeOK
  <1>3. TurnsLeft \in 0 .. PTRS
    <2>1. CASE stack # << >>
      BY <1>1, <2>1, InnermostCall DEF TurnsLeft, Frames
    <2>. QED BY <2>1 DEF TurnsLeft
  <1>4. PlacesLeft \in Nat
    <2>. DEFINE m == Len(saved[0])
                n == Len(saved[1])
    <2>1. m \in 0 .. MAX_TABLES /\ n \in 0 .. MAX_TABLES
      BY <1>1 DEF WalkTypeOK, Roots
    <2>2. PlacesLeft \in {(MAX_TABLES + 1 - m) + (MAX_TABLES + 1 - n), MAX_TABLES + 1 - n, 0}
      BY DEF PlacesLeft
    <2>. HIDE DEF m, n
    <2>. QED BY <2>1, <2>2
  <1>. QED BY <1>2, <1>3, <1>4 DEF Digits

\* A table that is saved takes a place.
LEMMA SavingTakesPlace ==
  ASSUME WalkInv, root \in Roots, root' = root,
         Len(saved'[root]) = Len(saved[root]) + 1,
         \A r \in Roots : r # root => saved'[r] = saved[r]
  PROVE  PlacesLeft' < PlacesLeft
  <1>. DEFINE m == Len(saved[0])
              n == Len(saved[1])
  <1>1. m \in 0 .. MAX_TABLES /\ n \in 0 .. MAX_TABLES
    BY DEF WalkInv, WalkTypeOK, Roots
  <1>2. CASE root = 0
    <2>1. Len(saved'[0]) = m + 1 /\ saved'[1] = saved[1]
      BY <1>2 DEF Roots
    <2>2. /\ PlacesLeft = (MAX_TABLES + 1 - m) + (MAX_TABLES + 1 - n)
          /\ PlacesLeft' = (MAX_TABLES + 1 - (m + 1)) + (MAX_TABLES + 1 - n)
      BY <1>2, <2>1 DEF PlacesLeft
    <2>. HIDE DEF m, n
    <2>. QED BY <1>1, <2>2
  <1>3. CASE root = 1
    <2>1. Len(saved'[1]) = n + 1
      BY <1>3
    <2>2. PlacesLeft = MAX_TABLES + 1 - n /\ PlacesLeft' = MAX_TABLES + 1 - (n + 1)
      BY <1>3, <2>1 DEF PlacesLeft
    <2>. HIDE DEF m, n
    <2>. QED BY <1>1, <2>2
  <1>. QED BY <1>2, <1>3 DEF Roots

LEMMA NatDigits ==
  ASSUME NEW a \in Nat, NEW base \in Nat, NEW x \in Nat
  PROVE  a * (base + 1) \in Nat /\ a * (base + 1) + x \in Nat
  OBVIOUS

\* The same of two digits: the first that changes decides.
LEMMA TwoDigits ==
  ASSUME NEW a \in Nat, NEW b \in Nat, NEW base \in Nat,
         NEW x \in 0 .. base, NEW y \in 0 .. base,
         a < b \/ (a = b /\ x < y)
  PROVE  /\ a * (base + 1) + x \in Nat /\ b * (base + 1) + y \in Nat
         /\ a * (base + 1) + x < b * (base + 1) + y
  <1>1. /\ a * (base + 1) \in Nat /\ a * (base + 1) + x \in Nat
        /\ b * (base + 1) \in Nat /\ b * (base + 1) + y \in Nat
    BY NatDigits
  <1>2. CASE a < b
    BY <1>1, <1>2, FrontDigit
  <1>3. CASE a = b /\ x < y
    BY <1>1, <1>3
  <1>. QED BY <1>1, <1>2, <1>3

\* A step makes the first of the digits that it changes smaller.
LEMMA FewerDigits ==
  ASSUME Digits, Digits',
         \/ PlacesLeft' < PlacesLeft
         \/ PlacesLeft' = PlacesLeft /\ Depth' < Depth
         \/ PlacesLeft' = PlacesLeft /\ Depth' = Depth /\ TurnsLeft' < TurnsLeft
  PROVE  WorkLeft' < WorkLeft
  <1>. DEFINE front == PlacesLeft * (LEVELS + 1) + Depth
              after == PlacesLeft' * (LEVELS + 1) + Depth'
  <1>1. LEVELS \in Nat /\ PTRS \in Nat
    OBVIOUS
  <1>2. /\ PlacesLeft \in Nat /\ Depth \in 0 .. LEVELS /\ Depth \in Nat
        /\ PlacesLeft' \in Nat /\ Depth' \in 0 .. LEVELS /\ Depth' \in Nat
        /\ TurnsLeft \in 0 .. PTRS /\ TurnsLeft' \in 0 .. PTRS
    BY DEF Digits
  <1>3. front \in Nat /\ after \in Nat
    BY <1>1, <1>2, NatDigits, Zenon
  <1>4. after < front \/ (after = front /\ TurnsLeft' < TurnsLeft)
    <2>1. CASE PlacesLeft' < PlacesLeft \/ (PlacesLeft' = PlacesLeft /\ Depth' < Depth)
      <3>1. after < front
        BY <1>1, <1>2, <2>1, TwoDigits, Zenon
      <3>. QED BY <3>1
    <2>2. CASE PlacesLeft' = PlacesLeft /\ Depth' = Depth /\ TurnsLeft' < TurnsLeft
      <3>1. after = front
        BY <2>2
      <3>. QED BY <2>2, <3>1
    <2>. QED BY <2>1, <2>2, Zenon
  <1>5. WorkLeft = front * (PTRS + 1) + TurnsLeft /\ WorkLeft' = after * (PTRS + 1) + TurnsLeft'
    BY DEF WorkLeft
  <1>. HIDE DEF front, after
  <1>. QED BY <1>1, <1>2, <1>3, <1>4, <1>5, TwoDigits, Zenon

LEMMA WalkWorks == WalkInv /\ Digits /\ Digits' /\ Walk => WorkLeft' < WorkLeft
  <1>. SUFFICES ASSUME WalkInv, Digits, Digits', Walk PROVE WorkLeft' < WorkLeft
    OBVIOUS
  <1>1. WalkTypeOK /\ LevelsRight
    BY DEF WalkInv
  <1>2. saved \in [Roots -> Seq(Entry)]
    BY <1>1 DEF WalkTypeOK
  <1>3. CASE Descend
    <2>1. root \in Roots
      BY <1>1, <1>3, InnermostCall DEF Descend, Looping
    <2>2. PICK entry : saved' = [saved EXCEPT ![root] = Append(@, entry)]
      BY <1>3 DEF Descend, Visit
    <2>3. Len(saved'[root]) = Len(saved[root]) + 1
          /\ \A r \in Roots : r # root => saved'[r] = saved[r]
      BY <1>2, <2>1, <2>2
    <2>4. root' = root
      BY <1>3 DEF Descend
    <2>. QED BY <2>1, <2>3, <2>4, SavingTakesPlace, FewerDigits
  <1>4. CASE WalkRoot
    <2>1. root \in Roots /\ root' = root
      BY <1>4 DEF WalkRoot
    <2>2. PICK entry : saved' = [saved EXCEPT ![root] = Append(@, entry)]
      BY <1>4 DEF WalkRoot, Visit
    <2>3. Len(saved'[root]) = Len(saved[root]) + 1
          /\ \A r \in Roots : r # root => saved'[r] = saved[r]
      BY <1>2, <2>1, <2>2
    <2>. QED BY <2>1, <2>3, SavingTakesPlace, FewerDigits
  <1>5. CASE AtLimit \/ NotATable
    <2>1. Looping /\ stack' = NextSlot /\ UNCHANGED <<root, saved>>
      BY <1>5 DEF AtLimit, NotATable
    <2>2. stack # << >> /\ Depth \in Nat \ {0} /\ Frame \in Frames /\ Frame.next < PTRS
      BY <1>1, <2>1, InnermostCall DEF Looping
    <2>3. Depth' = Depth /\ NextSlot[Depth].next = Frame.next + 1
      BY <1>1, <2>1, NextSlotFrames DEF Depth
    <2>4. stack' # << >> /\ Frame'.next = Frame.next + 1
      BY <2>1, <2>2, <2>3 DEF Frame, Depth
    <2>5. TurnsLeft' < TurnsLeft
      BY <2>2, <2>4 DEF TurnsLeft, Frames
    <2>6. PlacesLeft' = PlacesLeft
      BY <2>1 DEF PlacesLeft
    <2>. QED BY <2>3, <2>5, <2>6, FewerDigits
  <1>6. CASE Return
    <2>1. stack # << >> /\ stack' = SubSeq(stack, 1, Depth - 1) /\ UNCHANGED <<root, saved>>
      BY <1>6 DEF Return
    <2>2. Depth \in Nat \ {0} /\ stack \in Seq(Frames)
      BY <1>1, <2>1, InnermostCall DEF WalkTypeOK, Frames
    <2>3. Depth' < Depth
      BY <2>1, <2>2 DEF Depth
    <2>4. PlacesLeft' = PlacesLeft
      BY <2>1 DEF PlacesLeft
    <2>. QED BY <2>3, <2>4, FewerDigits
  <1>7. CASE RootDone
    <2>. DEFINE m == Len(saved[0])
                n == Len(saved[1])
    <2>1. root \in {0, 1} /\ root' = root + 1 /\ saved' = saved
      BY <1>7 DEF RootDone, Roots
    <2>2. m \in 0 .. MAX_TABLES /\ n \in 0 .. MAX_TABLES
      BY <1>1 DEF WalkTypeOK, Roots
    <2>3. root = 0 => PlacesLeft = (MAX_TABLES + 1 - m) + (MAX_TABLES + 1 - n)
                      /\ PlacesLeft' = MAX_TABLES + 1 - n
      <3>. SUFFICES ASSUME root = 0
                    PROVE  PlacesLeft = (MAX_TABLES + 1 - m) + (MAX_TABLES + 1 - n)
                           /\ PlacesLeft' = MAX_TABLES + 1 - n
        OBVIOUS
      <3>1. root' = 1 /\ saved'[1] = saved[1]
        BY <2>1
      <3>. QED BY <3>1 DEF PlacesLeft
    <2>4. root = 1 => PlacesLeft = MAX_TABLES + 1 - n /\ PlacesLeft' = 0
      <3>. SUFFICES ASSUME root = 1
                    PROVE  PlacesLeft = MAX_TABLES + 1 - n /\ PlacesLeft' = 0
        OBVIOUS
      <3>1. root' = 2
        BY <2>1
      <3>. QED BY <3>1 DEF PlacesLeft
    <2>. HIDE DEF m, n
    <2>5. PlacesLeft' < PlacesLeft
      BY <2>1, <2>2, <2>3, <2>4
    <2>. QED BY <2>5, FewerDigits
  <1>. QED BY <1>3, <1>4, <1>5, <1>6, <1>7 DEF Walk

\* However the tables point to each other, in circles too, and however often the
\* guest rewrites them meanwhile, every step of the walk takes it closer to its
\* end, and no write of the guest takes it away from there.
THEOREM WalkShrinks ==
  Spec => /\ [](WorkLeft \in Nat)
          /\ [][IF Walk THEN WorkLeft' < WorkLeft ELSE WorkLeft' = WorkLeft]_vars
  <1>1. Digits => WorkLeft \in Nat
    BY NatDigits DEF Digits, WorkLeft
  <1>2. WalkInv /\ Digits /\ Digits' /\ [Next]_vars =>
          [IF Walk THEN WorkLeft' < WorkLeft ELSE WorkLeft' = WorkLeft]_vars
    <2>1. GuestWrites => WorkLeft' = WorkLeft
      BY DEF GuestWrites, walkVars, WorkLeft, PlacesLeft, TurnsLeft, Frame, Depth
    <2>. QED BY <2>1, WalkWorks DEF Next
  <1>3. Spec => [](WalkInv /\ Digits)
    BY DigitsAre, WalkInvariance, PTL
  <1>. QED BY <1>1, <1>2, <1>3, PTL DEF Spec

===============================================================================
