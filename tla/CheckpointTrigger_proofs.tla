------------------------ MODULE CheckpointTrigger_proofs ------------------------
(* Proofs about CheckpointTrigger for every set of accepted options, every word *)
(* size and every bound: how far the lists and the next point have moved is a   *)
(* function of the number of checkpoints taken (InStep), from which the safety  *)
(* properties follow.                                                           *)
EXTENDS CheckpointTrigger, SequenceTheorems, TLAPS

USE BoundsAssumption

\* In simpoint mode both lists are what is left of the parser's after one pop for
\* each checkpoint.
ListsInStep ==
  conf.mode = "simpoint" =>
    /\ Len(cptInstructions) = Len(conf.locs) - Len(taken)
    /\ Len(pathList) = Len(conf.locs) - Len(taken)
    /\ \A i \in 1 .. Len(cptInstructions) :
         /\ cptInstructions[i] = conf.locs[i + Len(taken)]
         /\ pathList[i] = OutputPaths(conf)[i + Len(taken)]

\* In the uniform modes the next point is one interval per checkpoint further
\* than the first, and has not run away from the instruction count.
PointInStep ==
  conf.mode # "simpoint" =>
    /\ nextUniformPoint = (Len(taken) + 1) * conf.interval
    /\ nextUniformPoint <= MaxIcount + conf.interval
    /\ pathList = << >>

InStep == ListsInStep /\ PointInStep /\ ExitWhenDone

IInv == TypeOK /\ InStep

-----------------------------------------------------------------------------

LEMMA ModSmall ==
  ASSUME NEW x \in 0 .. Word - 1
  PROVE  x % Word = x
  OBVIOUS

LEMMA MulMonotone ==
  ASSUME NEW a \in Nat, NEW b \in Nat, NEW m \in Nat, a <= b
  PROVE  a * m \in Nat /\ b * m \in Nat /\ a * m <= b * m
<1>1. PICK e \in Nat : b = a + e
  OBVIOUS
<1>2. b * m = a * m + e * m
  BY <1>1
<1>3. e * m \in Nat /\ a * m \in Nat
  OBVIOUS
<1> QED
  BY <1>2, <1>3

LEMMA MulSuccessor ==
  ASSUME NEW a \in Nat, NEW m \in Nat
  PROVE  (a + 1) * m = a * m + m
  OBVIOUS

\* What an accepted option set says, spelt out.
LEMMA ConfFacts ==
  ASSUME conf \in Configs
  PROVE  /\ conf.mode \in Modes
         /\ conf.interval \in Nat \ {0}
         /\ conf.warmup \in Nat
         /\ conf.offset \in Nat
         /\ conf.locs \in Seq(Nat)
         /\ conf.mode = "simpoint" => conf.locs # << >>
         /\ \A i, j \in 1 .. Len(conf.locs) : i < j => conf.locs[i] <= conf.locs[j]
         /\ \A i \in 1 .. Len(conf.locs) :
              conf.locs[i] * conf.interval + conf.offset < UINT64_MAX
         /\ MaxIcount + conf.interval + conf.offset < Word
BY ConfigsAssumption DEF WellFormed, ConfigType

\* A location times the interval fits, so the multiplication does not wrap.
LEMMA SimpointCount ==
  ASSUME conf \in Configs, NEW i \in 1 .. Len(conf.locs)
  PROVE  /\ conf.locs[i] \in Nat
         /\ conf.locs[i] * conf.interval \in Nat
         /\ conf.locs[i] * conf.interval + conf.offset < UINT64_MAX
         /\ MulU64(conf.locs[i], conf.interval) = conf.locs[i] * conf.interval
<1>1. conf.locs[i] \in Nat /\ conf.interval \in Nat /\ conf.offset \in Nat
  <2>1. conf.locs \in Seq(Nat) /\ conf.interval \in Nat /\ conf.offset \in Nat
    BY ConfFacts
  <2> QED
    BY <2>1
<1>2. conf.locs[i] * conf.interval \in Nat
  BY <1>1
<1>3. conf.locs[i] * conf.interval + conf.offset < UINT64_MAX
  BY ConfFacts
<1>4. conf.locs[i] * conf.interval \in 0 .. Word - 1
  BY <1>1, <1>2, <1>3 DEF UINT64_MAX
<1> QED
  BY <1>1, <1>2, <1>3, <1>4, ModSmall DEF MulU64

\* The points of the schedule are counts from the start offset on.
LEMMA PointCount ==
  ASSUME conf \in Configs, NEW k \in Nat, Scheduled(k)
  PROVE  /\ Point(k) \in Nat
         /\ Point(k) >= conf.offset
         /\ conf.mode = "simpoint" =>
              /\ k \in 1 .. Len(conf.locs)
              /\ Point(k) = conf.locs[k] * conf.interval + conf.offset
         /\ conf.mode # "simpoint" => Point(k) = k * conf.interval + conf.offset
<1>1. conf.interval \in Nat /\ conf.offset \in Nat /\ Len(conf.locs) \in Nat
  BY ConfFacts
<1>2. CASE conf.mode = "simpoint"
  <2>1. k \in 1 .. Len(conf.locs)
    BY <1>1, <1>2 DEF Scheduled
  <2>2. conf.locs[k] * conf.interval \in Nat
    BY <2>1, SimpointCount
  <2>3. Point(k) = conf.offset + conf.locs[k] * conf.interval
    BY <1>2 DEF Point
  <2> QED
    BY <1>1, <1>2, <2>1, <2>2, <2>3
<1>3. CASE conf.mode # "simpoint"
  <2>1. Point(k) = conf.offset + k * conf.interval
    BY <1>3 DEF Point
  <2>2. k * conf.interval \in Nat
    BY <1>1
  <2> QED
    BY <1>1, <1>3, <2>1, <2>2
<1> QED
  BY <1>2, <1>3

\* In simpoint mode the head of the list is the first location whose turn has not
\* come; an empty list means that all have had theirs.
LEMMA HeadIsNext ==
  ASSUME IInv, conf.mode = "simpoint"
  PROVE  /\ Len(taken) \in Nat
         /\ cptInstructions = << >> <=> ~ Scheduled(Len(taken) + 1)
         /\ cptInstructions # << >> =>
              /\ Len(taken) + 1 \in 1 .. Len(conf.locs)
              /\ Head(cptInstructions) = conf.locs[Len(taken) + 1]
              /\ pathList # << >>
              /\ Head(pathList) = OutputPaths(conf)[Len(taken) + 1]
              /\ NextSimpoint = conf.locs[Len(taken) + 1] * conf.interval
<1>1. /\ Len(taken) \in Nat /\ Len(conf.locs) \in Nat
      /\ cptInstructions \in Seq(Nat) /\ pathList \in Seq(PathType)
  BY ConfFacts DEF IInv, TypeOK
<1>2. /\ Len(cptInstructions) = Len(conf.locs) - Len(taken)
      /\ Len(pathList) = Len(conf.locs) - Len(taken)
  BY DEF IInv, InStep, ListsInStep
<1>3. cptInstructions = << >> <=> ~ Scheduled(Len(taken) + 1)
  BY <1>1, <1>2 DEF Scheduled
<1>4. ASSUME cptInstructions # << >>
      PROVE  /\ Len(taken) + 1 \in 1 .. Len(conf.locs)
             /\ Head(cptInstructions) = conf.locs[Len(taken) + 1]
             /\ pathList # << >>
             /\ Head(pathList) = OutputPaths(conf)[Len(taken) + 1]
             /\ NextSimpoint = conf.locs[Len(taken) + 1] * conf.interval
  <2>1. 1 \in 1 .. Len(cptInstructions) /\ pathList # << >>
    BY <1>1, <1>2, <1>4
  <2>2. Len(taken) + 1 \in 1 .. Len(conf.locs)
    BY <1>1, <1>2, <2>1
  <2>3. /\ cptInstructions[1] = conf.locs[1 + Len(taken)]
        /\ pathList[1] = OutputPaths(conf)[1 + Len(taken)]
    BY <2>1 DEF IInv, InStep, ListsInStep
  <2>4. 1 + Len(taken) = Len(taken) + 1
    BY <1>1
  <2>5. Head(cptInstructions) = cptInstructions[1] /\ Head(pathList) = pathList[1]
    BY <1>1, <1>4, <2>1
  <2>6. NextSimpoint = conf.locs[Len(taken) + 1] * conf.interval
    BY <1>4, <2>2, <2>3, <2>4, <2>5, SimpointCount DEF IInv, TypeOK, NextSimpoint
  <2> QED
    BY <2>1, <2>2, <2>3, <2>4, <2>5, <2>6
<1> QED
  BY <1>1, <1>3, <1>4

\* checkpoint_try_take fires exactly when the warmup is over and the first point
\* that has not had its turn is reached: neither the offset nor the interval
\* wraps, and no count reaches a point that does not exist.
LEMMA DueMeans ==
  ASSUME IInv, NEW n \in 0 .. MaxIcount
  PROVE  Due(n) <=> /\ Scheduled(Len(taken) + 1)
                    /\ n >= conf.warmup
                    /\ n >= Point(Len(taken) + 1)
<1> DEFINE k == Len(taken) + 1
<1>1. k \in Nat /\ Len(taken) \in Nat
  BY DEF IInv, TypeOK
<1>2. /\ conf \in Configs /\ conf.interval \in Nat /\ conf.offset \in Nat
      /\ conf.warmup \in Nat
  BY ConfFacts DEF IInv, TypeOK
<1>3. CASE conf.mode = "simpoint" /\ cptInstructions = << >>
  <2>1. ~ Scheduled(k) /\ NextSimpoint = UINT64_MAX
    BY <1>3, HeadIsNext DEF NextSimpoint
  <2> QED
    BY <1>3, <2>1 DEF Due
<1>4. CASE conf.mode = "simpoint" /\ cptInstructions # << >>
  <2>1. /\ Scheduled(k) /\ k \in 1 .. Len(conf.locs)
        /\ NextSimpoint = conf.locs[k] * conf.interval
    BY <1>4, HeadIsNext
  <2>2. /\ NextSimpoint \in Nat
        /\ NextSimpoint + conf.offset < UINT64_MAX
    BY <1>2, <2>1, SimpointCount
  <2>3. NextSimpoint # UINT64_MAX
    BY <1>2, <2>2 DEF UINT64_MAX
  <2>4. AddU64(NextSimpoint, conf.offset) = NextSimpoint + conf.offset
    <3>1. NextSimpoint + conf.offset \in 0 .. Word - 1
      BY <1>2, <2>2 DEF UINT64_MAX
    <3> QED
      BY <3>1, ModSmall DEF AddU64
  <2>5. Point(k) = NextSimpoint + conf.offset /\ Point(k) >= conf.offset /\ Point(k) \in Nat
    BY <1>1, <1>2, <1>4, <2>1, PointCount
  <2>6. Due(n) <=> /\ n >= conf.warmup
                   /\ n >= conf.offset
                   /\ n >= Point(k)
    BY <1>4, <2>3, <2>4, <2>5 DEF Due
  <2> HIDE DEF k
  <2> QED
    BY <1>2, <2>1, <2>5, <2>6 DEF k
<1>5. CASE conf.mode # "simpoint"
  <2>1. Scheduled(k)
    BY <1>1, <1>5 DEF Scheduled
  <2>2. Point(k) = k * conf.interval + conf.offset /\ Point(k) >= conf.offset /\ Point(k) \in Nat
    BY <1>1, <1>2, <1>5, <2>1, PointCount
  <2>3. nextUniformPoint = k * conf.interval /\ nextUniformPoint <= MaxIcount + conf.interval
    BY <1>5 DEF IInv, InStep, PointInStep
  <2>4. nextUniformPoint \in Nat
    BY DEF IInv, TypeOK
  <2>5. MaxIcount + conf.interval + conf.offset < Word
    BY <1>2, ConfFacts
  <2>6. AddU64(nextUniformPoint, conf.offset) = nextUniformPoint + conf.offset
    <3>1. nextUniformPoint + conf.offset \in 0 .. Word - 1
      BY <1>2, <2>3, <2>4, <2>5
    <3> QED
      BY <3>1, ModSmall DEF AddU64
  <2>7. Due(n) <=> /\ n >= conf.warmup
                   /\ n >= conf.offset
                   /\ n >= Point(k)
    BY <1>5, <2>2, <2>3, <2>6 DEF Due
  <2> HIDE DEF k
  <2> QED
    BY <1>2, <2>1, <2>2, <2>7 DEF k
<1> QED
  BY <1>3, <1>4, <1>5

-----------------------------------------------------------------------------

\* checkpoint_init and the parser leave the lists and the next point in step.
LEMMA InitInStep == Init => IInv
<1> SUFFICES ASSUME Init PROVE IInv
  OBVIOUS
<1> USE DEF Init
<1>1. /\ conf \in Configs /\ conf.interval \in Nat \ {0} /\ conf.locs \in Seq(Nat)
      /\ conf.offset \in Nat /\ conf.mode \in Modes
      /\ MaxIcount + conf.interval + conf.offset < Word
      /\ conf.mode = "simpoint" => conf.locs # << >>
  BY ConfFacts
<1>2. /\ taken = << >> /\ Len(taken) = 0
  OBVIOUS
<1>3. conf.mode = "simpoint" => pathList = OutputPaths(conf) /\ cptInstructions = conf.locs
  OBVIOUS
<1>4. /\ OutputPaths(conf) \in Seq(PathType)
      /\ Len(OutputPaths(conf)) = Len(conf.locs)
  <2>1. ASSUME NEW k \in 1 .. Len(conf.locs)
        PROVE  [insn |-> MulU64(conf.locs[k], conf.interval), weight |-> k] \in PathType
    <3>1. MulU64(conf.locs[k], conf.interval) \in Nat
      BY <1>1, SimpointCount
    <3> QED
      BY <1>1, <3>1 DEF PathType
  <2>2. Len(conf.locs) \in Nat
    BY <1>1
  <2> QED
    BY <2>1, <2>2, IsASeq DEF OutputPaths
<1>5. TypeOK
  <2>1. nextUniformPoint \in 0 .. Word - 1
    BY <1>1
  <2>2. cptInstructions \in Seq(Nat) /\ pathList \in Seq(PathType)
    BY <1>1, <1>3, <1>4
  <2>3. taken \in Seq(TakenType)
    BY <1>2, EmptySeq
  <2>4. icount \in 0 .. MaxIcount
    OBVIOUS
  <2>5. simpointExit \in BOOLEAN
    OBVIOUS
  <2> QED
    BY <1>1, <2>1, <2>2, <2>3, <2>4, <2>5 DEF TypeOK
<1>6. ListsInStep
  <2> SUFFICES ASSUME conf.mode = "simpoint"
               PROVE  /\ Len(cptInstructions) = Len(conf.locs) - 0
                      /\ Len(pathList) = Len(conf.locs) - 0
                      /\ \A i \in 1 .. Len(cptInstructions) :
                           /\ cptInstructions[i] = conf.locs[i + 0]
                           /\ pathList[i] = OutputPaths(conf)[i + 0]
    BY <1>2 DEF ListsInStep
  <2>1. Len(conf.locs) \in Nat
    BY <1>1
  <2>2. \A i \in 1 .. Len(conf.locs) : i + 0 = i
    BY <2>1
  <2> QED
    BY <1>3, <1>4, <2>1, <2>2
<1>7. PointInStep
  BY <1>1, <1>2 DEF PointInStep
<1>8. ExitWhenDone
  BY <1>1, <1>2, EmptySeq DEF ExitWhenDone
<1> QED
  BY <1>5, <1>6, <1>7, <1>8 DEF IInv, InStep

\* One checkpoint takes exactly one entry off each list, or moves the next point
\* by one interval, and raises the exit flag with the last simpoint.
LEMMA TakeInStep ==
  ASSUME IInv, NEW d \in 0 .. MaxTB, RunAndTake(d)
  PROVE  /\ IInv'
         /\ Len(taken') = Len(taken) + 1
         /\ \A i \in 1 .. Len(taken) : taken'[i] = taken[i]
         /\ taken'[Len(taken) + 1].icount = icount'
         /\ taken'[Len(taken) + 1].path = OutputPath(icount')
         /\ Due(icount')
<1> USE DEF RunAndTake
<1>1. /\ conf \in Configs /\ conf.interval \in Nat \ {0} /\ conf.offset \in Nat
      /\ conf.mode \in Modes /\ conf.locs \in Seq(Nat) /\ conf' = conf
      /\ MaxIcount + conf.interval + conf.offset < Word
  BY ConfFacts DEF IInv, TypeOK
<1>2. /\ icount' \in 0 .. MaxIcount
      /\ Len(taken) \in Nat /\ taken \in Seq(TakenType)
      /\ cptInstructions \in Seq(Nat) /\ pathList \in Seq(PathType)
  BY DEF IInv, TypeOK
<1>3. Due(icount')
  OBVIOUS
<1>4. /\ Scheduled(Len(taken) + 1)
      /\ icount' >= Point(Len(taken) + 1)
  BY <1>2, <1>3, DueMeans
<1>5. PICK complete \in BOOLEAN : Create(icount', complete)
  OBVIOUS
<1> DEFINE r == [icount |-> icount', path |-> OutputPath(icount'), complete |-> complete]
<1>6. r \in TakenType
  <2>1. OutputPath(icount') \in PathType
    <3>1. CASE pathList = << >>
      BY <1>2, <3>1 DEF OutputPath, DefaultPath, PathType
    <3>2. CASE pathList # << >>
      <4>1. Head(pathList) \in PathType
        BY <1>2, <3>2, HeadTailProperties
      <4> QED
        BY <3>2, <4>1 DEF OutputPath
    <3> QED
      BY <3>1, <3>2
  <2> QED
    BY <1>2, <2>1 DEF TakenType
<1>7. taken' = Append(taken, r)
  BY <1>5 DEF Create
<1>8. /\ taken' \in Seq(TakenType)
      /\ Len(taken') = Len(taken) + 1
      /\ taken'[Len(taken) + 1] = r
      /\ \A i \in 1 .. Len(taken) : taken'[i] = taken[i]
  BY <1>2, <1>6, <1>7, AppendProperties
<1> HIDE DEF r
<1>9. CASE conf.mode = "simpoint"
  <2>1. AdvanceSimpoint
    BY <1>9 DEF AdvanceUniform
  <2>2. /\ cptInstructions # << >> /\ pathList # << >>
        /\ Len(taken) + 1 \in 1 .. Len(conf.locs)
    BY <1>4, <1>9, HeadIsNext
  <2>3. /\ cptInstructions' = Tail(cptInstructions)
        /\ pathList' = Tail(pathList)
        /\ simpointExit' = (simpointExit \/ cptInstructions' = << >>)
        /\ nextUniformPoint' = nextUniformPoint
    BY <2>1, <2>2 DEF AdvanceSimpoint
  <2>4. /\ Len(cptInstructions) = Len(conf.locs) - Len(taken)
        /\ Len(pathList) = Len(conf.locs) - Len(taken)
        /\ \A i \in 1 .. Len(cptInstructions) :
             /\ cptInstructions[i] = conf.locs[i + Len(taken)]
             /\ pathList[i] = OutputPaths(conf)[i + Len(taken)]
    BY <1>9 DEF IInv, InStep, ListsInStep
  <2>5. /\ cptInstructions' \in Seq(Nat)
        /\ Len(cptInstructions') = Len(cptInstructions) - 1
        /\ \A i \in 1 .. Len(cptInstructions') : cptInstructions'[i] = cptInstructions[i + 1]
    BY <1>2, <2>2, <2>3, HeadTailProperties
  <2>6. /\ pathList' \in Seq(PathType)
        /\ Len(pathList') = Len(pathList) - 1
        /\ \A i \in 1 .. Len(pathList') : pathList'[i] = pathList[i + 1]
    BY <1>2, <2>2, <2>3, HeadTailProperties
  <2>7. Len(conf.locs) \in Nat
    BY <1>1
  <2>8. ListsInStep'
    <3>1. ASSUME NEW i \in 1 .. Len(cptInstructions')
          PROVE  /\ cptInstructions'[i] = conf.locs[i + (Len(taken) + 1)]
                 /\ pathList'[i] = OutputPaths(conf)[i + (Len(taken) + 1)]
      <4>1. /\ i + 1 \in 1 .. Len(cptInstructions)
            /\ i \in 1 .. Len(pathList')
            /\ (i + 1) + Len(taken) = i + (Len(taken) + 1)
        <5>1. \A n, t \in Nat : \A k \in 1 .. n - 1 : k + 1 \in 1 .. n /\ (k + 1) + t = k + (t + 1)
          OBVIOUS
        <5>2. Len(cptInstructions) \in Nat /\ Len(taken) \in Nat
          BY <1>2
        <5>3. Len(pathList') = Len(cptInstructions')
          BY <2>4, <2>5, <2>6
        <5> QED
          BY <2>5, <5>1, <5>2, <5>3
      <4> QED
        BY <2>4, <2>5, <2>6, <4>1, Zenon
    <3>2. OutputPaths(conf)' = OutputPaths(conf)
      BY <1>1 DEF OutputPaths
    <3>3. /\ Len(cptInstructions') = Len(conf.locs) - Len(taken')
          /\ Len(pathList') = Len(conf.locs) - Len(taken')
      BY <1>2, <1>8, <2>4, <2>5, <2>6, <2>7
    <3> QED
      BY <1>1, <1>8, <3>1, <3>2, <3>3 DEF ListsInStep
  <2>9. ExitWhenDone'
    <3>1. ~ simpointExit
      BY <1>2, <1>9, <2>2, <2>4, <2>7 DEF IInv, InStep, ExitWhenDone
    <3>2. cptInstructions' = << >> <=> Len(taken') = Len(conf.locs)
      BY <1>2, <1>8, <2>4, <2>5, <2>7
    <3> QED
      BY <1>1, <1>9, <2>3, <3>1, <3>2 DEF ExitWhenDone
  <2>10. TypeOK'
    BY <1>1, <1>2, <1>8, <2>3, <2>5, <2>6 DEF IInv, TypeOK
  <2>11. PointInStep'
    BY <1>1, <1>9 DEF PointInStep
  <2> QED
    BY <1>3, <1>8, <2>8, <2>9, <2>10, <2>11 DEF IInv, InStep, r
<1>10. CASE conf.mode # "simpoint"
  <2>1. AdvanceUniform
    BY <1>10 DEF AdvanceSimpoint
  <2>2. /\ nextUniformPoint = (Len(taken) + 1) * conf.interval
        /\ pathList = << >>
    BY <1>10 DEF IInv, InStep, PointInStep
  <2>3. nextUniformPoint + conf.offset <= icount'
    BY <1>1, <1>2, <1>4, <1>10, <2>2, PointCount
  <2>4. nextUniformPoint \in Nat
    BY DEF IInv, TypeOK
  <2>5. nextUniformPoint + conf.interval <= MaxIcount + conf.interval
    BY <1>1, <1>2, <2>3, <2>4
  <2>6. nextUniformPoint' = nextUniformPoint + conf.interval
    <3>1. nextUniformPoint + conf.interval \in 0 .. Word - 1
      <4>1. conf.interval \in Nat
        BY <1>1
      <4>2. MaxIcount + conf.interval < Word /\ MaxIcount \in Nat /\ Word \in Nat
        BY <1>1, BoundsAssumption
      <4> QED
        BY <2>4, <2>5, <4>1, <4>2
    <3>2. nextUniformPoint' = AddU64(nextUniformPoint, conf.interval)
      BY <2>1 DEF AdvanceUniform
    <3> QED
      BY <3>1, <3>2, ModSmall DEF AddU64
  <2>7. nextUniformPoint' = (Len(taken') + 1) * conf.interval
    <3>1. ((Len(taken) + 1) + 1) * conf.interval
            = (Len(taken) + 1) * conf.interval + conf.interval
      <4>1. Len(taken) + 1 \in Nat /\ conf.interval \in Nat
        BY <1>1, <1>2
      <4> QED
        BY <4>1, MulSuccessor
    <3> QED
      BY <1>8, <2>2, <2>6, <3>1
  <2>8. PointInStep'
    BY <1>1, <2>1, <2>2, <2>5, <2>6, <2>7 DEF PointInStep, AdvanceUniform
  <2>9. TypeOK'
    <3>1. nextUniformPoint' \in 0 .. Word - 1
      <4>1. conf.interval \in Nat
        BY <1>1
      <4>2. MaxIcount + conf.interval < Word /\ MaxIcount \in Nat /\ Word \in Nat
        BY <1>1, BoundsAssumption
      <4> QED
        BY <2>4, <2>5, <2>6, <4>1, <4>2
    <3> QED
      BY <1>1, <1>2, <1>8, <2>1, <3>1 DEF IInv, TypeOK, AdvanceUniform
  <2>10. ExitWhenDone'
    BY <1>1, <1>10, <2>1 DEF IInv, InStep, ExitWhenDone, AdvanceUniform
  <2>11. ListsInStep'
    BY <1>1, <1>10 DEF ListsInStep
  <2> QED
    BY <1>3, <1>8, <2>8, <2>9, <2>10, <2>11 DEF IInv, InStep, r
<1> QED
  BY <1>9, <1>10

\* A block without a checkpoint moves the instruction count only.
LEMMA QuietInStep ==
  ASSUME IInv, NEW d \in 0 .. MaxTB, RunQuiet(d)
  PROVE  IInv' /\ taken' = taken /\ icount' \in 0 .. MaxIcount
<1>1. /\ icount' \in 0 .. MaxIcount
      /\ UNCHANGED <<conf, nextUniformPoint, cptInstructions, pathList, simpointExit, taken>>
  BY DEF RunQuiet, IInv, TypeOK
<1>2. TypeOK'
  BY <1>1 DEF IInv, TypeOK
<1>3. InStep'
  BY <1>1 DEF IInv, InStep, ListsInStep, PointInStep, ExitWhenDone, OutputPaths
<1> QED
  BY <1>1, <1>2, <1>3 DEF IInv

LEMMA StutterInStep ==
  ASSUME IInv, UNCHANGED vars
  PROVE  IInv'
BY DEF vars, IInv, TypeOK, InStep, ListsInStep, PointInStep, ExitWhenDone, OutputPaths

\* Every variable keeps the range of its C type, the lists and the next point
\* keep in step with the checkpoints taken.
THEOREM Invariance == Spec => []IInv
<1>1. IInv /\ [Next]_vars => IInv'
  <2> SUFFICES ASSUME IInv, [Next]_vars PROVE IInv'
    OBVIOUS
  <2>1. CASE UNCHANGED vars
    BY <2>1, StutterInStep
  <2>2. ASSUME NEW d \in 0 .. MaxTB, RunQuiet(d) PROVE IInv'
    BY <2>2, QuietInStep
  <2>3. ASSUME NEW d \in 0 .. MaxTB, RunAndTake(d) PROVE IInv'
    BY <2>3, TakeInStep
  <2> QED
    BY <2>1, <2>2, <2>3 DEF Next
<1> QED
  BY <1>1, InitInStep, PTL DEF Spec

-----------------------------------------------------------------------------

\* The type invariant: no list is popped empty, the next point never wraps.
THEOREM TypeCorrect == Spec => []TypeOK
<1>1. IInv => TypeOK
  BY DEF IInv
<1> QED
  BY <1>1, Invariance, PTL

\* The exit flag is up exactly when every simpoint of the list had its turn.
THEOREM ExitIsRight == Spec => []ExitWhenDone
<1>1. IInv => ExitWhenDone
  BY DEF IInv, InStep
<1> QED
  BY <1>1, Invariance, PTL

\* An exhausted list never fires again, whatever the start offset.
THEOREM NothingFollowsExit == Spec => NothingAfterExit
<1>1. IInv /\ [Next]_vars => [simpointExit => UNCHANGED taken]_vars
  <2> SUFFICES ASSUME IInv, [Next]_vars, simpointExit PROVE UNCHANGED taken
    OBVIOUS
  <2>1. conf.mode = "simpoint" /\ Len(taken) = Len(conf.locs)
    BY DEF IInv, InStep, ExitWhenDone
  <2>2. ~ Scheduled(Len(taken) + 1)
    BY <2>1, ConfFacts DEF IInv, TypeOK, Scheduled
  <2>3. CASE UNCHANGED vars
    BY <2>3 DEF vars
  <2>4. ASSUME NEW d \in 0 .. MaxTB, RunQuiet(d) PROVE UNCHANGED taken
    BY <2>4, QuietInStep
  <2>5. ASSUME NEW d \in 0 .. MaxTB, RunAndTake(d) PROVE FALSE
    <3>1. Due(icount') /\ icount' \in 0 .. MaxIcount
      BY <2>5 DEF RunAndTake, IInv, TypeOK
    <3> QED
      BY <2>2, <3>1, DueMeans
  <2> QED
    BY <2>3, <2>4, <2>5 DEF Next
<1> QED
  BY <1>1, Invariance, PTL DEF Spec, NothingAfterExit

-----------------------------------------------------------------------------

\* In the uniform modes a file is named after the count it was taken at.
UniformNames ==
  conf.mode # "simpoint" =>
    \A k \in 1 .. Len(taken) : taken[k].path = DefaultPath(taken[k].icount)

\* OnTime, and in the uniform modes, whose first point is not at count 0, each
\* checkpoint before the next point, so that no two have the same count.
Prompt ==
  Punctual =>
    /\ Scheduled(Len(taken) + 1) =>
         /\ icount <= Point(Len(taken) + 1)
         /\ conf.mode # "simpoint" => icount < Point(Len(taken) + 1)
    /\ \A k \in 1 .. Len(taken) :
         /\ taken[k].icount <= Point(k) + MaxTB
         /\ conf.mode # "simpoint" => taken[k].icount < Point(k + 1)

History == NeverEarly /\ FileOfItsPoint /\ UniformNames /\ Prompt

\* A punctual schedule has its points at least one block apart.
LEMMA PointsApart ==
  ASSUME conf \in Configs, Punctual, NEW k \in Nat, Scheduled(k), Scheduled(k + 1)
  PROVE  Point(k) + MaxTB <= Point(k + 1)
<1>1. /\ conf.interval \in Nat /\ conf.offset \in Nat /\ k + 1 \in Nat
      /\ MaxTB <= conf.interval /\ MaxTB \in Nat
  BY ConfFacts DEF Punctual
<1>2. CASE conf.mode = "simpoint"
  <2>1. k \in 1 .. Len(conf.locs) /\ k + 1 \in 1 .. Len(conf.locs) /\ k < k + 1
    BY <1>1, <1>2, PointCount
  <2>2. /\ conf.locs[k] \in Nat /\ conf.locs[k + 1] \in Nat
        /\ conf.locs[k] < conf.locs[k + 1]
    BY <2>1, SimpointCount DEF Punctual
  <2>3. conf.locs[k] + 1 <= conf.locs[k + 1] /\ conf.locs[k] + 1 \in Nat
    BY <2>2
  <2>4. (conf.locs[k] + 1) * conf.interval <= conf.locs[k + 1] * conf.interval
    BY <1>1, <2>2, <2>3, MulMonotone
  <2>5. (conf.locs[k] + 1) * conf.interval = conf.locs[k] * conf.interval + conf.interval
    BY <1>1, <2>2, MulSuccessor
  <2>6. /\ conf.locs[k] * conf.interval \in Nat
        /\ conf.locs[k + 1] * conf.interval \in Nat
    BY <1>1, <2>2
  <2>7. /\ Point(k) = conf.locs[k] * conf.interval + conf.offset
        /\ Point(k + 1) = conf.locs[k + 1] * conf.interval + conf.offset
    BY <1>1, <1>2, PointCount
  <2> QED
    BY <1>1, <2>4, <2>5, <2>6, <2>7
<1>3. CASE conf.mode # "simpoint"
  <2>1. (k + 1) * conf.interval = k * conf.interval + conf.interval
    BY <1>1, MulSuccessor
  <2>2. k * conf.interval \in Nat
    BY <1>1
  <2>3. /\ Point(k) = k * conf.interval + conf.offset
        /\ Point(k + 1) = (k + 1) * conf.interval + conf.offset
    BY <1>1, <1>3, PointCount
  <2> QED
    BY <1>1, <2>1, <2>2, <2>3
<1> QED
  BY <1>2, <1>3

\* The points of any schedule ascend.
LEMMA PointsAscend ==
  ASSUME conf \in Configs, NEW i \in Nat, NEW j \in Nat,
         Scheduled(i), Scheduled(j), i <= j
  PROVE  Point(i) <= Point(j)
<1>1. conf.interval \in Nat /\ conf.offset \in Nat
  BY ConfFacts
<1>2. CASE conf.mode = "simpoint"
  <2>1. i \in 1 .. Len(conf.locs) /\ j \in 1 .. Len(conf.locs)
    BY <1>2, PointCount
  <2>2. conf.locs[i] \in Nat /\ conf.locs[j] \in Nat
    BY <2>1, SimpointCount
  <2>3. conf.locs[i] <= conf.locs[j]
    <3>1. CASE i = j
      BY <2>2, <3>1
    <3>2. CASE i < j
      BY <2>1, <3>2, ConfFacts
    <3> QED
      BY <3>1, <3>2
  <2>4. /\ conf.locs[i] * conf.interval <= conf.locs[j] * conf.interval
        /\ conf.locs[i] * conf.interval \in Nat /\ conf.locs[j] * conf.interval \in Nat
    BY <1>1, <2>2, <2>3, MulMonotone
  <2>5. /\ Point(i) = conf.locs[i] * conf.interval + conf.offset
        /\ Point(j) = conf.locs[j] * conf.interval + conf.offset
    BY <1>2, PointCount
  <2> QED
    BY <1>1, <2>4, <2>5
<1>3. CASE conf.mode # "simpoint"
  <2>1. /\ i * conf.interval <= j * conf.interval
        /\ i * conf.interval \in Nat /\ j * conf.interval \in Nat
    BY <1>1, MulMonotone
  <2>2. /\ Point(i) = i * conf.interval + conf.offset
        /\ Point(j) = j * conf.interval + conf.offset
    BY <1>3, PointCount
  <2> QED
    BY <1>1, <2>1, <2>2
<1> QED
  BY <1>2, <1>3

\* Which point comes next, and when warmup lets it be taken, under options the
\* subsystem can keep up with.
LEMMA PunctualWarmup ==
  ASSUME conf \in Configs, Punctual, NEW k \in Nat, Scheduled(k)
  PROVE  Scheduled(1) /\ conf.warmup <= Point(k)
<1>1. Scheduled(1) /\ 1 <= k
  BY ConfFacts DEF Scheduled
<1>2. Point(1) <= Point(k) /\ Point(1) \in Nat /\ Point(k) \in Nat
  BY <1>1, PointsAscend, PointCount
<1>3. conf.warmup <= Point(1) /\ conf.warmup \in Nat
  BY ConfFacts DEF Punctual
<1> QED
  BY <1>1, <1>2, <1>3

LEMMA InitHistory == Init => History
<1> SUFFICES ASSUME Init PROVE History
  OBVIOUS
<1>1. /\ taken = << >> /\ Len(taken) = 0 /\ icount = 0 /\ conf \in Configs
  BY DEF Init
<1>2. NeverEarly /\ FileOfItsPoint /\ UniformNames
  BY <1>1 DEF NeverEarly, FileOfItsPoint, UniformNames
<1>3. ASSUME Scheduled(1)
      PROVE  0 <= Point(1) /\ (conf.mode # "simpoint" => 0 < Point(1))
  <2>1. Point(1) \in Nat
    BY <1>1, <1>3, PointCount
  <2>2. conf.mode # "simpoint" => Point(1) = 1 * conf.interval + conf.offset
    BY <1>1, <1>3, PointCount
  <2>3. conf.interval \in Nat \ {0} /\ conf.offset \in Nat
    BY <1>1, ConfFacts
  <2> QED
    BY <2>1, <2>2, <2>3
<1>4. Prompt
  <2>1. Len(taken) + 1 = 1
    BY <1>1
  <2> QED
    BY <1>1, <1>3, <2>1 DEF Prompt
<1> QED
  BY <1>2, <1>4 DEF History

\* The step that takes the k-th checkpoint extends the history by one record that
\* fits the k-th point.
LEMMA TakeHistory ==
  ASSUME IInv, History, NEW d \in 0 .. MaxTB, RunAndTake(d)
  PROVE  History'
<1> DEFINE k == Len(taken) + 1
<1>1. /\ conf \in Configs /\ conf' = conf /\ conf.offset \in Nat /\ conf.warmup \in Nat
      /\ MaxTB \in Nat /\ icount \in 0 .. MaxIcount
      /\ icount' = icount + d /\ icount' \in 0 .. MaxIcount
      /\ Len(taken) \in Nat /\ k \in Nat /\ taken \in Seq(TakenType)
  BY ConfFacts DEF IInv, TypeOK, RunAndTake
<1>2. /\ Len(taken') = k
      /\ \A i \in 1 .. Len(taken) : taken'[i] = taken[i]
      /\ taken'[k].icount = icount'
      /\ taken'[k].path = OutputPath(icount')
      /\ Due(icount') /\ IInv'
  BY TakeInStep
<1>3. Scheduled(k) /\ icount' >= conf.warmup /\ icount' >= Point(k) /\ Point(k) \in Nat
  BY <1>1, <1>2, DueMeans, PointCount
<1> HIDE DEF k
<1>4. \A i \in 1 .. Len(taken') : i \in 1 .. Len(taken) \/ i = k
  BY <1>1, <1>2 DEF k
<1>5. /\ \A i \in Nat : Point(i)' = Point(i)
      /\ \A i \in Nat : Scheduled(i)' <=> Scheduled(i)
      /\ Punctual' <=> Punctual
  BY <1>1 DEF Point, Scheduled, Punctual
<1>6. NeverEarly'
  <2> SUFFICES ASSUME NEW i \in 1 .. Len(taken')
               PROVE  /\ Scheduled(i)
                      /\ taken'[i].icount >= Point(i)
                      /\ taken'[i].icount >= conf.warmup
    BY <1>1, <1>5 DEF NeverEarly, Point, Scheduled
  <2>1. CASE i \in 1 .. Len(taken)
    BY <1>2, <2>1 DEF History, NeverEarly
  <2>2. CASE i = k
    BY <1>2, <1>3, <2>2
  <2> QED
    BY <1>4, <2>1, <2>2
<1>7. FileOfItsPoint'
  <2> SUFFICES ASSUME conf.mode = "simpoint", NEW i \in 1 .. Len(taken')
               PROVE  /\ taken'[i].path.insn = Point(i) - conf.offset
                      /\ taken'[i].path.weight = i
    BY <1>1 DEF FileOfItsPoint, Point
  <2>1. CASE i \in 1 .. Len(taken)
    BY <1>2, <2>1 DEF History, FileOfItsPoint
  <2>2. CASE i = k
    <3>1. /\ k \in 1 .. Len(conf.locs) /\ pathList # << >>
          /\ Head(pathList) = OutputPaths(conf)[k]
      BY <1>3, HeadIsNext DEF k
    <3>2. taken'[k].path = [insn |-> MulU64(conf.locs[k], conf.interval), weight |-> k]
      BY <1>2, <3>1 DEF OutputPath, OutputPaths
    <3>3. /\ MulU64(conf.locs[k], conf.interval) = conf.locs[k] * conf.interval
          /\ conf.locs[k] * conf.interval \in Nat
      BY <1>1, <3>1, SimpointCount
    <3>4. Point(k) = conf.locs[k] * conf.interval + conf.offset
      BY <1>1, <1>3, PointCount
    <3> QED
      BY <1>1, <2>2, <3>2, <3>3, <3>4
  <2> QED
    BY <1>4, <2>1, <2>2
<1>8. UniformNames'
  <2> SUFFICES ASSUME conf.mode # "simpoint", NEW i \in 1 .. Len(taken')
               PROVE  taken'[i].path = DefaultPath(taken'[i].icount)
    BY <1>1 DEF UniformNames, DefaultPath
  <2>1. CASE i \in 1 .. Len(taken)
    BY <1>2, <2>1 DEF History, UniformNames
  <2>2. CASE i = k
    BY <1>2, <2>2 DEF OutputPath, IInv, InStep, PointInStep
  <2> QED
    BY <1>4, <2>1, <2>2
<1>9. Prompt'
  <2> SUFFICES ASSUME Punctual
               PROVE  /\ Scheduled(k + 1) =>
                           /\ icount' <= Point(k + 1)
                           /\ conf.mode # "simpoint" => icount' < Point(k + 1)
                      /\ \A i \in 1 .. Len(taken') :
                           /\ taken'[i].icount <= Point(i) + MaxTB
                           /\ conf.mode # "simpoint" => taken'[i].icount < Point(i + 1)
    <3>1. ASSUME Punctual' PROVE Punctual
      BY <1>5, <3>1
    <3>2. k + 1 \in Nat /\ \A i \in 1 .. Len(taken') : i \in Nat /\ i + 1 \in Nat
      BY <1>1, <1>2
    <3> QED
      BY <1>1, <1>2, <1>5, <3>1, <3>2 DEF Prompt
  <2>1. /\ icount <= Point(k)
        /\ conf.mode # "simpoint" => icount < Point(k)
    BY <1>3 DEF History, Prompt, k
  <2>2. /\ icount' <= Point(k) + MaxTB
        /\ conf.mode # "simpoint" => icount' < Point(k) + MaxTB
    BY <1>1, <1>3, <2>1
  <2>3. ASSUME Scheduled(k + 1)
        PROVE  /\ icount' <= Point(k + 1)
               /\ conf.mode # "simpoint" => icount' < Point(k + 1)
    <3>1. Point(k) + MaxTB <= Point(k + 1)
      BY <1>1, <1>3, <2>3, PointsApart
    <3>2. Point(k + 1) \in Nat
      BY <1>1, <2>3, PointCount
    <3> QED
      BY <1>1, <1>3, <2>2, <3>1, <3>2
  <2>4. conf.mode # "simpoint" => Scheduled(k + 1)
    BY <1>1 DEF Scheduled
  <2>5. ASSUME NEW i \in 1 .. Len(taken')
        PROVE  /\ taken'[i].icount <= Point(i) + MaxTB
               /\ conf.mode # "simpoint" => taken'[i].icount < Point(i + 1)
    <3>1. CASE i \in 1 .. Len(taken)
      BY <1>2, <3>1 DEF History, Prompt
    <3>2. CASE i = k
      BY <1>2, <2>2, <2>3, <2>4, <3>2
    <3> QED
      BY <1>4, <3>1, <3>2
  <2> QED
    BY <2>3, <2>5
<1> QED
  BY <1>6, <1>7, <1>8, <1>9 DEF History

\* A block without a checkpoint ends before the next point.
LEMMA QuietHistory ==
  ASSUME IInv, History, NEW d \in 0 .. MaxTB, RunQuiet(d)
  PROVE  History'
<1>1. /\ taken' = taken /\ conf' = conf /\ icount' \in 0 .. MaxIcount
      /\ conf \in Configs /\ Len(taken) \in Nat
  BY QuietInStep DEF RunQuiet, IInv, TypeOK
<1>2. NeverEarly' /\ FileOfItsPoint' /\ UniformNames'
  BY <1>1 DEF History, NeverEarly, FileOfItsPoint, UniformNames, Point, Scheduled, DefaultPath
<1>3. ASSUME Punctual, Scheduled(Len(taken) + 1)
      PROVE  icount' < Point(Len(taken) + 1) /\ Point(Len(taken) + 1) \in Nat
  <2>1. Len(taken) + 1 \in Nat
    BY <1>1
  <2>2. conf.warmup <= Point(Len(taken) + 1) /\ Point(Len(taken) + 1) \in Nat
        /\ conf.warmup \in Nat
    BY <1>1, <1>3, <2>1, PunctualWarmup, PointCount, ConfFacts
  <2>3. ~ (icount' >= conf.warmup /\ icount' >= Point(Len(taken) + 1))
    BY <1>1, <1>3, DueMeans DEF RunQuiet
  <2> QED
    BY <1>1, <2>2, <2>3
<1>4. Prompt'
  <2> SUFFICES ASSUME Punctual
               PROVE  /\ Scheduled(Len(taken) + 1) =>
                           /\ icount' <= Point(Len(taken) + 1)
                           /\ conf.mode # "simpoint" => icount' < Point(Len(taken) + 1)
                      /\ \A i \in 1 .. Len(taken) :
                           /\ taken[i].icount <= Point(i) + MaxTB
                           /\ conf.mode # "simpoint" => taken[i].icount < Point(i + 1)
    BY <1>1 DEF Prompt, Punctual, Point, Scheduled
  <2>1. \A i \in 1 .. Len(taken) :
          /\ taken[i].icount <= Point(i) + MaxTB
          /\ conf.mode # "simpoint" => taken[i].icount < Point(i + 1)
    BY DEF History, Prompt
  <2> QED
    BY <1>1, <1>3, <2>1
<1> QED
  BY <1>2, <1>4 DEF History

\* The recorded checkpoints fit the schedule for ever.
THEOREM HistoryInvariance == Spec => []History
<1>1. IInv /\ History /\ [Next]_vars => History'
  <2> SUFFICES ASSUME IInv, History, [Next]_vars PROVE History'
    OBVIOUS
  <2>1. CASE UNCHANGED vars
    BY <2>1 DEF vars, History, NeverEarly, FileOfItsPoint, UniformNames, Prompt,
                Punctual, Point, Scheduled, DefaultPath
  <2>2. ASSUME NEW d \in 0 .. MaxTB, RunQuiet(d) PROVE History'
    BY <2>2, QuietHistory
  <2>3. ASSUME NEW d \in 0 .. MaxTB, RunAndTake(d) PROVE History'
    BY <2>3, TakeHistory
  <2> QED
    BY <2>1, <2>2, <2>3 DEF Next
<1> QED
  BY <1>1, InitHistory, Invariance, PTL DEF Spec

\* No checkpoint is taken before its point, its warmup or for no point at all.
THEOREM NothingIsEarly == Spec => []NeverEarly
<1>1. History => NeverEarly
  BY DEF History
<1> QED
  BY <1>1, HistoryInvariance, PTL

\* Each simpoint ends up in the file of its own name.
THEOREM FilesAreRight == Spec => []FileOfItsPoint
<1>1. History => FileOfItsPoint
  BY DEF History
<1> QED
  BY <1>1, HistoryInvariance, PTL

\* No point is skipped and none is more than a block late, given options for
\* which that is possible.
THEOREM NothingIsLate == Spec => []OnTime
<1>1. History => OnTime
  BY DEF History, Prompt, OnTime
<1> QED
  BY <1>1, HistoryInvariance, PTL

\* Given such options no file is written twice.
THEOREM NothingIsOverwritten == Spec => []NoOverwrite
<1>1. IInv /\ History => NoOverwrite
  <2> SUFFICES ASSUME IInv, History, Punctual,
                      NEW i \in 1 .. Len(taken), NEW j \in 1 .. Len(taken), i < j
               PROVE  taken[i].path # taken[j].path
    BY DEF NoOverwrite
  <2>1. conf \in Configs /\ taken \in Seq(TakenType) /\ Len(taken) \in Nat
    BY DEF IInv, TypeOK
  <2>2. CASE conf.mode = "simpoint"
    BY <2>1, <2>2 DEF History, FileOfItsPoint
  <2>3. CASE conf.mode # "simpoint"
    <3>1. taken[i].icount \in Nat /\ taken[j].icount \in Nat
      <4>1. taken[i] \in TakenType /\ taken[j] \in TakenType
        BY <2>1, ElementOfSeq
      <4>2. taken[i].icount \in 0 .. MaxIcount /\ taken[j].icount \in 0 .. MaxIcount
        BY <4>1 DEF TakenType
      <4> QED
        BY <4>2
    <3>2. /\ i \in Nat /\ i + 1 \in Nat /\ j \in Nat /\ i + 1 <= j
          /\ Scheduled(i + 1) /\ Scheduled(j)
      BY <2>1, <2>3 DEF Scheduled
    <3>3. /\ Point(i + 1) \in Nat /\ Point(j) \in Nat /\ Point(i + 1) <= Point(j)
      BY <2>1, <3>2, PointsAscend, PointCount
    <3>4. taken[i].icount < Point(i + 1)
      BY <2>3 DEF History, Prompt
    <3>5. taken[j].icount >= Point(j)
      BY DEF History, NeverEarly
    <3>6. taken[i].icount # taken[j].icount
      BY <3>1, <3>3, <3>4, <3>5
    <3>7. /\ taken[i].path = DefaultPath(taken[i].icount)
          /\ taken[j].path = DefaultPath(taken[j].icount)
      BY <2>3 DEF History, UniformNames
    <3> QED
      BY <3>6, <3>7 DEF DefaultPath
  <2> QED
    BY <2>2, <2>3
<1> QED
  BY <1>1, Invariance, HistoryInvariance, PTL

-----------------------------------------------------------------------------

\* Between two checkpoints the guest is either still making up for points that
\* passed, or short of the next one.
Lag ==
  \/ MadeUpFor(Len(taken), icount)
  \/ Scheduled(Len(taken) + 1) => icount <= Point(Len(taken) + 1)

Drained == Lag /\ BacklogDrains

\* A block later one more checkpoint may have been made up for.
LEMMA OneMoreBlock ==
  ASSUME conf \in Configs, NEW m \in Nat, NEW n \in Nat, NEW d \in 0 .. MaxTB,
         conf.mode = "simpoint" => m <= Len(conf.locs),
         MadeUpFor(m, n)
  PROVE  MadeUpFor(m + 1, n + d)
<1>1. conf.warmup \in Nat /\ (m + 1) * MaxTB = m * MaxTB + MaxTB /\ m * MaxTB \in Nat
  <2>1. MaxTB \in Nat
    OBVIOUS
  <2>2. (m + 1) * MaxTB = m * MaxTB + MaxTB
    BY <2>1, MulSuccessor
  <2>3. m * MaxTB \in Nat
    BY <2>1
  <2> QED
    BY <2>2, <2>3, ConfFacts
<1>2. CASE n <= conf.warmup + m * MaxTB
  BY <1>1, <1>2 DEF MadeUpFor
<1>3. ASSUME NEW j \in 1 .. m, n <= Point(j) + (m - j + 1) * MaxTB
      PROVE  MadeUpFor(m + 1, n + d)
  <2>1. Point(j) \in Nat
    <3>1. Scheduled(j) /\ j \in Nat
      BY ConfFacts DEF Scheduled
    <3> QED
      BY <3>1, PointCount
  <2> DEFINE b == m - j + 1
  <2>2. b \in Nat /\ (m + 1) - j + 1 = b + 1
    OBVIOUS
  <2>3. (b + 1) * MaxTB = b * MaxTB + MaxTB /\ b * MaxTB \in Nat
    BY <2>2, MulSuccessor
  <2>4. n + d <= Point(j) + ((m + 1) - j + 1) * MaxTB
    <3> HIDE DEF b
    <3>1. n <= Point(j) + b * MaxTB
      BY <1>3 DEF b
    <3> QED
      BY <2>1, <2>2, <2>3, <3>1
  <2>5. j \in 1 .. m + 1
    OBVIOUS
  <2> QED
    BY <2>4, <2>5 DEF MadeUpFor
<1> QED
  BY <1>2, <1>3 DEF MadeUpFor

\* With a checkpoint the guest has made up for one point, or reached one.
LEMMA TakeDrained ==
  ASSUME IInv, Drained, NEW d \in 0 .. MaxTB, RunAndTake(d)
  PROVE  Drained'
<1> DEFINE k == Len(taken) + 1
<1>1. /\ conf \in Configs /\ conf' = conf /\ icount \in Nat /\ icount' = icount + d
      /\ icount' \in 0 .. MaxIcount
      /\ Len(taken) \in Nat /\ k \in Nat
  BY DEF IInv, TypeOK, RunAndTake
<1>2. /\ Len(taken') = k
      /\ \A i \in 1 .. Len(taken) : taken'[i] = taken[i]
      /\ taken'[k].icount = icount'
      /\ Due(icount')
  BY TakeInStep
<1>3. Scheduled(k)
  BY <1>1, <1>2, DueMeans
<1>4. MadeUpFor(k, icount')
  <2>1. CASE MadeUpFor(Len(taken), icount)
    <3>1. conf.mode = "simpoint" => Len(taken) <= Len(conf.locs)
      BY <1>1, <1>3, ConfFacts DEF Scheduled
    <3> QED
      BY <1>1, <2>1, <3>1, OneMoreBlock
  <2>2. CASE icount <= Point(k)
    <3>1. Point(k) \in Nat
      BY <1>1, <1>3, PointCount
    <3>2. icount' <= Point(k) + (k - k + 1) * MaxTB
      BY <1>1, <2>2, <3>1
    <3>3. k \in 1 .. k
      BY <1>1
    <3> QED
      BY <3>2, <3>3 DEF MadeUpFor
  <2> QED
    BY <1>3, <2>1, <2>2 DEF Drained, Lag
<1>5. Lag'
  BY <1>1, <1>2, <1>4 DEF Lag, MadeUpFor, Point
<1>6. BacklogDrains'
  <2>1. ASSUME NEW i \in 1 .. Len(taken')
        PROVE  MadeUpFor(i, taken'[i].icount)
    <3>1. CASE i = k
      BY <1>2, <1>4, <3>1
    <3>2. CASE i # k
      <4>1. i \in 1 .. Len(taken) /\ taken'[i] = taken[i]
        BY <1>1, <1>2, <2>1, <3>2
      <4>2. MadeUpFor(i, taken[i].icount)
        BY <4>1 DEF Drained, BacklogDrains
      <4> QED
        BY <4>1, <4>2
    <3> QED
      BY <3>1, <3>2
  <2> QED
    BY <1>1, <2>1 DEF BacklogDrains, MadeUpFor, Point
<1> QED
  BY <1>5, <1>6 DEF Drained

\* Without one it is still in the warmup, short of the next point, or done.
LEMMA QuietDrained ==
  ASSUME IInv, Drained, NEW d \in 0 .. MaxTB, RunQuiet(d)
  PROVE  Drained'
<1>1. /\ conf \in Configs /\ conf' = conf /\ taken' = taken /\ icount' \in 0 .. MaxIcount
      /\ Len(taken) \in Nat /\ ~ Due(icount')
  BY DEF IInv, TypeOK, RunQuiet
<1>2. BacklogDrains'
  BY <1>1 DEF Drained, BacklogDrains, MadeUpFor, Point
<1>3. CASE Scheduled(Len(taken) + 1)
  <2>1. /\ Point(Len(taken) + 1) \in Nat
        /\ conf.warmup \in Nat
        /\ Len(taken) * MaxTB \in Nat
    BY <1>1, <1>3, PointCount, ConfFacts
  <2>2. icount' < conf.warmup \/ icount' < Point(Len(taken) + 1)
    BY <1>1, <1>3, <2>1, DueMeans
  <2>3. CASE icount' < conf.warmup
    <3> DEFINE blocks == Len(taken) * MaxTB
    <3>1. blocks \in Nat
      BY <2>1
    <3>2. icount' <= conf.warmup + blocks
      <4> HIDE DEF blocks
      <4> QED BY <1>1, <2>1, <2>3, <3>1
    <3>3. Len(taken)' * MaxTB = blocks /\ conf.warmup' = conf.warmup
      BY <1>1
    <3>4. MadeUpFor(Len(taken), icount)'
      <4> HIDE DEF blocks
      <4> QED BY <3>2, <3>3 DEF MadeUpFor
    <3> QED
      BY <1>2, <3>4 DEF Lag, Drained
  <2>4. CASE icount' < Point(Len(taken) + 1)
    <3>1. icount' <= Point(Len(taken) + 1)
      BY <1>1, <2>1, <2>4
    <3>2. Point(Len(taken) + 1)' = Point(Len(taken) + 1)
      BY <1>1 DEF Point
    <3> QED
      BY <1>2, <3>1, <3>2 DEF Lag, Drained
  <2> QED
    BY <2>2, <2>3, <2>4
<1>4. CASE ~ Scheduled(Len(taken) + 1)
  <2>1. Lag'
    BY <1>1, <1>4 DEF Lag, Scheduled
  <2> QED
    BY <1>2, <2>1 DEF Drained
<1> QED
  BY <1>3, <1>4

\* However long the warmup and however close the simpoints, the backlog of points
\* that have passed shrinks by one in every block (checkpoint_try_take).
THEOREM BacklogIsMadeUp == Spec => []BacklogDrains
<1>1. Init => Drained
  <2> SUFFICES ASSUME Init PROVE Drained
    OBVIOUS
  <2>1. taken = << >> /\ Len(taken) = 0 /\ icount = 0
    BY DEF Init
  <2>2. conf.warmup \in Nat
    BY ConfFacts DEF Init
  <2> QED
    BY <2>1, <2>2 DEF Drained, Lag, BacklogDrains, MadeUpFor
<1>2. IInv /\ Drained /\ [Next]_vars => Drained'
  <2> SUFFICES ASSUME IInv, Drained, [Next]_vars PROVE Drained'
    OBVIOUS
  <2>1. CASE UNCHANGED vars
    BY <2>1 DEF vars, Drained, Lag, BacklogDrains, MadeUpFor, Point, Scheduled
  <2>2. ASSUME NEW d \in 0 .. MaxTB, RunQuiet(d) PROVE Drained'
    BY <2>2, QuietDrained
  <2>3. ASSUME NEW d \in 0 .. MaxTB, RunAndTake(d) PROVE Drained'
    BY <2>3, TakeDrained
  <2> QED
    BY <2>1, <2>2, <2>3 DEF Next
<1> QED
  BY <1>1, <1>2, Invariance, PTL DEF Spec, Drained

=============================================================================
