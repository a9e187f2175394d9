------------------------- MODULE SimpointParser_proofs -------------------------
(* Proofs about SimpointParser for every pair of files, every set of options    *)
(* and every bound: what a start-up leaves is an initial state of               *)
(* CheckpointTrigger, and every step takes it closer to its end.                *)
EXTENDS SimpointParser, SequenceTheorems, FiniteSetTheorems, WellFoundedInduction, TLAPS

USE BoundsAssumption, ParserAssumption

Ascending(s) == \A i, j \in 1 .. Len(s) : i < j => Guint(s[i]) <= Guint(s[j])

\* Each weight is the one on the line of the entry at its place.
WeightsInStep ==
  /\ Len(weights) = Len(cptInstructions)
  /\ \A k \in 1 .. Len(weights) : weights[k] = k

\* What has been read, sorted and made when the start-up is in a phase.
BeforeReading ==
  phase \in {"cmdline", "open"} =>
    /\ pos = 1
    /\ cptInstructions = << >> /\ sorted = << >> /\ pathList = << >>

WhileReading ==
  phase = "read" =>
    /\ input.points # << >>
    /\ Len(cptInstructions) < SIMPOINT_IDX_MAX
    /\ sorted = << >> /\ pathList = << >>

WhileSorting ==
  phase = "sort" => cptInstructions # << >> /\ pathList = << >>

WhenOn ==
  phase = "on" =>
    IF input.mode = "simpoint"
    THEN /\ cptInstructions # << >>
         /\ Ascending(cptInstructions)
         /\ pathList = OutputPaths(cptInstructions)
    ELSE cptInstructions = << >> /\ pathList = << >>

OnlyAccepted ==
  /\ phase \in {"open", "read", "sort", "on"} => Acceptable
  /\ phase \in {"open", "read", "sort"} => input.mode = "simpoint"

ParserInv ==
  /\ ParserTypeOK
  /\ Ascending(sorted)
  /\ WeightsInStep
  /\ BeforeReading /\ WhileReading /\ WhileSorting /\ WhenOn
  /\ OnlyAccepted

-----------------------------------------------------------------------------

LEMMA GuintNat == ASSUME NEW x \in Nat PROVE Guint(x) \in Nat
BY DEF Guint

LEMMA GuintsNat ==
  ASSUME NEW s \in Seq(Nat)
  PROVE  \A i \in 1 .. Len(s) : s[i] \in Nat /\ Guint(s[i]) \in Nat
<1>1. \A i \in 1 .. Len(s) : s[i] \in Nat
  OBVIOUS
<1> QED
  BY <1>1 DEF Guint

LEMMA MulNat == ASSUME NEW a \in Nat, NEW b \in Nat PROVE MulU64(a, b) \in Nat
<1>1. a * b \in Nat
  OBVIOUS
<1> QED
  BY <1>1 DEF MulU64

\* SequencesExt!InsertAt shifts the tail by one.
LEMMA InsertedSeq ==
  ASSUME NEW s \in Seq(Nat), NEW x \in Nat, NEW k \in 1 .. Len(s) + 1
  PROVE  /\ InsertAt(s, k, x) \in Seq(Nat)
         /\ Len(InsertAt(s, k, x)) = Len(s) + 1
         /\ \A i \in 1 .. Len(s) + 1 :
              InsertAt(s, k, x)[i] = IF i < k THEN s[i] ELSE IF i = k THEN x ELSE s[i - 1]
<1> DEFINE a == SubSeq(s, 1, k - 1)
           b == SubSeq(s, k, Len(s))
<1>1. /\ a \in Seq(Nat) /\ Len(a) = k - 1
      /\ \A i \in 1 .. k - 1 : a[i] = s[i]
  BY SubSeqProperties
<1>2. /\ b \in Seq(Nat) /\ Len(b) = Len(s) - k + 1
      /\ \A i \in 1 .. Len(s) - k + 1 : b[i] = s[k + i - 1]
  BY SubSeqProperties
<1>3. InsertAt(s, k, x) = (a \o <<x>>) \o b
  BY DEF InsertAt
<1> HIDE DEF a, b
<1> DEFINE c == a \o <<x>>
<1>4. /\ c \in Seq(Nat) /\ Len(c) = k
      /\ \A i \in 1 .. k : c[i] = IF i < k THEN s[i] ELSE x
  BY <1>1
<1> HIDE DEF c
<1>5. /\ c \o b \in Seq(Nat) /\ Len(c \o b) = Len(s) + 1
      /\ \A i \in 1 .. k : (c \o b)[i] = c[i]
      /\ \A i \in k + 1 .. Len(s) + 1 : (c \o b)[i] = b[i - k]
  <2>1. /\ Len(s) \in Nat /\ Len(c) + Len(b) = Len(s) + 1 /\ k <= Len(s) + 1
    BY <1>2, <1>4
  <2>2. /\ c \o b \in Seq(Nat) /\ Len(c \o b) = Len(c) + Len(b)
        /\ \A i \in 1 .. Len(c) + Len(b) :
             (c \o b)[i] = IF i <= Len(c) THEN c[i] ELSE b[i - Len(c)]
    BY <1>2, <1>4, ConcatProperties, SMTT(30)
  <2> QED
    BY <1>4, <2>1, <2>2, SMTT(30)
<1>6. \A i \in 1 .. Len(s) + 1 :
        (c \o b)[i] = IF i < k THEN s[i] ELSE IF i = k THEN x ELSE s[i - 1]
  <2> SUFFICES ASSUME NEW i \in 1 .. Len(s) + 1
               PROVE  (c \o b)[i] = IF i < k THEN s[i] ELSE IF i = k THEN x ELSE s[i - 1]
    OBVIOUS
  <2>1. CASE i <= k
    <3>1. i \in 1 .. k /\ (c \o b)[i] = c[i]
      BY <1>5, <2>1
    <3>2. c[i] = IF i < k THEN s[i] ELSE x
      BY <1>4, <3>1
    <3> QED
      BY <2>1, <3>1, <3>2
  <2>2. CASE i > k
    <3>1. i \in k + 1 .. Len(s) + 1 /\ i - k \in 1 .. Len(s) - k + 1 /\ k + (i - k) - 1 = i - 1
      BY <2>2
    <3>2. b[i - k] = s[i - 1]
      BY <1>2, <3>1
    <3>3. (c \o b)[i] = s[i - 1]
      BY <1>5, <3>1, <3>2
    <3> QED
      BY <2>2, <3>3
  <2>3. i <= k \/ i > k
    OBVIOUS
  <2> QED
    BY <2>1, <2>2, <2>3
<1>7. InsertAt(s, k, x) = c \o b
  BY <1>3 DEF c
<1> QED
  BY <1>5, <1>6, <1>7

\* The insertion point keeps the list ascending.
LEMMA InsertionKeepsOrder ==
  ASSUME sorted \in Seq(Nat), Ascending(sorted),
         NEW x \in Nat, NEW k \in 1 .. Len(sorted) + 1, InsertionPoint(k, x)
  PROVE  Ascending(InsertAt(sorted, k, x))
<1> DEFINE t == InsertAt(sorted, k, x)
<1>1. /\ Len(t) = Len(sorted) + 1
      /\ \A i \in 1 .. Len(sorted) + 1 :
           t[i] = IF i < k THEN sorted[i] ELSE IF i = k THEN x ELSE sorted[i - 1]
  BY InsertedSeq
<1>2. /\ Guint(x) \in Nat
      /\ \A i \in 1 .. Len(sorted) : Guint(sorted[i]) \in Nat
  BY GuintsNat, GuintNat
<1>3. \A j \in 1 .. k - 1 : Guint(sorted[j]) < Guint(x)
  BY DEF InsertionPoint
<1>4. \A j \in k .. Len(sorted) : Guint(x) <= Guint(sorted[j])
  <2>1. k <= Len(sorted) => Guint(sorted[k]) >= Guint(x)
    BY DEF InsertionPoint
  <2> QED
    BY <2>1, <1>2 DEF Ascending
<1>5. \A i, j \in 1 .. Len(sorted) : i < j => Guint(sorted[i]) <= Guint(sorted[j])
  BY DEF Ascending
<1> HIDE DEF t
<1> SUFFICES ASSUME NEW i \in 1 .. Len(t), NEW j \in 1 .. Len(t), i < j
             PROVE  Guint(t[i]) <= Guint(t[j])
  BY DEF Ascending, t
<1>6. CASE i < k /\ j < k
  <2>1. t[i] = sorted[i] /\ t[j] = sorted[j]
        /\ i \in 1 .. Len(sorted) /\ j \in 1 .. Len(sorted)
    BY <1>1, <1>6
  <2> QED
    BY <1>5, <2>1
<1>7. CASE i < k /\ j = k
  <2>1. t[i] = sorted[i] /\ t[j] = x /\ i \in 1 .. k - 1 /\ i \in 1 .. Len(sorted)
    BY <1>1, <1>7
  <2> QED
    BY <1>2, <1>3, <2>1
<1>8. CASE i < k /\ j > k
  <2>1. t[i] = sorted[i] /\ t[j] = sorted[j - 1] /\ i \in 1 .. k - 1
        /\ j - 1 \in k .. Len(sorted) /\ i \in 1 .. Len(sorted) /\ j - 1 \in 1 .. Len(sorted)
    BY <1>1, <1>8
  <2> QED
    BY <1>5, <2>1
<1>9. CASE i = k
  <2>1. t[i] = x /\ t[j] = sorted[j - 1] /\ j - 1 \in k .. Len(sorted)
    BY <1>1, <1>9
  <2> QED
    BY <1>4, <2>1
<1>10. CASE i > k
  <2>1. t[i] = sorted[i - 1] /\ t[j] = sorted[j - 1]
        /\ i - 1 \in 1 .. Len(sorted) /\ j - 1 \in 1 .. Len(sorted)
    BY <1>1, <1>10
  <2>2. i - 1 < j - 1
    BY <1>10
  <2> QED
    BY <1>5, <2>1, <2>2, Zenon
<1> QED
  BY <1>6, <1>7, <1>8, <1>9, <1>10, <1>1

-----------------------------------------------------------------------------

LEMMA InitEstablishes == Init => ParserInv
BY DEF Init, ParserInv, ParserTypeOK, Ascending, WeightsInStep, BeforeReading, WhileReading,
       WhileSorting, WhenOn, OnlyAccepted

LEMMA TokensSeq ==
  ASSUME input \in InputType, input.points # << >>
  PROVE  Tokens \in Seq(Nat \cup {Junk})
<1>1. input.points \in Seq(PointsFile)
  BY DEF InputType
<1>2. Head(input.points) \in PointsFile
  BY <1>1
<1> QED
  BY <1>2 DEF Tokens, PointsFile

\* What a fscanf leaves in the position and in the location.
LEMMA ScanTypes ==
  ASSUME ParserTypeOK, input.points # << >>, PointLeft, ScanPoint
  PROVE  pos' \in Nat \ {0} /\ location' \in Nat
<1>1. input \in InputType
  BY DEF ParserTypeOK
<1>2. Tokens \in Seq(Nat \cup {Junk})
  BY <1>1, TokensSeq
<1>3. pos \in 1 .. Len(Tokens)
  BY <1>2 DEF ParserTypeOK, PointLeft
<1>4. Tokens[pos] \in Nat \cup {Junk}
  BY <1>2, <1>3
<1> QED
  BY <1>4 DEF ScanPoint, ParserTypeOK

LEMMA StepKeeps == ParserInv /\ [Next]_vars => ParserInv'
<1> SUFFICES ASSUME ParserInv, [Next]_vars PROVE ParserInv'
  OBVIOUS
<1> USE DEF ParserInv
<1>1. CASE Refuse
  BY <1>1 DEF Refuse, ParserTypeOK, Ascending, Guint, WeightsInStep, BeforeReading,
              WhileReading, WhileSorting, WhenOn, OnlyAccepted
<1>2. CASE Accept
  BY <1>2 DEF Accept, Acceptable, ParserTypeOK, Ascending, Guint, WeightsInStep, BeforeReading,
              WhileReading, WhileSorting, WhenOn, OnlyAccepted
<1>3. CASE OpenFails
  BY <1>3 DEF OpenFails, ParserTypeOK, Ascending, Guint, WeightsInStep, BeforeReading,
              WhileReading, WhileSorting, WhenOn, OnlyAccepted
<1>4. CASE OpenFiles
  BY <1>4 DEF OpenFiles, Acceptable, ParserTypeOK, Ascending, Guint, WeightsInStep,
              BeforeReading, WhileReading, WhileSorting, WhenOn, OnlyAccepted
<1>5. CASE StoreLine
  <2>1. /\ phase = "read" /\ phase' \in {"read", "sort"}
        /\ phase' = "read" => ~ Full(cptInstructions')
        /\ cptInstructions' = Append(cptInstructions, location')
        /\ weights' = Append(weights, Len(weights) + 1)
        /\ UNCHANGED <<input, sorted, pathList>>
    BY <1>5 DEF StoreLine
  <2>2. pos' \in Nat \ {0} /\ location' \in Nat
    BY <1>5, <2>1, ScanTypes DEF StoreLine, WhileReading
  <2>3. /\ cptInstructions' \in Seq(Nat) /\ cptInstructions' # << >>
        /\ Len(cptInstructions') = Len(cptInstructions) + 1
        /\ Len(cptInstructions') <= SIMPOINT_IDX_MAX
    <3>1. cptInstructions \in Seq(Nat) /\ Len(cptInstructions) < SIMPOINT_IDX_MAX
      BY <2>1 DEF ParserTypeOK, WhileReading, Full
    <3>2. cptInstructions' \in Seq(Nat) /\ Len(cptInstructions') = Len(cptInstructions) + 1
      BY <2>1, <2>2, <3>1, AppendProperties
    <3> QED
      BY <3>1, <3>2
  <2>4. WeightsInStep' /\ weights' \in Seq(Nat)
    BY <2>1, <2>3 DEF WeightsInStep, ParserTypeOK
  <2>5. sorted' = << >> /\ pathList' = << >> /\ input'.points # << >>
    BY <2>1 DEF WhileReading
  <2>6. ParserTypeOK'
    BY <2>1, <2>2, <2>3, <2>4, <2>5 DEF ParserTypeOK
  <2>7. Ascending(sorted)'
    BY <2>5 DEF Ascending
  <2>8. WhileReading'
    BY <2>1, <2>3, <2>5 DEF WhileReading, Full
  <2>9. OnlyAccepted'
    BY <2>1 DEF OnlyAccepted, Acceptable
  <2> QED
    BY <2>1, <2>3, <2>4, <2>5, <2>6, <2>7, <2>8, <2>9
       DEF BeforeReading, WhileSorting, WhenOn
<1>6. CASE Mismatch
  <2>1. /\ phase = "read"
        /\ phase' = IF cptInstructions = << >> THEN "off" ELSE "sort"
        /\ UNCHANGED <<input, cptInstructions, weights, sorted, pathList>>
    BY <1>6 DEF Mismatch, Finish
  <2>2. pos' \in Nat \ {0} /\ location' \in Nat
    BY <1>6, <2>1, ScanTypes DEF Mismatch, WhileReading
  <2>3. ParserTypeOK'
    BY <2>1, <2>2 DEF ParserTypeOK
  <2> QED
    BY <2>1, <2>3 DEF Acceptable, Ascending, Guint, WeightsInStep, BeforeReading, WhileReading,
                      WhileSorting, WhenOn, OnlyAccepted
<1>7. CASE EndOfPoints
  BY <1>7 DEF EndOfPoints, Finish, Acceptable, ParserTypeOK, Ascending, Guint, WeightsInStep,
              BeforeReading, WhileReading, WhileSorting, WhenOn, OnlyAccepted
<1>8. CASE InsertNext
  <2>1. /\ phase = "sort" /\ Len(sorted) < Len(cptInstructions)
        /\ UNCHANGED <<input, phase, pos, location, cptInstructions, weights, pathList>>
    BY <1>8 DEF InsertNext
  <2>2. /\ sorted \in Seq(Nat) /\ cptInstructions \in Seq(Nat)
        /\ Len(sorted) \in Nat /\ Len(cptInstructions) \in Nat
    BY DEF ParserTypeOK
  <2> DEFINE x == cptInstructions[Len(sorted) + 1]
  <2>3. x \in Nat
    BY <2>1, <2>2
  <2>4. PICK k \in 1 .. Len(sorted) + 1 :
          InsertionPoint(k, x) /\ sorted' = InsertAt(sorted, k, x)
    BY <1>8 DEF InsertNext
  <2> HIDE DEF x
  <2>5. sorted' \in Seq(Nat) /\ Len(sorted') = Len(sorted) + 1
    BY <2>2, <2>3, <2>4, InsertedSeq
  <2>6. Ascending(sorted')
    BY <2>2, <2>3, <2>4, InsertionKeepsOrder
  <2>7. Ascending(sorted)'
    BY <2>6 DEF Ascending, Guint
  <2>8. ParserTypeOK'
    BY <2>1, <2>2, <2>5 DEF ParserTypeOK
  <2> QED
    BY <2>1, <2>7, <2>8 DEF Acceptable, WeightsInStep, BeforeReading, WhileReading,
                            WhileSorting, WhenOn, OnlyAccepted
<1>9. CASE MakePaths
  <2>1. /\ phase = "sort" /\ phase' = "on"
        /\ Len(sorted) = Len(cptInstructions)
        /\ cptInstructions' = sorted /\ pathList' = OutputPaths(sorted)
        /\ UNCHANGED <<input, pos, location, weights, sorted>>
    BY <1>9 DEF MakePaths
  <2>2. sorted \in Seq(Nat) /\ weights \in Seq(Nat) /\ input.interval \in Nat
    BY DEF ParserTypeOK, InputType
  <2>3. OutputPaths(sorted) \in Seq([insn : Nat, weight : Nat])
    <3>1. \A i \in 1 .. Len(sorted) : MulU64(Guint(sorted[i]), input.interval) \in Nat
      BY <2>2, GuintsNat, MulNat
    <3>2. \A i \in 1 .. Len(sorted) :
            (IF i <= Len(weights) THEN weights[i] ELSE 0) \in Nat
      BY <2>2
    <3>3. \A i \in 1 .. Len(sorted) :
            [insn |-> MulU64(Guint(sorted[i]), input.interval),
             weight |-> IF i <= Len(weights) THEN weights[i] ELSE 0] \in [insn : Nat, weight : Nat]
      BY <3>1, <3>2
    <3> QED
      BY <2>2, <3>3, IsASeq DEF OutputPaths
  <2>4. ParserTypeOK'
    BY <2>1, <2>2, <2>3 DEF ParserTypeOK
  <2>5. WeightsInStep'
    BY <2>1 DEF WeightsInStep
  <2>6. sorted # << >>
    BY <2>1, <2>2, EmptySeq DEF WhileSorting, ParserTypeOK
  <2>7. Ascending(sorted)' /\ Ascending(cptInstructions)'
    BY <2>1 DEF Ascending, Guint
  <2>8. pathList' = OutputPaths(cptInstructions)'
    BY <2>1 DEF OutputPaths, Guint
  <2>9. OnlyAccepted'
    BY <2>1 DEF OnlyAccepted, Acceptable
  <2> QED
    BY <2>1, <2>4, <2>5, <2>6, <2>7, <2>8, <2>9
       DEF BeforeReading, WhileReading, WhileSorting, WhenOn, OnlyAccepted
<1>10. CASE UNCHANGED vars
  BY <1>10 DEF vars, Acceptable, ParserTypeOK, Ascending, Guint, WeightsInStep, BeforeReading,
               WhileReading, WhileSorting, WhenOn, OnlyAccepted, OutputPaths
<1> QED
  BY <1>1, <1>2, <1>3, <1>4, <1>5, <1>6, <1>7, <1>8, <1>9, <1>10 DEF Next

\* In each phase of the start-up the lists are as the parser left them.
THEOREM Invariant == Spec => []ParserInv
BY InitEstablishes, StepKeeps, PTL DEF Spec

\* No step leaves the C types or keeps more simpoints than SIMPOINT_IDX_MAX: reading
\* stops in time whatever the files hold (the loop of checkpoint_parse_simpoint_files).
THEOREM ParserTypeCorrect == Spec => []ParserTypeOK
<1>1. ParserInv => ParserTypeOK
  BY DEF ParserInv
<1> QED
  BY <1>1, Invariant, PTL

LEMMA InvHandsOver == ParserInv => HandsOver
<1> SUFFICES ASSUME ParserInv, phase = "on", CountsFit PROVE Trigger!Init
  BY DEF HandsOver
<1>1. /\ input \in InputType /\ Acceptable
      /\ cptInstructions \in Seq(Nat)
  BY DEF ParserInv, ParserTypeOK, OnlyAccepted
<1>2. \A k \in 1 .. Len(cptInstructions) :
        /\ Guint(cptInstructions[k]) \in Nat
        /\ TheConfig.locs[k] = Guint(cptInstructions[k])
  BY <1>1, GuintsNat DEF TheConfig
<1>3. TheConfig.locs \in Seq(Nat) /\ Len(TheConfig.locs) = Len(cptInstructions)
  <2>1. Len(cptInstructions) \in Nat
    BY <1>1
  <2> QED
    BY <2>1, <1>2, IsASeq DEF TheConfig
<1>4. TheConfig \in ConfigType
  BY <1>1, <1>3 DEF TheConfig, ConfigType, InputType, Acceptable
<1>5. CASE input.mode = "simpoint"
  <2>1. cptInstructions # << >> /\ Ascending(cptInstructions)
        /\ pathList = OutputPaths(cptInstructions)
    BY <1>5 DEF ParserInv, WhenOn
  <2>2. TheConfig.locs # << >>
    BY <2>1, <1>1, <1>3, EmptySeq
  <2>3. WellFormed(TheConfig)
    <3>1. \A i, j \in 1 .. Len(TheConfig.locs) : i < j => TheConfig.locs[i] <= TheConfig.locs[j]
      BY <1>2, <1>3, <2>1 DEF Ascending
    <3>2. \A i \in 1 .. Len(TheConfig.locs) :
            TheConfig.locs[i] * TheConfig.interval + TheConfig.offset < UINT64_MAX
      BY <1>2, <1>3 DEF CountsFit, TheConfig
    <3>3. MaxIcount + TheConfig.interval + TheConfig.offset < Word
      BY DEF CountsFit, TheConfig
    <3> QED
      BY <1>4, <2>2, <3>1, <3>2, <3>3 DEF WellFormed
  <2>4. pathList = [k \in 1 .. Len(TheConfig.locs) |->
                      [insn |-> MulU64(TheConfig.locs[k], TheConfig.interval), weight |-> k]]
    <3>1. TheConfig.interval = input.interval
      BY DEF TheConfig
    <3>2. \A k \in 1 .. Len(cptInstructions) : k <= Len(weights) /\ weights[k] = k
      BY <1>1 DEF ParserInv, WeightsInStep, ParserTypeOK
    <3> QED
      BY <2>1, <3>1, <3>2, <1>2, <1>3 DEF OutputPaths
  <2> QED
    BY <1>4, <1>5, <2>3, <2>4
       DEF Trigger!Init, Trigger!OutputPaths, MulU64, Trigger!MulU64, TheConfig
<1>6. CASE input.mode # "simpoint"
  <2>1. cptInstructions = << >> /\ pathList = << >>
    BY <1>6 DEF ParserInv, WhenOn
  <2>2. TheConfig.locs = << >> /\ Len(TheConfig.locs) = 0
    BY <2>1, <1>3, EmptySeq
  <2>3. WellFormed(TheConfig)
    <3>1. MaxIcount + TheConfig.interval + TheConfig.offset < Word /\ TheConfig.mode # "simpoint"
      BY <1>6 DEF CountsFit, TheConfig
    <3> QED
      BY <1>4, <2>2, <3>1 DEF WellFormed
  <2> QED
    BY <1>4, <1>6, <2>1, <2>2, <2>3 DEF Trigger!Init, TheConfig
<1> QED
  BY <1>5, <1>6

\* Whatever is in the files, a start-up that turns checkpoints on leaves an initial
\* state of CheckpointTrigger: with this, what is proved about the trigger under
\* ConfigsAssumption holds for what the command line and the parser make.
THEOREM StartUpHandsOver == Spec => []HandsOver
BY Invariant, InvHandsOver, PTL

-----------------------------------------------------------------------------
(* What a file of two columns becomes: a second invariant on top of the first,  *)
(* about the entries that are read, sorted and given their paths.               *)

Lines == Len(Tokens) \div 2

\* As many entries as there are lines, weights and room for.
Kept == Min({Lines, Head(input.weights), SIMPOINT_IDX_MAX})

\* The first m entries of s that are x, by their places.
Places(s, m, x) == {i \in 1 .. m : s[i] = x}

Occurrences(s, m, x) == Cardinality(Places(s, m, x))

SameEntries(s, t, m) == \A x \in Nat : Occurrences(s, m, x) = Occurrences(t, m, x)

\* The list is the beginning of the column of locations.
ReadInOrder == \A k \in 1 .. Len(cptInstructions) : cptInstructions[k] = LocationColumn[k]

ColumnAscends ==
  \A i \in 1 .. Len(LocationColumn) - 1 :
    Guint(LocationColumn[i]) <= Guint(LocationColumn[i + 1])

ColumnRead ==
  phase = "read" =>
    /\ pos = 2 * Len(cptInstructions) + 1
    /\ Len(cptInstructions) <= Lines
    /\ Len(cptInstructions) <= Head(input.weights)
    /\ ReadInOrder

ColumnSorted ==
  phase = "sort" =>
    /\ Len(cptInstructions) = Kept
    /\ ReadInOrder
    /\ SameEntries(sorted, cptInstructions, Len(sorted))
    /\ ColumnAscends =>
         \A k \in 1 .. Len(sorted) : Guint(sorted[k]) = Guint(cptInstructions[k])

ColumnHandedOver ==
  phase = "on" =>
    /\ Len(cptInstructions) = Kept
    /\ SameEntries(cptInstructions, LocationColumn, Kept)
    /\ ColumnAscends =>
         \A k \in 1 .. Len(cptInstructions) :
           Guint(cptInstructions[k]) = Guint(LocationColumn[k])

ColumnInv ==
  phase \in {"read", "sort", "on"} /\ input.mode = "simpoint" =>
    /\ input.points # << >> /\ input.weights # << >>
    /\ TwoColumns => ColumnRead /\ ColumnSorted /\ ColumnHandedOver

LEMMA ColumnFacts ==
  ASSUME input \in InputType, input.points # << >>, input.weights # << >>
  PROVE  /\ Tokens \in Seq(Nat \cup {Junk}) /\ Len(Tokens) \in Nat
         /\ Head(input.weights) \in Nat /\ Lines \in Nat
         /\ TwoColumns =>
              /\ Len(Tokens) = 2 * Lines
              /\ LocationColumn \in Seq(Nat) /\ Len(LocationColumn) = Lines
              /\ \A k \in 1 .. Lines : LocationColumn[k] = Tokens[2 * k - 1]
              /\ \A i \in 1 .. Len(Tokens) : Tokens[i] \in Nat /\ Tokens[i] # Junk
<1>1. input.weights \in Seq(Nat)
  BY DEF InputType
<1>2. Head(input.weights) \in Nat
  BY <1>1
<1>3. Tokens \in Seq(Nat \cup {Junk})
  BY TokensSeq
<1> HIDE DEF Tokens
<1>4. Len(Tokens) \in Nat
  BY <1>3
<1>5. Lines \in Nat /\ (Len(Tokens) % 2 = 0 => Len(Tokens) = 2 * Lines)
  BY <1>4 DEF Lines
<1>6. ASSUME TwoColumns
      PROVE  /\ Len(Tokens) = 2 * Lines
             /\ LocationColumn \in Seq(Nat) /\ Len(LocationColumn) = Lines
             /\ \A k \in 1 .. Lines : LocationColumn[k] = Tokens[2 * k - 1]
             /\ \A i \in 1 .. Len(Tokens) : Tokens[i] \in Nat /\ Tokens[i] # Junk
  <2>1. Len(Tokens) = 2 * Lines
    BY <1>5, <1>6 DEF TwoColumns
  <2>2. \A i \in 1 .. Len(Tokens) : Tokens[i] \in Nat /\ Tokens[i] # Junk
    <3>1. \A i \in 1 .. Len(Tokens) : Tokens[i] \in Nat \cup {Junk}
      BY <1>3
    <3> QED
      BY <1>6, <3>1 DEF TwoColumns
  <2>3. LocationColumn = [k \in 1 .. Lines |-> Tokens[2 * k - 1]]
    BY DEF LocationColumn, Lines
  <2>4. \A k \in 1 .. Lines : Tokens[2 * k - 1] \in Nat
    <3> TAKE k \in 1 .. Lines
    <3>1. 2 * k - 1 \in 1 .. Len(Tokens)
      BY <1>5, <2>1
    <3> QED
      BY <2>2, <3>1
  <2>5. LocationColumn \in Seq(Nat)
    BY <1>5, <2>3, <2>4, IsASeq
  <2>6. Len(LocationColumn) = Lines
    BY <1>5, <2>3, <2>5
  <2> QED
    BY <2>1, <2>2, <2>3, <2>5, <2>6
<1> QED
  BY <1>2, <1>3, <1>4, <1>5, <1>6

\* FiniteSetsExt!Min of three numbers.
LEMMA MinOfThree ==
  ASSUME NEW a \in Nat, NEW b \in Nat, NEW c \in Nat
  PROVE  /\ Min({a, b, c}) \in {a, b, c}
         /\ Min({a, b, c}) <= a /\ Min({a, b, c}) <= b /\ Min({a, b, c}) <= c
<1> DEFINE S == {a, b, c}
<1>1. \E x \in S : \A y \in S : x =< y
  <2>1. CASE a <= b /\ a <= c
    BY <2>1
  <2>2. CASE b <= a /\ b <= c
    BY <2>2
  <2>3. CASE c <= a /\ c <= b
    BY <2>3
  <2> QED
    BY <2>1, <2>2, <2>3
<1> HIDE DEF S
<1>2. Min(S) \in S /\ \A y \in S : Min(S) =< y
  BY <1>1, Zenon DEF Min
<1> QED
  BY <1>2 DEF S

LEMMA KeptFacts ==
  ASSUME input \in InputType, input.points # << >>, input.weights # << >>
  PROVE  /\ Kept \in Nat /\ Kept <= Lines
         /\ \A m \in Nat :
              /\ m <= Lines /\ m <= Head(input.weights) /\ m <= SIMPOINT_IDX_MAX
              /\ m = Lines \/ m = Head(input.weights) \/ m = SIMPOINT_IDX_MAX
              => m = Kept
<1>1. Lines \in Nat /\ Head(input.weights) \in Nat /\ SIMPOINT_IDX_MAX \in Nat
  BY ColumnFacts
<1>2. /\ Kept \in {Lines, Head(input.weights), SIMPOINT_IDX_MAX}
      /\ Kept <= Lines /\ Kept <= Head(input.weights) /\ Kept <= SIMPOINT_IDX_MAX
  BY <1>1, MinOfThree DEF Kept
<1> QED
  BY <1>1, <1>2

LEMMA OccurrencesNat ==
  ASSUME NEW s, NEW m \in Nat, NEW x
  PROVE  IsFiniteSet(Places(s, m, x)) /\ Occurrences(s, m, x) \in Nat
<1>1. IsFiniteSet(1 .. m) /\ Places(s, m, x) \in SUBSET (1 .. m)
  BY FS_Interval DEF Places
<1> QED
  BY <1>1, FS_Subset, FS_CardinalityType DEF Occurrences

LEMMA OneMore ==
  ASSUME NEW s, NEW m \in Nat, NEW x
  PROVE  Occurrences(s, m + 1, x) = Occurrences(s, m, x) + (IF s[m + 1] = x THEN 1 ELSE 0)
<1>1. IsFiniteSet(Places(s, m, x)) /\ Occurrences(s, m, x) \in Nat /\ m + 1 \notin Places(s, m, x)
  BY OccurrencesNat DEF Places
<1>2. CASE s[m + 1] = x
  <2>1. Places(s, m + 1, x) = Places(s, m, x) \cup {m + 1}
    BY <1>2 DEF Places
  <2> QED
    BY <1>1, <1>2, <2>1, FS_AddElement DEF Occurrences
<1>3. CASE s[m + 1] # x
  <2>1. Places(s, m + 1, x) = Places(s, m, x)
    BY <1>3 DEF Places
  <2> QED
    BY <1>1, <1>3, <2>1 DEF Occurrences
<1> QED
  BY <1>2, <1>3

\* InsertAt adds v and nothing else.
LEMMA InsertCounts ==
  ASSUME NEW s \in Seq(Nat), NEW v \in Nat, NEW k \in 1 .. Len(s) + 1, NEW x \in Nat
  PROVE  Occurrences(InsertAt(s, k, v), Len(s) + 1, x)
           = Occurrences(s, Len(s), x) + (IF v = x THEN 1 ELSE 0)
<1> DEFINE t == InsertAt(s, k, v)
           m == Len(s)
           A == Places(s, m, x)
           B == Places(t, m + 1, x) \ {k}
           f == [i \in A |-> IF i < k THEN i ELSE i + 1]
<1>1. m \in Nat /\ k \in Nat /\ k \in 1 .. m + 1
  OBVIOUS
<1>2. \A i \in 1 .. m + 1 : t[i] = IF i < k THEN s[i] ELSE IF i = k THEN v ELSE s[i - 1]
  BY InsertedSeq
<1> HIDE DEF t, m
<1>3. \A i \in A : f[i] \in B
  <2> TAKE i \in A
  <2>1. i \in 1 .. m /\ s[i] = x
    BY DEF Places
  <2>2. CASE i < k
    BY <1>1, <1>2, <2>1, <2>2 DEF Places
  <2>3. CASE ~ (i < k)
    <3>1. i + 1 \in 1 .. m + 1 /\ ~ (i + 1 < k) /\ i + 1 # k /\ (i + 1) - 1 = i
      BY <1>1, <2>1, <2>3
    <3>2. t[i + 1] = s[i] /\ f[i] = i + 1
      BY <1>2, <2>3, <3>1
    <3> QED
      BY <2>1, <3>1, <3>2 DEF Places
  <2> QED
    BY <2>2, <2>3
<1>4. \A i, j \in A : f[i] = f[j] => i = j
  BY <1>1 DEF Places
<1>5. \A j \in B : \E i \in A : f[i] = j
  <2> TAKE j \in B
  <2>1. j \in 1 .. m + 1 /\ t[j] = x /\ j # k
    BY DEF Places
  <2>2. CASE j < k
    <3>1. j \in 1 .. m /\ s[j] = x
      BY <1>1, <1>2, <2>1, <2>2
    <3> QED
      BY <2>2, <3>1 DEF Places
  <2>3. CASE ~ (j < k)
    <3>1. j - 1 \in 1 .. m /\ s[j - 1] = x /\ ~ (j - 1 < k) /\ (j - 1) + 1 = j
      BY <1>1, <1>2, <2>1, <2>3
    <3> QED
      BY <3>1 DEF Places
  <2> QED
    BY <2>2, <2>3
<1>6. f \in Bijection(A, B)
  <2>1. f \in [A -> B]
    BY <1>3
  <2>2. DOMAIN f = A
    OBVIOUS
  <2> HIDE DEF f, A, B
  <2> QED
    BY <2>2, <1>4, <1>5, <2>1, Zenon DEF Bijection, Injection, Surjection, IsInjective
<1>7. IsFiniteSet(A) /\ Cardinality(B) = Cardinality(A) /\ Cardinality(A) \in Nat
  <2>1. ExistsBijection(A, B)
    BY <1>6 DEF ExistsBijection
  <2>2. IsFiniteSet(A) /\ Cardinality(A) \in Nat
    BY <1>1, OccurrencesNat DEF Occurrences
  <2> HIDE DEF A, B
  <2> QED
    BY <2>1, <2>2, FS_Bijection
<1>8. /\ IsFiniteSet(Places(t, m + 1, x)) /\ Cardinality(Places(t, m + 1, x)) \in Nat
      /\ k \in Places(t, m + 1, x) <=> v = x
  <2>1. t[k] = v
    BY <1>1, <1>2
  <2>2. m + 1 \in Nat
    BY <1>1
  <2>3. IsFiniteSet(Places(t, m + 1, x)) /\ Cardinality(Places(t, m + 1, x)) \in Nat
    BY <2>2, OccurrencesNat DEF Occurrences
  <2> QED
    BY <1>1, <2>1, <2>3 DEF Places
<1>9. Cardinality(B) = IF v = x THEN Cardinality(Places(t, m + 1, x)) - 1
                                ELSE Cardinality(Places(t, m + 1, x))
  <2> DEFINE T == Places(t, m + 1, x)
  <2>1. B = T \ {k} /\ IsFiniteSet(T) /\ (k \in T <=> v = x)
    BY <1>8
  <2> HIDE DEF T, B
  <2>2. CASE v = x
    <3>1. Cardinality(T \ {k}) = Cardinality(T) - 1
      BY <2>1, <2>2, FS_RemoveElement, Zenon
    <3> QED
      BY <2>1, <2>2, <3>1 DEF T
  <2>3. CASE v # x
    <3>1. T \ {k} = T
      BY <2>1, <2>3
    <3> QED
      BY <2>1, <2>3, <3>1 DEF T
  <2> QED
    BY <2>2, <2>3
<1> QED
  BY <1>7, <1>8, <1>9 DEF Occurrences, t, m

\* The same entries as often: the same bag.
LEMMA SameBag ==
  ASSUME NEW s \in Seq(Nat), NEW t \in Seq(Nat), Len(s) = Len(t), SameEntries(s, t, Len(s))
  PROVE  ToBag(s) = ToBag(t)
<1> DEFINE m == Len(s)
<1>1. /\ m \in Nat /\ Len(t) = m /\ DOMAIN s = 1 .. m /\ DOMAIN t = 1 .. m
      /\ \A i \in 1 .. m : s[i] \in Nat /\ t[i] \in Nat
  OBVIOUS
<1> HIDE DEF m
<1>2. ASSUME NEW x \in Nat
      PROVE  /\ Cardinality({i \in 1 .. m : s[i] = x}) = Cardinality({i \in 1 .. m : t[i] = x})
             /\ (\E i \in 1 .. m : s[i] = x) <=> (\E i \in 1 .. m : t[i] = x)
  <2>1. Cardinality(Places(s, m, x)) = Cardinality(Places(t, m, x))
    BY DEF SameEntries, Occurrences, m
  <2>2. IsFiniteSet(Places(s, m, x)) /\ IsFiniteSet(Places(t, m, x))
    BY <1>1, OccurrencesNat
  <2>3. Places(s, m, x) = {} <=> Places(t, m, x) = {}
    BY <2>1, <2>2, FS_EmptySet
  <2> QED
    BY <2>1, <2>3 DEF Places
<1>3. Range(s) = Range(t) /\ \A x \in Range(s) : x \in Nat
  <2>1. \A x : x \in Range(s) <=> \E i \in 1 .. m : s[i] = x
    BY <1>1 DEF Range
  <2>2. \A x : x \in Range(t) <=> \E i \in 1 .. m : t[i] = x
    BY <1>1 DEF Range
  <2>3. \A x : x \in Range(s) \/ x \in Range(t) => x \in Nat
    BY <1>1, <2>1, <2>2
  <2>4. \A x : x \in Range(s) <=> x \in Range(t)
    BY <1>2, <2>1, <2>2, <2>3
  <2> QED
    BY <2>3, <2>4
<1>4. ToBag(s) = [x \in Range(s) |-> Cardinality({i \in 1 .. m : s[i] = x})]
  BY <1>1 DEF ToBag
<1>5. ToBag(t) = [x \in Range(s) |-> Cardinality({i \in 1 .. m : t[i] = x})]
  BY <1>1, <1>3 DEF ToBag
<1>6. \A x \in Range(s) :
        Cardinality({i \in 1 .. m : s[i] = x}) = Cardinality({i \in 1 .. m : t[i] = x})
  BY <1>2, <1>3
<1> QED
  BY <1>4, <1>5, <1>6, Zenon

\* What the files are does not change.
LEMMA SameFiles ==
  ASSUME input' = input
  PROVE  /\ Lines' = Lines /\ Kept' = Kept /\ TwoColumns' = TwoColumns /\ Tokens' = Tokens
         /\ LocationColumn' = LocationColumn /\ ColumnAscends' = ColumnAscends
         /\ Head(input.weights)' = Head(input.weights)
BY DEF Lines, Kept, TwoColumns, LocationColumn, ColumnAscends, Tokens, Guint

\* Each turn of the loop takes one line; it ends at the right one.
LEMMA ReadLine ==
  ASSUME ParserInv, ColumnInv, StoreLine
  PROVE  ColumnInv'
<1>1. /\ phase = "read" /\ PointLeft /\ WeightLeft /\ ScanPoint
      /\ cptInstructions' = Append(cptInstructions, location')
      /\ weights' = Append(weights, Len(weights) + 1)
      /\ phase' = IF Full(cptInstructions') THEN "sort" ELSE "read"
      /\ UNCHANGED <<input, sorted, pathList>>
  BY DEF StoreLine
<1>2. /\ input \in InputType /\ input.mode = "simpoint" /\ input.points # << >>
      /\ input.weights # << >> /\ sorted = << >>
      /\ cptInstructions \in Seq(Nat) /\ Len(cptInstructions) < SIMPOINT_IDX_MAX
      /\ Len(weights) = Len(cptInstructions)
  BY <1>1 DEF ParserInv, ParserTypeOK, OnlyAccepted, WhileReading, WeightsInStep, ColumnInv
<1> DEFINE m == Len(cptInstructions)
<1> SUFFICES ASSUME TwoColumns PROVE ColumnRead' /\ ColumnSorted' /\ ColumnHandedOver'
  BY <1>1, <1>2, SameFiles DEF ColumnInv
<1>3. /\ pos = 2 * m + 1 /\ m <= Lines /\ m <= Head(input.weights) /\ ReadInOrder /\ m \in Nat
  BY <1>1, <1>2 DEF ColumnInv, ColumnRead
<1>4. /\ Len(Tokens) = 2 * Lines /\ Lines \in Nat /\ Head(input.weights) \in Nat
      /\ \A k \in 1 .. Lines : LocationColumn[k] = Tokens[2 * k - 1]
      /\ \A i \in 1 .. Len(Tokens) : Tokens[i] \in Nat /\ Tokens[i] # Junk
  BY <1>2, ColumnFacts
<1>5. /\ m + 1 \in 1 .. Lines /\ pos \in 1 .. Len(Tokens) /\ pos + 1 \in 1 .. Len(Tokens)
      /\ pos = 2 * (m + 1) - 1 /\ m + 1 <= Head(input.weights)
  <2>1. pos <= Len(Tokens) /\ m < Head(input.weights)
    BY <1>1, <1>2 DEF PointLeft, WeightLeft
  <2> HIDE DEF m
  <2> QED
    BY <1>3, <1>4, <2>1
<1>6. location' = LocationColumn[m + 1] /\ location' \in Nat /\ pos' = pos + 2
  <2>1. pos < Len(Tokens) /\ Tokens[pos] # Junk /\ Tokens[pos + 1] # Junk /\ Tokens[pos] \in Nat
    BY <1>4, <1>5
  <2>2. ScanPoint /\ Tokens[pos] = LocationColumn[m + 1]
    BY <1>1, <1>4, <1>5
  <2> QED
    BY <2>1, <2>2, Zenon DEF ScanPoint
<1>7. /\ cptInstructions' \in Seq(Nat) /\ Len(cptInstructions') = m + 1
      /\ \A k \in 1 .. m + 1 : cptInstructions'[k] = LocationColumn[k]
  BY <1>1, <1>2, <1>3, <1>6 DEF ReadInOrder
<1> HIDE DEF m
<1>8. ReadInOrder'
  BY <1>1, <1>7, SameFiles DEF ReadInOrder
<1>9. CASE phase' = "read"
  <2>1. pos' = 2 * Len(cptInstructions') + 1
    BY <1>3, <1>6, <1>7
  <2>2. Len(cptInstructions') <= Lines /\ Len(cptInstructions') <= Head(input.weights)
    BY <1>3, <1>4, <1>5, <1>7
  <2> QED
    BY <1>1, <1>8, <1>9, <2>1, <2>2, SameFiles DEF ColumnRead, ColumnSorted, ColumnHandedOver
<1>10. CASE phase' = "sort"
  <2>1. m + 1 = SIMPOINT_IDX_MAX
    <3>1. Len(cptInstructions') >= SIMPOINT_IDX_MAX
      BY <1>1, <1>10 DEF Full
    <3>2. m < SIMPOINT_IDX_MAX
      BY <1>2 DEF m
    <3> QED
      BY <1>3, <1>7, <3>1, <3>2
  <2>2. m + 1 = Kept
    <3>1. m + 1 \in Nat /\ m + 1 <= Lines /\ m + 1 <= Head(input.weights)
          /\ m + 1 <= SIMPOINT_IDX_MAX
      BY <1>3, <1>4, <1>5, <2>1
    <3> QED
      BY <1>2, <2>1, <3>1, KeptFacts
  <2>3. \A k \in 1 .. Len(sorted') : FALSE
    BY <1>1, <1>2
  <2>4. SameEntries(sorted, cptInstructions, Len(sorted))'
    <3>1. Len(sorted') = 0 /\ 1 .. 0 = {}
      BY <1>1, <1>2
    <3> QED
      BY <3>1 DEF SameEntries, Occurrences, Places
  <2> QED
    BY <1>1, <1>7, <1>8, <1>10, <2>2, <2>3, <2>4, SameFiles
       DEF ColumnRead, ColumnSorted, ColumnHandedOver
<1> QED
  BY <1>1, <1>9, <1>10

\* Out of lines or out of weights: as many entries as there are of either.
LEMMA ReadEnds ==
  ASSUME ParserInv, ColumnInv, Mismatch \/ EndOfPoints
  PROVE  ColumnInv'
<1>1. /\ phase = "read" /\ Finish /\ (PointLeft => ~ WeightLeft)
      /\ UNCHANGED <<input, cptInstructions, weights, sorted, pathList>>
  BY DEF Mismatch, EndOfPoints
<1>2. /\ input \in InputType /\ input.mode = "simpoint" /\ input.points # << >>
      /\ input.weights # << >> /\ sorted = << >>
      /\ cptInstructions \in Seq(Nat) /\ Len(cptInstructions) < SIMPOINT_IDX_MAX
      /\ Len(weights) = Len(cptInstructions)
  BY <1>1 DEF ParserInv, ParserTypeOK, OnlyAccepted, WhileReading, WeightsInStep, ColumnInv
<1>3. phase' \in {"sort", "off"}
  BY <1>1 DEF Finish
<1> DEFINE m == Len(cptInstructions)
<1> SUFFICES ASSUME TwoColumns, phase' = "sort"
             PROVE  ColumnRead' /\ ColumnSorted' /\ ColumnHandedOver'
  BY <1>1, <1>2, <1>3, SameFiles DEF ColumnInv
<1>4. /\ pos = 2 * m + 1 /\ m <= Lines /\ m <= Head(input.weights) /\ ReadInOrder /\ m \in Nat
  BY <1>1, <1>2 DEF ColumnInv, ColumnRead
<1>5. Len(Tokens) = 2 * Lines /\ Lines \in Nat /\ Head(input.weights) \in Nat
  BY <1>2, ColumnFacts
<1>6. m = Kept
  <2>1. m = Lines \/ m = Head(input.weights)
    BY <1>1, <1>2, <1>4, <1>5 DEF PointLeft, WeightLeft
  <2>2. m <= SIMPOINT_IDX_MAX
    BY <1>2, <1>4
  <2> QED
    BY <1>2, <1>4, <2>1, <2>2, KeptFacts
<1>7. SameEntries(sorted, cptInstructions, Len(sorted))'
  <2>1. Len(sorted') = 0 /\ 1 .. 0 = {}
    BY <1>1, <1>2
  <2> QED
    BY <2>1 DEF SameEntries, Occurrences, Places
<1>8. \A k \in 1 .. Len(sorted') : FALSE
  BY <1>1, <1>2
<1>9. ReadInOrder'
  BY <1>1, <1>4, SameFiles DEF ReadInOrder
<1> QED
  BY <1>1, <1>6, <1>7, <1>8, <1>9, SameFiles DEF ColumnRead, ColumnSorted, ColumnHandedOver

\* The column t is s with the entry x put in at place k.
Inserted(t, s, k, x) ==
  /\ t \in Seq(Nat)
  /\ Len(t) = Len(s) + 1
  /\ \A i \in 1 .. Len(s) + 1 :
       t[i] = IF i < k THEN s[i] ELSE IF i = k THEN x ELSE s[i - 1]

\* One entry is put in: the sort loses none and doubles none, and where the column
\* ascends it moves none past a smaller one.
LEMMA InsertLine ==
  ASSUME ParserInv, ColumnInv, InsertNext
  PROVE  ColumnInv'
<1>1. /\ phase = "sort" /\ Len(sorted) < Len(cptInstructions)
      /\ UNCHANGED <<input, phase, pos, location, cptInstructions, weights, pathList>>
  BY DEF InsertNext
<1>2. /\ sorted \in Seq(Nat) /\ cptInstructions \in Seq(Nat) /\ input \in InputType
      /\ Len(sorted) \in Nat /\ Len(cptInstructions) \in Nat /\ input.mode = "simpoint"
      /\ Ascending(sorted)
  BY <1>1 DEF ParserInv, ParserTypeOK, OnlyAccepted
<1> DEFINE m == Len(sorted)
           x == cptInstructions[m + 1]
<1>3. x \in Nat /\ m \in Nat /\ m + 1 \in 1 .. Len(cptInstructions)
  BY <1>1, <1>2
<1>4. PICK k \in 1 .. m + 1 : InsertionPoint(k, x) /\ sorted' = InsertAt(sorted, k, x)
  BY DEF InsertNext
<1> HIDE DEF m, x
<1>5. /\ input.points # << >> /\ input.weights # << >>
      /\ TwoColumns => ColumnSorted
  BY <1>1, <1>2 DEF ColumnInv
<1> SUFFICES ASSUME TwoColumns PROVE ColumnSorted'
  BY <1>1, <1>5, SameFiles DEF ColumnInv, ColumnRead, ColumnHandedOver
<1>6. /\ Len(cptInstructions) = Kept /\ ReadInOrder
      /\ SameEntries(sorted, cptInstructions, m)
      /\ ColumnAscends => \A i \in 1 .. m : Guint(sorted[i]) = Guint(cptInstructions[i])
  BY <1>1, <1>5 DEF ColumnSorted, m
<1>7. /\ sorted' \in Seq(Nat) /\ Len(sorted') = m + 1
      /\ \A i \in 1 .. m + 1 :
           sorted'[i] = IF i < k THEN sorted[i] ELSE IF i = k THEN x ELSE sorted[i - 1]
  <2>1. /\ InsertAt(sorted, k, x) \in Seq(Nat)
        /\ Len(InsertAt(sorted, k, x)) = Len(sorted) + 1
        /\ \A i \in 1 .. Len(sorted) + 1 :
             InsertAt(sorted, k, x)[i]
               = IF i < k THEN sorted[i] ELSE IF i = k THEN x ELSE sorted[i - 1]
    <3>1. sorted \in Seq(Nat) /\ x \in Nat /\ k \in 1 .. Len(sorted) + 1
      BY <1>2, <1>3 DEF m
    <3>2. \A s \in Seq(Nat) : \A v \in Nat : \A j \in 1 .. Len(s) + 1 : Inserted(InsertAt(s, j, v), s, j, v)
      BY InsertedSeq DEF Inserted
    <3>3. Inserted(InsertAt(sorted, k, x), sorted, k, x)
      BY <3>1, <3>2, Zenon
    <3> QED
      BY <3>3, Zenon DEF Inserted
  <2> QED
    BY <1>4, <2>1 DEF m
<1>8. SameEntries(sorted', cptInstructions, m + 1)
  <2> SUFFICES ASSUME NEW y \in Nat
               PROVE  Occurrences(sorted', m + 1, y) = Occurrences(cptInstructions, m + 1, y)
    BY DEF SameEntries
  <2>1. Occurrences(sorted', m + 1, y)
          = Occurrences(sorted, m, y) + (IF x = y THEN 1 ELSE 0)
    BY <1>2, <1>3, <1>4, InsertCounts DEF m
  <2>2. Occurrences(cptInstructions, m + 1, y)
          = Occurrences(cptInstructions, m, y) + (IF x = y THEN 1 ELSE 0)
    BY <1>3, OneMore DEF x
  <2>3. Occurrences(sorted, m, y) = Occurrences(cptInstructions, m, y)
    BY <1>6 DEF SameEntries
  <2> QED
    BY <2>1, <2>2, <2>3
<1>9. ASSUME ColumnAscends
      PROVE  \A i \in 1 .. m + 1 : Guint(sorted'[i]) = Guint(cptInstructions[i])
  <2>1. /\ \A i \in 1 .. m : Guint(sorted[i]) \in Nat /\ Guint(sorted[i]) = Guint(cptInstructions[i])
        /\ Guint(x) \in Nat
    BY <1>2, <1>3, <1>6, <1>9, GuintsNat, GuintNat DEF m
  <2>2. \A i \in k .. m : Guint(sorted[i]) = Guint(x)
    <3> TAKE i \in k .. m
    <3>1. i \in 1 .. m /\ m \in 1 .. m /\ k \in 1 .. m /\ k <= m
      BY <1>3
    <3>2. Guint(x) <= Guint(sorted[k])
      BY <1>4, <3>1 DEF InsertionPoint, m
    <3>3. Guint(sorted[k]) <= Guint(sorted[i]) /\ Guint(sorted[i]) <= Guint(sorted[m])
      <4>1. k < i \/ k = i
        BY <3>1
      <4>2. i < m \/ i = m
        BY <3>1
      <4> QED
        BY <1>2, <2>1, <3>1, <4>1, <4>2 DEF Ascending, m
    <3>4. Guint(sorted[m]) <= Guint(x)
      <4>1. /\ LocationColumn[m] = cptInstructions[m] /\ LocationColumn[m + 1] = x
            /\ m \in 1 .. Len(LocationColumn) - 1
        <5>1. Len(LocationColumn) = Lines /\ Lines \in Nat /\ Kept <= Lines /\ Kept \in Nat
          BY <1>2, <1>5, ColumnFacts, KeptFacts
        <5>2. m \in 1 .. Len(cptInstructions) /\ m \in 1 .. Len(LocationColumn) - 1
          BY <1>3, <1>6, <3>1, <5>1
        <5> QED
          BY <1>3, <1>6, <5>2 DEF ReadInOrder, x
      <4>2. Guint(LocationColumn[m]) <= Guint(LocationColumn[m + 1])
        BY <1>9, <4>1 DEF ColumnAscends
      <4> QED
        BY <2>1, <3>1, <4>1, <4>2
    <3> QED
      BY <2>1, <3>1, <3>2, <3>3, <3>4
  <2> TAKE i \in 1 .. m + 1
  <2>3. CASE i < k
    <3>1. i \in 1 .. m
      BY <1>3, <2>3
    <3> QED
      BY <1>7, <2>1, <2>3, <3>1
  <2>4. CASE i = k
    <3>1. sorted'[i] = x /\ (i \in k .. m \/ i = m + 1)
      BY <1>3, <1>7, <2>4
    <3>2. CASE i \in k .. m
      <4>1. i \in 1 .. m
        BY <1>3, <3>2
      <4> QED
        BY <2>1, <2>2, <3>1, <3>2, <4>1
    <3>3. CASE i = m + 1
      BY <3>1, <3>3 DEF x
    <3> QED
      BY <3>1, <3>2, <3>3
  <2>5. CASE i > k
    <3>1. sorted'[i] = sorted[i - 1] /\ i - 1 \in k .. m /\ (i \in k .. m \/ i = m + 1)
      BY <1>3, <1>7, <2>5
    <3>2. Guint(sorted'[i]) = Guint(x)
      BY <2>2, <3>1
    <3>3. CASE i \in k .. m
      <4>1. i \in 1 .. m
        BY <1>3, <3>3
      <4> QED
        BY <2>1, <2>2, <3>2, <3>3, <4>1
    <3>4. CASE i = m + 1
      BY <3>2, <3>4 DEF x
    <3> QED
      BY <3>1, <3>3, <3>4
  <2>6. i < k \/ i = k \/ i > k
    BY <1>3
  <2> QED
    BY <2>3, <2>4, <2>5, <2>6
<1>10. SameEntries(sorted, cptInstructions, Len(sorted))'
  <2>1. cptInstructions' = cptInstructions /\ Len(sorted') = m + 1
    BY <1>1, <1>7
  <2> QED
    BY <1>8, <2>1, Zenon DEF SameEntries, Occurrences, Places
<1>11. (\A i \in 1 .. Len(sorted) : Guint(sorted[i]) = Guint(cptInstructions[i]))'
       <=> \A i \in 1 .. m + 1 : Guint(sorted'[i]) = Guint(cptInstructions[i])
  BY <1>1, <1>7 DEF Guint
<1>12. ReadInOrder'
  BY <1>1, <1>6, SameFiles DEF ReadInOrder
<1> QED
  BY <1>1, <1>6, <1>9, <1>10, <1>11, <1>12, SameFiles DEF ColumnSorted

\* The sorted list takes the place of the one that was read.
LEMMA HandOver ==
  ASSUME ParserInv, ColumnInv, MakePaths
  PROVE  ColumnInv'
<1>1. /\ phase = "sort" /\ phase' = "on" /\ Len(sorted) = Len(cptInstructions)
      /\ cptInstructions' = sorted
      /\ UNCHANGED <<input, pos, location, weights, sorted>>
  BY DEF MakePaths
<1>2. /\ sorted \in Seq(Nat) /\ Len(sorted) \in Nat /\ input \in InputType
      /\ input.mode = "simpoint"
  BY <1>1 DEF ParserInv, ParserTypeOK, OnlyAccepted
<1>3. /\ input.points # << >> /\ input.weights # << >>
      /\ TwoColumns => ColumnSorted
  BY <1>1, <1>2 DEF ColumnInv
<1> SUFFICES ASSUME TwoColumns PROVE ColumnHandedOver'
  BY <1>1, <1>3, SameFiles DEF ColumnInv, ColumnRead, ColumnSorted
<1>4. /\ Len(cptInstructions) = Kept /\ ReadInOrder /\ Len(sorted) = Kept /\ Kept \in Nat
      /\ SameEntries(sorted, cptInstructions, Kept)
      /\ ColumnAscends => \A i \in 1 .. Kept : Guint(sorted[i]) = Guint(cptInstructions[i])
  BY <1>1, <1>2, <1>3 DEF ColumnSorted
<1>5. SameEntries(sorted, LocationColumn, Kept)
  <2>1. \A x : Places(cptInstructions, Kept, x) = Places(LocationColumn, Kept, x)
    BY <1>4 DEF Places, ReadInOrder
  <2> QED
    BY <1>4, <2>1 DEF SameEntries, Occurrences
<1>6. ColumnAscends => \A i \in 1 .. Kept : Guint(sorted[i]) = Guint(LocationColumn[i])
  BY <1>4 DEF ReadInOrder
<1>7. SameEntries(cptInstructions, LocationColumn, Kept)'
  BY <1>1, <1>5, SameFiles DEF SameEntries, Occurrences, Places
<1>8. (ColumnAscends => \A i \in 1 .. Len(cptInstructions) :
                           Guint(cptInstructions[i]) = Guint(LocationColumn[i]))'
  BY <1>1, <1>4, <1>6, SameFiles DEF Guint
<1> QED
  BY <1>1, <1>4, <1>7, <1>8, SameFiles DEF ColumnHandedOver

LEMMA ColumnStep == ParserInv /\ ColumnInv /\ [Next]_vars => ColumnInv'
<1> SUFFICES ASSUME ParserInv, ColumnInv, [Next]_vars PROVE ColumnInv'
  OBVIOUS
<1>1. CASE Refuse \/ Accept \/ OpenFails
  <2>1. phase' \in {"off", "open"} \/ (phase' = "on" /\ input'.mode # "simpoint")
    BY <1>1 DEF Refuse, Accept, OpenFails
  <2> QED
    BY <2>1 DEF ColumnInv
<1>2. CASE OpenFiles
  <2>1. /\ phase = "open" /\ phase' = "read" /\ input.points # << >> /\ input.weights # << >>
        /\ UNCHANGED <<input, pos, location, cptInstructions, weights, sorted, pathList>>
    BY <1>2 DEF OpenFiles
  <2>2. cptInstructions = << >> /\ pos = 1 /\ input \in InputType
    BY <2>1 DEF ParserInv, ParserTypeOK, BeforeReading
  <2>3. Head(input.weights) \in Nat /\ Lines \in Nat
    BY <2>1, <2>2, ColumnFacts
  <2>4. ReadInOrder'
    BY <2>1, <2>2 DEF ReadInOrder
  <2> QED
    BY <2>1, <2>2, <2>3, <2>4, SameFiles DEF ColumnInv, ColumnRead, ColumnSorted, ColumnHandedOver
<1>3. CASE UNCHANGED vars
  <2>1. UNCHANGED <<input, phase, pos, location, cptInstructions, weights, sorted, pathList>>
    BY <1>3 DEF vars
  <2>2. (ColumnRead <=> ColumnRead') /\ (ColumnSorted <=> ColumnSorted')
        /\ (ColumnHandedOver <=> ColumnHandedOver')
    BY <2>1, SameFiles DEF ColumnRead, ColumnSorted, ColumnHandedOver, ReadInOrder, Guint,
                           SameEntries, Occurrences, Places
  <2> QED
    BY <2>1, <2>2, SameFiles DEF ColumnInv
<1> QED
  BY <1>1, <1>2, <1>3, ReadLine, ReadEnds, InsertLine, HandOver DEF Next

LEMMA ColumnInit == Init => ColumnInv
BY DEF Init, ColumnInv

LEMMA ColumnGives == ParserInv /\ ColumnInv => EveryLineCounts /\ CorrespondingWeight
<1> SUFFICES ASSUME ParserInv, ColumnInv, phase = "on", input.mode = "simpoint", TwoColumns
             PROVE  EveryLineCounts /\ CorrespondingWeight
  BY DEF EveryLineCounts, CorrespondingWeight
<1>1. /\ input \in InputType /\ cptInstructions \in Seq(Nat)
      /\ input.points # << >> /\ input.weights # << >>
      /\ pathList = OutputPaths(cptInstructions)
      /\ Len(weights) = Len(cptInstructions) /\ \A k \in 1 .. Len(weights) : weights[k] = k
  BY DEF ParserInv, ParserTypeOK, ColumnInv, WhenOn, WeightsInStep
<1>2. /\ LocationColumn \in Seq(Nat) /\ Len(LocationColumn) = Lines /\ Lines \in Nat
      /\ Kept \in Nat /\ Kept <= Lines
  BY <1>1, ColumnFacts, KeptFacts
<1>3. /\ Len(cptInstructions) = Kept
      /\ SameEntries(cptInstructions, LocationColumn, Kept)
      /\ ColumnAscends =>
           \A k \in 1 .. Kept : Guint(cptInstructions[k]) = Guint(LocationColumn[k])
  BY DEF ColumnInv, ColumnHandedOver
<1>4. EveryLineCounts
  <2> DEFINE u == SubSeq(LocationColumn, 1, Kept)
  <2>1. u \in Seq(Nat) /\ Len(u) = Kept /\ \A i \in 1 .. Kept : u[i] = LocationColumn[i]
    <3>1. \A i \in 1 .. Kept : i \in 1 .. Len(LocationColumn)
      BY <1>2
    <3>2. \A i \in 1 .. Kept : LocationColumn[i] \in Nat
      BY <1>2, <3>1
    <3>3. 1 \in Int /\ Kept \in Int
      BY <1>2
    <3> HIDE DEF Kept
    <3>4. /\ SubSeq(LocationColumn, 1, Kept) \in Seq(Nat)
          /\ Len(SubSeq(LocationColumn, 1, Kept)) = IF 1 <= Kept THEN Kept - 1 + 1 ELSE 0
          /\ \A i \in 1 .. Kept - 1 + 1 :
               SubSeq(LocationColumn, 1, Kept)[i] = LocationColumn[1 + i - 1]
      BY <3>2, <3>3, SubSeqProperties
    <3> HIDE DEF u
    <3>5. /\ u \in Seq(Nat) /\ (Len(u) = IF 1 <= Kept THEN Kept - 1 + 1 ELSE 0)
          /\ \A i \in 1 .. Kept - 1 + 1 : u[i] = LocationColumn[1 + i - 1]
      BY <3>4 DEF u
    <3>6. Len(u) = Kept /\ \A i \in 1 .. Kept : i \in 1 .. Kept - 1 + 1 /\ 1 + i - 1 = i
      BY <1>2, <3>5
    <3> QED
      BY <3>5, <3>6
  <2> HIDE DEF u
  <2>2. SameEntries(cptInstructions, u, Kept)
    <3>1. \A x : Places(u, Kept, x) = Places(LocationColumn, Kept, x)
      BY <2>1 DEF Places
    <3> QED
      BY <1>3, <3>1 DEF SameEntries, Occurrences
  <2>3. ToBag(cptInstructions) = ToBag(u)
    BY <1>1, <1>3, <2>1, <2>2, SameBag
  <2>4. Min({Len(LocationColumn), Head(input.weights), SIMPOINT_IDX_MAX}) = Kept
    BY <1>2 DEF Kept
  <2> QED
    BY <2>3, <2>4 DEF EveryLineCounts, u
<1>5. CorrespondingWeight
  <2> SUFFICES ASSUME ColumnAscends, NEW i \in 1 .. Len(pathList)
               PROVE  pathList[i] = [insn |-> MulU64(Guint(LocationColumn[i]), input.interval),
                                     weight |-> i]
    BY DEF CorrespondingWeight, ColumnAscends
  <2>1. pathList = [k \in 1 .. Kept |->
                      [insn |-> MulU64(Guint(cptInstructions[k]), input.interval),
                       weight |-> IF k <= Len(weights) THEN weights[k] ELSE 0]]
    BY <1>1, <1>3 DEF OutputPaths
  <2>2. i \in 1 .. Kept
    <3> DEFINE g(k) == [insn |-> MulU64(Guint(cptInstructions[k]), input.interval),
                        weight |-> IF k <= Len(weights) THEN weights[k] ELSE 0]
    <3> HIDE DEF g
    <3>1. pathList = [k \in 1 .. Kept |-> g(k)]
      BY <2>1 DEF g
    <3>2. Len(pathList) = Kept
      BY <1>2, <3>1
    <3> QED
      BY <3>2
  <2>3. i <= Len(weights) /\ weights[i] = i
    BY <1>1, <1>2, <1>3, <2>2
  <2>4. Guint(cptInstructions[i]) = Guint(LocationColumn[i])
    BY <1>3, <2>2
  <2> QED
    BY <2>1, <2>2, <2>3, <2>4
<1> QED
  BY <1>4, <1>5

LEMMA ColumnInvariant == Spec => [](ParserInv /\ ColumnInv)
<1>1. Init => ParserInv /\ ColumnInv
  BY InitEstablishes, ColumnInit
<1>2. ParserInv /\ ColumnInv /\ [Next]_vars => ParserInv' /\ ColumnInv'
  BY StepKeeps, ColumnStep
<1> QED
  BY <1>1, <1>2, PTL DEF Spec

\* However long a file of two columns is, the loop stops at the right line and the
\* list sort neither loses nor doubles an entry (checkpoint_parse_simpoint_files).
THEOREM LinesAllCount == Spec => []EveryLineCounts
BY ColumnInvariant, ColumnGives, PTL

\* In a file in ascending order every location keeps the weight of its own line,
\* through the sort and the lists' lookups by position (checkpoint_prepare_output_paths).
THEOREM WeightsCorrespond == Spec => []CorrespondingWeight
BY ColumnInvariant, ColumnGives, PTL

-----------------------------------------------------------------------------
(* The end of the start-up.                                                     *)

PhasesLeft ==
  CASE phase = "cmdline" -> 4
    [] phase = "open" -> 3
    [] phase = "read" -> 2
    [] phase = "sort" -> 1
    [] OTHER -> 0

\* The turns the loop of a phase has left.
TurnsLeft ==
  CASE phase = "read" -> SIMPOINT_IDX_MAX - Len(cptInstructions)
    [] phase = "sort" -> Len(cptInstructions) - Len(sorted)
    [] OTHER -> 0

StepsLeft == PhasesLeft * (SIMPOINT_IDX_MAX + 1) + TurnsLeft

InRange == PhasesLeft \in 0 .. 4 /\ TurnsLeft \in 0 .. SIMPOINT_IDX_MAX

LEMMA TurnsAre == ParserInv => InRange
<1> SUFFICES ASSUME ParserInv PROVE InRange
  OBVIOUS
<1> DEFINE m == Len(cptInstructions)
           n == Len(sorted)
<1>1. m \in Nat /\ n \in Nat /\ m <= SIMPOINT_IDX_MAX /\ n <= m
  BY DEF ParserInv, ParserTypeOK
<1>2. TurnsLeft \in {SIMPOINT_IDX_MAX - m, m - n, 0}
  BY DEF TurnsLeft
<1> HIDE DEF m, n
<1>3. TurnsLeft \in 0 .. SIMPOINT_IDX_MAX
  BY <1>1, <1>2
<1>4. PhasesLeft \in 0 .. 4
  BY DEF PhasesLeft
<1> QED
  BY <1>3, <1>4 DEF InRange

\* A later phase outweighs whatever turns its loop has.
LEMMA LaterPhase ==
  ASSUME NEW a \in 0 .. 4, NEW b \in 0 .. 4, a < b,
         NEW max \in Nat, NEW x \in 0 .. max, NEW y \in 0 .. max
  PROVE  a * (max + 1) + x < b * (max + 1) + y
<1>1. a \in {0, 1, 2, 3, 4} /\ b \in {0, 1, 2, 3, 4}
  OBVIOUS
<1> QED
  BY <1>1

LEMMA SamePhase ==
  ASSUME NEW front \in Int, NEW x \in Int, NEW y \in Int, x < y
  PROVE  front + x < front + y
OBVIOUS

\* A step leaves its phase behind, or is a turn of the loop of its phase.
LEMMA StepShrinks == ParserInv /\ InRange /\ InRange' /\ Next => StepsLeft' < StepsLeft
<1> SUFFICES ASSUME ParserInv, InRange, InRange', Next PROVE StepsLeft' < StepsLeft
  OBVIOUS
<1>1. ParserTypeOK
  BY DEF ParserInv
<1>2. /\ PhasesLeft \in 0 .. 4 /\ TurnsLeft \in 0 .. SIMPOINT_IDX_MAX
      /\ PhasesLeft' \in 0 .. 4 /\ TurnsLeft' \in 0 .. SIMPOINT_IDX_MAX
  BY DEF InRange
<1>3. ASSUME PhasesLeft' < PhasesLeft PROVE StepsLeft' < StepsLeft
  <2>1. SIMPOINT_IDX_MAX \in Nat
    OBVIOUS
  <2>2. PhasesLeft' * (SIMPOINT_IDX_MAX + 1) + TurnsLeft'
          < PhasesLeft * (SIMPOINT_IDX_MAX + 1) + TurnsLeft
    BY <1>2, <1>3, <2>1, LaterPhase, Zenon
  <2> QED
    BY <2>2 DEF StepsLeft
<1>4. ASSUME PhasesLeft' = PhasesLeft, TurnsLeft' < TurnsLeft PROVE StepsLeft' < StepsLeft
  <2> DEFINE front == PhasesLeft * (SIMPOINT_IDX_MAX + 1)
  <2>1. front \in Nat
    BY <1>2
  <2>2. StepsLeft = front + TurnsLeft /\ StepsLeft' = front + TurnsLeft'
    BY <1>4 DEF StepsLeft
  <2> HIDE DEF front
  <2>3. TurnsLeft \in Int /\ TurnsLeft' \in Int /\ front \in Int
    BY <1>2, <2>1
  <2>4. front + TurnsLeft' < front + TurnsLeft
    BY <1>4, <2>3, SamePhase, Zenon
  <2> QED
    BY <2>2, <2>4
<1>5. CASE Refuse \/ Accept \/ OpenFails \/ OpenFiles
  <2>1. PhasesLeft' < PhasesLeft
    BY <1>5 DEF Refuse, Accept, OpenFails, OpenFiles, PhasesLeft
  <2> QED
    BY <2>1, <1>3
<1>6. CASE StoreLine
  <2>1. /\ phase = "read" /\ phase' \in {"read", "sort"}
        /\ cptInstructions' = Append(cptInstructions, location')
    BY <1>6 DEF StoreLine
  <2>2. CASE phase' = "sort"
    <3>1. PhasesLeft' < PhasesLeft
      BY <2>1, <2>2 DEF PhasesLeft
    <3> QED
      BY <3>1, <1>3
  <2>3. CASE phase' = "read"
    <3>1. PhasesLeft' = PhasesLeft
      BY <2>1, <2>3 DEF PhasesLeft
    <3>2. Len(cptInstructions') = Len(cptInstructions) + 1
      BY <1>1, <2>1 DEF ParserTypeOK
    <3>3. /\ TurnsLeft = SIMPOINT_IDX_MAX - Len(cptInstructions)
          /\ TurnsLeft' = SIMPOINT_IDX_MAX - Len(cptInstructions')
      BY <2>1, <2>3 DEF TurnsLeft
    <3>4. Len(cptInstructions) \in Nat
      BY <1>1 DEF ParserTypeOK
    <3>5. TurnsLeft' < TurnsLeft
      BY <3>2, <3>3, <3>4
    <3> QED
      BY <3>1, <3>5, <1>4
  <2> QED
    BY <2>1, <2>2, <2>3
<1>7. CASE Mismatch \/ EndOfPoints
  <2>1. phase = "read" /\ phase' \in {"off", "sort"}
    BY <1>7 DEF Mismatch, EndOfPoints, Finish
  <2>2. PhasesLeft' < PhasesLeft
    BY <2>1 DEF PhasesLeft
  <2> QED
    BY <2>2, <1>3
<1>8. CASE InsertNext
  <2> DEFINE x == cptInstructions[Len(sorted) + 1]
  <2>1. /\ phase = "sort" /\ phase' = "sort" /\ cptInstructions' = cptInstructions
        /\ Len(sorted) < Len(cptInstructions)
    BY <1>8 DEF InsertNext
  <2>2. PICK k \in 1 .. Len(sorted) + 1 : sorted' = InsertAt(sorted, k, x)
    BY <1>8 DEF InsertNext
  <2>3. sorted \in Seq(Nat) /\ x \in Nat /\ Len(sorted) \in Nat /\ Len(cptInstructions) \in Nat
    BY <1>1, <2>1 DEF ParserTypeOK
  <2> HIDE DEF x
  <2>4. Len(sorted') = Len(sorted) + 1
    BY <2>2, <2>3, InsertedSeq
  <2>5. /\ TurnsLeft = Len(cptInstructions) - Len(sorted)
        /\ TurnsLeft' = Len(cptInstructions) - Len(sorted')
    BY <2>1 DEF TurnsLeft
  <2>6. TurnsLeft' < TurnsLeft
    BY <2>3, <2>4, <2>5
  <2>7. PhasesLeft' = PhasesLeft
    BY <2>1 DEF PhasesLeft
  <2> QED
    BY <2>6, <2>7, <1>4
<1>9. CASE MakePaths
  <2>1. PhasesLeft' < PhasesLeft
    BY <1>9 DEF MakePaths, PhasesLeft
  <2> QED
    BY <2>1, <1>3
<1> QED
  BY <1>5, <1>6, <1>7, <1>8, <1>9 DEF Next

\* Every step of the start-up takes it closer to its end, whatever is in the files:
\* a read that gets no further on a token that is no number still fills a place of
\* the list, a mismatch leaves the loop, and each turn of the sort places an entry.
THEOREM StartUpShrinks == Spec => [](StepsLeft \in Nat) /\ [][StepsLeft' < StepsLeft]_vars
<1>1. InRange => StepsLeft \in Nat
  BY DEF InRange, StepsLeft
<1>2. ParserInv /\ InRange /\ InRange' /\ [Next]_vars => [StepsLeft' < StepsLeft]_vars
  BY StepShrinks
<1>3. Spec => [](ParserInv /\ InRange)
  BY TurnsAre, Invariant, PTL
<1> QED
  BY <1>1, <1>2, <1>3, PTL DEF Spec

\* The first number of a set of naturals that is not empty.
LEMMA FirstOf ==
  ASSUME NEW T, T \subseteq Nat, T # {}
  PROVE  \E x \in T : \A y \in T : x <= y
<1> DEFINE R == OpToRel(<, Nat)
<1>1. IsWellFoundedOn(R, Nat)
  BY NatLessThanWellFounded
<1>2. \A x, y \in Nat : y < x => <<y, x>> \in R
  BY DEF OpToRel
<1> HIDE DEF R
<1>3. PICK x \in T : \A y \in T : ~ (<<y, x>> \in R)
  BY <1>1, WFMin
<1>4. ASSUME NEW y \in T PROVE x <= y
  <2>1. x \in Nat /\ y \in Nat /\ ~ (y < x)
    BY <1>2, <1>3
  <2> QED
    BY <2>1
<1> QED
  BY <1>4

SortFindsPlace ==
  phase = "sort" /\ Len(sorted) < Len(cptInstructions) =>
    \E k \in 1 .. Len(sorted) + 1 : InsertionPoint(k, cptInstructions[Len(sorted) + 1])

\* The inner loop of the sort always comes to rest at a place, so that no entry
\* that was read can bring the sort to a stop.
THEOREM SortAlwaysFindsPlace == Spec => []SortFindsPlace
<1>1. ParserInv => SortFindsPlace
  <2> SUFFICES ASSUME ParserInv, phase = "sort", Len(sorted) < Len(cptInstructions)
               PROVE  \E k \in 1 .. Len(sorted) + 1 :
                        InsertionPoint(k, cptInstructions[Len(sorted) + 1])
    BY DEF SortFindsPlace
  <2> DEFINE x == cptInstructions[Len(sorted) + 1]
             T == {k \in 1 .. Len(sorted) + 1 : k <= Len(sorted) => Guint(sorted[k]) >= Guint(x)}
  <2>1. sorted \in Seq(Nat) /\ Len(sorted) \in Nat /\ x \in Nat
    BY DEF ParserInv, ParserTypeOK
  <2> HIDE DEF x
  <2>6. Guint(x) \in Nat
    BY <2>1, GuintNat
  <2>2. T \subseteq Nat /\ Len(sorted) + 1 \in T
    BY <2>1
  <2>3. PICK k \in T : \A j \in T : k <= j
    BY <2>2, FirstOf
  <2>4. \A j \in 1 .. k - 1 : Guint(sorted[j]) < Guint(x)
    <3> SUFFICES ASSUME NEW j \in 1 .. k - 1 PROVE Guint(sorted[j]) < Guint(x)
      OBVIOUS
    <3>1. j \in 1 .. Len(sorted) /\ j \notin T
      BY <2>1, <2>3
    <3>2. ~ (Guint(sorted[j]) >= Guint(x))
      BY <2>1, <3>1
    <3>3. Guint(sorted[j]) \in Nat
      BY <2>1, <3>1, GuintsNat
    <3> QED
      BY <2>6, <3>2, <3>3
  <2>5. InsertionPoint(k, x)
    BY <2>3, <2>4 DEF InsertionPoint
  <2> QED
    BY <2>3, <2>5 DEF x
<1> QED
  BY <1>1, Invariant, PTL

=============================================================================
