----------------------------- MODULE SimpointParser -----------------------------
(* From the command line to a machine with checkpoints on or off:             *)
(* machvirt_init calls checkpoint_parse_cmdline, which in simpoint mode calls  *)
(* checkpoint_parse_simpoint_files to read the two files line by line, sort    *)
(* the locations and make the output paths.  A failure is not reported to the  *)
(* caller: machvirt_init ignores it and the machine runs without checkpoints.  *)
EXTENDS CheckpointConfig, SequencesExt

CONSTANTS
  SIMPOINT_IDX_MAX,  \* most simpoints that are kept, 300 in the code
  Guints,            \* number of values of a guint, 2^32 in the code
  Junk,              \* a token of the simpoints file that "%lu" does not match
  Leftovers,         \* values an uninitialised uint64_t may have
  Inputs             \* the command lines and directories, one is chosen

\* points and weights are the files that exist, in the order in which their names
\* are tried (simpoints.txt, simpoints0.txt and simpoint_weights.txt,
\* weights0.txt): a simpoints file is its tokens and the places of those that end
\* a line, a weights file its number of lines.  The weight on the k-th line is k.
PointsFile == [tokens : Seq(Nat \cup {Junk}), ends : SUBSET Nat]

InputType ==
  [mode : Modes \cup {"other"}, interval : Nat, warmup : Nat, offset : Nat,
   dir : BOOLEAN, points : Seq(PointsFile), weights : Seq(Nat)]

ASSUME ParserAssumption ==
  /\ SIMPOINT_IDX_MAX \in Nat \ {0}
  /\ Guints \in Nat \ {0}
  /\ Junk \notin Nat
  /\ Leftovers \subseteq Nat
  /\ Inputs \subseteq InputType

VARIABLES
  input,            \* the options and the directory
  phase,            \* where the start-up is; "off" and "on" are its two ends
  pos,              \* the next token of the simpoints file
  location,         \* the local variable simpoint_location
  cptInstructions,  \* simpoint_info.cpt_instructions, head first
  weights,          \* simpoint_info.weights, head first
  sorted,           \* the list the sort builds
  pathList          \* path_manager.checkpoint_path_list, head first

vars == <<input, phase, pos, location, cptInstructions, weights, sorted, pathList>>

Tokens == Head(input.points).tokens

\* What GPOINTER_TO_UINT makes of a list entry.
Guint(x) == x % Guints

Init ==
  /\ input \in Inputs
  /\ phase = "cmdline"
  /\ pos = 1
  /\ location \in Leftovers
  /\ cptInstructions = << >>
  /\ weights = << >>
  /\ sorted = << >>
  /\ pathList = << >>

-----------------------------------------------------------------------------

\* The options that checkpoint_parse_cmdline lets pass.
Acceptable ==
  /\ input.mode \in Modes
  /\ input.interval # 0
  /\ input.mode = "simpoint" => input.dir

Refuse ==
  /\ phase = "cmdline"
  /\ ~ Acceptable
  /\ phase' = "off"
  /\ UNCHANGED <<input, pos, location, cptInstructions, weights, sorted, pathList>>

\* checkpoint_init; only simpoint mode has files to read.
Accept ==
  /\ phase = "cmdline"
  /\ Acceptable
  /\ phase' = IF input.mode = "simpoint" THEN "open" ELSE "on"
  /\ UNCHANGED <<input, pos, location, cptInstructions, weights, sorted, pathList>>

\* Either file missing under both of its names: checkpoint_cleanup.
OpenFails ==
  /\ phase = "open"
  /\ input.points = << >> \/ input.weights = << >>
  /\ phase' = "off"
  /\ UNCHANGED <<input, pos, location, cptInstructions, weights, sorted, pathList>>

OpenFiles ==
  /\ phase = "open"
  /\ input.points # << >> /\ input.weights # << >>
  /\ phase' = "read"
  /\ UNCHANGED <<input, pos, location, cptInstructions, weights, sorted, pathList>>

-----------------------------------------------------------------------------

\* Fault for the checks: one number is read at a time.
ScanOneNumber ==
  IF Tokens[pos] = Junk
  THEN UNCHANGED <<pos, location>>
  ELSE location' = Tokens[pos] /\ pos' = pos + 1

\* fscanf(simpoints_file, "%lu %lu\n"): white space includes line ends, so the
\* second number may be on the next line; what does not match stays unread and
\* its variable keeps its value.
ScanPoint ==
  IF Tokens[pos] = Junk
  THEN UNCHANGED <<pos, location>>
  ELSE /\ location' = Tokens[pos]
       /\ pos' = IF pos < Len(Tokens) /\ Tokens[pos + 1] # Junk THEN pos + 2 ELSE pos + 1

PointLeft == pos <= Len(Tokens)

WeightLeft == Len(weights) < Head(input.weights)

Full(list) == Len(list) >= SIMPOINT_IDX_MAX

\* A point and a weight were read: both lists grow.
StoreLine ==
  /\ phase = "read"
  /\ PointLeft /\ WeightLeft
  /\ ScanPoint
  /\ cptInstructions' = Append(cptInstructions, location')
  /\ weights' = Append(weights, Len(weights) + 1)
  /\ phase' = IF Full(cptInstructions') THEN "sort" ELSE "read"
  /\ UNCHANGED <<input, sorted, pathList>>

\* "No valid simpoints found in files", or on to the sort.
Finish == phase' = IF cptInstructions = << >> THEN "off" ELSE "sort"

\* Fault for the checks: the mismatch is reported and the loop goes on.
MismatchGoesOn ==
  /\ phase = "read"
  /\ PointLeft /\ ~ WeightLeft
  /\ ScanPoint
  /\ UNCHANGED <<input, phase, cptInstructions, weights, sorted, pathList>>

\* "Mismatch between simpoints and weights files": the point just read is dropped.
Mismatch ==
  /\ phase = "read"
  /\ PointLeft /\ ~ WeightLeft
  /\ ScanPoint
  /\ Finish
  /\ UNCHANGED <<input, cptInstructions, weights, sorted, pathList>>

EndOfPoints ==
  /\ phase = "read"
  /\ ~ PointLeft
  /\ Finish
  /\ UNCHANGED <<input, pos, location, cptInstructions, weights, sorted, pathList>>

-----------------------------------------------------------------------------

\* k is the place the inner loop finds: before the first entry not below x.
InsertionPoint(k, x) ==
  /\ \A j \in 1 .. k - 1 : Guint(sorted[j]) < Guint(x)
  /\ k <= Len(sorted) => Guint(sorted[k]) >= Guint(x)

\* Fault for the checks: always before the first entry.
InsertInFront ==
  /\ phase = "sort"
  /\ Len(sorted) < Len(cptInstructions)
  /\ sorted' = InsertAt(sorted, 1, cptInstructions[Len(sorted) + 1])
  /\ UNCHANGED <<input, phase, pos, location, cptInstructions, weights, pathList>>

\* One turn of the outer loop of the insertion sort.
InsertNext ==
  /\ phase = "sort"
  /\ Len(sorted) < Len(cptInstructions)
  /\ LET x == cptInstructions[Len(sorted) + 1]
     IN  \E k \in 1 .. Len(sorted) + 1 :
           /\ InsertionPoint(k, x)
           /\ sorted' = InsertAt(sorted, k, x)
  /\ UNCHANGED <<input, phase, pos, location, cptInstructions, weights, pathList>>

\* Fault for the checks: g_list_nth is taken to count from 1.
OutputPathsShifted(list) ==
  [k \in 1 .. Len(list) |->
     [insn |-> MulU64(Guint(list[k]), input.interval),
      weight |-> IF k < Len(weights) THEN weights[k + 1] ELSE 0]]

\* checkpoint_prepare_output_paths: the k-th path is made of the k-th location in
\* sorted order and the k-th weight in file order, 0 when there is none.
OutputPaths(list) ==
  [k \in 1 .. Len(list) |->
     [insn |-> MulU64(Guint(list[k]), input.interval),
      weight |-> IF k <= Len(weights) THEN weights[k] ELSE 0]]

\* The sorted list takes the place of the list that was read.
MakePaths ==
  /\ phase = "sort"
  /\ Len(sorted) = Len(cptInstructions)
  /\ cptInstructions' = sorted
  /\ pathList' = OutputPaths(sorted)
  /\ phase' = "on"
  /\ UNCHANGED <<input, pos, location, weights, sorted>>

Next ==
  \/ Refuse \/ Accept
  \/ OpenFails \/ OpenFiles
  \/ StoreLine \/ Mismatch \/ EndOfPoints
  \/ InsertNext \/ MakePaths

Spec == Init /\ [][Next]_vars

\* The main thread runs the start-up to its end.
FairSpec == Spec /\ WF_vars(Next)

-----------------------------------------------------------------------------

\* The lists have the types of the C variables, and as many entries as allowed.
ParserTypeOK ==
  /\ input \in Inputs
  /\ phase \in {"cmdline", "open", "read", "sort", "on", "off"}
  /\ pos \in Nat \ {0}
  /\ location \in Nat
  /\ cptInstructions \in Seq(Nat) /\ Len(cptInstructions) <= SIMPOINT_IDX_MAX
  /\ weights \in Seq(Nat)
  /\ sorted \in Seq(Nat) /\ Len(sorted) <= Len(cptInstructions)
  /\ pathList \in Seq([insn : Nat, weight : Nat])

\* The options and locations as the trigger reads them from CheckpointState.
TheConfig ==
  [mode |-> input.mode, interval |-> input.interval,
   warmup |-> input.warmup, offset |-> input.offset,
   locs |-> [k \in 1 .. Len(cptInstructions) |-> Guint(cptInstructions[k])]]

Trigger == INSTANCE CheckpointTrigger WITH
  Configs <- {c \in ConfigType : WellFormed(c)},
  conf <- TheConfig,
  icount <- 0,
  nextUniformPoint <- input.interval,
  cptInstructions <- TheConfig.locs,
  simpointExit <- FALSE,
  taken <- << >>

\* Every count the options describe fits a uint64_t.
CountsFit ==
  /\ MaxIcount + input.interval + input.offset < Word
  /\ \A k \in 1 .. Len(cptInstructions) :
       Guint(cptInstructions[k]) * input.interval + input.offset < UINT64_MAX

\* Whatever is in the files, a start-up that turns checkpoints on leaves the state
\* in which CheckpointTrigger starts: an accepted mode and interval, in simpoint
\* mode at least one location, the locations ascending as the trigger reads them,
\* and one path for each, named after it and the weight at its place.
HandsOver == phase = "on" /\ CountsFit => Trigger!Init

\* A simpoints file of lines "<simpoint_location> <simpoint_id>", the form the
\* parser is written for.  A file with one location on each line is not of it:
\* of that the parser keeps every other line only.
TwoColumns ==
  /\ Len(Tokens) % 2 = 0
  /\ \A i \in 1 .. Len(Tokens) : Tokens[i] # Junk
  /\ Head(input.points).ends = {i \in 1 .. Len(Tokens) : i % 2 = 0}

LocationColumn == [k \in 1 .. Len(Tokens) \div 2 |-> Tokens[2 * k - 1]]

\* With a file of that form the list holds exactly the locations of its lines, as
\* often as they occur, as far as there are weights and room for them: reading
\* stops at the right line and the hand-written list sort neither loses nor
\* doubles an entry.
EveryLineCounts ==
  phase = "on" /\ input.mode = "simpoint" /\ TwoColumns =>
    LET n == Min({Len(LocationColumn), Head(input.weights), SIMPOINT_IDX_MAX})
    IN  ToBag(cptInstructions) = ToBag(SubSeq(LocationColumn, 1, n))

\* The start-up comes to an end whatever the files hold, even where fscanf makes no
\* progress on a token it cannot read.
StartUpEnds == <>(phase \in {"on", "off"})

\* "Get corresponding weight": if the lines of such a file are in ascending order,
\* as the trigger reads the locations, the path of each location carries the weight
\* on its own line, through the sort and the lists' lookups by position.
CorrespondingWeight ==
  phase = "on" /\ input.mode = "simpoint" /\ TwoColumns
    /\ (\A i \in 1 .. Len(LocationColumn) - 1 :
          Guint(LocationColumn[i]) <= Guint(LocationColumn[i + 1])) =>
    \A i \in 1 .. Len(pathList) :
      pathList[i] = [insn |-> MulU64(Guint(LocationColumn[i]), input.interval), weight |-> i]

=============================================================================
