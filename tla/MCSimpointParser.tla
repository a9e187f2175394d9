---------------------------- MODULE MCSimpointParser ----------------------------
(* Instances of SimpointParser for TLC.                                        *)
EXTENDS SimpointParser

Base ==
  [mode |-> "simpoint", interval |-> 2, warmup |-> 0, offset |-> 1, dir |-> TRUE,
   points |-> << >>, weights |-> << >>]

\* A file with n tokens on each line.
File(tokens, n) == [tokens |-> tokens, ends |-> {i \in 1 .. Len(tokens) : i % n = 0}]

\* Options in every combination, with a directory that holds one good pair of files.
MCOptions ==
  [mode : Modes \cup {"other"}, interval : {0, 2}, warmup : {0}, offset : {0, 1},
   dir : BOOLEAN, points : {<<File(<<1, 0>>, 2)>>}, weights : {<<1>>}]

\* Files missing, or there under both names.
MCDirectories ==
  {[Base EXCEPT !.points = p, !.weights = w] :
     p \in {<< >>, <<File(<<1, 0>>, 2)>>, <<File(<<2, 0>>, 2), File(<<1, 0, 3, 1>>, 2)>>},
     w \in {<< >>, <<1>>, <<1, 2>>}}

\* Any short run of numbers and junk, in one column or two, with fewer, as many or more weights.
MCShortFiles ==
  {[Base EXCEPT !.points = <<File(f, n)>>, !.weights = <<w>>] :
     f \in BoundedSeq({0, 1, 5, Junk}, 4), n \in 1 .. 2, w \in 0 .. 4}

\* Two columns and four lines, one more than are kept; 5 exceeds a guint.
FourLines == {<<f[1], 0, f[2], 1, f[3], 2, f[4], 3>> : f \in [1 .. 4 -> {0, 1, 2, 5}]}

MCFourLines ==
  {[Base EXCEPT !.points = <<File(f, 2)>>, !.weights = <<w>>] : f \in FourLines, w \in 2 .. 5}

MCInputs == MCOptions \cup MCDirectories \cup MCShortFiles \cup MCFourLines

=============================================================================
