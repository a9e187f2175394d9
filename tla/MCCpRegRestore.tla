---------------------------- MODULE MCCpRegRestore ----------------------------
(* Instances of CpRegRestore for TLC.                                          *)
EXTENDS CpRegRestore

AllIds == {"a", "b", "x"}

\* This machine's registers.
TwoRegisters == <<"a", "b">>

\* One machine with more registers, in another order and one of them unknown here,
\* and one with fewer.
OtherLists == {<<"x", "b", "a">>, <<"a">>}

=============================================================================
