------------------------------ MODULE MCVexFS ------------------------------
(***************************************************************************)
(* VexFS with three files.  The written block values are interchangeable.  *)
(***************************************************************************)
EXTENDS VexFS, TLC

CONSTANTS v1, v2

Inos == 2 .. 4
ColdInos == {3}
Slots == 0 .. 1
Values == {v1, v2}
AnyValue == Permutations(Values)
=============================================================================
