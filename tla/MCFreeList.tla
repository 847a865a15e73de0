----------------------------- MODULE MCFreeList -----------------------------
(***************************************************************************)
(* FreeList with three files on a disk of a few sectors.  Extents are told *)
(* apart only by their place, so the files are interchangeable.            *)
(***************************************************************************)
EXTENDS FreeList, TLC

CONSTANTS f1, f2, f3

Files == {f1, f2, f3}
AnyFile == Permutations(Files)
=============================================================================
