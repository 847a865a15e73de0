------------------------------ MODULE Extents ------------------------------
(***************************************************************************)
(* Extents of the data region: contiguous ranges of bytes (FreeExtent of   *)
(* fs/free_list.rs), and the constants the allocators are built from.      *)
(***************************************************************************)
EXTENDS Integers, FiniteSets

CONSTANTS
  Holder,       \* whoever can own an extent (a file)
  Sizes,        \* the sizes asked for
  DataStart,    \* DATA_OFFSET
  Sector,       \* 512
  MaxExtents,   \* MAX_PERSISTED_EXTENTS
  DiskEnd       \* bound: the first offset allocations do not reach

ASSUME ExtentsAssumption ==
  /\ Sizes \subseteq Nat \ {0}
  /\ Sector \in Nat \ {0}
  /\ DataStart \in Nat \ {0}
  /\ MaxExtents \in Nat
  /\ DiskEnd \in Nat

Nothing == [offset |-> 0, length |-> 0]
Extent == [offset : Nat \ {0}, length : Nat \ {0}]
End(e) == e.offset + e.length
Bytes(e) == e.offset .. (End(e) - 1)
Covered(S) == UNION {Bytes(e) : e \in S}

\* The fewest extents that cover the same bytes: the maximal runs of S.
Merge(S) ==
  {[offset |-> r[1].offset, length |-> End(r[2]) - r[1].offset] : r \in
     {r \in S \X S : /\ r[1].offset < End(r[2])
                     /\ r[1].offset .. (End(r[2]) - 1) \subseteq Covered(S)
                     /\ r[1].offset - 1 \notin Covered(S)
                     /\ End(r[2]) \notin Covered(S)}}
=============================================================================
