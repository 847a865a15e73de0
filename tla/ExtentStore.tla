---------------------------- MODULE ExtentStore ----------------------------
(***************************************************************************)
(* What the data region promises: space for a holder that overlaps nothing *)
(* another holder has, and space given back becomes free again.  This is   *)
(* DiskManager::alloc_data and free_data over a free list seen as the set  *)
(* of its extents: which extent an allocation takes, what it loses and     *)
(* when a freed extent is dropped are the code's, how the list is kept     *)
(* sorted and merged is left to FreeList.                                  *)
(***************************************************************************)
EXTENDS Extents

VARIABLES
  extents,           \* the free extents
  next_data_offset,  \* nothing at or beyond it was ever handed out
  held               \* the extent each holder owns, or Nothing

vars == <<extents, next_data_offset, held>>

Fits(size) == {e \in extents : e.length >= size}

\* What is put back of extent e when size bytes are taken from its front.
Remainder(e, size) ==
  IF e.length - size >= Sector
  THEN {[offset |-> e.offset + size, length |-> e.length - size]}
  ELSE {}

AlignUp(n) == IF n % Sector = 0 THEN n ELSE n + Sector - (n % Sector)

Init ==
  /\ extents = {}
  /\ next_data_offset = DataStart
  /\ held = [h \in Holder |-> Nothing]

Hand(h, offset, size) == held' = [held EXCEPT ![h] = [offset |-> offset, length |-> size]]

\* Best fit.
AllocReuse(h, size) ==
  /\ held[h] = Nothing
  /\ \E e \in Fits(size) :
       /\ \A f \in Fits(size) : e.length <= f.length
       /\ extents' = (extents \ {e}) \cup Remainder(e, size)
       /\ Hand(h, e.offset, size)
  /\ UNCHANGED next_data_offset

\* Nothing fits: the region grows, to the next sector boundary.
AllocGrow(h, size) ==
  /\ held[h] = Nothing
  /\ Fits(size) = {}
  /\ next_data_offset + size <= DiskEnd
  /\ Hand(h, next_data_offset, size)
  /\ next_data_offset' = AlignUp(next_data_offset + size)
  /\ UNCHANGED extents

\* A full list drops what it is given.
Free(h) ==
  /\ held[h] # Nothing
  /\ extents' = IF Cardinality(extents) >= MaxExtents THEN extents
                ELSE Merge(extents \cup {held[h]})
  /\ held' = [held EXCEPT ![h] = Nothing]
  /\ UNCHANGED next_data_offset

Next ==
  \E h \in Holder :
    \/ \E size \in Sizes : AllocReuse(h, size) \/ AllocGrow(h, size)
    \/ Free(h)

Spec == Init /\ [][Next]_vars

-----------------------------------------------------------------------------
TypeOK ==
  /\ extents \in SUBSET Extent
  /\ next_data_offset \in Nat
  /\ next_data_offset >= DataStart
  /\ held \in [Holder -> Extent \cup {Nothing}]

\* Two holders never share a byte, no held byte is free, and both lie in the
\* part of the region that was handed out (free_list.rs:74 "Find and claim a
\* free extent"; mod.rs:218 "Allocate space for file data").
NoDoubleAllocation ==
  /\ \A g, h \in Holder : g # h => Bytes(held[g]) \cap Bytes(held[h]) = {}
  /\ \A h \in Holder : Bytes(held[h]) \cap Covered(extents) = {}
  /\ \A h \in Holder : Bytes(held[h]) \subseteq DataStart .. (next_data_offset - 1)
  /\ Covered(extents) \subseteq DataStart .. (next_data_offset - 1)

\* Free extents never overlap or touch: fragmentation is only ever real.
Coalesced ==
  \A e, f \in extents : e # f => End(e) < f.offset \/ End(f) < e.offset
=============================================================================
