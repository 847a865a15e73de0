------------------------- MODULE ExtentStoreProofs -------------------------
(***************************************************************************)
(* The data region never hands a byte out twice, for every sector size,    *)
(* list bound, disk size and number of holders.                            *)
(***************************************************************************)
EXTENDS ExtentStore, TLAPS

\* The sector boundary at or above n.
LEMMA AlignUpIsUp ==
  ASSUME NEW n \in Nat
  PROVE  AlignUp(n) \in Nat /\ AlignUp(n) >= n
<1>1. Sector \in Nat \ {0}
  BY ExtentsAssumption
<1>2. n % Sector \in 0 .. (Sector - 1)
  BY <1>1
<1> QED
  BY <1>1, <1>2 DEF AlignUp

\* A byte of a set of extents is a byte of one of them.
LEMMA CoveredBy ==
  ASSUME NEW S, NEW x
  PROVE  x \in Covered(S) <=> \E e \in S : x \in Bytes(e)
BY DEF Covered

\* Merging covers no byte that was not covered, and yields extents.
LEMMA MergeCoversNoMore ==
  ASSUME NEW S \in SUBSET Extent
  PROVE  Merge(S) \in SUBSET Extent /\ Covered(Merge(S)) \subseteq Covered(S)
<1>1. ASSUME NEW m \in Merge(S)
      PROVE  m \in Extent /\ Bytes(m) \subseteq Covered(S)
  <2>1. PICK r \in S \X S :
          /\ m = [offset |-> r[1].offset, length |-> End(r[2]) - r[1].offset]
          /\ r[1].offset < End(r[2])
          /\ r[1].offset .. (End(r[2]) - 1) \subseteq Covered(S)
    BY <1>1 DEF Merge
  <2>2. r[1] \in Extent /\ r[2] \in Extent
    OBVIOUS
  <2>3. r[1].offset \in Nat \ {0} /\ End(r[2]) \in Nat
    BY <2>2 DEF Extent, End
  <2>4. m \in Extent
    BY <2>1, <2>3 DEF Extent
  <2>5. Bytes(m) = r[1].offset .. (End(r[2]) - 1)
    <3>1. End(m) = End(r[2])
      BY <2>1, <2>3 DEF End
    <3> QED
      BY <2>1, <3>1 DEF Bytes
  <2> QED
    BY <2>1, <2>4, <2>5
<1> QED
  BY <1>1, CoveredBy

-----------------------------------------------------------------------------
LEMMA InitTypes == Init => TypeOK
<1> SUFFICES ASSUME Init PROVE TypeOK
  OBVIOUS
<1> QED
  BY ExtentsAssumption DEF Init, TypeOK

LEMMA NothingIsEmpty == Bytes(Nothing) = {}
BY DEF Bytes, End, Nothing

\* The remainder of an extent, and its front, are parts of it that do not meet.
LEMMA SplitExtent ==
  ASSUME NEW e \in Extent, NEW size \in Nat \ {0}, e.length >= size
  PROVE  LET front == [offset |-> e.offset, length |-> size] IN
         /\ front \in Extent
         /\ Bytes(front) \subseteq Bytes(e)
         /\ Remainder(e, size) \in SUBSET Extent
         /\ Covered(Remainder(e, size)) \subseteq Bytes(e)
         /\ Bytes(front) \cap Covered(Remainder(e, size)) = {}
<1> DEFINE front == [offset |-> e.offset, length |-> size]
           rest == [offset |-> e.offset + size, length |-> e.length - size]
<1>1. e.offset \in Nat \ {0} /\ e.length \in Nat \ {0} /\ Sector \in Nat \ {0}
  BY ExtentsAssumption DEF Extent
<1>2. front \in Extent /\ Bytes(front) = e.offset .. (e.offset + size - 1)
  BY <1>1 DEF Extent, Bytes, End
<1>3. Bytes(e) = e.offset .. (e.offset + e.length - 1)
  BY <1>1 DEF Bytes, End
<1>4. Bytes(rest) = (e.offset + size) .. (e.offset + e.length - 1)
  BY <1>1 DEF Bytes, End
<1>5. Remainder(e, size) \in SUBSET Extent
  BY <1>1 DEF Remainder, Extent
<1>6. Covered(Remainder(e, size)) \subseteq Bytes(rest)
  BY DEF Remainder, Covered
<1>7. /\ Bytes(front) \subseteq Bytes(e)
      /\ Bytes(rest) \subseteq Bytes(e)
      /\ Bytes(front) \cap Bytes(rest) = {}
  BY <1>1, <1>2, <1>3, <1>4
<1> QED
  BY <1>2, <1>5, <1>6, <1>7

LEMMA NextTypes == TypeOK /\ [Next]_vars => TypeOK'
<1> SUFFICES ASSUME TypeOK, [Next]_vars PROVE TypeOK'
  OBVIOUS
<1> USE DEF TypeOK
<1>1. ASSUME NEW h \in Holder, NEW size \in Sizes, AllocReuse(h, size)
      PROVE  TypeOK'
  <2>1. PICK e \in Fits(size) :
          /\ extents' = (extents \ {e}) \cup Remainder(e, size)
          /\ Hand(h, e.offset, size)
    BY <1>1 DEF AllocReuse
  <2>2. e \in Extent /\ size \in Nat \ {0} /\ e.length >= size
    BY ExtentsAssumption DEF Fits
  <2> QED
    BY <1>1, <2>1, <2>2, SplitExtent DEF AllocReuse, Hand
<1>2. ASSUME NEW h \in Holder, NEW size \in Sizes, AllocGrow(h, size)
      PROVE  TypeOK'
  <2>1. size \in Nat \ {0}
    BY ExtentsAssumption
  <2>2. [offset |-> next_data_offset, length |-> size] \in Extent
    BY <2>1, ExtentsAssumption DEF Extent
  <2> QED
    BY <1>2, <2>1, <2>2, ExtentsAssumption, AlignUpIsUp DEF AllocGrow, Hand
<1>3. ASSUME NEW h \in Holder, Free(h) PROVE TypeOK'
  <2>1. held[h] \in Extent
    BY <1>3 DEF Free
  <2>2. Merge(extents \cup {held[h]}) \in SUBSET Extent
    BY <2>1, MergeCoversNoMore
  <2> QED
    BY <1>3, <2>2 DEF Free
<1> QED
  BY <1>1, <1>2, <1>3 DEF Next, vars

-----------------------------------------------------------------------------
(***************************************************************************)
(* No byte has two owners.  NoDoubleAllocation needs Coalesced to be       *)
(* inductive: the extent an allocation takes must not overlap another free *)
(* one, or its bytes would still be free.                                  *)
(***************************************************************************)
IInv == TypeOK /\ NoDoubleAllocation /\ Coalesced

LEMMA InitNoDouble == Init => NoDoubleAllocation
BY ExtentsAssumption, NothingIsEmpty DEF Init, NoDoubleAllocation, Covered

\* Taking the front of a free extent.
LEMMA ReuseNoDouble ==
  ASSUME IInv, NEW h \in Holder, NEW size \in Sizes, AllocReuse(h, size)
  PROVE  NoDoubleAllocation'
<1> USE DEF IInv
<1>1. PICK e \in Fits(size) :
        /\ extents' = (extents \ {e}) \cup Remainder(e, size)
        /\ Hand(h, e.offset, size)
  BY DEF AllocReuse
<1> DEFINE front == [offset |-> e.offset, length |-> size]
<1>2. e \in extents /\ e \in Extent /\ size \in Nat \ {0} /\ e.length >= size
  BY ExtentsAssumption DEF Fits, TypeOK
<1>3. /\ Bytes(front) \subseteq Bytes(e)
      /\ Covered(Remainder(e, size)) \subseteq Bytes(e)
      /\ Bytes(front) \cap Covered(Remainder(e, size)) = {}
  BY <1>2, SplitExtent
<1>4. Bytes(e) \subseteq Covered(extents)
  BY <1>2 DEF Covered
<1>5. held' = [held EXCEPT ![h] = front] /\ UNCHANGED next_data_offset
  BY <1>1 DEF Hand, AllocReuse
<1>6. /\ held'[h] = front
      /\ \A g \in Holder : g # h => held'[g] = held[g]
  BY <1>5 DEF TypeOK
<1>7. Covered(extents') \subseteq Covered(extents)
  BY <1>1, <1>3, <1>4 DEF Covered
<1>8. Bytes(front) \cap Covered(extents') = {}
  <2>1. ASSUME NEW f \in extents, f # e PROVE Bytes(front) \cap Bytes(f) = {}
    <3>1. f \in Extent /\ (End(e) < f.offset \/ End(f) < e.offset)
      BY <1>2, <2>1 DEF Coalesced, TypeOK
    <3>2. Bytes(e) \cap Bytes(f) = {}
      BY <1>2, <3>1 DEF Extent, Bytes, End
    <3> QED
      BY <1>3, <3>2
  <2> QED
    BY <1>1, <1>3, <2>1 DEF Covered
<1> QED
  BY <1>3, <1>4, <1>5, <1>6, <1>7, <1>8 DEF NoDoubleAllocation

\* Growing the region.
LEMMA GrowNoDouble ==
  ASSUME IInv, NEW h \in Holder, NEW size \in Sizes, AllocGrow(h, size)
  PROVE  NoDoubleAllocation'
<1> USE DEF IInv
<1> DEFINE front == [offset |-> next_data_offset, length |-> size]
<1>1. size \in Nat \ {0} /\ next_data_offset \in Nat /\ next_data_offset >= DataStart
  BY ExtentsAssumption DEF TypeOK
<1>2. DataStart \in Nat
  BY ExtentsAssumption
<1> DEFINE top == next_data_offset'
<1>3. top \in Nat /\ top >= next_data_offset + size
  BY <1>1, AlignUpIsUp DEF AllocGrow
<1> HIDE DEF top
<1>4. Bytes(front) = next_data_offset .. (next_data_offset + size - 1)
  BY <1>1 DEF Bytes, End
<1>5. /\ held'[h] = front
      /\ \A g \in Holder : g # h => held'[g] = held[g]
      /\ extents' = extents
  BY DEF AllocGrow, Hand, TypeOK
<1>6. /\ Bytes(front) \subseteq DataStart .. (top - 1)
      /\ DataStart .. (next_data_offset - 1) \subseteq DataStart .. (top - 1)
      /\ Bytes(front) \cap (DataStart .. (next_data_offset - 1)) = {}
  <2>1. Bytes(front) \subseteq DataStart .. (top - 1)
    BY <1>1, <1>2, <1>3, <1>4
  <2>2. DataStart .. (next_data_offset - 1) \subseteq DataStart .. (top - 1)
    BY <1>1, <1>2, <1>3
  <2>3. Bytes(front) \cap (DataStart .. (next_data_offset - 1)) = {}
    BY <1>1, <1>2, <1>4
  <2> QED
    BY <2>1, <2>2, <2>3
<1>7. /\ \A g \in Holder : Bytes(held[g]) \subseteq DataStart .. (next_data_offset - 1)
      /\ Covered(extents) \subseteq DataStart .. (next_data_offset - 1)
  BY DEF NoDoubleAllocation
<1>8. /\ \A g \in Holder : g # h => Bytes(front) \cap Bytes(held[g]) = {}
      /\ Bytes(front) \cap Covered(extents) = {}
  BY <1>6, <1>7
<1> QED
  BY <1>5, <1>6, <1>7, <1>8 DEF NoDoubleAllocation, top

\* Giving an extent back.
LEMMA FreeNoDouble ==
  ASSUME IInv, NEW h \in Holder, Free(h)
  PROVE  NoDoubleAllocation'
<1> USE DEF IInv
<1>1. held[h] \in Extent
  BY DEF Free, TypeOK
<1>2. Covered(extents') \subseteq Covered(extents) \cup Bytes(held[h])
  <2>1. Covered(extents \cup {held[h]}) = Covered(extents) \cup Bytes(held[h])
    BY DEF Covered
  <2>2. extents \cup {held[h]} \in SUBSET Extent
    BY <1>1 DEF TypeOK
  <2> QED
    BY <2>1, <2>2, MergeCoversNoMore DEF Free
<1>3. /\ Bytes(held'[h]) = {}
      /\ \A g \in Holder : g # h => held'[g] = held[g]
      /\ next_data_offset' = next_data_offset
  BY NothingIsEmpty DEF Free, TypeOK
<1> QED
  BY <1>2, <1>3 DEF NoDoubleAllocation

-----------------------------------------------------------------------------
\* Merging leaves no two extents that touch: of two maximal runs, the byte
\* before the later one would belong to the earlier one.
LEMMA MergeCoalesces ==
  ASSUME NEW S \in SUBSET Extent, NEW l \in Merge(S), NEW m \in Merge(S), l # m
  PROVE  End(l) < m.offset \/ End(m) < l.offset
<1>1. ASSUME NEW x \in Merge(S)
      PROVE  /\ x.offset \in Nat /\ End(x) \in Nat /\ x.offset < End(x)
             /\ x = [offset |-> x.offset, length |-> End(x) - x.offset]
             /\ \A b \in x.offset .. (End(x) - 1) : b \in Covered(S)
             /\ x.offset - 1 \notin Covered(S)
             /\ End(x) \notin Covered(S)
  <2>1. PICK r \in S \X S :
          /\ x = [offset |-> r[1].offset, length |-> End(r[2]) - r[1].offset]
          /\ r[1].offset < End(r[2])
          /\ r[1].offset .. (End(r[2]) - 1) \subseteq Covered(S)
          /\ r[1].offset - 1 \notin Covered(S)
          /\ End(r[2]) \notin Covered(S)
    BY <1>1 DEF Merge
  <2>2. r[1].offset \in Nat \ {0} /\ End(r[2]) \in Nat
    BY DEF Extent, End
  <2>3. End(x) = End(r[2]) /\ x.offset = r[1].offset
    BY <2>1, <2>2 DEF End
  <2> QED
    BY <2>1, <2>2, <2>3
<1>2. SUFFICES ASSUME End(l) >= m.offset, End(m) >= l.offset PROVE l = m
  BY <1>1
<1>3. l.offset = m.offset
  <2>1. CASE l.offset < m.offset
    <3>1. m.offset - 1 \in l.offset .. (End(l) - 1)
      BY <1>1, <1>2, <2>1
    <3> QED
      BY <1>1, <3>1
  <2>2. CASE m.offset < l.offset
    <3>1. l.offset - 1 \in m.offset .. (End(m) - 1)
      BY <1>1, <1>2, <2>2
    <3> QED
      BY <1>1, <3>1
  <2> QED
    BY <1>1, <2>1, <2>2
<1>4. End(l) = End(m)
  <2>1. CASE End(l) < End(m)
    <3>1. End(l) \in m.offset .. (End(m) - 1)
      BY <1>1, <1>3, <2>1
    <3> QED
      BY <1>1, <3>1
  <2>2. CASE End(m) < End(l)
    <3>1. End(m) \in l.offset .. (End(l) - 1)
      BY <1>1, <1>3, <2>2
    <3> QED
      BY <1>1, <3>1
  <2> QED
    BY <1>1, <2>1, <2>2
<1> QED
  BY <1>1, <1>3, <1>4

LEMMA InitCoalesced == Init => Coalesced
BY DEF Init, Coalesced

LEMMA NextCoalesced == IInv /\ [Next]_vars => Coalesced'
<1> SUFFICES ASSUME IInv, [Next]_vars PROVE Coalesced'
  OBVIOUS
<1> USE DEF IInv
<1>1. ASSUME NEW h \in Holder, NEW size \in Sizes, AllocReuse(h, size)
      PROVE  Coalesced'
  <2>1. PICK e \in Fits(size) : extents' = (extents \ {e}) \cup Remainder(e, size)
    BY <1>1 DEF AllocReuse
  <2>2. e \in extents /\ e \in Extent /\ size \in Nat \ {0}
    BY ExtentsAssumption DEF Fits, TypeOK
  <2>3. ASSUME NEW r \in Remainder(e, size), NEW f \in extents \ {e}
        PROVE  End(r) < f.offset \/ End(f) < r.offset
    <3>1. f \in Extent /\ (End(e) < f.offset \/ End(f) < e.offset)
      BY <2>2, <2>3 DEF Coalesced, TypeOK
    <3>2. r.offset = e.offset + size /\ End(r) = End(e)
      BY <2>2, <2>3 DEF Remainder, End, Extent
    <3> QED
      BY <2>2, <3>1, <3>2 DEF Extent, End
  <2>4. \A r, s \in Remainder(e, size) : r = s
    BY DEF Remainder
  <2> QED
    BY <2>1, <2>3, <2>4 DEF Coalesced
<1>2. ASSUME NEW h \in Holder, NEW size \in Sizes, AllocGrow(h, size)
      PROVE  Coalesced'
  BY <1>2 DEF AllocGrow, Coalesced
<1>3. ASSUME NEW h \in Holder, Free(h) PROVE Coalesced'
  <2>1. extents \cup {held[h]} \in SUBSET Extent
    BY <1>3 DEF Free, TypeOK
  <2>2. extents' = extents \/ extents' = Merge(extents \cup {held[h]})
    BY <1>3 DEF Free
  <2> QED
    BY <2>1, <2>2, MergeCoalesces DEF Coalesced
<1>4. CASE UNCHANGED vars
  BY <1>4 DEF vars, Coalesced
<1> QED
  BY <1>1, <1>2, <1>3, <1>4 DEF Next

-----------------------------------------------------------------------------
LEMMA NextIInv == IInv /\ [Next]_vars => IInv'
<1> SUFFICES ASSUME IInv, [Next]_vars PROVE IInv'
  OBVIOUS
<1>1. TypeOK' /\ Coalesced'
  BY NextTypes, NextCoalesced DEF IInv
<1>2. NoDoubleAllocation'
  <2>1. CASE UNCHANGED vars
    BY <2>1 DEF vars, IInv, NoDoubleAllocation
  <2> QED
    BY <2>1, ReuseNoDouble, GrowNoDouble, FreeNoDouble DEF Next
<1> QED
  BY <1>1, <1>2 DEF IInv

LEMMA Inductive == Spec => []IInv
<1>1. Init => IInv
  BY InitTypes, InitNoDouble, InitCoalesced DEF IInv
<1> QED
  BY <1>1, NextIInv, PTL DEF Spec

\* Every free extent and every held one is well formed, and the region only
\* ever begins at DATA_OFFSET.
THEOREM TypeCorrect == Spec => []TypeOK
<1>1. IInv => TypeOK
  BY DEF IInv
<1> QED
  BY <1>1, Inductive, PTL

\* alloc_data never hands out a byte that somebody holds, and free_data never
\* frees one that somebody else holds.
THEOREM NoDouble == Spec => []NoDoubleAllocation
<1>1. IInv => NoDoubleAllocation
  BY DEF IInv
<1> QED
  BY <1>1, Inductive, PTL

\* The free extents never overlap or touch.
THEOREM FreeIsCoalesced == Spec => []Coalesced
<1>1. IInv => Coalesced
  BY DEF IInv
<1> QED
  BY <1>1, Inductive, PTL
=============================================================================
