----------------------------- MODULE ExtentList -----------------------------
(***************************************************************************)
(* The vector of free extents and what free, alloc, merge_adjacent and     *)
(* rebuild_from_inodes make of it (fs/free_list.rs): operators from a      *)
(* vector to a vector.                                                     *)
(***************************************************************************)
EXTENDS Extents, Sequences, SequencesExt

\* Mutants: overlapping but not adjacent extents merge; a merged extent ends
\* where the later one does.
TouchesOverlapOnly(last, x) == x.offset < End(last)
JoinedEndOfLater(last, x) == [last EXCEPT !.length = End(x) - last.offset]

Touches(last, x) == x.offset <= End(last)
Joined(last, x) ==
  [last EXCEPT !.length = (IF End(x) > End(last) THEN End(x) ELSE End(last)) - last.offset]

\* One step of the sweep: extend the last merged extent, or start a new one.
Absorb(merged, x) ==
  IF merged # <<>> /\ Touches(Last(merged), x)
  THEN Append(Front(merged), Joined(Last(merged), x))
  ELSE Append(merged, x)

\* sort_by_key: in the order of the offsets, equal ones as they stood.
Rank(s, i) ==
  Cardinality({j \in DOMAIN s : \/ s[j].offset < s[i].offset
                                \/ s[j].offset = s[i].offset /\ j <= i})
ByOffset(s) == [r \in DOMAIN s |-> s[CHOOSE i \in DOMAIN s : Rank(s, i) = r]]

merge_adjacent(s) ==
  IF Len(s) < 2 THEN s ELSE FoldLeft(Absorb, <<>>, ByOffset(s))

\* Mutants: the list is not capped; offset and length are not checked.
Unlimited(s) == FALSE
Capped(s) == Len(s) >= MaxExtents

\* FreeList::free
Freed(s, e) ==
  IF e.offset = 0 \/ e.length = 0 \/ Capped(s) THEN s
  ELSE merge_adjacent(Append(s, e))

\* The index alloc() takes: the first of the shortest extents that fit.
IsBestFit(s, i, size) ==
  /\ s[i].length >= size
  /\ \A j \in DOMAIN s : s[j].length >= size =>
       s[i].length < s[j].length \/ (s[i].length = s[j].length /\ i <= j)

\* Mutants: a remainder of one sector is lost; the remainder starts too early.
WorthKeepingLate(rest) == rest > Sector
KeptFromFront(e, size) == [offset |-> e.offset, length |-> e.length - size]
WorthKeeping(rest) == rest >= Sector
Kept(e, size) == [offset |-> e.offset + size, length |-> e.length - size]

\* The vector after alloc() took size bytes of the extent at index i.
Taken(s, i, size) ==
  IF WorthKeeping(s[i].length - size)
  THEN Append(RemoveAt(s, i), Kept(s[i], size))
  ELSE RemoveAt(s, i)

-----------------------------------------------------------------------------
(***************************************************************************)
(* rebuild_from_inodes: the gaps between the used extents, which come in   *)
(* any order and may overlap.                                              *)
(***************************************************************************)
\* Mutant: the cursor goes back over an extent nested in an earlier one.
PastNested(cursor, x) == End(x)
Past(cursor, x) == IF End(x) > cursor THEN End(x) ELSE cursor

Gap(from, to) == [offset |-> from, length |-> to - from]

Skip(acc, x) ==
  [list   |-> IF x.offset > acc.cursor THEN Freed(acc.list, Gap(acc.cursor, x.offset))
              ELSE acc.list,
   cursor |-> Past(acc.cursor, x)]

rebuild_from_inodes(used) ==
  IF used = <<>> THEN <<Gap(DataStart, DiskEnd)>>
  ELSE LET swept == FoldLeft(Skip, [list |-> <<>>, cursor |-> DataStart], ByOffset(used))
       IN  IF swept.cursor < DiskEnd
           THEN Freed(swept.list, Gap(swept.cursor, DiskEnd))
           ELSE swept.list
=============================================================================
