------------------------------ MODULE FreeList ------------------------------
(***************************************************************************)
(* The free list as the code keeps it, driven by DiskManager::alloc_data   *)
(* and free_data (fs/mod.rs).  It implements ExtentStore.                  *)
(***************************************************************************)
EXTENDS ExtentList

VARIABLES
  extents,           \* FreeList::extents, a vector
  next_data_offset,  \* superblock.next_data_offset
  held               \* the extent each holder owns

vars == <<extents, next_data_offset, held>>

Store == INSTANCE ExtentStore WITH extents <- Range(extents)

-----------------------------------------------------------------------------
Init ==
  /\ extents = <<>>
  /\ next_data_offset = DataStart
  /\ held = [h \in Holder |-> Nothing]

AllocReuse(h, size) ==
  /\ held[h] = Nothing
  /\ \E i \in DOMAIN extents :
       /\ IsBestFit(extents, i, size)
       /\ extents' = Taken(extents, i, size)
       /\ held' = [held EXCEPT ![h] = [offset |-> extents[i].offset, length |-> size]]
  /\ UNCHANGED next_data_offset

AllocGrow(h, size) ==
  /\ held[h] = Nothing
  /\ \A i \in DOMAIN extents : extents[i].length < size
  /\ next_data_offset + size <= DiskEnd
  /\ held' = [held EXCEPT ![h] = [offset |-> next_data_offset, length |-> size]]
  /\ LET rem == (next_data_offset + size) % Sector
     IN  next_data_offset' = next_data_offset + size + (IF rem = 0 THEN 0 ELSE Sector - rem)
  /\ UNCHANGED extents

Free(h) ==
  /\ held[h] # Nothing
  /\ extents' = Freed(extents, held[h])
  /\ held' = [held EXCEPT ![h] = Nothing]
  /\ UNCHANGED next_data_offset

Next ==
  \E h \in Holder :
    \/ \E size \in Sizes : AllocReuse(h, size) \/ AllocGrow(h, size)
    \/ Free(h)

Spec == Init /\ [][Next]_vars

-----------------------------------------------------------------------------
\* The vector has no repeated extent and never outgrows the record on disk
\* (free_list.rs:30 MAX_PERSISTED_EXTENTS), so save() cuts nothing off.
TypeOK ==
  /\ Store!TypeOK
  /\ IsInjective(extents)
  /\ Len(extents) <= MaxExtents

\* No byte has two owners, or an owner while it is free (ExtentStore).
NoDoubleAllocation == Store!NoDoubleAllocation

\* free() merges whatever has become adjacent (free_list.rs:65 "Merges adjacent
\* extents automatically"), and alloc() never leaves two extents touching.
Coalesced == Store!Coalesced

\* Sorting, sweeping and taking the first minimum are an implementation of the
\* set-based allocator.
ImplementsStore == Store!Spec

\* Bytes below next_data_offset that are neither held nor free can never be
\* used again.
Lost ==
  (DataStart .. (next_data_offset - 1))
    \ (Covered(Range(extents)) \cup Covered(Range(held)))

\* An allocation loses less than a sector, and freeing loses an extent only
\* when the list is full (free_list.rs:3 "Without this, every deleted file's
\* disk space is permanently lost").
LossIsBounded ==
  [][\/ Cardinality(Lost' \ Lost) < Sector
     \/ Len(extents) >= MaxExtents /\ extents' = extents]_vars

\* The size in an inode is that of the uncompressed data (fuse/mod.rs:489), so
\* the program frees, and fsck counts, up to this much more than a file holds.
Oversized(h, extra) == [held[h] EXCEPT !.length = @ + extra]
Extra == 0 .. 2 * Sector

\* Freeing an extent leaves the list with the fewest extents that cover the free
\* bytes, each byte once, even where the freed extent runs into free ones
\* (free_list.rs:101 "Merge adjacent/overlapping extents").
SweepIsMerge ==
  \A h \in Holder, extra \in Extra :
    held[h] # Nothing /\ ~Capped(extents) =>
      Range(Freed(extents, Oversized(h, extra)))
        = Merge(Range(extents) \cup {Oversized(h, extra)})

\* From the extents the inodes name, in any order and with overlaps, fsck
\* computes the bytes of the disk that none of them covers, unless they are in
\* more pieces than the list has room for (free_list.rs:190 "Rebuild the free
\* list from scratch by scanning the inode table").
RebuildIsComplement ==
  \A h \in Holder, extra \in Extra :
    LET used == {held[g] : g \in Holder \ {h}} \cup
                {IF held[h] = Nothing THEN Nothing ELSE Oversized(h, extra)}
        free == (DataStart .. (DiskEnd - 1)) \ Covered(used)
        list == rebuild_from_inodes(SetToSeq(used \ {Nothing}))
    IN  /\ Covered(Range(list)) \subseteq free
        /\ Len(list) < MaxExtents => Covered(Range(list)) = free
=============================================================================
