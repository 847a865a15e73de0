------------------------------- MODULE VexFS -------------------------------
(***************************************************************************)
(* What becomes of a file's data: the FUSE handlers of fuse/mod.rs over    *)
(* the ARC cache, the write buffer, the free list and the disk manager.    *)
(* FUSE serves one request at a time, so a handler is one step; a crash or *)
(* an unmount comes between two of them.  The unit of size is a sector, a  *)
(* file is a short sequence of block values.  Names, directories and       *)
(* snapshots are left out.                                                 *)
(*                                                                         *)
(* A helper of the code is an operator from a state of the file system to  *)
(* the state it leaves.                                                    *)
(***************************************************************************)
EXTENDS Integers, Sequences, FiniteSets, SequencesExt

CONSTANTS
  Ino,         \* inode numbers, from 2 on; bounds the files created
  Slot,        \* slots of the inode table, from 0 on; bounds the table
  Val, Zero,   \* what a block can hold: what was written, or fill
  Junk,        \* what garbage reads as
  NoIno,       \* Option::None, for an inode number
  MaxBlocks,   \* bound: blocks of a file
  CacheBlocks, \* the cache's limit
  MaxGhosts,   \* its ghost lists' cap
  MaxPending,  \* the write buffer's capacity
  Cold,        \* files whose tier is COLD: their data is compressed
  MaxExtents,  \* the free list's capacity
  DataStart,   \* DATA_OFFSET
  DiskEnd,     \* bound: the first sector past the disk
  Excuse,      \* the ways of losing data that are let pass (see below)
  MaxCalls     \* bound: requests

\* Numbers are u64 and slots are counted from 0; Junk and NoIno are no contents
\* that a request could write.
ASSUME VexFSAssumption ==
  /\ Ino \subseteq Nat /\ IsFiniteSet(Ino)
  /\ IsFiniteSet(Slot) /\ Slot = 0 .. (Cardinality(Slot) - 1)
  /\ NoIno \notin Ino /\ NoIno \notin Val \cup {Zero, Junk}
  /\ MaxBlocks \in Nat \ {0} /\ CacheBlocks \in Nat /\ MaxGhosts \in Nat
  /\ MaxExtents \in Nat
  /\ DataStart \in Nat \ {0} /\ DiskEnd \in Nat /\ DataStart <= DiskEnd

Arc == INSTANCE Arc WITH Key <- Ino, NoKey <- NoIno, MaxBytes <- CacheBlocks
List == INSTANCE ExtentList WITH Holder <- Ino, Sizes <- 1 .. MaxBlocks, Sector <- 1

VARIABLES
  fs,     \* the file system, in memory and on disk
  mode,   \* "mounted", "unmounted" or "crashed"
  calls   \* requests so far

vars == <<fs, mode, calls>>

(***************************************************************************)
(* The fields of fs.  In memory:                                           *)
(*   files       the live files: slot, size, dirty and data_offset         *)
(*   next_inode  the next inode number                                     *)
(*   cache       the ARC cache, by sizes, and                              *)
(*   blocks      the contents of what it caches                            *)
(*   buffer      the write buffer: contents and slot, by inode number      *)
(*   list, next  the free list and superblock.next_data_offset             *)
(* on disk:                                                                *)
(*   inode, data                the inode table and the data region        *)
(*   logged                     the last inode the journal has of a slot   *)
(*   saved_list, saved_next     the free list and superblock               *)
(*   room                       what the journal has room for: the blocks  *)
(*                              of one store, the same in a behaviour      *)
(* and, to state properties:                                               *)
(*   truth       what was last written to each live file                   *)
(*   excused     files whose loss is let pass                              *)
(***************************************************************************)
NoInode == [ino |-> 0, size |-> 0, offset |-> 0, used |-> FALSE]

Without(f, i) == [x \in DOMAIN f \ {i} |-> f[x]]
With(f, i, v) == [x \in DOMAIN f \cup {i} |-> IF x = i THEN v ELSE f[x]]

-----------------------------------------------------------------------------
(***************************************************************************)
(* Contents and what is stored of them.  A cell of the data region holds   *)
(* a block, or a run of equal blocks compressed into one.                  *)
(***************************************************************************)
Plain(v) == [val |-> v, run |-> 1]

\* What persist_to_disk writes for contents d.
Packed(i, d) ==
  IF i \in Cold /\ Len(d) > 1 /\ Cardinality(Range(d)) = 1
  THEN <<[val |-> d[1], run |-> Len(d)]>>
  ELSE [k \in DOMAIN d |-> Plain(d[k])]

\* decompress: what follows a compressed run is ignored.
Unpacked(raw) ==
  IF raw # <<>> /\ raw[1].run > 1
  THEN [k \in 1 .. raw[1].run |-> raw[1].val]
  ELSE [k \in DOMAIN raw |-> IF raw[k].run = 1 THEN raw[k].val ELSE Junk]

\* A file whose inode was never stored with data has offset 0 after a mount:
\* there lies the superblock.
CellAt(s, o) == IF o \in DOMAIN s.data THEN s.data[o] ELSE Plain(Junk)
ReadRaw(s, offset, size) == [k \in 1 .. size |-> CellAt(s, offset + k - 1).val]
ReadData(s, offset, size) == Unpacked([k \in 1 .. size |-> CellAt(s, offset + k - 1)])

\* A write past the end makes the image longer.
Sectors(offset, n) == offset .. (offset + n - 1)
WriteData(s, offset, raw) ==
  [s EXCEPT !.data = [o \in DOMAIN @ \cup Sectors(offset, Len(raw)) |->
     IF o \in Sectors(offset, Len(raw)) THEN raw[o - offset + 1] ELSE @[o]]]

\* The contents d, with block v at offset off; and cut or filled to size n.
Written(d, off, v) ==
  [k \in 1 .. (IF off < Len(d) THEN Len(d) ELSE off + 1) |->
     IF k = off + 1 THEN v ELSE IF k <= Len(d) THEN d[k] ELSE Zero]
Resized(d, n) == [k \in 1 .. n |-> IF k <= Len(d) THEN d[k] ELSE Zero]

-----------------------------------------------------------------------------
(***************************************************************************)
(* The disk manager.                                                       *)
(***************************************************************************)
write_inode(s, slot, n) == [s EXCEPT !.inode[slot] = n, !.logged[slot] = n]

\* Not journaled.
free_inode(s, slot) == [s EXCEPT !.inode[slot].used = FALSE]

\* Mutant: a slot without data counts as free.
EmptySlots(s) == {k \in Slot : s.inode[k].size = 0}
FreeSlots(s) == {k \in Slot : ~s.inode[k].used}

free_data(s, offset, size) ==
  [s EXCEPT !.list = List!Freed(@, [offset |-> offset, length |-> size])]

\* Where alloc_data puts size sectors, and the state it leaves.
Fitting(s, size) == {j \in DOMAIN s.list : List!IsBestFit(s.list, j, size)}
AllocatedAt(s, size) ==
  IF Fitting(s, size) # {} THEN s.list[CHOOSE j \in Fitting(s, size) : TRUE].offset ELSE s.next
alloc_data(s, size) ==
  IF Fitting(s, size) # {}
  THEN [s EXCEPT !.list = List!Taken(@, CHOOSE j \in Fitting(s, size) : TRUE, size)]
  ELSE [s EXCEPT !.next = @ + size]

flush_disk(s) == [s EXCEPT !.saved_list = s.list, !.saved_next = s.next]

\* The inode table as the next mount finds it, after replaying the journal.
Replayed(s) == [k \in Slot |-> IF s.logged[k] = NoInode THEN s.inode[k] ELSE s.logged[k]]

\* What the next mount reads of file i, if it finds it.
OnDisk(s, i) ==
  LET at == {k \in Slot : Replayed(s)[k].used /\ Replayed(s)[k].ino = i}
      n  == Replayed(s)[CHOOSE k \in at : TRUE]
  IN  IF at = {} THEN <<NoIno>> ELSE ReadData(s, n.offset, n.size)

-----------------------------------------------------------------------------
(***************************************************************************)
(* Five ways of losing data are known, and marked where they happen: what  *)
(* the properties say, they say of all other files, or, where a cause is   *)
(* not in Excuse, of all files.                                            *)
(*   "shared"   storing one file changes what is stored of another         *)
(*   "deleted"  so does storing the buffered data of a deleted file        *)
(*   "stale"    an eviction stores an older copy as the last one           *)
(*   "miss"     a file that is not cached is read from disk past the write *)
(*              buffer, or overwritten as if it were empty                 *)
(*   "full"     data the journal has no room for is not stored, its inode  *)
(*              is                                                         *)
(***************************************************************************)
Excused(s, cause, S) == [s EXCEPT !.excused = @ \cup (IF cause \in Excuse THEN S ELSE {})]

Live(s) == DOMAIN s.files
Cached(s) == DOMAIN s.cache.data

\* log_data_write_all refuses all of it, and its error is passed over.
Refused(s, raw) == Len(raw) > s.room
write_file_data(s, offset, raw) == IF Refused(s, raw) THEN s ELSE WriteData(s, offset, raw)

persist_to_disk(s, i, d, slot) ==
  LET raw    == Packed(i, d)
      freed  == IF i \in Live(s) /\ s.files[i].offset > 0 /\ s.files[i].size > 0
                THEN free_data(s, s.files[i].offset, s.files[i].size) ELSE s
      offset == IF raw = <<>> THEN DataStart ELSE AllocatedAt(freed, Len(raw))
      room   == IF raw = <<>> THEN freed ELSE alloc_data(freed, Len(raw))
      stored == flush_disk(write_inode(write_file_data(room, offset, raw), slot,
                  [ino |-> i, size |-> Len(d), offset |-> offset, used |-> TRUE]))
      placed == Excused(IF i \in Live(s) THEN [stored EXCEPT !.files[i].offset = offset] ELSE stored,
                        "full", IF Refused(s, raw) THEN {i} ELSE {})
  IN  Excused(placed, IF i \in Live(s) THEN "shared" ELSE "deleted",
              {j \in Live(s) \ {i} : OnDisk(placed, j) # OnDisk(s, j)})

\* Takes file i out of the write buffer, if it is there, and stores it.
PersistBuffered(s, i) ==
  IF i \notin DOMAIN s.buffer THEN s
  ELSE persist_to_disk([s EXCEPT !.buffer = Without(@, i)], i, s.buffer[i].data,
                       s.buffer[i].slot)

\* With d stored for an eviction, a file counts as clean.
Clean(s, i, d) ==
  Excused([s EXCEPT !.files[i].dirty = FALSE], "stale", IF d # s.truth[i] THEN {i} ELSE {})

get(s, i) == [s EXCEPT !.cache = Arc!get(@, i)]

\* The candidate is always cached.
pre_eviction_flush(s) ==
  LET i == Arc!peek_eviction_candidate(s.cache)
  IN  IF i = NoIno \/ i \notin Live(s) THEN s
      ELSE IF ~s.files[i].dirty THEN s
      ELSE IF i \in DOMAIN s.buffer THEN Clean(PersistBuffered(s, i), i, s.buffer[i].data)
      ELSE Clean(persist_to_disk(get(s, i), i, s.blocks[i], s.files[i].slot), i, s.blocks[i])

\* One evicted file: what is left of it is in the buffer, or an older copy on
\* disk.
FlushEvicted(s, i) ==
  LET f == s.files[i]
      d == ReadData(s, f.offset, f.size)
  IN  IF i \notin Live(s) THEN s
      ELSE IF ~f.dirty THEN s
      ELSE IF i \in DOMAIN s.buffer THEN Clean(PersistBuffered(s, i), i, s.buffer[i].data)
      ELSE IF f.offset > 0 /\ f.size > 0
           THEN Clean(persist_to_disk(s, i, d, f.slot), i, d)
      ELSE Clean(s, i, OnDisk(s, i))

flush_cache_evictions(s) ==
  FoldLeft(FlushEvicted, [s EXCEPT !.cache = Arc!drain_evicted(@)], s.cache.evicted)

\* Mutant: an update in place keeps the old contents.
HeldFirst(s, i, d, x) == IF x = i /\ i \notin Cached(s) THEN d ELSE s.blocks[x]

\* The cache after an insertion, and the contents of what it still holds.
Held(s, i, d, x) == IF x = i THEN d ELSE s.blocks[x]
Insert(s, i, d) ==
  LET c == Arc!insert(s.cache, i, Len(d))
  IN  [s EXCEPT !.cache = c, !.blocks = [x \in DOMAIN c.data |-> Held(s, i, d, x)]]

cache_insert(s, i, d) == flush_cache_evictions(Insert(pre_eviction_flush(s), i, d))

\* What a write or a truncation starts from: nothing, if the file is not cached.
Contents(s, i) == IF i \in Cached(s) THEN s.blocks[i] ELSE <<>>
StartOver(s, i) ==
  Excused(s, "miss", IF i \notin Cached(s) /\ s.truth[i] # <<>> THEN {i} ELSE {})

-----------------------------------------------------------------------------
(***************************************************************************)
(* The requests, each as the state it leaves.                              *)
(***************************************************************************)
create(s) ==
  LET i    == s.next_inode
      slot == CHOOSE k \in FreeSlots(s) : \A m \in FreeSlots(s) : k <= m
      new  == [s EXCEPT !.next_inode = @ + 1,
                 !.files = With(@, i, [size |-> 0, offset |-> DataStart, slot |-> slot,
                                       dirty |-> TRUE]),
                 !.truth = With(@, i, <<>>),
                 !.excused = @ \ {i}]
  IN  write_inode(cache_insert(new, i, <<>>), slot,
                  [ino |-> i, size |-> 0, offset |-> 0, used |-> TRUE])

read(s, i) ==
  LET d == ReadData(s, s.files[i].offset, s.files[i].size)
  IN  IF i \in Cached(s) THEN get(s, i)
      ELSE cache_insert(Excused(get(s, i), "miss", {i} \cap DOMAIN s.buffer), i, d)

write(s, i, off, v) ==
  LET old == StartOver(get(s, i), i)
      d   == Written(Contents(s, i), off, v)
      new == [old EXCEPT !.files[i].size = Len(d), !.files[i].dirty = TRUE,
                         !.truth[i] = Written(@, off, v)]
  IN  cache_insert(new, i, d)

setattr(s, i, n) ==
  LET old == StartOver(get(s, i), i)
      new == [old EXCEPT !.files[i].size = n, !.files[i].dirty = TRUE,
                         !.truth[i] = Resized(@, n)]
  IN  IF n = s.files[i].size THEN s
      ELSE cache_insert(new, i, Resized(Contents(s, i), n))

\* Mutant: a copy that is buffered already is kept.
BufferedOnce(s, i) ==
  IF i \in DOMAIN s.buffer THEN s
  ELSE [s EXCEPT !.buffer = With(@, i, [data |-> s.blocks[i], slot |-> s.files[i].slot])]
Buffered(s, i) ==
  [s EXCEPT !.buffer = With(@, i, [data |-> s.blocks[i], slot |-> s.files[i].slot])]

\* What flush_file puts into the buffer, if anything.
flush_file(s, i) ==
  IF ~s.files[i].dirty THEN s
  ELSE LET t == get([s EXCEPT !.files[i].dirty = FALSE], i)
       IN  IF i \in Cached(s) THEN Buffered(t, i) ELSE t

\* The files due: all of a full buffer, or those that have aged, in any order.
\* The one just written has not.
DueForFlush(s, i) ==
  UNION {SetToSeqs(S) : S \in
    IF Cardinality(DOMAIN s.buffer) >= MaxPending THEN {DOMAIN s.buffer}
    ELSE SUBSET (DOMAIN s.buffer \ {i})}

\* Mutant: only files still marked dirty are stored.
PersistDirty(s, order) ==
  FoldLeft(PersistBuffered, s, SelectSeq(order, LAMBDA i : i \in Live(s) /\ s.files[i].dirty))
PersistAll(s, order) == FoldLeft(PersistBuffered, s, order)

\* Mutant: the deleted file stays cached.
StillCached(s, i) == s
Uncached(s, i) ==
  [s EXCEPT !.cache = Arc!remove_key(@, i), !.blocks = [x \in Cached(s) \ {i} |-> @[x]]]

unlink(s, i) ==
  LET f == s.files[i]
      t == free_inode(IF f.offset > 0 /\ f.size > 0 THEN free_data(s, f.offset, f.size) ELSE s,
                      f.slot)
  IN  Uncached([t EXCEPT !.files = Without(@, i), !.truth = Without(@, i),
                         !.excused = @ \ {i}], i)

\* The inode is read back and written with its new name.
rename(s, i) ==
  LET slot == s.files[i].slot
  IN  flush_disk(write_inode([s EXCEPT !.files[i].dirty = TRUE], slot, s.inode[slot]))

-----------------------------------------------------------------------------
(***************************************************************************)
(* Mounting and the end of a mount.                                        *)
(***************************************************************************)
\* What is left when the process is gone.
PoweredDown(s) ==
  [s EXCEPT !.files = <<>>, !.next_inode = 2, !.cache = Arc!EmptyCache, !.blocks = <<>>,
            !.buffer = <<>>, !.list = <<>>, !.next = DataStart]

\* DiskManager::open, with the replay it does.
open(s) ==
  [s EXCEPT !.inode = Replayed(s), !.logged = [k \in Slot |-> NoInode],
            !.list = s.saved_list, !.next = s.saved_next]

\* VexFS::load takes up one used slot: it fills the cache directly.  Data that
\* does not have the inode's size belongs to another file.
TakeUp(s, slot) ==
  LET n == s.inode[slot]
      d == ReadData(s, n.offset, n.size)
      t == Excused(Insert(s, n.ino, d), "shared", IF Len(d) # n.size THEN {n.ino} ELSE {})
  IN  IF ~n.used THEN s
      ELSE [t EXCEPT !.files = With(@, n.ino, [size |-> n.size, offset |-> n.offset,
                                               slot |-> slot, dirty |-> FALSE]),
                     !.next_inode = IF n.ino >= @ THEN n.ino + 1 ELSE @,
                     !.truth = With(@, n.ino, d)]

\* From here on, what was found counts as written.
SlotsInOrder == [k \in 1 .. Cardinality(Slot) |-> k - 1]
load(s) == FoldLeft(TakeUp, [open(s) EXCEPT !.truth = <<>>, !.excused = {}], SlotsInOrder)

Unflushed(s) == {i \in Live(s) : s.files[i].dirty}

-----------------------------------------------------------------------------
Init ==
  /\ \E room \in 1 .. MaxBlocks :
       fs = [files |-> <<>>, next_inode |-> 2, cache |-> Arc!EmptyCache, blocks |-> <<>>,
             buffer |-> <<>>, list |-> <<>>, next |-> DataStart,
             inode |-> [k \in Slot |-> NoInode], logged |-> [k \in Slot |-> NoInode],
             data |-> [o \in DataStart .. (DiskEnd + MaxBlocks) |-> Plain(Zero)],
             saved_list |-> <<>>, saved_next |-> DataStart, room |-> room,
             truth |-> <<>>, excused |-> {}]
  /\ mode = "mounted"
  /\ calls = 0

\* A request that leaves the file system in state s.
Request(s) ==
  /\ mode = "mounted" /\ calls < MaxCalls /\ s.next <= DiskEnd
  /\ fs' = s
  /\ calls' = calls + 1
  /\ UNCHANGED mode

Create == FreeSlots(fs) # {} /\ fs.next_inode \in Ino /\ Request(create(fs))
Read(i) == i \in Live(fs) /\ Request(read(fs, i))
Write(i, off, v) == i \in Live(fs) /\ Request(write(fs, i, off, v))
Setattr(i, n) == i \in Live(fs) /\ Request(setattr(fs, i, n))
Unlink(i) == i \in Live(fs) /\ Request(unlink(fs, i))
Rename(i) == i \in Live(fs) /\ Request(rename(fs, i))

\* FUSE's flush, on close, and fsync.
Flush(i) ==
  LET s == flush_file(fs, i)
  IN  /\ i \in Live(fs)
      /\ IF fs.files[i].dirty /\ i \in Cached(fs)
         THEN \E order \in DueForFlush(s, i) : Request(PersistAll(s, order))
         ELSE Request(s)

\* destroy, with flush_all.  A file that was not flushed before may be lost.
Destroy ==
  /\ mode = "mounted" /\ calls < MaxCalls
  /\ \E order \in SetToSeqs(DOMAIN fs.buffer) :
       LET s == PersistAll([fs EXCEPT !.excused = @ \cup Unflushed(fs)], order)
       IN  s.next <= DiskEnd /\ fs' = PoweredDown(s)
  /\ mode' = "unmounted"
  /\ calls' = calls + 1

\* A file whose last contents are only in memory may be lost.
Crash ==
  /\ mode = "mounted" /\ calls < MaxCalls
  /\ fs' = PoweredDown([fs EXCEPT !.excused = @ \cup Unflushed(fs) \cup DOMAIN fs.buffer])
  /\ mode' = "crashed"
  /\ calls' = calls + 1

Load ==
  /\ mode # "mounted" /\ calls < MaxCalls
  /\ fs' = load(fs)
  /\ mode' = "mounted"
  /\ calls' = calls + 1

Next ==
  \/ \E i \in Ino :
       \/ Read(i) \/ Flush(i) \/ Unlink(i) \/ Rename(i)
       \/ \E off \in 0 .. (MaxBlocks - 1), v \in Val : Write(i, off, v)
       \/ \E n \in 0 .. MaxBlocks : Setattr(i, n)
  \/ Create \/ Destroy \/ Crash \/ Load

Spec == Init /\ [][Next]_vars

-----------------------------------------------------------------------------
(***************************************************************************)
(* Properties.                                                             *)
(***************************************************************************)
Block == Val \cup {Zero, Junk}

TypeOK ==
  /\ \A i \in Live(fs) :
       /\ i \in Ino /\ fs.files[i].slot \in Slot /\ fs.files[i].dirty \in BOOLEAN
       /\ fs.files[i].size \in 0 .. MaxBlocks
  /\ Cached(fs) \subseteq Live(fs) /\ DOMAIN fs.blocks = Cached(fs)
  /\ \A i \in Cached(fs) : /\ fs.blocks[i] \in Seq(Block)
                           /\ fs.cache.data[i] = Len(fs.blocks[i])
  /\ \A k \in Slot : fs.inode[k].ino \in Ino \cup {0}
  /\ fs.next \in DataStart .. (DiskEnd + MaxBlocks)
  /\ mode = "mounted" => DOMAIN fs.truth = Live(fs)

\* Every live file has a slot of its own, which alloc_inode's scan of the disk
\* (inode_table.rs:254) finds in use.
SlotsHeld ==
  \A i \in Live(fs) :
    /\ fs.inode[fs.files[i].slot].used
    /\ \A j \in Live(fs) \ {i} : fs.files[j].slot # fs.files[i].slot

\* The cache holds what was last written, whichever request put it there:
\* reads are served from it (fuse/mod.rs:799).
ReadsSeeLastWrite ==
  \A i \in (Live(fs) \cap Cached(fs)) \ fs.excused : fs.blocks[i] = fs.truth[i]

\* A file dropped from the cache is not lost: the write buffer has its last
\* contents, or a read finds them on disk (fuse/mod.rs:11 "flushes the ARC-cache
\* eviction candidate *before* the insert, closing the dirty-entry-eviction
\* window entirely").
EvictedIsKept ==
  \A i \in Live(fs) \ (Cached(fs) \cup fs.excused) :
    (IF i \in DOMAIN fs.buffer THEN fs.buffer[i].data
     ELSE ReadData(fs, fs.files[i].offset, fs.files[i].size)) = fs.truth[i]

\* The dirty flag is only cleared once the last contents are in the write
\* buffer or on disk (fuse/mod.rs:382 "Ensures we never evict dirty data").
CleanIsHandedOver ==
  \A i \in Live(fs) \ fs.excused :
    ~fs.files[i].dirty =>
      (IF i \in DOMAIN fs.buffer THEN fs.buffer[i].data ELSE OnDisk(fs, i)) = fs.truth[i]

\* After an unmount the next mount reads what was flushed, and after a crash
\* what was stored (tests/integration.rs:87 "file content corrupted after remount").
FlushedSurvives ==
  mode # "mounted" =>
    \A i \in DOMAIN fs.truth \ fs.excused : OnDisk(fs, i) = fs.truth[i]

\* A mount after a clean unmount brings back no deleted file, as nothing is
\* replayed then (journal_patch.md:66-67 "journal entries are ephemeral -- cleared
\* on clean unmount, replayed only after a crash").
DeletedStaysDeleted ==
  [][mode = "unmounted" /\ mode' = "mounted" => Live(fs') \subseteq DOMAIN fs.truth]_vars
=============================================================================
