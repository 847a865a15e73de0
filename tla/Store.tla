------------------------------- MODULE Store -------------------------------
(***************************************************************************)
(* Where files, extension blocks of the inode table and snapshots are on   *)
(* disk, and what a crash between two disk writes of one request leaves    *)
(* there: fs/mod.rs, fs/inode_table.rs and fs/snapshot.rs, as the handlers *)
(* of fuse/mod.rs and, between two mounts, the command line use them.      *)
(*                                                                         *)
(* A request changes memory at once and leaves the disk writes it does in  *)
(* todo, in their order; each is a step of its own.  A logged write is one *)
(* step (see Journal); that its checkpoint forgets what was logged is left *)
(* out, as a replay then undoes less.  Contents are left out: see VexFS.   *)
(***************************************************************************)
EXTENDS Integers, Sequences, FiniteSets, SequencesExt

CONSTANTS
  Ino,           \* inode numbers, from 2 on
  BlockSlots,    \* inodes per block of the inode table
  MaxInoBlocks,  \* MAX_INODE_BLOCKS
  BlockSize,     \* sectors of an extension block
  MaxSize,       \* bound: sectors of a file
  SnapSlot,      \* slots of the snapshot table, from 0 on
  MaxPerFile,    \* versions of a file that are kept in memory
  GCThreshold, GCKeep,
  MaxExtents,    \* the free list's capacity
  DataStart,     \* DATA_OFFSET
  DiskEnd,       \* bound: the first sector past the disk
  Excuse,        \* the ways a sector gets two owners that are let pass
  MaxCalls       \* bound: requests

\* Slots of the snapshot table are numbered; a block of inodes holds some, sector 0
\* is not a file's, and there is room for data.
ASSUME StoreAssumption ==
  /\ SnapSlot \in SUBSET Nat /\ IsFiniteSet(SnapSlot)
  /\ {BlockSlots, DataStart} \subseteq Nat \ {0}
  /\ {MaxInoBlocks, BlockSize, MaxSize, GCKeep, MaxExtents, DiskEnd} \subseteq Nat
  /\ DataStart < DiskEnd

List == INSTANCE ExtentList WITH Holder <- Ino, Sizes <- 1 .. MaxSize, Sector <- 1

VARIABLES
  st,     \* memory and disk
  todo,   \* the disk writes of the request in progress
  mode,   \* "mounted" or "unmounted"
  calls   \* requests so far

vars == <<st, todo, mode, calls>>

(***************************************************************************)
(* The fields of st.  In memory:                                           *)
(*   files       by inode number: slot, size, data_offset and how much of  *)
(*               it is really the file's (len: less, if compressed)        *)
(*   list, next  the free list and superblock.next_data_offset             *)
(*   dir         block_offsets, without block 0                            *)
(*   versions    by inode number: the snapshots, oldest first              *)
(*   next_id, next_inode                                                   *)
(* on disk:                                                                *)
(*   inode, logged, snap                  the tables and the journal       *)
(*   saved_list, saved_next, saved_dir    what flush saves                 *)
(* and, to state properties:                                               *)
(*   tainted     sectors that may have two owners                          *)
(***************************************************************************)
NoInode == [ino |-> 0, size |-> 0, offset |-> 0, len |-> 0, used |-> FALSE]
NoSnap == [ino |-> 0, id |-> 0, offset |-> 0, size |-> 0, used |-> FALSE]
NoSlot == -1

Without(f, x) == [y \in DOMAIN f \ {x} |-> f[y]]
With(f, x, v) == [y \in DOMAIN f \cup {x} |-> IF y = x THEN v ELSE f[y]]

Sectors(offset, length) == offset .. (offset + length - 1)
Slots == 0 .. (BlockSlots * MaxInoBlocks - 1)
Live(s) == DOMAIN s.files
Own(s, i) == Sectors(s.files[i].offset, s.files[i].len)

-----------------------------------------------------------------------------
(***************************************************************************)
(* Six ways for a sector to get two owners are known, and marked where     *)
(* they happen: the properties speak of all other sectors.                 *)
(*   "freed"    a file frees as much as its new size, wherever its old     *)
(*              data is; new files have DATA_OFFSET for it                 *)
(*   "version"  a snapshot's extent is freed with it                       *)
(*   "logged"   the journal brings back a deleted file, whose extent is    *)
(*              free                                                       *)
(*   "store"    a crash after the inode and before the free list           *)
(*   "growth"   a crash after the block directory and before the superblock*)
(*   "tail"     fsck puts what lies past the last file on the free list    *)
(***************************************************************************)
Tainted(s, cause, S) == [s EXCEPT !.tainted = @ \cup (IF cause \in Excuse THEN S ELSE {})]

free_data(s, offset, length, cause, own) ==
  Tainted([s EXCEPT !.list = List!Freed(@, [offset |-> offset, length |-> length])],
          cause, IF offset > 0 THEN Sectors(offset, length) \ own ELSE {})

Fitting(s, n) == {j \in DOMAIN s.list : List!IsBestFit(s.list, j, n)}
AllocatedAt(s, n) ==
  IF Fitting(s, n) # {} THEN s.list[CHOOSE j \in Fitting(s, n) : TRUE].offset ELSE s.next
alloc_data(s, n) ==
  IF Fitting(s, n) # {}
  THEN [s EXCEPT !.list = List!Taken(@, CHOOSE j \in Fitting(s, n) : TRUE, n)]
  ELSE [s EXCEPT !.next = @ + n]

(***************************************************************************)
(* Disk writes.  exposed: the sectors that what was written before already *)
(* names, and that are given out until this write.  cured: what is no      *)
(* longer tainted after it.                                                *)
(***************************************************************************)
Write(to, at, what) ==
  [to |-> to, at |-> at, what |-> what, exposed |-> {}, cause |-> "store", cured |-> {}]
Exposing(w, S, cause) == [w EXCEPT !.exposed = S, !.cause = cause]
Curing(ws, S) ==
  [k \in DOMAIN ws |-> IF ws[k].to = "list" THEN [ws[k] EXCEPT !.cured = S] ELSE ws[k]]

write_inode(slot, r) == <<Write("inode", slot, r)>>
write_snapshot(slot, r) == <<Write("snap", slot, r)>>

\* DiskManager::flush, when an inode was just written that has the sectors S.
flush_disk(s, S) ==
  <<Exposing(Write("next", 0, s.next), S, "store"),
    Exposing(Write("list", 0, s.list), S, "store"),
    Write("dir", 0, s.dir)>>

Applied(s, w) ==
  CASE w.to = "inode" -> [s EXCEPT !.inode[w.at] = w.what, !.logged[w.at] = w.what]
    [] w.to = "free"  -> [s EXCEPT !.inode[w.at].used = FALSE]
    [] w.to = "zero"  -> [s EXCEPT !.inode = [k \in Slots |-> IF k \in w.at THEN NoInode ELSE @[k]]]
    [] w.to = "snap"  -> [s EXCEPT !.snap[w.at] = w.what]
    [] w.to = "next"  -> [s EXCEPT !.saved_next = w.what]
    [] w.to = "list"  -> [s EXCEPT !.saved_list = w.what, !.tainted = @ \ w.cured]
    [] w.to = "dir"   -> [s EXCEPT !.saved_dir = w.what]

-----------------------------------------------------------------------------
(***************************************************************************)
(* The inode table.                                                        *)
(***************************************************************************)
Capacity(dir) == BlockSlots * (Len(dir) + 1)
FreeSlots(s) == {k \in Slots : k < Capacity(s.dir) /\ ~s.inode[k].used}

\* Mutant: the superblock's pointer is not advanced past the new block.
GrownUncounted(s, at) == [s EXCEPT !.dir = Append(@, at)]
Grown(s, at) == [s EXCEPT !.dir = Append(@, at), !.next = at + BlockSize]

\* alloc_inode: the first free slot, or that of a new block.
alloc_inode(s) ==
  LET k   == CHOOSE k \in FreeSlots(s) : \A m \in FreeSlots(s) : k <= m
      at  == s.next
      new == Capacity(s.dir)
      t   == Grown(s, at)
  IN  IF FreeSlots(s) # {} THEN [slot |-> k, state |-> s, writes |-> <<>>]
      ELSE [slot |-> new, state |-> t, writes |->
             <<Write("zero", new .. (new + BlockSlots - 1), 0),
               Write("dir", 0, t.dir),
               Exposing(Write("next", 0, t.next), Sectors(at, BlockSize), "growth")>>]

-----------------------------------------------------------------------------
(***************************************************************************)
(* Snapshots.                                                              *)
(***************************************************************************)
VersionsOf(s, i) == IF i \in DOMAIN s.versions THEN s.versions[i] ELSE <<>>

snapshot(s, i, size) ==
  LET v == [id |-> s.next_id, offset |-> s.files[i].offset, size |-> size, at |-> NoSlot]
      all == Append(VersionsOf(s, i), v)
      kept == IF Len(all) > MaxPerFile THEN Tail(all) ELSE all
  IN  IF size = 0 THEN s
      ELSE [s EXCEPT !.next_id = @ + 1, !.versions = With(@, i, kept)]

\* Mutant: a slot is free if no version of this file is in it.
NotOurs(s, i) == {k \in SnapSlot : \A v \in Range(VersionsOf(s, i)) : v.at # k}
FreeSnapSlots(s, i) == {k \in SnapSlot : ~s.snap[k].used}

\* write's and setattr's snapshot of size sectors of file i: in memory, and in
\* a slot on disk that the last version of the file is then thought to be in.
Versioned(s, i, size) ==
  LET t    == snapshot(s, i, size)
      vs   == VersionsOf(t, i)
      slot == CHOOSE k \in FreeSnapSlots(t, i) : \A m \in FreeSnapSlots(t, i) : k <= m
      r    == [ino |-> i, id |-> IF vs = <<>> THEN 1 ELSE Last(vs).id,
               offset |-> s.files[i].offset, size |-> size, used |-> TRUE]
  IN  IF FreeSnapSlots(t, i) = {} THEN [state |-> t, writes |-> <<>>]
      ELSE [state |-> IF vs = <<>> THEN t ELSE [t EXCEPT !.versions[i][Len(vs)].at = slot],
            writes |-> write_snapshot(slot, r)]

\* Oldest first, those of one age as they stood.
Age(vs, n) ==
  Cardinality({m \in DOMAIN vs : \/ vs[m].id < vs[n].id
                                 \/ vs[m].id = vs[n].id /\ m <= n})
ByAge(vs) == [r \in DOMAIN vs |-> vs[CHOOSE n \in DOMAIN vs : Age(vs, n) = r]]

\* gc_keep_per_file: what is dropped of a file's versions, and what is kept.
Surplus(vs) == IF Len(vs) <= GCKeep THEN 0 ELSE Len(vs) - GCKeep

Dropped(vs) == SubSeq(ByAge(vs), 1, Surplus(vs))
Remaining(vs) == IF Surplus(vs) = 0 THEN vs ELSE SubSeq(ByAge(vs), Surplus(vs) + 1, Len(vs))

EachFile(s, Part(_)) ==
  FoldLeft(LAMBDA all, i : all \o Part(s.versions[i]), <<>>, SetToSeq(DOMAIN s.versions))
All(vs) == vs

\* A version that has no slot is dropped from memory only.
OnDisk(vs) == FoldLeft(LAMBDA kept, v : IF v.at = NoSlot THEN kept ELSE Append(kept, v), <<>>, vs)
DroppedOnDisk(vs) == OnDisk(Dropped(vs))

\* What free_data does for each of them.
Freed(s, vs) ==
  Tainted([s EXCEPT !.list = FoldLeft(LAMBDA list, v :
                      List!Freed(list, [offset |-> v.offset, length |-> v.size]), @, vs)],
          "version", UNION {Sectors(v.offset, v.size) : v \in {v \in Range(vs) : v.offset > 0}})

maybe_gc_snapshots(s) ==
  LET freed == EachFile(s, DroppedOnDisk)
      kept  == [s EXCEPT !.versions = [i \in DOMAIN @ |-> Remaining(@[i])]]
  IN  IF Len(EachFile(s, All)) < GCThreshold THEN [state |-> s, writes |-> <<>>]
      ELSE [state  |-> Freed(kept, freed),
            writes |-> [k \in DOMAIN freed |-> Write("snap", freed[k].at, NoSnap)]]

-----------------------------------------------------------------------------
(***************************************************************************)
(* Requests: the state each leaves, and its disk writes.                   *)
(***************************************************************************)
create(s) ==
  LET a == alloc_inode(s)
      i == s.next_inode
  IN  [state  |-> [a.state EXCEPT !.next_inode = @ + 1,
                     !.files = With(@, i, [slot |-> a.slot, size |-> 0, offset |-> DataStart,
                                           len |-> 0])],
       writes |-> a.writes \o write_inode(a.slot, [NoInode EXCEPT !.ino = i, !.used = TRUE])]

\* persist_to_disk, with len sectors of data.
persist_to_disk(s, i, len) ==
  LET f      == s.files[i]
      freed  == IF f.offset > 0 /\ f.size > 0
                THEN free_data(s, f.offset, f.size, "freed", Own(s, i)) ELSE s
      offset == IF len = 0 THEN DataStart ELSE AllocatedAt(freed, len)
      t      == [(IF len = 0 THEN freed ELSE alloc_data(freed, len)) EXCEPT
                   !.files[i].offset = offset, !.files[i].len = len]
  IN  [state  |-> t,
       writes |-> write_inode(f.slot, [ino |-> i, size |-> f.size, offset |-> offset,
                                       len |-> len, used |-> TRUE])
                    \o flush_disk(t, Sectors(offset, len))]

unlink(s, i) ==
  LET f == s.files[i]
      t == IF f.offset > 0 /\ f.size > 0
           THEN free_data(s, f.offset, f.size, "freed", Own(s, i)) ELSE s
  IN  [state  |-> Tainted([t EXCEPT !.files = Without(@, i)], "logged",
                    IF s.logged[f.slot].ino = i THEN Own(s, i) ELSE {}),
       writes |-> <<Write("free", f.slot, 0)>>]

\* The inode is read back and written; then all is flushed.
rename(s, i) ==
  [state  |-> s,
   writes |-> write_inode(s.files[i].slot, s.inode[s.files[i].slot]) \o flush_disk(s, {})]

\* A write that leaves size sectors, or a setattr, over old sectors of contents.
Overwritten(s, i, old, size, keep) ==
  LET v == IF keep THEN Versioned(s, i, old) ELSE [state |-> s, writes |-> <<>>]
      g == IF keep THEN maybe_gc_snapshots(v.state) ELSE v
  IN  [state  |-> [g.state EXCEPT !.files[i].size = size],
       writes |-> v.writes \o (IF keep THEN g.writes ELSE <<>>)]

-----------------------------------------------------------------------------
(***************************************************************************)
(* Mounting, and what the command line does between mounts.                *)
(***************************************************************************)
open(s) ==
  [s EXCEPT !.inode = [k \in Slots |-> IF s.logged[k] = NoInode THEN @[k] ELSE s.logged[k]],
            !.logged = [k \in Slots |-> NoInode],
            !.list = s.saved_list, !.next = s.saved_next, !.dir = s.saved_dir]

Used(s) == {k \in Slots : k < Capacity(s.dir) /\ s.inode[k].used}
MaxOf(S) == IF S = {} THEN 0 ELSE CHOOSE x \in S : \A y \in S : y <= x
InOrder(S) ==
  [n \in 1 .. Cardinality(S) |-> CHOOSE k \in S : Cardinality({m \in S : m <= k}) = n]

load(s) ==
  LET t     == open(s)
      at(i) == MaxOf({k \in Used(t) : t.inode[k].ino = i})
      inos  == {t.inode[k].ino : k \in Used(t)}
      snaps == {k \in SnapSlot : t.snap[k].used}
      Of(i) == InOrder({k \in snaps : t.snap[k].ino = i})
  IN  [t EXCEPT
        !.files = [i \in inos |-> [slot |-> at(i), size |-> t.inode[at(i)].size,
                                   offset |-> t.inode[at(i)].offset, len |-> t.inode[at(i)].len]],
        !.next_inode = MaxOf(inos \cup {1}) + 1,
        !.versions = [i \in {t.snap[k].ino : k \in snaps} |->
          [n \in DOMAIN Of(i) |->
             [id |-> t.snap[Of(i)[n]].id, offset |-> t.snap[Of(i)[n]].offset,
              size |-> t.snap[Of(i)[n]].size, at |-> Of(i)[n]]]],
        !.next_id = MaxOf({t.snap[k].id : k \in snaps}) + 1]

Closed(s) ==
  [s EXCEPT !.files = <<>>, !.list = <<>>, !.next = DataStart, !.dir = <<>>, !.versions = <<>>,
            !.next_id = 1, !.next_inode = 2]

\* The owners of a sector, as the disk has them, and what the disk offers.
Owners(s, x) ==
  {<<"file", k>> : k \in {k \in Used(s) : x \in Sectors(s.inode[k].offset, s.inode[k].len)}}
    \cup {<<"block", b>> : b \in {b \in DOMAIN s.dir : x \in Sectors(s.dir[b], BlockSize)}}
InList(list, x) == \E e \in Range(list) : x \in Sectors(e.offset, e.length)
Disk == DataStart .. (DiskEnd + MaxSize)

\* fsck --repair: the free list is what the inodes' sizes leave of the disk,
\* unless that is as much as is free now (a sector is more than the tolerated
\* 4096 bytes).  It ends a sector's double use by a file and the list.
fsck_repair(s) ==
  LET sized == {k \in Used(s) : s.inode[k].size > 0 /\ s.inode[k].offset + s.inode[k].size <= DiskEnd}
      fresh == List!rebuild_from_inodes(SetToSeq(
                 {[offset |-> s.inode[k].offset, length |-> s.inode[k].size] : k \in sized}))
      cured == {x \in Disk : x < s.next /\ Cardinality(Owners(s, x)) < 2}
      tail  == {x \in Disk : InList(fresh, x) /\ (x >= s.next \/ Owners(s, x) # {})}
      t     == Tainted([s EXCEPT !.list = fresh], "tail", tail)
      total(list) == FoldLeft(LAMBDA n, e : n + e.length, 0, list)
  IN  IF total(s.list) = total(fresh) THEN [state |-> s, writes |-> <<>>]
      ELSE [state |-> t, writes |-> Curing(flush_disk(t, {}), cured \ tail)]

\* snapshot restore of what is in snapshot slot v, over the inode in slot k.
snap_restore(s, k, v) ==
  LET size   == s.snap[v].size
      offset == AllocatedAt(s, size)
      t      == alloc_data(s, size)
  IN  [state  |-> t,
       writes |-> write_inode(k, [s.inode[k] EXCEPT !.size = size, !.offset = offset, !.len = size])
                    \o flush_disk(t, Sectors(offset, size))]

\* snapshot gc, keeping GCKeep.
snap_gc(s) ==
  LET freed == EachFile(s, Dropped)
      t     == Freed(s, freed)
  IN  [state  |-> t,
       writes |-> [k \in DOMAIN freed |->
                     Write("snap", freed[k].at, [s.snap[freed[k].at] EXCEPT !.used = FALSE])]
                    \o flush_disk(t, {})]

-----------------------------------------------------------------------------
\* A new image, or one on which an earlier mount has stored n files of one
\* sector, as this mount finds it.
Image(n) ==
  [files |-> <<>>, list |-> <<>>, next |-> 0, dir |-> <<>>, versions |-> <<>>,
   next_id |-> 0, next_inode |-> 0,
   inode |-> [k \in Slots |->
                IF k < n THEN [ino |-> k + 2, size |-> 1, offset |-> DataStart + k, len |-> 1,
                               used |-> TRUE]
                ELSE NoInode],
   logged |-> [k \in Slots |-> NoInode], snap |-> [k \in SnapSlot |-> NoSnap],
   saved_list |-> <<>>, saved_next |-> DataStart + n, saved_dir |-> <<>>, tainted |-> {}]

Init ==
  /\ \E n \in {0, BlockSlots} : st = load(Image(n))
  /\ todo = <<>>
  /\ mode = "mounted"
  /\ calls = 0

\* A request with outcome r, while the disk has room.
Request(r) ==
  /\ r.state.next <= DiskEnd
  /\ st' = r.state /\ todo' = r.writes
  /\ calls' = calls + 1
  /\ UNCHANGED mode

Idle(m) == mode = m /\ todo = <<>> /\ calls < MaxCalls

Create ==
  /\ Idle("mounted") /\ st.next_inode \in Ino
  /\ FreeSlots(st) # {} \/ Len(st.dir) + 1 < MaxInoBlocks
  /\ Request(create(st))

\* What is stored is compressed, or not.
Store(i) ==
  /\ Idle("mounted") /\ i \in Live(st)
  /\ \E len \in {st.files[i].size} \cup (1 .. st.files[i].size) : Request(persist_to_disk(st, i, len))

Unlink(i) == Idle("mounted") /\ i \in Live(st) /\ Request(unlink(st, i))
Rename(i) == Idle("mounted") /\ i \in Live(st) /\ Request(rename(st, i))

\* What was there counts as empty unless it is cached.
Overwrite(i, n) ==
  /\ Idle("mounted") /\ i \in Live(st)
  /\ \E old \in {0, st.files[i].size} : old <= n /\ Request(Overwritten(st, i, old, n, old > 0))

Setattr(i, n) ==
  /\ Idle("mounted") /\ i \in Live(st) /\ n # st.files[i].size
  /\ \E old \in {0, st.files[i].size} : Request(Overwritten(st, i, old, n, TRUE))

\* The next disk write of the request in progress.
Step ==
  /\ todo # <<>>
  /\ st' = Applied(st, Head(todo)) /\ todo' = Tail(todo)
  /\ UNCHANGED <<mode, calls>>

\* What a crash leaves named, and yet given out.
Exposed ==
  IF todo = <<>> THEN {}
  ELSE {x \in Head(todo).exposed : x >= st.saved_next \/ InList(st.saved_list, x)}

Crash ==
  /\ calls < MaxCalls
  /\ mode = "mounted" \/ todo # <<>>
  /\ st' = Closed(IF todo = <<>> THEN st ELSE Tainted(st, Head(todo).cause, Exposed))
  /\ todo' = <<>> /\ mode' = "unmounted"
  /\ calls' = calls + 1

\* What is left to store at an unmount is stored before.
Unmount ==
  /\ Idle("mounted")
  /\ st' = Closed(st) /\ mode' = "unmounted"
  /\ calls' = calls + 1
  /\ UNCHANGED todo

Load ==
  /\ Idle("unmounted")
  /\ st' = load(st) /\ mode' = "mounted"
  /\ calls' = calls + 1
  /\ UNCHANGED todo

\* A command, which opens the disk and leaves no state in memory.
Command(r) == Idle("unmounted") /\ Request([r EXCEPT !.state = Closed(@)])

Fsck == Command(fsck_repair(load(st)))
SnapGc == Command(snap_gc(load(st)))

\* The inode is the first that has the version's name, in any directory.
SnapRestore(k, v) ==
  /\ Idle("unmounted") /\ st.snap[v].used /\ k \in Used(load(st))
  /\ Command(snap_restore(load(st), k, v))

Next ==
  \/ \E i \in Ino : \/ Store(i) \/ Unlink(i) \/ Rename(i)
                    \/ \E n \in 1 .. MaxSize : Overwrite(i, n)
                    \/ \E n \in 0 .. MaxSize : Setattr(i, n)
  \/ Create \/ Step \/ Crash \/ Unmount \/ Load \/ Fsck \/ SnapGc
  \/ \E k \in Slots, v \in SnapSlot : SnapRestore(k, v)

Spec == Init /\ [][Next]_vars

-----------------------------------------------------------------------------
(***************************************************************************)
(* Properties.                                                             *)
(***************************************************************************)
\* Who can hand out or holds sector x in memory.
Claims(s, x) ==
  {<<"file", i>> : i \in {i \in Live(s) : x \in Own(s, i)}}
    \cup {<<"block", b>> : b \in {b \in DOMAIN s.dir : x \in Sectors(s.dir[b], BlockSize)}}
    \cup {<<"list", 0>> : z \in {z \in {0} : InList(s.list, x)}}
    \cup {<<"next", 0>> : z \in {z \in {0} : x >= s.next}}

\* After any request, and after a crash between any two of its disk writes,
\* what the next mount finds gives no sector two owners, of files, blocks of
\* the inode table and the two ways of allocating; nor does the memory
\* (free_list.rs:190 "Rebuild the free list from scratch", used "after a crash
\* where the free list may be stale", fs/mod.rs:302 "advance the superblock
\* pointer").
CrashSafe ==
  todo = <<>> =>
    LET found == load(st)
    IN  \A x \in Disk \ st.tainted :
          /\ Cardinality(Claims(found, x)) <= 1
          /\ mode = "mounted" => Cardinality(Claims(st, x)) <= 1

\* A version in memory that counts as being on disk is there, in a slot of its
\* own: GC, which zeroes by slot, and the cap never make it another's
\* (snapshot.rs:15 "Which slot in the on-disk snapshot table this came from").
VersionsHeld ==
  (mode = "mounted" /\ todo = <<>>) =>
    \A i \in DOMAIN st.versions : \A n \in DOMAIN st.versions[i] :
      LET v == st.versions[i][n]
          r == st.snap[v.at]
      IN  v.at # NoSlot =>
            /\ r.used /\ r.ino = i /\ r.id = v.id
            /\ \A j \in DOMAIN st.versions : \A m \in DOMAIN st.versions[j] :
                 st.versions[j][m].at = v.at => j = i /\ m = n
=============================================================================
