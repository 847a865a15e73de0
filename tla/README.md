# VexFS in TLA+

VexFS is a FUSE file system in one disk image: a write-ahead journal, an inode table, a
persistent free list, an ARC cache, a write buffer, snapshots, and an AI engine on a thread
of its own. This directory models its storage, its names and its engine, checks them with TLC
and proves part of it with TLAPS. Paths below are those of the repository (`fs/…`, `fuse/…` are under `src/`).

`PROJECT.json` is the index: which module models which component, the runs, which lines
each definition translates, the mutants that each property catches, the hazards and what
covers them, the findings and the theorems.

## 1. The system

| Component | State | Operations | Used by |
|---|---|---|---|
| Journal (`fs/journal.rs`) | 512 entry slots and a header on disk; `next_slot`, `header` in memory | `format`, `open` (scan), `begin`, `log_*`, `commit`, `clear`, `needs_checkpoint` | disk manager |
| Disk manager (`fs/mod.rs`) | superblock, free list, inode table, journal | `open` (replay), `format`, `write_inode`, `alloc_inode`, `free_inode`, `alloc_data`, `free_data`, `write_file_data`, `read_file_data`, snapshot slots, `flush` | FUSE handlers, command line |
| Free list (`fs/free_list.rs`) | a vector of at most 200 extents | `alloc`, `free`, `merge_adjacent`, `rebuild_from_inodes`, `save`, `load` | disk manager, fsck |
| Inode table (`fs/inode_table.rs`) | a block directory, up to 64 blocks of 1024 inodes | `alloc_inode` (first unused slot), `alloc_block`, `read_inode`, `write_inode`, `free_inode` | disk manager |
| Snapshots (`fs/snapshot.rs`) | versions by inode, at most 10 each; 256 slots on disk | `snapshot`, `restore`, `remove_file`, `gc_keep_per_file` | `write`, `setattr`, command line |
| Write buffer (`fs/buffer.rs`) | pending contents by inode, at most 32 | `write`, `due_for_flush`, `take`, `take_all` | FUSE handlers |
| ARC cache (`cache/mod.rs`) | T1, T2, B1, B2, values, `used_bytes`, evicted keys | `insert`, `get`, `remove`, `drain_evicted`, `peek_eviction_candidate` | FUSE handlers |
| Compression (`fs/compress.rs`) | none | `compress`, `decompress` | persist, read, load |
| B+ tree (`fs/btree.rs`) | entries by (parent, name) | `insert`, `get`, `remove`, `list_dir` | FUSE handlers |
| FUSE file system (`fuse/mod.rs`) | live files, index, cache, buffer, snapshots | `load`, `lookup`, `read`, `write`, `flush`, `create`, `unlink`, `mkdir`, `rmdir`, `rename`, `setattr`, `readdir`, `destroy` | the kernel |
| AI engine (`ai/engine.rs`) | its models; `SharedAIState` behind a lock | handles one event at a time, then publishes | events from FUSE through a channel |
| AI models (`ai/*.rs`) | transitions, scores, a network, a search index, an entropy guard, a memory of all sessions, a brief | learning, searching, `discover_projects`, `recompute`, `analyse` | the engine |
| AI persistence (`ai/persist.rs`, `ai/memory_persist.rs`) | three files beside the image | `save`, `save_neural`, the memory's `save`, and loads | `load`, `flush_all` |
| Command line, GUI (`bin/*.rs`) | none | mkfs, mount, fsck, snapshot restore and GC, tree, find, tag | users |

What interacts. FUSE serves one request at a time on one thread, so there is no
interleaving between handlers: what is hard is that **one file has four copies** (cache,
write buffer, disk, and the journal's image of its inode), with a dirty flag and a file size
that belong to none of them alone, and that handlers touch other files than the one they
serve (eviction, a full buffer, extents freed and taken again). Below the disk manager
what is hard is the **crash**: the program issues plain writes in a fixed order and may be
killed between any two. The AI engine runs on its own thread: it is told by messages, publishes
under a lock, and at an unmount is given 50 ms before what it published is saved.

What makes each component correct:

* journal: a transaction takes effect at one instant or never; ids are not reused; nothing
  is written in place before it is committed; mounts end;
* allocator: no byte has two owners; only slivers are lost; fsck's list is the complement;
* cache: everything cached can be evicted, everything evicted was foretold and reported;
* file system: a file reads as it was last written, whichever copy serves it; dirty means
  "not yet handed over"; what was flushed survives; what was deleted stays so;
* inode table: a live file's slot is its own, and so are the blocks it grows by, after a crash too;
* B+ tree: an ordered map; directories: index and files are one tree, which the next mount finds;
* snapshots: a version is in the slot it is thought to be in;
* AI: nothing learned is lost at an unmount, every event is handled, and what the engine says of
  files (search, streaks, projects, alarms, the brief) is what happened to them.

## 2. The modules

```
AtomicStore  <--implements--  Journal       MCJournal      JournalProofs
Extents --- ExtentStore  <--implements--  FreeList         ExtentStoreProofs <- FreeListProofs
        \-- ExtentList ------/     |        MCFreeList                             |
                                   |                                     FoldLemmas
Arc ------- ArcCache               |        MCArcCache                             |
    \                              |                       ArcCacheProofs <-------|
     `----- VexFS  <-- ExtentList -'        MCVexFS        VexFSProofs <----------'

OrderedMap  <--implements--  BTree ------\
                         Namespace  \     >-- MCLayers
ExtentList  <-------------- Store ---`- Layers             LayersProofs <- FoldLemmas

Memory, Models, Jarvis  <-- Engine      MCEngine           EngineProofs <- FoldLemmas
```

**Journal** models `fs/journal.rs` with the operations of the disk manager that drive it.
One step is one disk write. `phase` says which write comes next (the program counter of
the single thread), `cursor` how many of this phase are done, `writes` the transaction in
progress. `home` is the rest of the image by *location*: whatever one entry covers, an inode
record or a 490-byte chunk. `write_entry` is two steps, because it writes the entry and
then the header (journal.rs:489, 497); `clear` is a step for the header and one for each slot;
a mount is `Open`, `ReplayEntry` for each entry, `ReplayDone`, and possibly a `clear`. `Crash`
may come between any two. CRCs and byte layouts are left out. Where the code writes a file's
extent in place at once, the model writes it chunk by chunk, which admits more crashes.

**AtomicStore** is what the journal promises: a store in which a transaction is pending,
then committed at one instant or abandoned. `Journal!Abstract` instantiates it with
`store <- Recovered`, what a mount would show of the disk as it is now.

**Extents**, **ExtentList** and **FreeList** model `fs/free_list.rs`: `ExtentList` has the
vector operators (the stable sort, by what it does: an extent goes to its `Rank`; the sweep, best fit, the cap of `MAX_PERSISTED_EXTENTS`, the remainder
below a sector that is lost, fsck's rebuild), `FreeList` drives them by `alloc_data` and
`free_data` for holders that free what they were given. **ExtentStore** is the same allocator
over the *set* of free extents, with no order: `FreeList` implements it, and inherits what is
proved of it.

**Arc** has the ARC cache as operators from cache to cache, with queues that keep
tombstones as the code's do; **ArcCache** makes them actions under arbitrary calls.

**VexFS** composes the caches, the allocator and the disk under the FUSE handlers. Its
state is a record `fs`, of what is in memory (`files`, `cache`, `blocks`, `buffer`, `list`,
`next`) and on disk (`inode`, `data`, `logged`, `saved_list`, `saved_next`); helpers of the code
are operators from one such record to the next, under their names in the code, and a
request is one action. `logged` stands for the journal: the last inode it has of each slot,
which is what a replay puts back. `truth` is a history variable, what was last written to each
file. Contents are sequences of block values; a cold file's run of equal blocks is stored as
one cell, which is what compression changes for the allocator. Which files are cold is fixed
(`Cold`); in the program the AI's ranking moves it, and a file that is not ranked is cold.

**BTree** is `fs/btree.rs`: nodes as records, insertion with its splits up to the root, removal
that never joins nodes, search, and the scan of a directory between its two sentinel keys. It
implements **OrderedMap**, key by key and value by value.

**Namespace** has the handlers that change names and directories, over an index that is an
ordered map, the table of live files, and the inode records a mount rebuilds both from. Contents
are left out, but not what storing them does to a record: a file is stored under the name it had
when it was buffered, an evicted file under the one it has. The cache is a set of which any entry
may be stored or evicted by an insertion. A record keeps of a name what `set_name` and `get_name`
leave of it (`Kept`), and is passed over where the name starts with a blank (`Blank`). What the
command line makes of an image between mounts is an operator of it: `cmd_tree`, `cmd_find` and the
first pass of `cmd_fsck`, each with its own idea of a valid record; `Tag` is the command that writes. The kernel's part (paths by lookup, no move of a directory below itself, no
mixing of kinds in a rename) is in the guards.

**Store** has what `Journal` and `VexFS` leave out between them: a request changes memory at once
and leaves its disk writes in `todo`, each a step of its own, so that a crash may come between any
two. It has the growth of the inode table by blocks taken from the bump allocator, snapshots with
their slots, cap and GC, the superblock and the saved free list, and, between mounts, `fsck
--repair`, `snapshot restore` and `snapshot gc`. A write through the journal is one step here.
What is stored may be shorter than the file (compressed).

**Layers** has `Namespace` beside `Store`, which share the mode and the count of requests, for the
theorems about both; **MCLayers** runs it with the tree: a behaviour is of one of the three.

**Engine** has the thread with its channel, the handlers as senders, the published state, and
`flush_all` with its three files, one step each, in the order of the code. `flush_all` holds the
lock while it writes them, so nothing is published meanwhile: `Handle` waits. The 50 ms are no
guard: the save may come at any time after the last send. **Models** has the tables of the
engine (transitions, tracked files, vocabulary, search index, entropy guard), **Memory** what is
learned over sessions, with the groups of files found in it, **Jarvis** the brief made of that
when a session ends. What depends on the order a hash map iterates in is a set of outcomes; so is
which files of a group a suggestion names, when it has room for only some (`First`).

`files` has the files and directories of the mount, each with its `place`: found by its name,
replaced by a rename, or removed by `rmdir`. `mkdir`, `rmdir` and `rename` send nothing (`Silent`), so the
engine learns of them only at the next mount, whose index is made of what is on disk. A write
event carries the words of its piece and whether it is `apart` from the piece before it, that is whether they
meet at a word's boundary. The engine puts the pieces of a file behind one another and
splits the whole into words: where two are not apart, the last word of one and the first of the
other may be gone and a third may be there instead (`Together`). Which words these are is a matter of letters,
and any choice is allowed. To state properties, `sent` says of each file what the engine was sent.
A behaviour has one kind of `Work` (opening files over days; editing; alarms; briefs), as the
parts of the engine share nothing but its thread.

### Five known ways of losing data

In `VexFS` the properties do not hold of the code as it is. Five causes were found; each
is marked at the operator where it happens by adding the files it harms to `excused`, unless
the constant `Excuse` leaves the cause out. With all five in `Excuse` the properties say that
**nothing else** loses data. With one left out, the property fails and the run is a finding.

* `shared`: storing one file changes what is stored of another (the first store of every
  file lands on `DATA_OFFSET`; extents are freed by uncompressed or newer sizes);
* `deleted`: a deleted file's buffered data is stored later, over somebody's extent or slot;
* `stale`: an eviction stores the buffer's older copy and marks the file clean;
* `miss`: a read that misses the cache ignores the write buffer; a write or truncation
  that misses starts from an empty file;
* `full`: data for which the journal has no room is refused, the error is ignored, and the inode
  is written as though it had been stored (fuse/mod.rs:499). In the code the room left varies with
  what was logged since the last checkpoint, from about 8 to 250 KB; here it is a number of blocks
  that a behaviour keeps (`room`).

A file that was harmed stays excused until it is deleted or the image is mounted again,
whereupon what is found counts as written. A file may also be lost, without blame, if it was
not flushed before an unmount, or not stored before a crash.

### Known causes in the other modules

`Namespace`, `Store` and `Engine` are built the same way: each place where the code is known to
lose something adds what is harmed to `excused` or `tainted` (or makes the exception named in the
property), under a name that the constant `Excuse` lists. Taking any one name out of `Excuse`
makes TLC find a trace.

* names: `replaced` (a rename onto a name keeps the target's slot and record), `shadowed` (a
  rename onto a virtual file's name), `renamed` (a buffered store under the old name), `demoted` (an
  evicted directory is stored as a file), `deleted` (the late store or the replay of a deleted
  file), `mangled` (a name that is cut at 199 bytes, that `get_name` refuses, or that
  starts with a blank: the file is passed over by every later mount, its slot stays taken and its number is used again), `tagged`
  (`vexfs tag` numbers its file by its slot, which may be a number that a file has, and takes any
  file of the name it looks for: a number given twice confuses every handler, so the behaviour ends
  at the mount that finds it).
* sectors: `freed` (extents freed by sizes and offsets that are not the file's own), `version` (GC
  of a snapshot frees the live file's extent), `logged` (a replay brings back a deleted file
  whose extent is free), `store` (a crash after the inode and before the saved free list),
  `growth` (a crash after the block directory and before the superblock), `tail` (fsck frees
  extension blocks and what lies past the allocator's pointer, which then offers it again).
* the engine: `unpublished` (nothing was handled before the save, which overwrites two of the
  files with nothing), `torn` (a crash while a file is written in place), `cap` (a full table of
  transitions is counted up again from one when it is loaded), `names` (a file's name did not fit
  the memory's saved tables: `discover_projects` panics and the thread dies).

## 3. The runs

| Run | States | Shows |
|---|---|---|
| `journal` | 262 756 | the refinement, the write-ahead rule, ids, tail, checkpoint room, durability, termination, with crashes anywhere but in two windows |
| `journal_half_open_tx` | violation | a crash between entry and header: the next commit adopts the dead entry |
| `journal_half_cleared` | violation | a crash in `clear`: stale committed entries are replayed over newer ones |
| `freelist` | 29 198 | the refinement, no double allocation, bounded loss, the sweep and fsck's rebuild against their definitions on sets |
| `arc` | 1 315 021 | evictability, counting, peek against insert, reports, admission |
| `arc_ceiling` | violation | the "hard" ceiling is passed |
| `vexfs` | 1 297 978 | the five data properties of section 2, outside the known causes |
| `vexfs_evict` | violation | `stale` left out: an evicted file's last write is gone |
| `vexfs_remount` | violation | `shared` left out: two files written, flushed, remounted: one has the other's contents |
| `vexfs_resurrect` | violation | a deleted file is back after a clean unmount |
| `layers` | 1 357 977 | the tree is an ordered map; names and files are one tree that mounts find again; fsck, tree, find and the mount read an image alike; no crash gives a sector two owners; versions keep their slots; outside the causes named above |
| `engine` | 951 898 | what was learned survives, search, memory, alarms and brief say what happened, every event is handled that the save does not overtake |

Each property of a passing run has a mutant in `PROJECT.json`: a plausible bug in a named
definition, under which TLC finds that property violated. The mutated definitions stand
before the ones they replace, with a comment "Mutant".

### Bounds, and why they are enough

* `journal`: 6 slots with a reserve of 1 (the code: 512 and 16), locations `a`, `b`, one
  two-chunk extent, 4 transactions (`MaxTx` 5), 3 crashes. Two inode writes leave four slots
  used, so that a location is logged twice (the order of replay matters) and the extent does
  not fit; three crashes leave enough dead entries to meet the full journal. The two
  violation runs open one window each.
* `freelist`: 3 holders, sectors of 2 bytes, sizes 1, 2, 3, 5 (below, at and across a sector),
  at most 3 extents, 12 bytes: the list is full, merges on either side and in the middle
  happen, and a remainder of 0, below and at a sector.
* `arc`: 3 keys, a limit of 2, values of 0, 1 and 3 (one is larger than the cache), ghost lists
  of 1, queues of 3 with their tombstones (`MaxQueue`), 2 reports between drains
  (`MaxReport`). Queue length is unbounded in the code, where only pops shorten it.
* `vexfs`: at most 8 requests, mounts and crashes (`MaxCalls`), 3 inode numbers for 2 slots, so
  that a slot is used again; files of up to 2 blocks, a cache of 1, a buffer of 2, files 2 and 4
  hot and 3 cold, a disk of 4 sectors, room in the journal for any file or for those of one block. The shortest traces of the findings take 4 to 7 calls. A
  run of 10 calls with two files and a ghost list of 1 (11.8 million states) found nothing
  more, and takes too long to be kept. Block values are symmetric.
* `layers`, the tree: nodes of up to 2 keys (ORDER 3; the code: 8) and 2 directories of 3 names,
  all sequences of insertions and removals: trees of three levels, emptied leaves, separators
  that are gone.
* `layers`, names: 6 requests, mounts and crashes (`MaxNameCalls`), 3 inode numbers and slots;
  names 1, 2 and a virtual file's, and in behaviours of 5 calls a name with one that is cut to
  it, one that is not read back, or one that starts with a blank;
  in behaviours of 4 calls a name with the files of two files' tags, from a new image or one that
  has one of them (`TagBase` 6 stands for 0xDEAD0000, above every other number). The shortest traces of the causes take 2 to 6 calls.
* `layers`, disk: 5 requests (`MaxCalls`), with a crash anywhere among their disk writes;
  a table of 2 blocks of 2 slots, 3 snapshot slots, 2 versions of a file in memory, GC at 3 down to
  1, a free list of 3, files of up to 2 sectors on a disk of 4. It starts with a new image or one
  whose first block is full, so that the table grows within the bound.
* `engine`: 6 opens, days, mounts and crashes for the memory (with tables of 2 that are saved,
  pairs of 3 files, a window of one day against another), 4 calls for editing, 4 for alarms with a
  window of one second and a pattern of 2 writes, 6 for briefs, in which one event waits at most
  when another is sent (`MaxQueue`). The thresholds of the brief are 3 opens, 2 files and 2 days
  (the code: 4, 6 and 5), and a suggestion names at most 1 neglected file and 2 to be read ahead (the
  code: 4 and 5; the groups have 2, so that one kind is cut and the other is not); every kind of suggestion is made. Editing starts
  with a file and a directory: pieces that are apart and pieces that are not, over words of
  a set of two, with closes, renames, removals and mounts between them.

`CHECK_DEADLOCK FALSE` is set where the model really stops: an idle journal that ran out of
`MaxTx`, and `VexFS` after `MaxCalls`.

### Fairness

`Journal` states weak fairness of `Step`, the disk writes of the operation or mount
in progress. The code runs them in one thread without waiting for anything, and an image that
went down is taken to be mounted again; requests and crashes are not fair. Under it every
operation and every mount ends (`OperationsFinish`). `Engine` states weak fairness of `Handle`: the thread waits for events and
for nothing else but the lock, which only readers hold for long. Under it every event is handled
that the save does not overtake, unless the thread has died (`AlwaysHandled`). Elsewhere nothing is promised to happen
eventually: in particular the write buffer has no timer, and a buffered file is stored only
when some flush or unmount comes (`PROJECT.json`, hazards).

## 4. What is proved

`JournalProofs`, for every size of journal, reserve, set of locations, extents and bounds:

* `TypeCorrect`: `TypeOK`, and with it that `next_slot` never passes the region's end,
  whatever crash windows are admitted.
* `FreshIds`, `NoTail`, `WriteAheadRule`: `TxIdsFresh`, `NoStaleTail` and `WriteAhead`, assuming
  `Windows = {}`: outside the two windows where the code breaks them.

The inductive invariant `IInv` has four parts. `TypeInv` adds to the types how far the cursor
may be in each phase. `PrefixInv`: the used slots are an interval, from 0 to `next_slot`, or
from the cursor while `clear` zeroes; it survives a crash only because one in `halfCleared` is
excluded. `IdInv`: ids on disk are below the next one of memory, and below the header's except
in the window between a transaction's first entry and its header; it survives a crash only
because one in `halfOpenTx` is excluded. `LogInv`: the last entries on disk are those of the
transaction in progress, in order. The write-ahead rule needs all four: the entry to be written
in place is among the last entries (`LogInv`), which the scan reaches (`PrefixInv`), with the
commit entry of its id behind it.

Durability, under the same assumption: `Durability`, that is `CommitIsDurable`. `IInv`
is joined by `AgeInv` (what precedes the entries of the transaction in progress is older, so its
id is on no other entry and its commit entry adopts nothing) and `DurableInv`: the disk lags behind
what a replay would put there (`Settled` fails) only for locations the transaction has yet to
write in place after its commit entry, and, in a mount, for entries the cursor has not reached.
`WriteEntryIsInert` and `CommitEntryIsLocal` say what logging an entry does to the next replay,
`ApplySettles` what a write in place does.

The refinement, under the same assumption: `Refinement`, that is `Spec => AtomicCommit`. Each
action maps to a step of `AtomicStore` or to a stutter. The commit entry is the one instant at
which `Recovered` moves, to what `Overwrite` says (`CommitOverwrites`): the last entry for a
location is then the transaction's own, unique because a transaction writes no location twice
(`Distinct`). Writes in place and replays leave `Recovered` because the location has a last
replayable entry already (`LastExists`, the only place where well-foundedness is needed); zeroing
leaves it because everything is settled.

The same lemmas give `NeverAdopted` (`UncommittedNeverReplayed`): of the steps an unfinished
transaction may take only the commit entry moves `Recovered`, and only as `Overwrite` says.

Its room, assuming also that the reserve is smaller than the journal: `Room`
(`CheckpointKeepsRoom`). `RoomInv` carries the claim from `idle` to the first append, and `CommitInv`,
that every commit entry follows a write of its transaction until `clear` zeroes it, is what shows
that a mount which finds only committed entries has something to replay, and so clears.

`ExtentStoreProofs`, for every disk, sector size, cap and set of holders: `TypeCorrect`,
`NoDouble` and `FreeIsCoalesced`. `NoDoubleAllocation` is not inductive alone: if two free extents
overlapped, the bytes taken from one would stay free in the other. So `Coalesced` is part of the
invariant; the lemmas on `Merge` say that merging covers no byte that was not covered and leaves
no two extents touching.

`FreeListProofs` brings this to the vector of the code. Its invariant is that of `ExtentStore` on
the set `Range(extents)` (`Proved` is the instance of `ExtentStoreProofs` that says so) and
`VectorOK`: the vector is short enough to be saved and has no extent twice. What has to be shown
is that the loops over the vector do what the set does:

* `MergeAdjacentIs`: the stable sort is a permutation in the order of the offsets (`SortedIs`); the
  sweep covers the same bytes with extents that are in order and do not touch (`SweepIs`, one round
  at a time by `AbsorbIs`); and extents that do not touch are told by the bytes they cover
  (`MergeUnique`), so it is `Merge`.
* `TakenIs`: an allocation takes the extent out at its index and puts the remainder at the end.

From this follow `TypeCorrect`, `NoDouble`, `FreeIsCoalesced`, `SweepMerges` and `Refinement`, that is
`Spec => ImplementsStore`. `LossBound` says that a step loses less than a sector, except a `free`
that finds the list full. `RebuildsComplement` is about fsck: the sweep over the used extents
frees no byte that a file has, and all the others unless the list is full (`RebuildIs`); it needs that nothing
is handed out past the end of the disk, an invariant of its own (`InDisk`).

`ArcCacheProofs`, for any keys, limit, ghost cap and sizes of values. The invariant is `cache \in
Good`: every element of an ordered set is still somewhere in its queue, so that a pop finds it
behind whatever tombstones there are; T1 and T2 divide the cached keys between them; `used` is the
sum of the sizes; ghosts and `p` are within their caps. Each operator of `Arc` is shown to lead
from good to good, `evict_one` with its victim (`EvictIs`), and the eviction loop as a sequence of
rounds (`RoomRounds`): `Shed` is what holds after any number of them (nothing new is cached, all
that went is reported, the first to go is the victim that was foretold), and
`MakeRoomIs` that the loop ends with room or with an empty cache, as each round but the idle ones
takes one of the finitely many entries. The theorems are `TypeCorrect`, `Evictable`, `UsedExact`,
`PeekExact`, and of steps `NothingSilent` and `WithinCeiling`. `PeekIsNextVictim` is stated with
`FirstEvicted`, the first key an insertion reports.

`VexFSProofs` puts the two under the handlers, for every number of files, slots and blocks and any
sizes of cache, buffer, list and disk. `AP` and `FP` are instances of the two modules above, so
that what they say of an insertion or of a freed extent is cited, not proved again. A helper of
the code is an operator from state to state, and so is its lemma: `PersistIs` says what
`persist_to_disk` leaves, `CacheInsertIs` what `cache_insert` does, and a loop over evicted or
buffered files, or over slots, goes by rounds (`LoopRounds`, `LoopSound`). The invariant `IInv`
has the types (`FS`) and, while mounted, `Sound`:

* live files have different slots (`OwnSlots`), which the inode table on disk has in use, and in
  which the journal has nothing else (`InUse`); a file being created is the one exception,
  until its inode is written after the insertion;
* the records a mount would find are of different files (`OneRecord`), a live file's is in its slot
  and points where memory does, or at nothing (`RecordsFit`); what is buffered will be stored in
  that slot (`BufferFits`). Without these an eviction could write one file's inode over
  another's;
* what is cached is live and as long as the cache counts (`CacheFits`).

While the process is gone `Kept` remains: one record for each file, and a data pointer within the
disk. `LoadIs` says that a mount takes up every used record, one slot at a time, and `LoadSound`
that what it makes is sound. The theorems are `TypeCorrect` (`TypeOK`) and `SlotsKept` (`SlotsHeld`).

The second half of `VexFSProofs` says that nothing but the five known ways (section 2) loses data: `CacheCorrect`
(`ReadsSeeLastWrite`), `EvictionsKeep` (`EvictedIsKept`), `CleanCorrect` (`CleanIsHandedOver`) and
`RemountsFind` (`FlushedSurvives`). None of the four is inductive, and `CleanIsHandedOver` comes nearest: a
dirty file that is dropped from the cache has to be stored before the next request. With
`Backup(s, i)`, what there is of a file besides the cache (the write buffer, or else the disk),
the invariant is `Right(s, X, P)`:

* sizes are those of the last write (`SizeRight`), without which a read takes the wrong sectors;
* cached contents are the last (`BlocksRight`), but for files in `X`, whose contents an
  insertion is about to replace;
* the backup of every file that is clean or not cached is the last (`BackupRight`), but for the
  files in `P`, which an insertion has dropped and reported and the loop has yet to store.

Between requests both sets are empty. Within one, `InsertRight` puts what is reported into `P`,
and `EvictedRight` takes one file out of it a round; `RemainsRight` says that a step that stores
one file leaves the others right. After a mount ends `Survives` remains: every file that was
not excused is on disk (`DestroyRight`, `CrashRight`), and `LoadRight` leads back. The hypothesis `LetPass` is
that all five causes are in `Excuse`, as in the run `vexfs`; where one is not, the runs
`vexfs_evict`, `vexfs_remount` and `vexfs_resurrect` show what the code does.

`EngineProofs` is about the engine of all mounts, for any inode numbers, names, words, days, limits
and any number of requests, crashes and unmounts, with every excuse or none. `TypeCorrect` says
that the state is `Typed`: a table's entries are of files that have a name when the table was
not cut, an event has what its kind needs, the three files have what was published. On it rest
five invariants, each kept by every event and every step of an unmount and a mount:

* `AlarmsAreRight` (`AlarmsMatchWindow`). `GuardRight` says what the guard's lists are by the writes it
  has checked: the first class of each file, and of the dense writes the times, in order, of
  those no older than the window was at the last of them. That the list has been thinned out many
  times makes no difference because time does not go back; so what is counted is a set of
  positions in the history (`CheckRight`). `Alarms` adds that an event carries the name its file has.
* `MemoryIsRight` (`MemoryMatchesHistory`). `Remembering` says of the engine's memory, and of the one
  in the file, which the next mount starts from, that streaks and counts are by the days of the
  history (`DaysRight`) and pairs and sessions by its sessions (`SessionsRight`). What is published is
  the engine's own memory or nothing, so a save between two events loses no more than the events
  to come. A streak is the run of days to the last one: `RunTo` is well defined and goes on, stays
  or breaks as `touch` says. For the third part the union and find is followed along
  any order of the close pairs (`Grouped`, `UnionStep`): after each union the groups partition the
  files and are connected by the pairs taken so far; a set that is connected and closed under the
  pairs is one of them, so the order makes no difference (`ProjectsAre`).
* `SearchIsRight` (`SearchFollowsFiles`). `Searching` joins the index with the queue. A file that was
  unlinked but is in the index, has accumulated pieces, or is in a write that waits, has its
  deletion behind it in the queue (`Gone`). For one that is there no deletion waits, and what was
  sent of it is what the engine has taken and then, event by event, what waits (`Chain`, `After`);
  of what it has taken the index has the words written since the last close, if all pieces were apart, and
  but for one those of the last piece in any case (`Tracks`, `Live`). Its number is given to no other while
  the engine runs (`Older`). `TakeTracks` says that one event keeps the two together, whatever
  becomes of the words at a seam; directories removed and files replaced are like any other, as nothing is sent of them.
  `Enough` says that a word's count is at least the number of files that have it, through indexing
  by name, which takes nothing back, and at a mount, where the fold goes over the files in any order.
* `LearnedIsKept` (`LearnedSurvives`). `Learning` says that each file has what is owed of it
  (`FileHolds`), that until the process ends so has the engine (`EngineHolds`), and that at the save
  something is published unless an event waits. A table never has more entries than its cap
  (`FewTransitions`, `FewScores`), and covers what is owed as far as that goes (`Covers`): an entry is
  missing or smaller only where the table is full. A load replays the transitions in any order of
  their set, each once, so it has them all. A memory keeps days, streaks and pairs through a write and
  a reading back, but for the names that are cut. The hypothesis `LossesPass` is that the causes "unpublished", "torn" and
  "cap" are in `Excuse`: where one is not, the code loses what is owed, for which `Engine` says where.
* `BriefIsRight` (`BriefMatchesHistory`). Until the session's end is handled, what was asked of a file
  is what the engine has counted plus what waits in the queue (`Asking`), for opens and for writes. The end is sent
  last but one (`EndLast`), so when it is handled nothing that was asked waits, and the brief is drawn from
  counts that are complete, a history that is right (`Remembering`), projects that are components, and
  names that the memory has of all its files (`Naming`). `BriefIs` takes the brief apart by the kinds
  of its suggestions; all the files of a group were opened, so that the code takes it for active (`SumAtLeast`). A
  suggestion about a group names as many of its files as it has room for, whatever the limits
  (`NamesOf`). No cause has to be let pass. Deleted files are named too: the memory keeps them, and the property is about all files that were opened.

`LayersProofs` is about where versions are on disk, for any number of slots, of versions a file may
have in memory and of versions GC keeps, and for every excuse: `VersionsKeepSlots` (`VersionsHeld`).
`VersionsHeld` speaks of the time between requests and is not inductive, because memory changes at once and
each write of the request is a step of its own. The invariant `IInv` is about the slots as the writes
that wait will leave them: `Held(st, todo)` says that a version that counts as on disk is what the
last write to its slot puts there, or what is there if none waits (`InPlace`), and that no two have one slot
(`Apart`). A disk write moves one from what waits to what is there (`StepHolds`), a crash drops memory
and what waits. The requests go by what they leave:

* `VersionedIs`: the slot that a new version takes is free on disk, so no version counts as being in
  it and writing it disturbs none; at the cap the oldest leaves memory only;
* `GcSplits`: sorting is a permutation of a file's versions, of which what is dropped and what is
  kept have none in common, so that the slots that are zeroed are of no version that stays
  (`MaybeGcIs`); `EachFileIs` and `OnDiskIs` say this of the loops over files and versions;
* `LoadIs`: a mount makes of each used record one version, with the slot it was read from; the order
  that it reads them in is a permutation of the slots (`InOrderIs`);
* `Calm`: the other requests write to other tables and leave the versions alone.

The module also proves `CrashSafe` (`SectorsHaveOneOwner`), for any disk, any size of the inode
table and of the free list, and any number of requests, commands and crashes. The one hypothesis is
`AllExcused`, that all six ways are let pass that are listed with `Tainted` and that `MCLayers.cfg` lets
pass; the theorem says that there is no seventh. `CrashSafe` speaks of the time between requests; the
invariant, `SafeInv` with `IInv`, of every instant. It has three parts:

* `Safe`: there is a sequence of what is stored, from what is there on through each write that waits, in
  which every write may come when it comes (`IsSafeAt`): a sector is either clear, that is, has one owner
  at most and cannot be handed out if it has one, or is one that a crash just then is known to expose. After the
  last write the disk is safe again and memory agrees with it (`Agrees`): each file is where its
  record or the log has it, memory's own list and next offset hand out nothing that is owned, and its next
  offset is not behind the disk's. A disk write then takes the first of the sequence away (`SafeTail`),
  and a crash leaves the sequence where it is, with what is exposed let pass (`CrashedIsSafe`);
* `Sound`, the same between requests, when nothing waits, and what a mount finds (`LoadIsSound`);
* `Sized`: that versions have a size, as GC and `snap restore` free and copy them by it.

Each request is then an argument about the order of its writes. `StoreIsSafe`: a file's new extent is nobody's
(`AllocIs`), before and after its record names it and before and after the superblock moves past it.
`GrowthIsSafe`: the superblock, then the zeroes, then the directory. `UnlinkIsSafe`, `RenameIsSafe`,
`CreateIsSafe`, `OverwrittenIsSafe` and the commands `FsckIsSafe`, `SnapGcIsSafe` and `RestoreIsSafe`
follow. What they need of the allocator comes from `FreeListProofs`: a list stays without overlaps when
bytes are taken (`TakenStaysDistinct`), given back (`FreedStaysDistinct`) or collected anew from files in
any order (`RebuiltIsDistinct`), which `ListTaken`, `ListFreed` and `ListRebuilt` say of sectors.

Beside the store, `LayersProofs` has the namespace: `OneTree` (`NamesAgree`), for any numbers of
slots, inodes, names and requests. In a mount, every entry of the index names a file that has its name,
parent, kind and slot, and every file can be reached from the root. The hypothesis is that "replaced"
and "shadowed" are in `Lost` (the `Excuse` of `Namespace`): a rename onto a directory cuts off what is
below it, and one to a virtual file's name hides the file. Index and files alone are not inductive, since the next mount builds both
from the inode table, and the code writes inodes late and under old names: at a flush, at an
eviction, and out of the write buffer after the file is gone. The invariant `NamesInv` has

* between mounts `IsImage`: of the inodes that a mount takes up, with the journal's over the table's
  (`Final`), no two have one number, but for the numbers that `tag` gave twice;
* in a mount `IsMount`: each number has one slot, its home (`IsHome`), where the files and the
  buffered copies of that number are. Every inode that a mount would take up, in the table or in the
  journal, is at the home of its number (`Homes`), so it does not matter when it is
  written or from which copy; no two files share a slot (`NamesApart`); entries match files
  (`Agree`); and what is not excused is reached (`Found`).

`Stays` is what storing leaves of this, in any order and whatever the cache evicts
(`FlushFileStays`, `InsertStays`); the two loops, over the write buffer and over the slots, go by
`NameLoopStays`. `create` and `mkdir` choose a slot no inode uses, so no home of a live
file (`EnteredIn`, `RecordedIn`); `unlink` and `rmdir` remove what nothing is kept in (`FreedIn`);
for `rename`, `Reached` and `Below` are the least sets of their kind (`ReachedIs`, `BelowIs`, by
`Closes`: as many rounds as there are files suffice), and the set of what is reached in the new tree
holds what was in the old one but for what is below a replaced file (`RenamedFound`). `PoweredIs` is
the step from a mount to an image, at an unmount and at a kill, `LoadedMount` the way back; where a number was given twice,
the entries of the other numbers still match (`LoadedEntry`), and such a mount ends the behaviour.

`FoldLemmas` is what these need: that the function a fold computes exists and runs through the
rounds of a loop (`FoldRounds`), that a sum over a finite set does not depend on the order
(`TotalSplits`), and that a sum of positive numbers is not less than how many they are (`SumAtLeast`). The library's induction rules take an operator as parameter; here induction is by the least
counterexample, over the well-founded order of the naturals.

Assumptions: `JournalAssumption`, `ExtentsAssumption`, `ArcCacheAssumption`, `VexFSAssumption`,
`EngineAssumption`, `StoreAssumption` and `NamesAssumption`, which TLC evaluates in the runs. The first says, among sizes and types, that the chunks of one extent are distinct:
they are consecutive pieces of a file's extent. The third is that sizes are natural numbers, the
fourth that numbers are natural, slots are counted from 0, and neither garbage nor `None` is something a
request can write; the fifth that inode numbers are finitely many, from 2 on, that a name is a
sequence of words, that there are suspicious names and others, and that a day and a week are not empty;
the sixth that the slots of the snapshot table are numbers, finitely many, that the sizes are natural numbers,
that a block of inodes holds at least one, and that data starts past sector 0 and before the end of the disk;
the last, `Setting` of `Namespace`, that inode numbers are from 2 on, that the table's slots are numbers, finitely
many, that a name is read back as a name or not at all, and that of a file of tags as it is and never as a
virtual file's.

The theorems about `VexFS`, the engine's `LearnedIsKept`, `SectorsHaveOneOwner` and `OneTree`
also suppose which causes are let pass, as said with each; `MCVexFS.cfg`, `MCEngine.cfg` and `MCLayers.cfg` have them.

Only model-checked: liveness (`OperationsFinish`, `AlwaysHandled`), which is out of the prover's
reach; and of the run `layers` what is about names: `LookupsAgree` and `ImplementsMap`, as `BTree` is
recursive and so out of reach too, and `NamesSurvive` and `ReadersAgree`, which compare an image with
what the mount before it had and with what the commands read, and whose proof is not done. Every safety property
of the runs `journal`, `freelist`, `arc`, `vexfs` and `engine`, and of the layer `Store`, is proved.

## 5. Findings

Six, each with its run and its line in `PROJECT.json`: the two crash windows of the journal
(journal.rs:489, :462); the cache's ceiling (cache/mod.rs:128); the stale copy stored at an
eviction (fuse/mod.rs:391); a new file's placeholder offset freed at its first store
(fuse/mod.rs:450); and the deletion that a replay undoes (inode_table.rs:279).

## 6. What is not modelled

* Loss of writes by the operating system: the code never syncs; a crash here is that of the
  process, after which the writes it issued are there.
* How full the journal is when `VexFS` stores a file: `Journal` has the slots, `VexFS` one number for
  a behaviour. `Store` has logged writes that succeed. Nor is the journal that never clears, which
  takes more crashes than the instance has.
* The byte layout: the free list's record, which meets the inode-block directory in the
  superblock's block when it has more than 190 extents; CRCs; the codec; failed reads and writes
  of the image.
* The names by which `snapshot restore` and the others find a file. Of the commands that only read
  an image, `tree`, `find` and fsck's first pass are modelled; the others print what no property
  is about.
* `readdir`'s paging, `getattr`, and the texts of the virtual files, among them `.vexfs-ask`. What
  `jarvis.rs` says of the brief, that it is made on mount, is not what the engine does: it is made
  when a session ends, which is the unmount, and is not saved. `Jarvis` models what is made.
* Of the AI: scores and which file is forgotten for them (any may be), weights, frequencies,
  hours, weekdays and counts of reads; the access log, which is only written; the cap on saved
  pairs (50,000); a clock that goes backward. `discover_projects` is a partition without the parent
  pointers of its union and find.
* In `Engine`, what a file has: at a mount its words are any (what a mount finds of contents and records
  is in `VexFS` and `Namespace`), and the property about the index speaks of what was written, which is what events
  carry: a truncation sends none, and the index keeps the words. Nor do directories have parents there: any may be empty
  when it is removed, a rename may or may not find its target in the same directory, and of two files of one
  name, the replaced and the other, a mount finds both by it. Removed directories and replaced files stay in the
  index, and deleted files' names in the brief, as the code never takes them out; no property says otherwise.
* Versions' contents, and versions of one second, which the code sorts by timestamp (`Store` by id).
* GUI, dashboard and benches; `allocator/mod.rs`, an unused stub.

## 7. Plan

Done: the journal, the allocator, the cache and the data path that composes them, with their
proofs; names, the B+ tree, the disk under crashes, the inode table's growth, and snapshots, with the
proofs that index and files are one tree, that versions keep their slots and that no sector has
two owners; the engine, its models and its files, with proofs of its alarms, memory, search, brief and of what
an unmount keeps. Left, in this order:

1. Proofs of `NamesSurvive` and `ReadersAgree`: `NamesInv` with what the records of files that are
   not excused say of their names.
2. Modelling that is left: the journal's fill as part of `VexFS`.
