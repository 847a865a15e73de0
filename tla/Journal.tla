------------------------------ MODULE Journal ------------------------------
(***************************************************************************)
(* The write-ahead journal of VexFS (fs/journal.rs) and the DiskManager    *)
(* operations that drive it (open, write_inode, write_file_data and        *)
(* replay_entry of fs/mod.rs).  One step is one write to the disk image:   *)
(* the process may be killed between any two of them, and the writes that  *)
(* were issued stay, in the order they were issued.                        *)
(*                                                                         *)
(* A location is whatever one journal entry covers: an inode record or one *)
(* chunk of file data.  The entry count of the journal header is written   *)
(* but never read by the program, so the header is its next_tx_id.         *)
(***************************************************************************)
EXTENDS Integers, Sequences, FiniteSets

CONSTANTS
  Loc, Val,      \* disk locations and their contents
  Blank,         \* the loc and val of an entry that carries no payload
  MaxEntries,    \* MAX_JOURNAL_ENTRIES
  Reserve,       \* slots left when needs_checkpoint answers yes (16)
  Extents,       \* chunk sequences a file-data write may cover
  Windows,       \* the unsafe crash windows a run admits, see Crash
  MaxTx,         \* bound: transaction ids handed out
  MaxCrash       \* bound: crashes

ASSUME JournalAssumption ==
  /\ MaxEntries \in Nat \ {0}
  /\ Reserve \in 0..MaxEntries
  /\ Blank \notin Loc
  /\ Blank \notin Val
  /\ \A e \in Extents : e \in Seq(Loc) /\ e # <<>>
  /\ \A e \in Extents : \A j, k \in DOMAIN e : e[j] = e[k] => j = k
  /\ Windows \subseteq {"halfOpenTx", "halfCleared"}
  /\ MaxTx \in Nat
  /\ MaxCrash \in Nat

VARIABLES
  \* the disk image
  home,          \* [Loc -> Val]: inode table and data region, written in place
  entries,       \* the journal's entry slots
  hdrTx,         \* next_tx_id in the header on disk
  \* the process
  next_slot,     \* Journal::next_slot
  nextTx,        \* Journal::header.next_tx_id
  writes,        \* the [loc, val] records of the transaction in progress
  cursor,        \* how many of the current phase's disk writes are done
  phase,         \* which disk write comes next
  crashes        \* bound: crashes so far

diskVars == <<home, entries, hdrTx>>
vars == <<home, entries, hdrTx, next_slot, nextTx, writes, cursor, phase, crashes>>

Slots == 0..(MaxEntries - 1)
Phases == {"idle", "append", "header", "apply", "clear", "zero", "down", "replay"}

FreeEntry == [type |-> "free", tx |-> 0, loc |-> Blank, val |-> Blank]
WriteEntry(t, w) == [type |-> "write", tx |-> t, loc |-> w.loc, val |-> w.val]
CommitEntry(t) == [type |-> "commit", tx |-> t, loc |-> Blank, val |-> Blank]

Write == [loc : Loc, val : Val]
Entry == {FreeEntry}
           \cup [type : {"write"}, tx : Nat, loc : Loc, val : Val]
           \cup [type : {"commit"}, tx : Nat, loc : {Blank}, val : {Blank}]

\* The transactions a client asks for: one inode record, or the chunks of an extent.
InodeWrites == {<<w>> : w \in Write}
DataWrites ==
  UNION {{[k \in DOMAIN e |-> [loc |-> e[k], val |-> v[k]]] : v \in [DOMAIN e -> Val]}
           : e \in Extents}

-----------------------------------------------------------------------------
(***************************************************************************)
(* What a mount would replay.  open() reads entries up to the first slot   *)
(* that does not hold one, and replays, in slot order, the writes of the   *)
(* transaction ids that have a commit entry among them.                    *)
(***************************************************************************)
Used(i) == entries[i].type # "free"
Scanned(i) == \A j \in 0..i : Used(j)

\* Mutant: replay does not look for the commit entry.
CommittedAlways(t) == TRUE
\* committed_txs
Committed(t) ==
  \E i \in Slots : Scanned(i) /\ entries[i].type = "commit" /\ entries[i].tx = t

Replayable(i) == Scanned(i) /\ entries[i].type = "write" /\ Committed(entries[i].tx)

\* Mutant: entries are replayed from the last to the first.
FirstFor(i, l) ==
  /\ Replayable(i)
  /\ entries[i].loc = l
  /\ \A j \in Slots : j < i /\ Replayable(j) => entries[j].loc # l
\* Slot i holds the entry replayed last for location l.
LastFor(i, l) ==
  /\ Replayable(i)
  /\ entries[i].loc = l
  /\ \A j \in Slots : j > i /\ Replayable(j) => entries[j].loc # l

\* The contents of the disk after the next mount has replayed the journal.
Recovered ==
  [l \in Loc |-> IF \E i \in Slots : LastFor(i, l)
                 THEN entries[CHOOSE i \in Slots : LastFor(i, l)].val
                 ELSE home[l]]

-----------------------------------------------------------------------------
\* A freshly formatted image, mounted.
Init ==
  /\ home \in [Loc -> Val]
  /\ entries = [i \in Slots |-> FreeEntry]
  /\ hdrTx = 1
  /\ next_slot = 0
  /\ nextTx = 1
  /\ writes = <<>>
  /\ cursor = 0
  /\ phase = "idle"
  /\ crashes = 0

\* Both operations start a transaction: begin() takes the id in memory only.
Begin(ws) ==
  /\ phase = "idle"
  /\ nextTx < MaxTx
  /\ nextTx' = nextTx + 1
  /\ writes' = ws
  /\ cursor' = 0
  /\ phase' = "append"
  /\ UNCHANGED <<home, entries, hdrTx, next_slot, crashes>>

\* write_inode checks no room before it starts.
WriteInode(ws) == ws \in InodeWrites /\ Begin(ws)

\* log_data_write_all wants room for every chunk and the commit entry.
RoomFor(ws) == Len(ws) + 1 <= MaxEntries - next_slot

WriteFileData(ws) == ws \in DataWrites /\ RoomFor(ws) /\ Begin(ws)

\* No room: the error leaves the transaction id consumed and nothing written.
WriteFileDataFull(ws) ==
  /\ phase = "idle"
  /\ nextTx < MaxTx
  /\ ws \in DataWrites
  /\ ~RoomFor(ws)
  /\ nextTx' = nextTx + 1
  /\ UNCHANGED <<home, entries, hdrTx, next_slot, writes, cursor, phase, crashes>>

\* Mutants: write_entry without its bound; the header left stale on disk.
NeverFull == FALSE
StaleHeader == hdrTx
JournalFull == next_slot >= MaxEntries
PersistedTx == nextTx

\* write_entry, first half: the entry of the next write, or the commit entry.
AppendEntry ==
  /\ phase = "append"
  /\ ~JournalFull
  /\ entries' = [entries EXCEPT ![next_slot] =
                   IF cursor < Len(writes) THEN WriteEntry(nextTx - 1, writes[cursor + 1])
                                           ELSE CommitEntry(nextTx - 1)]
  /\ next_slot' = next_slot + 1
  /\ phase' = "header"
  /\ UNCHANGED <<home, hdrTx, nextTx, writes, cursor, crashes>>

\* "journal full": the operation returns the error, what it logged stays.
AppendFull ==
  /\ phase = "append"
  /\ JournalFull
  /\ phase' = "idle"
  /\ writes' = <<>>
  /\ cursor' = 0
  /\ UNCHANGED <<home, entries, hdrTx, next_slot, nextTx, crashes>>

\* Mutant: the in-place write starts before the commit entry is logged.
LoggedTooEarly == cursor + 1 >= Len(writes)
\* The entry just written was the commit entry.
LoggedAll == cursor + 1 > Len(writes)

\* write_entry, second half: the header, with the next_tx_id of memory.
WriteHeader ==
  /\ phase = "header"
  /\ hdrTx' = PersistedTx
  /\ IF LoggedAll THEN phase' = "apply" /\ cursor' = 0
                  ELSE phase' = "append" /\ cursor' = cursor + 1
  /\ UNCHANGED <<home, entries, next_slot, nextTx, writes, crashes>>

\* Mutant: off by one.
NeedsCheckpointLate == next_slot > MaxEntries - Reserve
\* needs_checkpoint
NeedsCheckpoint == next_slot >= MaxEntries - Reserve

\* The write in place of the chunk at the cursor; after the last one the
\* operation is over unless the journal wants a checkpoint.
ApplyInPlace ==
  /\ phase = "apply"
  /\ home' = [home EXCEPT ![writes[cursor + 1].loc] = writes[cursor + 1].val]
  /\ IF cursor + 1 < Len(writes)
     THEN cursor' = cursor + 1 /\ UNCHANGED <<writes, phase>>
     ELSE /\ cursor' = 0
          /\ writes' = <<>>
          /\ phase' = IF NeedsCheckpoint THEN "clear" ELSE "idle"
  /\ UNCHANGED <<entries, hdrTx, next_slot, nextTx, crashes>>

\* clear(): the header first, ...
ClearHeader ==
  /\ phase = "clear"
  /\ next_slot' = 0
  /\ hdrTx' = nextTx
  /\ cursor' = 0
  /\ phase' = "zero"
  /\ UNCHANGED <<home, entries, nextTx, writes, crashes>>

\* Mutant: the last slot is not zeroed.
ZeroedButOne == cursor + 1 >= MaxEntries - 1
ZeroedAll == cursor + 1 >= MaxEntries

\* ... then every slot, from the first to the last.
ZeroEntry ==
  /\ phase = "zero"
  /\ entries' = [entries EXCEPT ![cursor] = FreeEntry]
  /\ IF ZeroedAll THEN phase' = "idle" /\ cursor' = 0
                  ELSE phase' = "zero" /\ cursor' = cursor + 1
  /\ UNCHANGED <<home, hdrTx, next_slot, nextTx, writes, crashes>>

(***************************************************************************)
(* The process is killed, or the image unmounted: nothing is written.      *)
(* Two windows break the journal's promise and are admitted only when      *)
(* Windows names them:                                                     *)
(*   halfOpenTx   the first entry of a transaction is on disk, the header  *)
(*                that makes its id unavailable is not;                    *)
(*   halfCleared  clear() has zeroed the front of the journal and entries  *)
(*                remain behind it.                                        *)
(***************************************************************************)
HalfOpenTx == phase = "header" /\ cursor = 0
HalfCleared == phase = "zero" /\ cursor > 0 /\ \E i \in Slots : i >= cursor /\ Used(i)

Crash ==
  /\ phase # "down"
  /\ crashes < MaxCrash
  /\ HalfOpenTx => "halfOpenTx" \in Windows
  /\ HalfCleared => "halfCleared" \in Windows
  /\ phase' = "down"
  /\ next_slot' = 0
  /\ nextTx' = 0
  /\ writes' = <<>>
  /\ cursor' = 0
  /\ crashes' = crashes + 1
  /\ UNCHANGED diskVars

\* Journal::open: the header's next_tx_id, the slot after the last entry scanned.
Open ==
  /\ phase = "down"
  /\ \E n \in 0..MaxEntries :
       /\ \A i \in 0..(n - 1) : Used(i)
       /\ n < MaxEntries => ~Used(n)
       /\ next_slot' = n
  /\ nextTx' = hdrTx
  /\ cursor' = 0
  /\ phase' = "replay"
  /\ UNCHANGED <<home, entries, hdrTx, writes, crashes>>

\* replay_entry, for the entry at the cursor.
ReplayEntry ==
  /\ phase = "replay"
  /\ cursor < next_slot
  /\ home' = IF Replayable(cursor)
             THEN [home EXCEPT ![entries[cursor].loc] = entries[cursor].val]
             ELSE home
  /\ cursor' = cursor + 1
  /\ UNCHANGED <<entries, hdrTx, next_slot, nextTx, writes, phase, crashes>>

\* Mutant: with nothing to replay the mount does not finish.
ReplayDoneStuck ==
  /\ phase = "replay"
  /\ cursor = next_slot
  /\ \E i \in Slots : Replayable(i)
  /\ phase' = "clear"
  /\ cursor' = 0
  /\ UNCHANGED <<home, entries, hdrTx, next_slot, nextTx, writes, crashes>>
\* DiskManager::open clears the journal only if it replayed something.
ReplayDone ==
  /\ phase = "replay"
  /\ cursor = next_slot
  /\ phase' = IF \E i \in Slots : Replayable(i) THEN "clear" ELSE "idle"
  /\ cursor' = 0
  /\ UNCHANGED <<home, entries, hdrTx, next_slot, nextTx, writes, crashes>>

-----------------------------------------------------------------------------
Request ==
  \/ \E ws \in InodeWrites : WriteInode(ws)
  \/ \E ws \in DataWrites : WriteFileData(ws) \/ WriteFileDataFull(ws)

Step ==
  \/ AppendEntry \/ AppendFull \/ WriteHeader
  \/ ApplyInPlace
  \/ ClearHeader \/ ZeroEntry
  \/ Open \/ ReplayEntry \/ ReplayDone

Next == Request \/ Step \/ Crash

\* The single thread that runs an operation keeps running it, and an image
\* that went down is mounted again; requests and crashes need not happen.
Fairness == WF_vars(Step)

Spec == Init /\ [][Next]_vars /\ Fairness

-----------------------------------------------------------------------------
\* Every variable has its type: in particular next_slot never passes the end
\* of the journal region (write_entry's bound).
TypeOK ==
  /\ home \in [Loc -> Val]
  /\ entries \in [Slots -> Entry]
  /\ hdrTx \in Nat
  /\ next_slot \in 0..MaxEntries
  /\ nextTx \in Nat
  /\ writes \in Seq(Write)
  /\ cursor \in Nat
  /\ phase \in Phases
  /\ crashes \in 0..MaxCrash

\* The abstract store behind the journal.  The transaction is pending until
\* its commit entry is on disk.
Uncommitted == phase = "append" \/ (phase = "header" /\ cursor < Len(writes))
Abstract == INSTANCE AtomicStore WITH
              store    <- Recovered,
              pending  <- IF Uncommitted THEN writes ELSE <<>>,
              Requests <- InodeWrites \cup DataWrites

\* A transaction takes effect at one instant, completely or not at all, and no
\* crash, replay or checkpoint changes what the next mount will show.
AtomicCommit == Abstract!Spec

\* No location is written in place before the journal on disk would replay that
\* very value (journal.rs:3 "Every write goes through the journal before
\* touching the real data region").
WriteAhead ==
  [][\A l \in Loc : home'[l] # home[l] =>
       \E i \in Slots : Replayable(i) /\ entries[i].loc = l /\ entries[i].val = home'[l]]_vars

\* An id about to be handed out, now or after the next mount, is carried by no
\* entry on disk: a commit entry never adopts the entries of a dead transaction.
TxIdsFresh ==
  \A i \in Slots : Used(i) =>
    /\ entries[i].tx < hdrTx \/ HalfOpenTx
    /\ phase # "down" => entries[i].tx < nextTx

\* While the journal is in use it has no hole and nothing beyond next_slot, so
\* the scan of the next mount sees every entry and no forgotten one.
NoStaleTail ==
  phase \notin {"zero", "down"} =>
    \A i \in Slots : Used(i) <=> i < next_slot

\* Unless entries of a dead transaction clog the journal, an operation starts
\* with more than the reserve free, so metadata writes cannot meet "journal full".
CheckpointKeepsRoom ==
  phase = "idle" /\ (\A i \in Slots : Used(i) => Committed(entries[i].tx))
    => next_slot < MaxEntries - Reserve

\* Every operation, and every mount, comes to an end.
OperationsFinish == phase # "idle" ~> phase = "idle"

\* Between operations the journal holds nothing that a mount would make of the
\* disk but what is on it: an operation that has returned is not undone
\* (journal.rs:441 "Commit a transaction -- after this the data is durable").
CommitIsDurable == phase = "idle" => Recovered = home

\* Logging a transaction, its commit entry included, makes no other location's
\* entries replayable (journal.rs:595 "uncommitted tx must not be replayed").
UncommittedNeverReplayed ==
  [][phase = "append" =>
       \A l \in Loc : Recovered'[l] # Recovered[l] =>
         \E k \in DOMAIN writes : writes[k].loc = l]_vars
=============================================================================
