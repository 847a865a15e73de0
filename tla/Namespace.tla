----------------------------- MODULE Namespace -----------------------------
(***************************************************************************)
(* Names and directories: the handlers of fuse/mod.rs that change them,    *)
(* the index they keep (an ordered map, see BTree), and the inode records  *)
(* a mount rebuilds it from.  Contents are left out, but not what storing  *)
(* them does to an inode record: a file is stored under the name it had    *)
(* when it was put into the write buffer.                                  *)
(*                                                                         *)
(* The kernel resolves paths by lookup, and asks only what its own checks  *)
(* let pass.                                                               *)
(***************************************************************************)
EXTENDS Integers, Sequences, FiniteSets, SequencesExt

CONSTANTS
  Ino,       \* inode numbers, from 2 on; bounds the files created in a mount
  Slot,      \* slots of the inode table, from 0 on
  Kept,      \* by name: the name an inode record gives back
  Blank,     \* the names that start with a blank
  Sidecar,   \* the names of the files that hold a file's tags
  TagBase,   \* 0xDEAD0000, from where tag numbers its files
  Virtual,   \* the names of the virtual files, in the root only
  Excuse,    \* the ways of losing a name that are let pass (see below)
  MaxCalls   \* bound: by set of names, of which a behaviour has one, the requests

VARIABLES
  ns,     \* names, in memory and on disk
  mode,   \* "mounted", "unmounted" or "crashed"
  calls   \* requests so far

vars == <<ns, mode, calls>>

(***************************************************************************)
(* The fields of ns.  In memory:                                           *)
(*   index       by directory and name: inode number, kind and slot        *)
(*   files       the live files and directories, by inode number           *)
(*   next_inode  the next inode number                                     *)
(*   cached      what the ARC cache holds                                  *)
(*   buffer      the write buffer: a file's name and slot                  *)
(* on disk:                                                                *)
(*   inode       the inode table                                           *)
(*   logged      the last record the journal has of a slot                 *)
(* and, to state properties:                                               *)
(*   truth       the index when the mount ended                            *)
(*   excused     files whose name may be lost, or come back                *)
(*   doubled     the numbers that tag gave to a second file                *)
(*   names       the names of this behaviour                               *)
(***************************************************************************)
Root == 1
Names == DOMAIN MaxCalls
Name == UNION Names

\* A name is cut at 199 bytes, and none is read back that has other characters
\* than letters, digits, and a few more; nor is a record valid whose name starts
\* with a blank.
Unreadable == 0
is_valid(r) == r.used /\ r.name \notin Blank
NoInode == [ino |-> 0, parent |-> 0, name |-> Unreadable, dir |-> FALSE, used |-> FALSE]
Record(i, d, n, dir) == [ino |-> i, parent |-> d, name |-> Kept[n], dir |-> dir, used |-> TRUE]

\* What the constants are: numbers from 2 on; a name is read back as a name or not at
\* all, that of a file of tags as it is, and it is no virtual file's.
Setting ==
  /\ Ino \subseteq Nat \ {0, 1} /\ TagBase \in Nat \ {0, 1}
  /\ Slot \in SUBSET Nat /\ IsFiniteSet(Slot)
  /\ \A n \in Name : Kept[n] \in Name \cup {Unreadable}
  /\ \A n \in Sidecar : n \notin Virtual /\ (n \in Name => Kept[n] = n)

Without(f, x) == [y \in DOMAIN f \ {x} |-> f[y]]
With(f, x, v) == [y \in DOMAIN f \cup {x} |-> IF y = x THEN v ELSE f[y]]

Live(s) == DOMAIN s.files
IsDir(s, i) == i = Root \/ (i \in Live(s) /\ s.files[i].dir)
list_dir(s, d) == {k \in DOMAIN s.index : k[1] = d}

\* A virtual file hides an entry of its name.
lookup(s, d, n) ==
  IF (d = Root /\ n \in Virtual) \/ <<d, n>> \notin DOMAIN s.index THEN 0
  ELSE s.index[<<d, n>>].ino

\* What paths from the root lead to.
Reached(s) ==
  LET within[k \in 0 .. Cardinality(Live(s))] ==
        IF k = 0 THEN {Root}
        ELSE LET above == within[k - 1]
             IN  above \cup {i \in Live(s) \ above :
                   /\ s.files[i].parent \in above /\ IsDir(s, s.files[i].parent)
                   /\ lookup(s, s.files[i].parent, s.files[i].name) = i}
  IN  within[Cardinality(Live(s))]

\* i and what is below it.
Below(s, i) ==
  LET within[k \in 0 .. Cardinality(Live(s))] ==
        IF k = 0 THEN {i}
        ELSE LET above == within[k - 1]
             IN  above \cup {j \in Live(s) : s.files[j].parent \in above}
  IN  within[Cardinality(Live(s))]

-----------------------------------------------------------------------------
(***************************************************************************)
(* Seven ways of losing a name are known, and marked where they happen: the  *)
(* properties speak of all other files.                                    *)
(*   "replaced"     a rename onto a name leaves what had it without one,   *)
(*                  but with its slot                                      *)
(*   "shadowed"     a rename onto a virtual file's name hides the file     *)
(*   "renamed"      storing a buffered file gives it back its old name     *)
(*   "demoted"      storing an evicted directory makes it a file           *)
(*   "deleted"      so does storing the buffered data of a deleted file,   *)
(*                  in whosever slot; or the journal's replay              *)
(*   "mangled"      a name that is not read back as it is: the file, with  *)
(*                  what is below it, is passed over by the mount, though  *)
(*                  not its slot, or takes another's name                  *)
(*   "tagged"       tag numbers its file by the slot, whichever file has   *)
(*                  that number, and takes any file of the name for its    *)
(*                  own, which it moves to the root                        *)
(***************************************************************************)
Excused(s, cause, S) == [s EXCEPT !.excused = @ \cup (IF cause \in Excuse THEN S ELSE {})]

write_inode(s, slot, r) == [s EXCEPT !.inode[slot] = r, !.logged[slot] = r]

\* Not journaled: what the journal has of the slot is replayed.
free_inode(s, slot) ==
  Excused([s EXCEPT !.inode[slot].used = FALSE], "deleted",
          IF s.logged[slot] = NoInode THEN {} ELSE {s.logged[slot].ino})

FreeSlots(s) == {k \in Slot : ~s.inode[k].used}
alloc_inode(s) == CHOOSE k \in FreeSlots(s) : \A m \in FreeSlots(s) : k <= m

\* Mutant: the parent recorded is always the root.
PersistAtRoot(s, i, name, slot) == write_inode(s, slot, Record(i, Root, name, FALSE))
persist_to_disk(s, i, name, slot) ==
  LET live == i \in Live(s)
      t == write_inode(s, slot,
             Record(i, IF live THEN s.files[i].parent ELSE Root, name, FALSE))
  IN  IF ~live THEN Excused(t, "deleted", {i} \cup {j \in Live(s) : s.files[j].slot = slot})
      ELSE Excused(Excused(t, "renamed", IF name # s.files[i].name THEN {i} ELSE {}),
                   "demoted", IF s.files[i].dir THEN {i} ELSE {})

PersistBuffered(s, i) ==
  IF i \notin DOMAIN s.buffer THEN s
  ELSE persist_to_disk([s EXCEPT !.buffer = Without(@, i)], i, s.buffer[i].name,
                       s.buffer[i].slot)
PersistAll(s, order) == FoldLeft(PersistBuffered, s, order)

Clean(s, i) == [s EXCEPT !.files[i].dirty = FALSE]
Dirty(s, i) == i \in Live(s) /\ s.files[i].dirty

pre_eviction_flush(s, i) ==
  IF ~Dirty(s, i) THEN s
  ELSE IF i \in DOMAIN s.buffer THEN Clean(PersistBuffered(s, i), i)
  ELSE Clean(persist_to_disk(s, i, s.files[i].name, s.files[i].slot), i)

\* A file that is not buffered is stored again if it has data, a directory
\* has none.
FlushEvicted(s, i, has_data) ==
  IF ~Dirty(s, i) THEN s
  ELSE IF i \notin DOMAIN s.buffer /\ (s.files[i].dir \/ ~has_data) THEN Clean(s, i)
  ELSE pre_eviction_flush(s, i)

\* The states an insertion may leave: which entries the cache is about to
\* evict, or evicts, is not modelled, but for a bound of one.
cache_insert(s, i) ==
  LET in(t) == [t EXCEPT !.cached = @ \cup {i}]
      out(t, v) == [t EXCEPT !.cached = @ \ {v}]
  IN  {in(s)}
        \cup {in(pre_eviction_flush(s, v)) : v \in s.cached}
        \cup {in(out(pre_eviction_flush(s, v), v)) : v \in s.cached}
        \cup {FlushEvicted(out(in(s), v), v, has_data) :
                v \in s.cached \ {i}, has_data \in BOOLEAN}

-----------------------------------------------------------------------------
(***************************************************************************)
(* The requests, each as the state it leaves.                              *)
(***************************************************************************)
Entered(s, d, n, dir) ==
  LET slot == alloc_inode(s)
      i    == s.next_inode
  IN  [s EXCEPT !.next_inode = @ + 1,
         !.index = With(@, <<d, n>>, [ino |-> i, dir |-> dir, slot |-> slot]),
         !.files = With(@, i, [name |-> n, parent |-> d, dir |-> dir, slot |-> slot,
                               dirty |-> ~dir])]

\* The new file's inode is written after it was put into the cache.
Recorded(s, i) ==
  write_inode(s, s.files[i].slot,
              Record(i, s.files[i].parent, s.files[i].name, s.files[i].dir))

\* Removes entry <<d, n>> and its file i.
Removed(s, d, n, i) ==
  free_inode([s EXCEPT !.index = Without(@, <<d, n>>), !.files = Without(@, i)],
             s.files[i].slot)

unlink(s, d, n) ==
  LET i == s.index[<<d, n>>].ino
  IN  [Removed(s, d, n, i) EXCEPT !.cached = @ \ {i}]

rmdir(s, d, n) == Removed(s, d, n, s.index[<<d, n>>].ino)

\* Mutant: the file's record keeps the old name and directory.
RenamedOnDiskOnly(s, i, e, n) == [s EXCEPT !.files[i].dirty = TRUE]
RenamedInMemory(s, i, e, n) ==
  [s EXCEPT !.files[i].name = n, !.files[i].parent = e, !.files[i].dirty = TRUE]

\* From <<d, n>> to <<e, m>>.  The inode is read back, and written with its
\* new name.
rename(s, d, n, e, m) ==
  LET entry == s.index[<<d, n>>]
      moved == [s EXCEPT !.index = With(Without(@, <<d, n>>), <<e, m>>, entry)]
      lost  == IF <<e, m>> \in DOMAIN s.index THEN Below(s, s.index[<<e, m>>].ino) ELSE {}
      known == Excused(Excused(moved, "replaced", lost),
                       "shadowed", IF e = Root /\ m \in Virtual THEN {entry.ino} ELSE {})
  IN  write_inode(RenamedInMemory(known, entry.ino, e, m), entry.slot,
                  [s.inode[entry.slot] EXCEPT !.parent = e, !.name = Kept[m]])

\* The files due, in any order: any set that has aged, or the whole buffer.
flush_file(s, i) ==
  LET t == [Clean(s, i) EXCEPT !.buffer =
              With(@, i, [name |-> s.files[i].name, slot |-> s.files[i].slot])]
  IN  IF i \notin s.cached THEN {Clean(s, i)}
      ELSE {PersistAll(t, order) : order \in UNION {SetToSeqs(S) : S \in SUBSET DOMAIN t.buffer}}

-----------------------------------------------------------------------------
(***************************************************************************)
(* Mounting.                                                               *)
(***************************************************************************)
Mangled(s) ==
  {i \in Live(s) : s.files[i].name \in Blank \/ Kept[s.files[i].name] # s.files[i].name}

PoweredDown(s) ==
  Excused([s EXCEPT !.index = <<>>, !.files = <<>>, !.next_inode = 2, !.cached = {},
                    !.buffer = <<>>, !.truth = s.index],
          "mangled", UNION {Below(s, i) : i \in Mangled(s)})

open(s) ==
  [s EXCEPT !.inode = [k \in Slot |-> IF s.logged[k] = NoInode THEN @[k] ELSE s.logged[k]],
            !.logged = [k \in Slot |-> NoInode]]

\* Directories, too, are put into the cache, without data.  A record that is
\* passed over does not count for the next inode number either.
TakeUp(s, slot) ==
  LET r == s.inode[slot]
  IN  IF ~is_valid(r) \/ r.name = Unreadable THEN s
      ELSE [s EXCEPT
        !.index = With(@, <<r.parent, r.name>>, [ino |-> r.ino, dir |-> r.dir, slot |-> slot]),
        !.files = With(@, r.ino, [name |-> r.name, parent |-> r.parent, dir |-> r.dir,
                                  slot |-> slot, dirty |-> FALSE]),
        !.cached = @ \cup {r.ino},
        !.next_inode = IF r.ino >= @ THEN r.ino + 1 ELSE @]

\* Numbers in their order: a place is how many are up to the one there.
InOrder(S) == [n \in 1 .. Cardinality(S) |->
                 CHOOSE k \in S : Cardinality({m \in S : m <= k}) = n]

load(s) == FoldLeft(TakeUp, open(s), InOrder(Slot))

-----------------------------------------------------------------------------
(***************************************************************************)
(* What the command line reads of an image: tree, find and fsck.           *)
(***************************************************************************)
Records(s) == {s.inode[k] : k \in {k \in Slot : is_valid(s.inode[k]) /\ s.inode[k].name # Unreadable}}

\* The paths that lead from the root along entries, with the file each leads to:
\* In(d) is the entries of directory d, by name, number and kind.
PathsAlong(In(_)) ==
  LET to[k \in 0 .. Cardinality(Slot)] ==
        IF k = 0 THEN {[path |-> <<>>, ino |-> Root, dir |-> TRUE]}
        ELSE to[k - 1] \cup UNION {{[path |-> Append(p.path, e.name), ino |-> e.ino, dir |-> e.dir] :
                                    e \in In(p.ino)} : p \in {p \in to[k - 1] : p.dir}}
  IN  to[Cardinality(Slot)]

\* By the records' parents.
cmd_tree(s) == PathsAlong(LAMBDA d : {r \in Records(s) : r.parent = d})

\* The path of file i, from the file upwards; where a parent is missing, it ends.
cmd_find(s, i) ==
  LET Of(j) == CHOOSE r \in Records(s) : r.ino = j
      path[k \in 0 .. Cardinality(Slot), j \in Ino] ==
        IF k = 0 \/ ~\E r \in Records(s) : r.ino = j THEN <<>>
        ELSE IF Of(j).parent \in {Root, j} THEN <<Of(j).name>>
        ELSE Append(path[k - 1, Of(j).parent], Of(j).name)
  IN  path[Cardinality(Slot), i]

\* Mutant: one name in two directories counts as a duplicate.
SameName(s, j, k) == s.inode[j].name = s.inode[k].name
Duplicates(s, j, k) ==
  s.inode[j].name = s.inode[k].name /\ s.inode[j].parent = s.inode[k].parent

\* Its first pass, which does not ask whether a record is valid.
cmd_fsck(s) ==
  LET used  == {k \in Slot : s.inode[k].used}
      named == {k \in used : s.inode[k].name # Unreadable}
  IN  [warnings |-> used \ named,
       errors   |-> {e \in named \X named :
                       /\ e[1] < e[2]
                       /\ Duplicates(s, e[1], e[2]) \/ s.inode[e[1]].ino = s.inode[e[2]].ino}]

-----------------------------------------------------------------------------
(***************************************************************************)
(* tag, between mounts: the file is found by its name, in any directory.   *)
(***************************************************************************)
Named(s, n) == {k \in Slot : is_valid(s.inode[k]) /\ s.inode[k].name = n}
SidecarSlot(s, n) ==
  IF Named(s, n) = {} THEN alloc_inode(s)
  ELSE CHOOSE k \in Named(s, n) : \A m \in Named(s, n) : k <= m

cmd_tag(s, n) ==
  LET t     == open(s)
      slot  == SidecarSlot(t, n)
      i     == TagBase + slot
      InRoot(k) == t.inode[k].parent = Root
      taken == {k \in Named(t, n) : IF k = slot THEN ~InRoot(k) \/ t.inode[k].dir ELSE InRoot(k)}
      twice == \E k \in Slot \ {slot} : t.inode[k].used /\ t.inode[k].ino = i
      lost  == {t.inode[k].ino : k \in taken} \cup (IF twice THEN {i} ELSE {})
      known == [Excused(t, "tagged", lost) EXCEPT
                  !.truth = With(@, <<Root, n>>, [ino |-> i, dir |-> FALSE, slot |-> slot]),
                  !.doubled = @ \cup (IF twice THEN {i} ELSE {})]
  IN  IF Named(t, n) \cup FreeSlots(t) = {} THEN t
      ELSE write_inode(known, slot, Record(i, Root, n, FALSE))

Image(names) ==
  [index |-> <<>>, files |-> <<>>, next_inode |-> 2, cached |-> {}, buffer |-> <<>>,
   inode |-> [k \in Slot |-> NoInode], logged |-> [k \in Slot |-> NoInode],
   truth |-> <<>>, excused |-> {}, doubled |-> {}, names |-> names]

\* An image in which slot k has a file's tags.
Tagged(names, k, n) == [Image(names) EXCEPT !.inode[k] = Record(TagBase + k, Root, n, FALSE)]

Init ==
  /\ \E names \in Names :
       \/ ns = Image(names)
       \/ \E n \in names \cap Sidecar, k \in Slot \ {0} : ns = load(Tagged(names, k, n))
  /\ mode = "mounted"
  /\ calls = 0

\* With a number given twice, a behaviour ends at the mount that finds it.
More == calls < MaxCalls[ns.names] /\ (mode = "mounted" => ns.doubled = {})

Request(s) ==
  /\ ns' = s
  /\ calls' = calls + 1
  /\ UNCHANGED mode

\* A request that has logged an inode may have come to the journal's
\* checkpoint, which clears it.
Journaled(s) ==
  \/ Request(s)
  \/ Request([s EXCEPT !.logged = [k \in Slot |-> NoInode]])

\* The directories a request may name.
Dirs(s) == {d \in Reached(s) : IsDir(s, d)}
Entry(d, n) == <<d, n>> \in DOMAIN ns.index
Vacant(d, n) == ~Entry(d, n) /\ ~(d = Root /\ n \in Virtual)
Room == FreeSlots(ns) # {} /\ ns.next_inode \in Ino

Create(d, n) ==
  /\ Vacant(d, n) /\ Room
  /\ \E t \in cache_insert(Entered(ns, d, n, FALSE), ns.next_inode) :
       Journaled(Recorded(t, ns.next_inode))

Mkdir(d, n) ==
  Vacant(d, n) /\ Room /\ Journaled(Recorded(Entered(ns, d, n, TRUE), ns.next_inode))

Unlink(d, n) == Entry(d, n) /\ ~ns.index[<<d, n>>].dir /\ Request(unlink(ns, d, n))

\* Mutant: only subdirectories keep a directory from being removed.
NoSubdirectory(s, d) == \A k \in list_dir(s, d) : ~s.index[k].dir
EmptyDir(s, d) == list_dir(s, d) = {}

Rmdir(d, n) ==
  /\ Entry(d, n) /\ ns.index[<<d, n>>].dir /\ EmptyDir(ns, ns.index[<<d, n>>].ino)
  /\ Request(rmdir(ns, d, n))

\* The kernel's own checks: nothing is moved below itself or onto itself, a
\* directory only replaces a directory and a file a file.
Rename(d, n, e, m) ==
  LET entry == ns.index[<<d, n>>]
  IN  /\ Entry(d, n) /\ <<d, n>> # <<e, m>>
      /\ e \notin Below(ns, entry.ino)
      /\ IF e = Root /\ m \in Virtual THEN ~entry.dir
         ELSE <<e, m>> \in DOMAIN ns.index => ns.index[<<e, m>>].dir = entry.dir
      /\ Journaled(rename(ns, d, n, e, m))

IsFile(i) == i \in Live(ns) /\ ~ns.files[i].dir

\* write and a setattr that changes the size.
Write(i) ==
  IsFile(i) /\ \E t \in cache_insert([ns EXCEPT !.files[i].dirty = TRUE], i) : Journaled(t)

\* A read that misses the cache.
Read(i) == IsFile(i) /\ i \notin ns.cached /\ \E t \in cache_insert(ns, i) : Journaled(t)

Flush(i) == IsFile(i) /\ Dirty(ns, i) /\ \E t \in flush_file(ns, i) : Journaled(t)

Destroy ==
  /\ \E order \in SetToSeqs(DOMAIN ns.buffer) : ns' = PoweredDown(PersistAll(ns, order))
  /\ mode' = "unmounted"
  /\ calls' = calls + 1

Crash ==
  /\ ns' = PoweredDown(ns)
  /\ mode' = "crashed"
  /\ calls' = calls + 1

Tag(n) == mode # "mounted" /\ More /\ Request(cmd_tag(ns, n))

\* What is out of reach from the start of a mount stays excused.
Load ==
  LET s == load(ns)
  IN  /\ mode # "mounted" /\ More
      /\ ns' = [s EXCEPT !.truth = <<>>, !.excused = Live(s) \ Reached(s)]
      /\ mode' = "mounted"
      /\ calls' = calls + 1

Next ==
  \/ /\ mode = "mounted" /\ More
     /\ \/ \E d \in Dirs(ns), n \in ns.names :
             \/ Create(d, n) \/ Mkdir(d, n) \/ Unlink(d, n) \/ Rmdir(d, n)
             \/ \E e \in Dirs(ns), m \in ns.names : Rename(d, n, e, m)
        \/ \E i \in Ino : Write(i) \/ Read(i) \/ Flush(i)
        \/ Destroy \/ Crash
  \/ Load
  \/ \E n \in ns.names \cap Sidecar : Tag(n)

Spec == Init /\ [][Next]_vars

-----------------------------------------------------------------------------
(***************************************************************************)
(* Properties.                                                             *)
(***************************************************************************)
\* The index and the table of files, which every handler changes one after the
\* other, describe one tree: each entry is a live file of that directory, name
\* and kind, and each live file is found under its name from the root
\* (fuse/mod.rs:683-687, 1105 "Checks that the directory is empty").
NamesAgree ==
  mode = "mounted" =>
    /\ \A k \in {k \in DOMAIN ns.index : ns.index[k].ino \notin ns.doubled} :
         LET e == ns.index[k]
         IN  /\ e.ino \in Live(ns)
             /\ LET f == ns.files[e.ino]
                IN  <<f.parent, f.name>> = k /\ f.dir = e.dir /\ f.slot = e.slot
    /\ Live(ns) \ ns.excused \subseteq Reached(ns)

\* The next mount finds every name that was there, of the same file and kind,
\* and no other, whether the mount was ended or killed (fuse/mod.rs:1009
\* "Persist empty inode immediately so the parent_ino is durable", 1175).
NamesSurvive ==
  mode # "mounted" =>
    LET found == load(ns).index
        Known(f, k) == k \in DOMAIN f /\ f[k].ino \in ns.excused
    IN  \A k \in DOMAIN ns.truth \cup DOMAIN found :
          \/ Known(ns.truth, k) \/ Known(found, k)
          \/ k \in DOMAIN ns.truth \cap DOMAIN found /\ found[k] = ns.truth[k]

\* The four readers of an image agree, whatever the mounts before have left there.
\* Where fsck finds no error and nothing to warn of, the mount takes up every
\* record, each under its name; each error it finds is one for the mount, too.
\* And where it finds none, tree lists what paths lead to in the mount, and find
\* gives of each file the same path (bin/vexfs.rs:486 "Duplicate name check is now
\* scoped per-directory", :987 "normalises legacy parent_ino=0").
ReadersAgree ==
  mode # "mounted" =>
    LET image  == open(ns)
        found  == load(ns)
        report == cmd_fsck(image)
        TakenUp(k) ==
          LET r == image.inode[k]
          IN  /\ <<r.parent, r.name>> \in DOMAIN found.index
              /\ found.index[<<r.parent, r.name>>].slot = k
              /\ r.ino \in Live(found) /\ found.files[r.ino].slot = k
        Passed(k) == "mangled" \in Excuse /\ image.inode[k].name \in Blank
        Seen(p) == ~("shadowed" \in Excuse /\ p.path # <<>> /\ Head(p.path) \in Virtual)
        InMount(d) ==
          {[name |-> n, ino |-> found.index[<<d, n>>].ino, dir |-> found.index[<<d, n>>].dir] :
             n \in {n \in Name : lookup(found, d, n) # 0}}
    IN  /\ report.errors = {} /\ report.warnings = {} =>
             \A k \in Slot : image.inode[k].used => TakenUp(k) \/ Passed(k)
        /\ \A e \in report.errors : ~(TakenUp(e[1]) /\ TakenUp(e[2]))
        /\ report.errors = {} =>
             /\ {p \in cmd_tree(image) : Seen(p)} = PathsAlong(InMount)
             /\ \A p \in cmd_tree(image) : p.ino # Root => cmd_find(image, p.ino) = p.path
=============================================================================
