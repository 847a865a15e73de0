---------------------------- MODULE LayersProofs ----------------------------
(***************************************************************************)
(* Two layers under the handlers.  The store: a version in memory that     *)
(* counts as being on disk is there, in a slot of its own, for every       *)
(* number of slots, of versions a file may have and of versions GC keeps;  *)
(* and no sector has two owners, after a crash between any two writes too, *)
(* whatever the size of the disk and of its table.  The namespace: the     *)
(* index and the table of files describe one tree, whatever is requested,  *)
(* killed and mounted again.                                               *)
(***************************************************************************)
EXTENDS Layers, FoldLemmas

-----------------------------------------------------------------------------
(***************************************************************************)
(* Orders of finite sets.                                                  *)
(***************************************************************************)
\* R orders S; the place of x in it.
Orders(R, S) ==
  /\ \A x \in S : <<x, x>> \in R
  /\ \A x, y \in S : <<x, y>> \in R \/ <<y, x>> \in R
  /\ \A x, y \in S : <<x, y>> \in R /\ <<y, x>> \in R => x = y
  /\ \A x, y, z \in S : <<x, y>> \in R /\ <<y, z>> \in R => <<x, z>> \in R
Place(R, S, x) == Cardinality({y \in S : <<y, x>> \in R})

\* Every place is one element's.
LEMMA PlacesAre ==
  ASSUME NEW S, IsFiniteSet(S), NEW R, Orders(R, S)
  PROVE  /\ Cardinality(S) \in Nat
         /\ \A x \in S : Place(R, S, x) \in 1 .. Cardinality(S)
         /\ \A x, y \in S : Place(R, S, x) = Place(R, S, y) => x = y
         /\ \A n \in 1 .. Cardinality(S) : \E x \in S : Place(R, S, x) = n
<1> DEFINE c == Cardinality(S)
           Upto(x) == {y \in S : <<y, x>> \in R}
           place == [x \in S |-> Place(R, S, x)]
<1>1. c \in Nat
  BY FS_CardinalityType
<1>2. ASSUME NEW x \in S
      PROVE  /\ Place(R, S, x) = Cardinality(Upto(x))
             /\ IsFiniteSet(Upto(x))
             /\ Cardinality(Upto(x)) \in 1 .. c
  <2>1. Place(R, S, x) = Cardinality(Upto(x))
    BY DEF Place
  <2>2. x \in Upto(x) /\ Upto(x) \in SUBSET S
    BY DEF Orders
  <2> HIDE DEF Upto
  <2>3. IsFiniteSet(Upto(x)) /\ Cardinality(Upto(x)) <= c
    BY <2>2, FS_Subset
  <2>4. Cardinality(Upto(x)) \in Nat /\ Cardinality(Upto(x)) # 0
    BY <2>2, <2>3, FS_CardinalityType, FS_EmptySet
  <2> QED
    BY <1>1, <2>1, <2>3, <2>4
<1>3. ASSUME NEW x \in S, NEW y \in S, x # y, <<x, y>> \in R
      PROVE  Place(R, S, x) # Place(R, S, y)
  <2>1. Upto(x) \subseteq Upto(y) /\ y \notin Upto(x) /\ y \in Upto(y)
    BY <1>3 DEF Orders
  <2>2. Upto(x) # Upto(y) /\ Upto(x) \in SUBSET Upto(y)
    BY <2>1
  <2> HIDE DEF Upto
  <2>3. Cardinality(Upto(x)) # Cardinality(Upto(y))
    BY <1>2, <2>2, FS_Subset
  <2> QED
    BY <1>2, <2>3
<1>4. \A x, y \in S : Place(R, S, x) = Place(R, S, y) => x = y
  BY <1>3 DEF Orders
<1>5. \A x \in S : Place(R, S, x) \in 1 .. c
  BY <1>2
<1> HIDE DEF c
<1>6. place \in Injection(S, 1 .. c)
  BY <1>4, <1>5 DEF Injection, IsInjective
<1>7. Cardinality(1 .. c) = c /\ IsFiniteSet(1 .. c)
  BY <1>1, FS_Interval
<1>8. place \in Surjection(S, 1 .. c)
  <2> HIDE DEF place
  <2> QED
    BY <1>6, <1>7, FS_Injection DEF c
<1>9. \A n \in 1 .. c : \E x \in S : Place(R, S, x) = n
  <2>1. \A n \in 1 .. c : \E x \in S : place[x] = n
    <3> HIDE DEF place
    <3> QED
      BY <1>8 DEF Surjection
  <2> QED
    BY <2>1
<1> QED
  BY <1>1, <1>4, <1>5, <1>9 DEF c

\* Numbers in their order.
LEMMA InOrderIs ==
  ASSUME NEW S \in SUBSET Nat, IsFiniteSet(S)
  PROVE  /\ Cardinality(S) \in Nat
         /\ InOrder(S) \in [1 .. Cardinality(S) -> S]
         /\ \A n, m \in 1 .. Cardinality(S) : InOrder(S)[n] = InOrder(S)[m] => n = m
<1> DEFINE R == {p \in Nat \X Nat : p[1] <= p[2]}
           Nth(n) == CHOOSE k \in S : Cardinality({m \in S : m <= k}) = n
<1>1. Orders(R, S)
  BY DEF Orders
<1>2. \A k \in S : Place(R, S, k) = Cardinality({m \in S : m <= k})
  <2>1. \A k \in S : {m \in S : <<m, k>> \in R} = {m \in S : m <= k}
    OBVIOUS
  <2> HIDE DEF R
  <2> QED
    BY <2>1 DEF Place
<1> HIDE DEF R
<1>3. /\ Cardinality(S) \in Nat
      /\ \A n \in 1 .. Cardinality(S) : \E k \in S : Place(R, S, k) = n
  BY <1>1, PlacesAre
<1>4. \A n \in 1 .. Cardinality(S) : \E k \in S : Cardinality({m \in S : m <= k}) = n
  BY <1>2, <1>3
<1>5. \A n \in 1 .. Cardinality(S) : Nth(n) \in S /\ Cardinality({m \in S : m <= Nth(n)}) = n
  BY <1>4, Zenon
<1>6. InOrder(S) = [n \in 1 .. Cardinality(S) |-> Nth(n)]
  BY DEF InOrder
<1> HIDE DEF Nth
<1>7. InOrder(S) \in [1 .. Cardinality(S) -> S]
  BY <1>5, <1>6
<1>8. ASSUME NEW n \in 1 .. Cardinality(S), NEW m \in 1 .. Cardinality(S),
             InOrder(S)[n] = InOrder(S)[m]
      PROVE  n = m
  <2>1. Nth(n) = Nth(m)
    BY <1>6, <1>8
  <2>2. Cardinality({k \in S : k <= Nth(n)}) = Cardinality({k \in S : k <= Nth(m)})
    BY <2>1, Zenon
  <2>3. Cardinality({k \in S : k <= Nth(n)}) = n /\ Cardinality({k \in S : k <= Nth(m)}) = m
    BY <1>5
  <2> QED
    BY <2>2, <2>3, Zenon
<1> QED
  BY <1>3, <1>7, <1>8

-----------------------------------------------------------------------------
(***************************************************************************)
(* The types: as much as the table of snapshots and the versions ask for.  *)
(***************************************************************************)
IsVersion(v) ==
  v \in [id : Nat, offset : {v.offset}, size : {v.size}, at : SnapSlot \cup {NoSlot}]
IsVersions(vs) == vs \in Seq(Range(vs)) /\ \A n \in DOMAIN vs : IsVersion(vs[n])
IsRecord(r) ==
  r \in [ino : {r.ino}, id : Nat, offset : {r.offset}, size : {r.size}, used : BOOLEAN]
IsTable(f) == f \in [SnapSlot -> Range(f)] /\ \A k \in SnapSlot : IsRecord(f[k])

\* The fields of a state, and what is known of them on disk and in memory.
Shape(s) ==
  s \in [files : {s.files}, list : {s.list}, next : {s.next}, dir : {s.dir},
         versions : {s.versions}, next_id : {s.next_id}, next_inode : {s.next_inode},
         inode : {s.inode}, logged : {s.logged}, snap : {s.snap}, saved_list : {s.saved_list},
         saved_next : {s.saved_next}, saved_dir : {s.saved_dir}, tainted : {s.tainted}]
IsDisk(s) == Shape(s) /\ IsTable(s.snap)
IsMemory(s) ==
  /\ s.next_id \in Nat
  /\ IsFiniteSet(DOMAIN s.versions)
  /\ s.versions = [i \in DOMAIN s.versions |-> s.versions[i]]
  /\ \A i \in DOMAIN s.versions : IsVersions(s.versions[i])
IsStore(s) == IsDisk(s) /\ IsMemory(s)

\* A disk write, and those of a request.
IsWrite(w) ==
  /\ w \in [to : {"inode", "free", "zero", "snap", "next", "list", "dir"}, at : {w.at},
            what : {w.what}, exposed : {w.exposed}, cause : {w.cause}, cured : {w.cured}]
  /\ w.to = "snap" => w.at \in SnapSlot /\ IsRecord(w.what)
IsWrites(ws) == ws \in Seq(Range(ws)) /\ \A k \in DOMAIN ws : IsWrite(ws[k])
IsOther(ws) == IsWrites(ws) /\ \A k \in DOMAIN ws : ws[k].to # "snap"

\* What is left of the versions and their table by a request that has to do
\* with other things.
Calm(s, t) ==
  Shape(t) /\ t.versions = s.versions /\ t.snap = s.snap /\ t.next_id = s.next_id

LEMMA CalmKeeps ==
  \A s, t : /\ IsDisk(s) /\ Calm(s, t) => IsDisk(t)
            /\ IsStore(s) /\ Calm(s, t) => IsStore(t)
            /\ \A u : Calm(s, t) /\ Calm(t, u) => Calm(s, u)
            /\ Shape(s) => Calm(s, s)
BY DEF IsStore, IsMemory, IsDisk, Calm

\* A sequence is one of its elements.
LEMMA OfItsRange ==
  ASSUME NEW B, NEW s \in Seq(B)
  PROVE  /\ s \in Seq(Range(s)) /\ Len(s) \in Nat /\ DOMAIN s = 1 .. Len(s)
         /\ \A k \in DOMAIN s : s[k] \in B
<1>1. Len(s) \in Nat /\ DOMAIN s = 1 .. Len(s) /\ s = [k \in 1 .. Len(s) |-> s[k]]
  OBVIOUS
<1>2. s \in [1 .. Len(s) -> Range(s)]
  BY <1>1 DEF Range
<1>3. \A k \in DOMAIN s : s[k] \in B
  OBVIOUS
<1> HIDE DEF Range
<1> QED
  BY <1>1, <1>2, <1>3

LEMMA ListIs ==
  ASSUME NEW n \in Nat, NEW s, s = [k \in 1 .. n |-> s[k]]
  PROVE  s \in Seq(Range(s)) /\ DOMAIN s = 1 .. n
<1>1. s \in [1 .. n -> Range(s)]
  BY DEF Range
<1> HIDE DEF Range
<1> QED
  BY <1>1

\* The values of a function on a finite set are finitely many.
LEMMA ValuesAre ==
  ASSUME NEW S, IsFiniteSet(S), NEW f
  PROVE  IsFiniteSet({f[x] : x \in S})
<1> DEFINE T == {f[x] : x \in S}
           g == [x \in S |-> f[x]]
<1>1. g \in Surjection(S, T)
  BY DEF Surjection
<1> HIDE DEF g, T
<1>2. IsFiniteSet(T)
  BY <1>1, FS_Surjection
<1> QED
  BY <1>2 DEF T

\* The sequences of writes.
LEMMA ConcatIs ==
  ASSUME NEW v, NEW w, IsWrites(v), IsWrites(w)
  PROVE  IsWrites(v \o w) /\ (IsOther(v) /\ IsOther(w) => IsOther(v \o w))
<1> DEFINE B == Range(v) \cup Range(w)
<1>1. v \in Seq(B) /\ w \in Seq(B)
  BY DEF IsWrites
<1>2. v \o w \in Seq(B)
  BY <1>1
<1>3. \A k \in DOMAIN (v \o w) : \/ k \in DOMAIN v /\ (v \o w)[k] = v[k]
                                 \/ k - Len(v) \in DOMAIN w /\ (v \o w)[k] = w[k - Len(v)]
  BY <1>1
<1>4. v \o w \in Seq(Range(v \o w))
  BY <1>2, OfItsRange
<1> QED
  BY <1>3, <1>4 DEF IsWrites, IsOther

LEMMA NoWrites == IsOther(<<>>)
BY DEF IsOther, IsWrites, Range

LEMMA OneWrite ==
  ASSUME NEW w, IsWrite(w)
  PROVE  IsWrites(<<w>>) /\ (w.to # "snap" => IsOther(<<w>>))
<1>1. <<w>> \in Seq({w}) /\ DOMAIN <<w>> = {1} /\ <<w>>[1] = w
  OBVIOUS
<1>2. <<w>> \in Seq(Range(<<w>>))
  BY <1>1 DEF Range
<1> QED
  BY <1>1, <1>2 DEF IsWrites, IsOther

LEMMA WriteIs ==
  ASSUME NEW to \in {"inode", "free", "zero", "next", "list", "dir"}, NEW at, NEW what
  PROVE  /\ IsWrite(Write(to, at, what)) /\ Write(to, at, what).to = to
         /\ \A S, c : /\ IsWrite(Exposing(Write(to, at, what), S, c))
                      /\ Exposing(Write(to, at, what), S, c).to = to
BY ZenonT(40) DEF IsWrite, Write, Exposing

LEMMA SnapWriteIs ==
  ASSUME NEW k \in SnapSlot, NEW r, IsRecord(r)
  PROVE  /\ IsWrite(Write("snap", k, r))
         /\ Write("snap", k, r).to = "snap" /\ Write("snap", k, r).at = k
         /\ Write("snap", k, r).what = r
BY DEF IsWrite, Write

LEMMA FlushIs ==
  ASSUME NEW s, NEW S
  PROVE  IsOther(flush_disk(s, S)) /\ \A C : IsOther(Curing(flush_disk(s, S), C))
<1> DEFINE ws == flush_disk(s, S)
<1>1. /\ ws \in Seq(Range(ws)) /\ DOMAIN ws = 1 .. 3
      /\ \A k \in 1 .. 3 : IsWrite(ws[k]) /\ ws[k].to # "snap"
  <2>1. /\ IsWrite(ws[1]) /\ ws[1].to = "next" /\ IsWrite(ws[2]) /\ ws[2].to = "list"
        /\ IsWrite(ws[3]) /\ ws[3].to = "dir"
    BY WriteIs DEF flush_disk
  <2>2. ws \in Seq({ws[1], ws[2], ws[3]}) /\ DOMAIN ws = 1 .. 3
    BY DEF flush_disk
  <2> HIDE DEF ws
  <2>3. ws \in Seq(Range(ws))
    BY <2>2 DEF Range
  <2> QED
    BY <2>1, <2>2, <2>3
<1> HIDE DEF ws
<1>2. ASSUME NEW C PROVE IsOther(Curing(ws, C))
  <2> DEFINE cs == Curing(ws, C)
  <2>1. cs = [k \in 1 .. 3 |-> IF ws[k].to = "list" THEN [ws[k] EXCEPT !.cured = C] ELSE ws[k]]
    BY <1>1 DEF Curing
  <2>2. ASSUME NEW k \in 1 .. 3 PROVE IsWrite(cs[k]) /\ cs[k].to # "snap"
    BY <1>1, <2>1 DEF IsWrite
  <2>3. cs \in Seq(Range(cs)) /\ DOMAIN cs = 1 .. 3
    BY <2>1 DEF Range
  <2> HIDE DEF cs
  <2>4. IsOther(cs)
    BY <2>2, <2>3 DEF IsOther, IsWrites
  <2> QED
    BY <2>4 DEF cs
<1> QED
  BY <1>1, <1>2 DEF IsOther, IsWrites, ws

-----------------------------------------------------------------------------
(***************************************************************************)
(* What most requests do has nothing to do with versions.                  *)
(***************************************************************************)
LEMMA TaintedIs ==
  ASSUME NEW s, Shape(s), NEW cause, NEW S
  PROVE  Calm(s, Tainted(s, cause, S))
BY DEF Tainted, Shape, Calm

LEMMA FreeDataIs ==
  ASSUME NEW s, Shape(s), NEW offset, NEW length, NEW cause, NEW own
  PROVE  Calm(s, free_data(s, offset, length, cause, own))
<1> DEFINE t == [s EXCEPT !.list = List!Freed(@, [offset |-> offset, length |-> length])]
           S == IF offset > 0 THEN Sectors(offset, length) \ own ELSE {}
<1>1. Calm(s, t)
  BY DEF Shape, Calm
<1>2. free_data(s, offset, length, cause, own) = Tainted(t, cause, S)
  BY DEF free_data
<1> HIDE DEF t, S
<1>3. Calm(t, Tainted(t, cause, S))
  BY <1>1, TaintedIs DEF Calm
<1> QED
  BY <1>1, <1>2, <1>3, CalmKeeps

LEMMA AllocDataIs ==
  ASSUME NEW s, Shape(s), NEW n
  PROVE  Calm(s, alloc_data(s, n))
<1>1. ASSUME NEW list PROVE Calm(s, [s EXCEPT !.list = list])
  BY DEF Shape, Calm
<1>2. ASSUME NEW next PROVE Calm(s, [s EXCEPT !.next = next])
  BY DEF Shape, Calm
<1> QED
  BY <1>1, <1>2 DEF alloc_data

\* A request: what it leaves and the writes it has to do.
IsRequest(r) == r \in [state : {r.state}, writes : {r.writes}]
IsCalm(s, r) == IsRequest(r) /\ Calm(s, r.state) /\ IsOther(r.writes)

LEMMA AllocInodeIs ==
  ASSUME NEW s, Shape(s)
  PROVE  /\ Calm(s, alloc_inode(s).state)
         /\ IsOther(alloc_inode(s).writes)
<1> DEFINE at  == s.next
           new == Capacity(s.dir)
           t   == Grown(s, at)
           zero == Write("zero", new .. (new + BlockSlots - 1), 0)
           dir  == Write("dir", 0, t.dir)
           next == Exposing(Write("next", 0, t.next), Sectors(at, BlockSize), "growth")
<1>1. CASE FreeSlots(s) # {}
  BY <1>1, CalmKeeps, NoWrites DEF alloc_inode
<1>2. CASE FreeSlots(s) = {}
  <2>1. alloc_inode(s).state = t /\ alloc_inode(s).writes = <<zero, dir, next>>
    BY <1>2 DEF alloc_inode
  <2>2. Calm(s, t)
    BY DEF Grown, Shape, Calm
  <2>3. /\ IsWrite(zero) /\ zero.to # "snap" /\ IsWrite(dir) /\ dir.to # "snap"
        /\ IsWrite(next) /\ next.to # "snap"
    BY WriteIs
  <2> HIDE DEF zero, dir, next
  <2>4. IsOther(<<zero, dir, next>>)
    <3> DEFINE ws == <<zero, dir, next>>
    <3>1. ws \in Seq({zero, dir, next}) /\ DOMAIN ws = 1 .. 3
          /\ ws[1] = zero /\ ws[2] = dir /\ ws[3] = next
      OBVIOUS
    <3> HIDE DEF ws
    <3>2. ws \in Seq(Range(ws))
      BY <3>1, OfItsRange
    <3>3. \A k \in DOMAIN ws : IsWrite(ws[k]) /\ ws[k].to # "snap"
      BY <2>3, <3>1
    <3>4. IsOther(ws)
      BY <3>2, <3>3 DEF IsOther, IsWrites
    <3> QED
      BY <3>4 DEF ws
  <2> QED
    BY <2>1, <2>2, <2>4
<1> QED
  BY <1>1, <1>2

LEMMA InodeWriteIs ==
  ASSUME NEW slot, NEW r
  PROVE  IsOther(write_inode(slot, r)) /\ IsOther(<<Write("free", slot, 0)>>)
BY WriteIs, OneWrite DEF write_inode

LEMMA CreateIs ==
  ASSUME NEW s, Shape(s)
  PROVE  IsCalm(s, create(s))
<1> DEFINE a == alloc_inode(s)
           i == s.next_inode
           f == [slot |-> a.slot, size |-> 0, offset |-> DataStart, len |-> 0]
           t == [a.state EXCEPT !.next_inode = @ + 1, !.files = With(@, i, f)]
           w == write_inode(a.slot, [NoInode EXCEPT !.ino = i, !.used = TRUE])
<1>1. create(s) = [state |-> t, writes |-> a.writes \o w]
  BY DEF create
<1>2. Calm(s, a.state) /\ IsOther(a.writes) /\ IsOther(w)
  BY AllocInodeIs, InodeWriteIs
<1> HIDE DEF a, w
<1>3. Calm(a.state, t)
  BY <1>2 DEF Calm, Shape
<1>4. IsOther(a.writes \o w)
  BY <1>2, ConcatIs DEF IsOther
<1> HIDE DEF t
<1> QED
  BY <1>1, <1>2, <1>3, <1>4, CalmKeeps DEF IsCalm, IsRequest

LEMMA PersistIs ==
  ASSUME NEW s, Shape(s), NEW i, NEW len
  PROVE  IsCalm(s, persist_to_disk(s, i, len))
<1> DEFINE f == s.files[i]
           freed == IF f.offset > 0 /\ f.size > 0
                    THEN free_data(s, f.offset, f.size, "freed", Own(s, i)) ELSE s
           offset == IF len = 0 THEN DataStart ELSE AllocatedAt(freed, len)
           u == IF len = 0 THEN freed ELSE alloc_data(freed, len)
           t == [u EXCEPT !.files[i].offset = offset, !.files[i].len = len]
           w == write_inode(f.slot, [ino |-> i, size |-> f.size, offset |-> offset,
                                     len |-> len, used |-> TRUE])
           d == flush_disk(t, Sectors(offset, len))
<1>1. persist_to_disk(s, i, len) = [state |-> t, writes |-> w \o d]
  BY DEF persist_to_disk
<1>2. Calm(s, freed)
  BY FreeDataIs, CalmKeeps
<1> HIDE DEF freed
<1>3. Calm(freed, u)
  BY <1>2, AllocDataIs, CalmKeeps DEF Calm
<1> HIDE DEF u
<1>4. Calm(u, t)
  BY <1>3 DEF Calm, Shape
<1> HIDE DEF t, offset
<1>5. IsOther(w) /\ IsOther(d)
  BY InodeWriteIs, FlushIs
<1> HIDE DEF w, d
<1>6. IsOther(w \o d)
  BY <1>5, ConcatIs DEF IsOther
<1> QED
  BY <1>1, <1>2, <1>3, <1>4, <1>6, CalmKeeps DEF IsCalm, IsRequest

LEMMA UnlinkIs ==
  ASSUME NEW s, Shape(s), NEW i
  PROVE  IsCalm(s, unlink(s, i))
<1> DEFINE f == s.files[i]
           t == IF f.offset > 0 /\ f.size > 0
                THEN free_data(s, f.offset, f.size, "freed", Own(s, i)) ELSE s
           u == [t EXCEPT !.files = Without(@, i)]
           S == IF s.logged[f.slot].ino = i THEN Own(s, i) ELSE {}
<1>1. unlink(s, i) = [state |-> Tainted(u, "logged", S), writes |-> <<Write("free", f.slot, 0)>>]
  BY DEF unlink
<1>2. Calm(s, t)
  BY FreeDataIs, CalmKeeps
<1> HIDE DEF t, S
<1>3. Calm(t, u)
  BY <1>2 DEF Calm, Shape
<1> HIDE DEF u
<1>4. Calm(u, Tainted(u, "logged", S))
  BY <1>3, TaintedIs DEF Calm
<1> QED
  BY <1>1, <1>2, <1>3, <1>4, CalmKeeps, InodeWriteIs DEF IsCalm, IsRequest

LEMMA RenameIs ==
  ASSUME NEW s, Shape(s), NEW i
  PROVE  IsCalm(s, rename(s, i))
<1> DEFINE w == write_inode(s.files[i].slot, s.inode[s.files[i].slot])
           d == flush_disk(s, {})
<1>1. rename(s, i) = [state |-> s, writes |-> w \o d]
  BY DEF rename
<1>2. IsOther(w) /\ IsOther(d)
  BY InodeWriteIs, FlushIs
<1> HIDE DEF w, d
<1>3. IsOther(w \o d)
  BY <1>2, ConcatIs DEF IsOther
<1> QED
  BY <1>1, <1>3, CalmKeeps DEF IsCalm, IsRequest

LEMMA RestoreIs ==
  ASSUME NEW s, Shape(s), NEW k, NEW v
  PROVE  IsCalm(s, snap_restore(s, k, v))
<1> DEFINE size == s.snap[v].size
           offset == AllocatedAt(s, size)
           t == alloc_data(s, size)
           w == write_inode(k, [s.inode[k] EXCEPT !.size = size, !.offset = offset, !.len = size])
           d == flush_disk(t, Sectors(offset, size))
<1>1. snap_restore(s, k, v) = [state |-> t, writes |-> w \o d]
  BY DEF snap_restore
<1>2. Calm(s, t)
  BY AllocDataIs
<1>3. IsOther(w) /\ IsOther(d)
  BY InodeWriteIs, FlushIs
<1> HIDE DEF w, d, t
<1>4. IsOther(w \o d)
  BY <1>3, ConcatIs DEF IsOther
<1> QED
  BY <1>1, <1>2, <1>4 DEF IsCalm, IsRequest

LEMMA FsckIs ==
  ASSUME NEW s, Shape(s)
  PROVE  IsCalm(s, fsck_repair(s))
<1>1. ASSUME NEW fresh, NEW S, NEW T,
             LET t == Tainted([s EXCEPT !.list = fresh], "tail", S)
             IN  fsck_repair(s) = [state |-> t, writes |-> Curing(flush_disk(t, {}), T)]
      PROVE  IsCalm(s, fsck_repair(s))
  <2> DEFINE u == [s EXCEPT !.list = fresh]
             t == Tainted(u, "tail", S)
  <2>1. Calm(s, u)
    BY DEF Calm, Shape
  <2> HIDE DEF u
  <2>2. Calm(u, t)
    BY <2>1, TaintedIs DEF Calm
  <2>3. fsck_repair(s) = [state |-> t, writes |-> Curing(flush_disk(t, {}), T)]
    BY <1>1 DEF u
  <2> HIDE DEF t
  <2> QED
    BY <2>1, <2>2, <2>3, CalmKeeps, FlushIs DEF IsCalm, IsRequest
<1>2. CASE fsck_repair(s) = [state |-> s, writes |-> <<>>]
  BY <1>2, NoWrites, CalmKeeps DEF IsCalm, IsRequest
<1> QED
  BY <1>1, <1>2, Zenon DEF fsck_repair

-----------------------------------------------------------------------------
(***************************************************************************)
(* The invariant: once the writes ws are done, every version that counts   *)
(* as being on disk is in the slot it is thought to be in, and no two are  *)
(* in one.                                                                 *)
(***************************************************************************)
IsRecordOf(r, i, id) == r.used /\ r.ino = i /\ r.id = id
Sets(w, a) == w.to = "snap" /\ w.at = a

\* What slot a holds after ws.
Holds(f, ws, a, i, id) ==
  \/ IsRecordOf(f[a], i, id) /\ \A k \in DOMAIN ws : ~Sets(ws[k], a)
  \/ \E k \in DOMAIN ws : /\ Sets(ws[k], a) /\ IsRecordOf(ws[k].what, i, id)
                          /\ \A m \in DOMAIN ws : m > k => ~Sets(ws[m], a)

\* The n-th version of file i counts as being on disk.
Has(s, i, n) ==
  i \in DOMAIN s.versions /\ n \in DOMAIN s.versions[i] /\ s.versions[i][n].at # NoSlot

InPlace(s, ws) ==
  \A i, n : Has(s, i, n) =>
    Holds(s.snap, ws, s.versions[i][n].at, i, s.versions[i][n].id)
Apart(s) ==
  \A i, n, j, m :
    (Has(s, i, n) /\ Has(s, j, m) /\ s.versions[i][n].at = s.versions[j][m].at)
      => (i = j /\ n = m)
Held(s, ws) == InPlace(s, ws) /\ Apart(s)

IInv == IsStore(st) /\ IsWrites(todo) /\ Held(st, todo)

\* The slot is one of the table's.
LEMMA HasIs ==
  ASSUME NEW s, IsStore(s), NEW i, NEW n, Has(s, i, n)
  PROVE  s.versions[i][n].at \in SnapSlot /\ IsVersion(s.versions[i][n])
BY DEF Has, IsStore, IsMemory, IsVersions, IsVersion

\* Writes of other things, or of other slots, may follow.
LEMMA HoldsMore ==
  ASSUME NEW f, NEW ws, IsWrites(ws), NEW zs, IsWrites(zs), NEW a, NEW i, NEW id,
         Holds(f, ws, a, i, id), \A k \in DOMAIN zs : ~Sets(zs[k], a)
  PROVE  Holds(f, ws \o zs, a, i, id)
<1> DEFINE B == Range(ws) \cup Range(zs)
<1>1. ws \in Seq(B) /\ zs \in Seq(B)
  BY DEF IsWrites
<1>2. /\ \A k \in DOMAIN (ws \o zs) : \/ k \in DOMAIN ws /\ (ws \o zs)[k] = ws[k]
                                      \/ k - Len(ws) \in DOMAIN zs
                                         /\ (ws \o zs)[k] = zs[k - Len(ws)]
      /\ \A k \in DOMAIN ws : k \in DOMAIN (ws \o zs) /\ (ws \o zs)[k] = ws[k]
  BY <1>1
<1> QED
  BY <1>2 DEF Holds

\* One write done.
LEMMA HoldsAfter ==
  ASSUME NEW s, IsDisk(s), NEW ws, IsWrites(ws), ws # <<>>, NEW a \in SnapSlot, NEW i, NEW id,
         Holds(s.snap, ws, a, i, id)
  PROVE  Holds(Applied(s, Head(ws)).snap, Tail(ws), a, i, id)
<1> DEFINE w == ws[1]
           t == Applied(s, w)
           vs == Tail(ws)
<1>1. ws \in Seq(Range(ws)) /\ Head(ws) = w /\ 1 \in DOMAIN ws /\ IsWrite(w)
  BY DEF IsWrites
<1>2. /\ \A k \in DOMAIN vs : k \in Nat /\ k >= 1 /\ k + 1 \in DOMAIN ws /\ vs[k] = ws[k + 1]
      /\ \A k \in DOMAIN ws : k # 1 => k - 1 \in DOMAIN vs /\ vs[k - 1] = ws[k] /\ k - 1 >= 1
      /\ DOMAIN ws \in SUBSET Nat /\ DOMAIN vs \in SUBSET Nat
  BY <1>1
<1>3. t.snap = IF w.to = "snap" THEN [s.snap EXCEPT ![w.at] = w.what] ELSE s.snap
  BY <1>1 DEF Applied, IsDisk, Shape, IsWrite
<1>4. t.snap[a] = IF Sets(w, a) THEN w.what ELSE s.snap[a]
  BY <1>3 DEF Sets, IsDisk, IsTable
<1> HIDE DEF t, vs
<1>5. CASE IsRecordOf(s.snap[a], i, id) /\ \A k \in DOMAIN ws : ~Sets(ws[k], a)
  <2>1. IsRecordOf(t.snap[a], i, id) /\ \A k \in DOMAIN vs : ~Sets(vs[k], a)
    BY <1>1, <1>2, <1>4, <1>5
  <2> QED
    BY <1>1, <2>1 DEF Holds, t, vs
<1>6. CASE \E k \in DOMAIN ws : /\ Sets(ws[k], a) /\ IsRecordOf(ws[k].what, i, id)
                                /\ \A m \in DOMAIN ws : m > k => ~Sets(ws[m], a)
  <2>1. PICK k \in DOMAIN ws : /\ Sets(ws[k], a) /\ IsRecordOf(ws[k].what, i, id)
                               /\ \A m \in DOMAIN ws : m > k => ~Sets(ws[m], a)
    BY <1>6
  <2>2. CASE k = 1
    <3>1. IsRecordOf(t.snap[a], i, id) /\ \A m \in DOMAIN vs : ~Sets(vs[m], a)
      BY <1>2, <1>4, <2>1, <2>2
    <3> QED
      BY <1>1, <3>1 DEF Holds, t, vs
  <2>3. CASE k # 1
    <3>1. /\ k - 1 \in DOMAIN vs /\ Sets(vs[k - 1], a) /\ IsRecordOf(vs[k - 1].what, i, id)
          /\ \A m \in DOMAIN vs : m > k - 1 => ~Sets(vs[m], a)
      BY <1>2, <2>1, <2>3
    <3> QED
      BY <1>1, <3>1 DEF Holds, t, vs
  <2> QED
    BY <2>2, <2>3
<1> QED
  BY <1>5, <1>6 DEF Holds

\* A disk write leaves the memory as it is.
LEMMA AppliedIs ==
  ASSUME NEW s, IsStore(s), NEW w, IsWrite(w)
  PROVE  LET t == Applied(s, w)
         IN  IsStore(t) /\ t.versions = s.versions
<1> DEFINE t == Applied(s, w)
<1>1. /\ Shape(t) /\ t.versions = s.versions /\ t.next_id = s.next_id
      /\ t.snap = IF w.to = "snap" THEN [s.snap EXCEPT ![w.at] = w.what] ELSE s.snap
  BY DEF Applied, IsStore, IsDisk, Shape, IsWrite
<1> HIDE DEF t
<1>2. IsTable(t.snap)
  <2>1. CASE w.to = "snap"
    <3>1. t.snap \in [SnapSlot -> Range(t.snap)]
      BY <1>1, <2>1 DEF IsStore, IsDisk, IsTable, Range
    <3>2. ASSUME NEW k \in SnapSlot PROVE IsRecord(t.snap[k])
      BY <1>1, <2>1 DEF IsStore, IsDisk, IsTable, IsWrite
    <3> QED
      BY <3>1, <3>2 DEF IsTable
  <2> QED
    BY <1>1, <2>1 DEF IsStore, IsDisk
<1> QED
  BY <1>1, <1>2 DEF IsStore, IsDisk, IsMemory, t

LEMMA StepHolds ==
  ASSUME IInv, Step
  PROVE  IInv'
<1> DEFINE w == Head(todo)
           t == Applied(st, w)
<1>1. st' = t /\ todo' = Tail(todo) /\ todo # <<>>
  BY DEF Step
<1>2. IsWrite(w) /\ todo \in Seq(Range(todo)) /\ Len(todo) \in Nat /\ Len(todo) >= 1
  BY <1>1 DEF IInv, IsWrites
<1>3. IsStore(t) /\ t.versions = st.versions
  BY <1>2, AppliedIs DEF IInv
<1>4. IsWrites(Tail(todo))
  <2>1. Tail(todo) \in Seq(Range(todo))
    BY <1>1, <1>2
  <2>2. \A k \in DOMAIN Tail(todo) : Tail(todo)[k] = todo[k + 1] /\ k + 1 \in DOMAIN todo
    BY <1>1, <1>2
  <2>3. Tail(todo) \in Seq(Range(Tail(todo)))
    BY <2>1, OfItsRange
  <2> QED
    BY <2>2, <2>3 DEF IInv, IsWrites
<1>5. \A i, n : Has(t, i, n) <=> Has(st, i, n)
  BY <1>3 DEF Has
<1>6. InPlace(t, Tail(todo))
  <2>1. ASSUME NEW i, NEW n, Has(st, i, n)
        PROVE  Holds(t.snap, Tail(todo), st.versions[i][n].at, i, st.versions[i][n].id)
    <3>1. st.versions[i][n].at \in SnapSlot
      BY <2>1, HasIs DEF IInv
    <3> QED
      BY <1>1, <2>1, <3>1, HoldsAfter DEF IInv, IsStore, Held, InPlace
  <2> QED
    BY <1>3, <1>5, <2>1 DEF InPlace
<1>7. Apart(t)
  BY <1>3, <1>5 DEF IInv, Held, Apart
<1> HIDE DEF t
<1> QED
  BY <1>1, <1>3, <1>4, <1>6, <1>7 DEF IInv, Held

-----------------------------------------------------------------------------
(***************************************************************************)
(* GC: what is dropped of a file's versions and what is kept.              *)
(***************************************************************************)
\* ByAge permutes the versions.
LEMMA ByAgeIs ==
  ASSUME NEW vs, IsVersions(vs)
  PROVE  \E p \in [DOMAIN vs -> DOMAIN vs] :
           /\ ByAge(vs) = [r \in DOMAIN vs |-> vs[p[r]]]
           /\ \A q, r \in DOMAIN vs : p[q] = p[r] => q = r
<1> DEFINE D == DOMAIN vs
           R == {x \in D \X D : \/ vs[x[1]].id < vs[x[2]].id
                                \/ vs[x[1]].id = vs[x[2]].id /\ x[1] <= x[2]}
           p == [r \in D |-> CHOOSE n \in D : Age(vs, n) = r]
<1>1. /\ Len(vs) \in Nat /\ D = 1 .. Len(vs) /\ D \in SUBSET Nat
      /\ \A n \in D : vs[n].id \in Nat
  BY DEF IsVersions, IsVersion
<1>2. IsFiniteSet(D) /\ Cardinality(D) = Len(vs)
  <2>1. \A m \in Nat : IsFiniteSet(1 .. m) /\ Cardinality(1 .. m) = m
    BY FS_Interval
  <2> QED
    BY <1>1, <2>1
<1>3. Orders(R, D)
  BY <1>1 DEF Orders
<1>4. \A n \in D : Place(R, D, n) = Age(vs, n)
  <2>1. ASSUME NEW n \in D
        PROVE  {m \in D : <<m, n>> \in R} = {m \in D : \/ vs[m].id < vs[n].id
                                                       \/ vs[m].id = vs[n].id /\ m <= n}
    OBVIOUS
  <2> HIDE DEF R
  <2> QED
    BY <2>1 DEF Place, Age
<1> HIDE DEF R
<1>5. \A r \in 1 .. Cardinality(D) : \E n \in D : Place(R, D, n) = r
  BY <1>2, <1>3, PlacesAre
<1>6. \A r \in D : \E n \in D : Age(vs, n) = r
  BY <1>1, <1>2, <1>4, <1>5
<1>7. \A r \in D : p[r] \in D /\ Age(vs, p[r]) = r
  BY <1>6, Zenon
<1>8. ByAge(vs) = [r \in D |-> vs[p[r]]]
  BY DEF ByAge
<1>9. p \in [D -> D]
  BY <1>7
<1> HIDE DEF p
<1>10. ASSUME NEW q \in D, NEW r \in D, p[q] = p[r] PROVE q = r
  BY <1>7, <1>10, Zenon
<1> QED
  BY <1>8, <1>9, <1>10

\* Each one kept is another one of those that were there, and none that was
\* dropped.
IsPart(vs, dropped, kept, q) ==
  /\ q \in [DOMAIN kept -> DOMAIN vs]
  /\ \A r \in DOMAIN kept : kept[r] = vs[q[r]]
  /\ \A r, u \in DOMAIN kept : q[r] = q[u] => r = u
  /\ \A k \in DOMAIN dropped : \E n \in DOMAIN vs :
       dropped[k] = vs[n] /\ \A r \in DOMAIN kept : q[r] # n

LEMMA GcSplits ==
  ASSUME NEW vs, IsVersions(vs)
  PROVE  /\ IsVersions(Remaining(vs))
         /\ Dropped(vs) \in Seq(Range(Dropped(vs)))
         /\ \E q : IsPart(vs, Dropped(vs), Remaining(vs), q)
<1> DEFINE n == Len(vs)
           u == Surplus(vs)
           dropped == Dropped(vs)
           kept == Remaining(vs)
<1>1. /\ vs \in Seq(Range(vs)) /\ n \in Nat /\ DOMAIN vs = 1 .. n
      /\ \A k \in 1 .. n : IsVersion(vs[k])
  BY DEF IsVersions
<1>2. u \in 0 .. n
  BY <1>1, StoreAssumption DEF Surplus
<1>3. PICK p \in [1 .. n -> 1 .. n] :
        /\ ByAge(vs) = [r \in 1 .. n |-> vs[p[r]]]
        /\ \A q, r \in 1 .. n : p[q] = p[r] => q = r
  BY <1>1, ByAgeIs
<1>4. ByAge(vs) \in Seq(Range(vs)) /\ Len(ByAge(vs)) = n
  <2>1. \A r \in 1 .. n : vs[p[r]] \in Range(vs)
    BY <1>1, <1>3 DEF Range
  <2>2. ByAge(vs) \in [1 .. n -> Range(vs)]
    BY <1>3, <2>1
  <2> QED
    BY <1>1, <2>2
<1>5. /\ dropped \in Seq(Range(vs)) /\ Len(dropped) = u /\ DOMAIN dropped = 1 .. u
      /\ \A r \in 1 .. u : dropped[r] = vs[p[r]]
  <2>1. dropped = [r \in 1 .. u |-> ByAge(vs)[r]]
    BY <1>1, <1>2, <1>4 DEF Dropped
  <2> HIDE DEF dropped
  <2>2. \A r \in 1 .. u : dropped[r] = vs[p[r]] /\ vs[p[r]] \in Range(vs)
    BY <1>1, <1>2, <1>3, <2>1 DEF Range
  <2> HIDE DEF u
  <2> QED
    BY <1>2, <2>1, <2>2
<1> HIDE DEF dropped, u
<1>6. dropped \in Seq(Range(dropped))
  BY <1>5, OfItsRange
<1>7. CASE u = 0
  <2>1. kept = vs
    BY <1>7 DEF Remaining, u
  <2> DEFINE q == [r \in 1 .. n |-> r]
  <2>2. IsPart(vs, dropped, kept, q)
    BY <1>1, <1>5, <1>7, <2>1 DEF IsPart
  <2> QED
    BY <1>6, <2>1, <2>2 DEF dropped
<1>8. CASE u # 0
  <2> DEFINE q == [r \in 1 .. (n - u) |-> p[r + u]]
  <2>1. kept = [r \in 1 .. (n - u) |-> ByAge(vs)[r + u]]
    <3>1. kept = SubSeq(ByAge(vs), u + 1, n)
      BY <1>8 DEF Remaining, u
    <3>2. SubSeq(ByAge(vs), u + 1, n) = [r \in 1 .. (n - u) |-> ByAge(vs)[r + u]]
      BY <1>1, <1>2, <1>4
    <3> QED
      BY <3>1, <3>2
  <2>2. ASSUME NEW r \in 1 .. (n - u)
        PROVE  r + u \in 1 .. n /\ kept[r] = vs[q[r]] /\ q[r] \in 1 .. n /\ q[r] = p[r + u]
    <3>1. r + u \in 1 .. n
      BY <1>1, <1>2
    <3>2. kept[r] = ByAge(vs)[r + u]
      BY <2>1
    <3> HIDE DEF kept
    <3>3. kept[r] = vs[p[r + u]] /\ p[r + u] \in 1 .. n
      BY <1>3, <3>1, <3>2
    <3>4. q[r] = p[r + u]
      OBVIOUS
    <3> QED
      BY <3>1, <3>3, <3>4
  <2>3. /\ kept \in Seq(Range(vs)) /\ DOMAIN kept = 1 .. (n - u) /\ n - u \in Nat
    <3> HIDE DEF kept, q
    <3>1. \A r \in 1 .. (n - u) : kept[r] \in Range(vs)
      BY <1>1, <2>2 DEF Range
    <3>2. n - u \in Nat
      BY <1>1, <1>2
    <3> QED
      BY <2>1, <3>1, <3>2
  <2> HIDE DEF kept
  <2>4. kept \in Seq(Range(kept))
    BY <2>3, OfItsRange
  <2>5. IsVersions(kept)
    BY <1>1, <2>2, <2>3, <2>4 DEF IsVersions
  <2>6. q \in [DOMAIN kept -> DOMAIN vs] /\ \A r \in DOMAIN kept : kept[r] = vs[q[r]]
    BY <1>1, <2>2, <2>3
  <2> HIDE DEF q
  <2>7. ASSUME NEW r \in DOMAIN kept, NEW t \in DOMAIN kept, q[r] = q[t] PROVE r = t
    <3>1. r + u = t + u /\ r \in Nat /\ t \in Nat
      BY <1>3, <2>2, <2>3, <2>7
    <3> QED
      BY <1>2, <3>1
  <2>8. ASSUME NEW k \in DOMAIN dropped
        PROVE  \E m \in DOMAIN vs : dropped[k] = vs[m] /\ \A r \in DOMAIN kept : q[r] # m
    <3>1. p[k] \in DOMAIN vs /\ dropped[k] = vs[p[k]]
      BY <1>1, <1>2, <1>5
    <3>2. ASSUME NEW r \in DOMAIN kept PROVE q[r] # p[k]
      <4>1. r + u \in 1 .. n /\ q[r] = p[r + u] /\ k \in 1 .. n /\ k # r + u
        BY <1>2, <1>5, <2>2, <2>3
      <4> QED
        BY <1>3, <4>1
    <3> QED
      BY <3>1, <3>2
  <2>9. IsPart(vs, dropped, kept, q)
    BY <2>6, <2>7, <2>8 DEF IsPart
  <2> QED
    BY <1>6, <2>5, <2>9 DEF dropped, kept
<1> QED
  BY <1>7, <1>8

-----------------------------------------------------------------------------
(***************************************************************************)
(* The loops, as rounds.                                                   *)
(***************************************************************************)
Cat(x, y) == x \o y
Put(kept, v) == IF v.at = NoSlot THEN kept ELSE Append(kept, v)
Do(loop, x, y) ==
  IF loop.kind = "dropped" THEN Cat(x, Dropped(loop.of[y]))
  ELSE IF loop.kind = "on disk" THEN Cat(x, DroppedOnDisk(loop.of[y]))
  ELSE IF loop.kind = "freed" THEN List!Freed(x, [offset |-> y.offset, length |-> y.size])
  ELSE Put(x, y)
Dropping(s) == [kind |-> "dropped", of |-> s.versions]
Clearing(s) == [kind |-> "on disk", of |-> s.versions]
Putting == [kind |-> "put"]
Freeing == [kind |-> "freed"]
Looped(loop, s, seq) == FoldLeft(LAMBDA x, y : Do(loop, x, y), s, seq)

\* A loop whose rounds stay in A ends there.
LEMMA LoopStays ==
  ASSUME NEW A, NEW loop, NEW n \in Nat, NEW seq, DOMAIN seq = 1 .. n, NEW s \in A,
         \A u \in A : \A k \in 1 .. n : Do(loop, u, seq[k]) \in A
  PROVE  Looped(loop, s, seq) \in A
<1> DEFINE D == [q \in A \X (1 .. n) |-> Do(loop, q[1], seq[q[2]])]
           Rec(h) == h = [t \in SUBSET (1 .. n) |->
                            IF t = {} THEN s ELSE Do(loop, h[t \ {Max(t)}], seq[Max(t)])]
           h == CHOOSE g : Rec(g)
<1>1. D \in [A \X (1 .. n) -> A]
  OBVIOUS
<1>2. PICK g \in [SUBSET (1 .. n) -> A] : IsFold(g, n, s, D)
  <2> HIDE DEF D
  <2> QED
    BY <1>1, FoldDefined, Zenon
<1>3. Rec(g)
  <2>1. ASSUME NEW t \in SUBSET (1 .. n), t # {}
        PROVE  D[<<g[t \ {Max(t)}], Max(t)>>] = Do(loop, g[t \ {Max(t)}], seq[Max(t)])
    <3>1. Max(t) \in 1 .. n /\ g[t \ {Max(t)}] \in A
      BY <2>1, MaxIn
    <3> QED
      BY <3>1
  <2> HIDE DEF D
  <2> QED
    BY <1>2, <2>1 DEF IsFold
<1>4. Rec(h)
  BY <1>3, Zenon
<1>5. Looped(loop, s, seq) = h[1 .. n]
  BY DEF Looped, FoldLeft, MapThenFoldSet
<1>6. h[{}] = s
  BY <1>4
<1>7. ASSUME NEW t \in SUBSET (1 .. n), t # {}, h[t \ {Max(t)}] \in A
      PROVE  h[t] = D[<<h[t \ {Max(t)}], Max(t)>>]
  <2>1. Max(t) \in 1 .. n
    BY <1>7, MaxIn
  <2>2. D[<<h[t \ {Max(t)}], Max(t)>>] = Do(loop, h[t \ {Max(t)}], seq[Max(t)])
    <3> HIDE DEF h
    <3> QED
      BY <1>7, <2>1
  <2> HIDE DEF h, D
  <2> QED
    BY <1>4, <1>7, <2>2
<1> HIDE DEF h
<1>8. PICK m \in [0 .. n -> A] : IsRounds(m, h, n, s, D)
  <2>1. IsFoldIn(h, n, A, s, D)
    BY <1>6, <1>7 DEF IsFoldIn
  <2> HIDE DEF D
  <2> QED
    BY <1>1, <2>1, FoldRounds, Zenon
<1>9. h[1 .. n] = m[n] /\ m[n] \in A
  BY <1>8 DEF IsRounds
<1> QED
  BY <1>5, <1>9

LEMMA DroppedLoop ==
  ASSUME NEW s
  PROVE  EachFile(s, Dropped) = Looped(Dropping(s), <<>>, SetToSeq(DOMAIN s.versions))
<1> DEFINE seq == SetToSeq(DOMAIN s.versions)
           A(f) == f = [u \in SUBSET DOMAIN seq |->
                          IF u = {} THEN <<>>
                          ELSE Cat(f[u \ {Max(u)}], Dropped(s.versions[seq[Max(u)]]))]
           B(f) == f = [u \in SUBSET DOMAIN seq |->
                          IF u = {} THEN <<>>
                          ELSE Do(Dropping(s), f[u \ {Max(u)}], seq[Max(u)])]
<1>1. \A x, y : Do(Dropping(s), x, y) = Cat(x, Dropped(s.versions[y]))
  BY DEF Do, Dropping
<1>2. EachFile(s, Dropped) = (CHOOSE f : A(f))[DOMAIN seq]
  BY DEF EachFile, Cat, FoldLeft, MapThenFoldSet
<1>3. Looped(Dropping(s), <<>>, seq) = (CHOOSE f : B(f))[DOMAIN seq]
  BY DEF Looped, FoldLeft, MapThenFoldSet
<1> HIDE DEF seq
<1>4. \A f : A(f) <=> B(f)
  BY <1>1
<1> HIDE DEF A, B
<1>5. EachFile(s, Dropped) = Looped(Dropping(s), <<>>, seq)
  BY <1>2, <1>3, <1>4
<1> QED
  BY <1>5 DEF seq

LEMMA OnDiskLoop ==
  ASSUME NEW s
  PROVE  EachFile(s, DroppedOnDisk) = Looped(Clearing(s), <<>>, SetToSeq(DOMAIN s.versions))
<1> DEFINE seq == SetToSeq(DOMAIN s.versions)
           A(f) == f = [u \in SUBSET DOMAIN seq |->
                          IF u = {} THEN <<>>
                          ELSE Cat(f[u \ {Max(u)}], DroppedOnDisk(s.versions[seq[Max(u)]]))]
           B(f) == f = [u \in SUBSET DOMAIN seq |->
                          IF u = {} THEN <<>>
                          ELSE Do(Clearing(s), f[u \ {Max(u)}], seq[Max(u)])]
<1>1. \A x, y : Do(Clearing(s), x, y) = Cat(x, DroppedOnDisk(s.versions[y]))
  BY DEF Do, Clearing
<1>2. EachFile(s, DroppedOnDisk) = (CHOOSE f : A(f))[DOMAIN seq]
  BY DEF EachFile, Cat, FoldLeft, MapThenFoldSet
<1>3. Looped(Clearing(s), <<>>, seq) = (CHOOSE f : B(f))[DOMAIN seq]
  BY DEF Looped, FoldLeft, MapThenFoldSet
<1> HIDE DEF seq
<1>4. \A f : A(f) <=> B(f)
  BY <1>1
<1> HIDE DEF A, B
<1>5. EachFile(s, DroppedOnDisk) = Looped(Clearing(s), <<>>, seq)
  BY <1>2, <1>3, <1>4
<1> QED
  BY <1>5 DEF seq

LEMMA PutLoop ==
  ASSUME NEW vs
  PROVE  OnDisk(vs) = Looped(Putting, <<>>, vs)
<1> DEFINE seq == vs
           A(f) == f = [u \in SUBSET DOMAIN seq |->
                          IF u = {} THEN <<>>
                          ELSE Put(f[u \ {Max(u)}], seq[Max(u)])]
           B(f) == f = [u \in SUBSET DOMAIN seq |->
                          IF u = {} THEN <<>>
                          ELSE Do(Putting, f[u \ {Max(u)}], seq[Max(u)])]
<1>1. \A x, y : Do(Putting, x, y) = Put(x, y)
  BY DEF Do, Putting
<1>2. OnDisk(vs) = (CHOOSE f : A(f))[DOMAIN seq]
  BY DEF OnDisk, Put, FoldLeft, MapThenFoldSet
<1>3. Looped(Putting, <<>>, seq) = (CHOOSE f : B(f))[DOMAIN seq]
  BY DEF Looped, FoldLeft, MapThenFoldSet
<1> HIDE DEF seq
<1>4. \A f : A(f) <=> B(f)
  BY <1>1
<1> HIDE DEF A, B
<1>5. OnDisk(vs) = Looped(Putting, <<>>, seq)
  BY <1>2, <1>3, <1>4
<1> QED
  BY <1>5 DEF seq

\* The versions of a file that have a slot, and those that all files drop.
LEMMA OnDiskIs ==
  ASSUME NEW B, NEW vs \in Seq(B)
  PROVE  OnDisk(vs) \in Seq({v \in B : v.at # NoSlot})
<1> DEFINE C == {v \in B : v.at # NoSlot}
           loop == Putting
           n == Len(vs)
<1>1. n \in Nat /\ DOMAIN vs = 1 .. n /\ \A k \in 1 .. n : vs[k] \in B
  OBVIOUS
<1>2. ASSUME NEW u \in Seq(C), NEW k \in 1 .. n PROVE Do(loop, u, vs[k]) \in Seq(C)
  <2>1. Do(loop, u, vs[k]) = Put(u, vs[k])
    BY DEF Do, Putting
  <2>2. CASE vs[k].at = NoSlot
    BY <2>1, <2>2 DEF Put
  <2>3. CASE vs[k].at # NoSlot
    <3>1. vs[k] \in C
      BY <1>1, <2>3
    <3> HIDE DEF C
    <3> QED
      BY <2>1, <2>3, <3>1 DEF Put
  <2> QED
    BY <2>2, <2>3
<1>3. <<>> \in Seq(C)
  OBVIOUS
<1> HIDE DEF C, loop, n
<1>4. Looped(loop, <<>>, vs) \in Seq(C)
  BY <1>1, <1>2, <1>3, LoopStays
<1> QED
  BY <1>4, PutLoop DEF C, loop

LEMMA EachFileIs ==
  ASSUME NEW s, IsFiniteSet(DOMAIN s.versions), NEW B,
         \A i \in DOMAIN s.versions : Dropped(s.versions[i]) \in Seq(B)
  PROVE  /\ EachFile(s, Dropped) \in Seq(B)
         /\ EachFile(s, DroppedOnDisk) \in Seq({v \in B : v.at # NoSlot})
<1> DEFINE C == {v \in B : v.at # NoSlot}
           S == DOMAIN s.versions
           n == Cardinality(S)
           seq == SetToSeq(S)
           all == Dropping(s)
           some == Clearing(s)
<1>1. n \in Nat /\ DOMAIN seq = 1 .. n /\ \A k \in 1 .. n : seq[k] \in S
  <2>1. ExistsBijection(1 .. n, S) /\ n \in Nat
    BY FS_CardinalityType
  <2>2. PICK b \in [1 .. n -> S] : IsInjective(b)
    BY <2>1 DEF ExistsBijection, Bijection, Injection
  <2>3. seq \in [1 .. n -> S]
    BY <2>2, Zenon DEF SetToSeq
  <2> HIDE DEF seq, n
  <2> QED
    BY <2>1, <2>3
<1> HIDE DEF seq, n
<1>2. Looped(all, <<>>, seq) \in Seq(B)
  <2>1. ASSUME NEW u \in Seq(B), NEW k \in 1 .. n PROVE Do(all, u, seq[k]) \in Seq(B)
    <3>1. Do(all, u, seq[k]) = Cat(u, Dropped(s.versions[seq[k]]))
      BY DEF Do, Dropping
    <3>2. Dropped(s.versions[seq[k]]) \in Seq(B)
      BY <1>1
    <3> QED
      BY <3>1, <3>2 DEF Cat
  <2>2. <<>> \in Seq(B)
    OBVIOUS
  <2> HIDE DEF all
  <2> QED
    BY <1>1, <2>1, <2>2, LoopStays
<1>3. Looped(some, <<>>, seq) \in Seq(C)
  <2>1. ASSUME NEW u \in Seq(C), NEW k \in 1 .. n PROVE Do(some, u, seq[k]) \in Seq(C)
    <3>1. Do(some, u, seq[k]) = Cat(u, DroppedOnDisk(s.versions[seq[k]]))
      BY DEF Do, Clearing
    <3>2. DroppedOnDisk(s.versions[seq[k]]) \in Seq(C)
      BY <1>1, OnDiskIs DEF DroppedOnDisk
    <3> HIDE DEF C
    <3> QED
      BY <3>1, <3>2 DEF Cat
  <2>2. <<>> \in Seq(C)
    OBVIOUS
  <2> HIDE DEF some, C
  <2> QED
    BY <1>1, <2>1, <2>2, LoopStays
<1> QED
  BY <1>2, <1>3, DroppedLoop, OnDiskLoop DEF all, some, seq, C

-----------------------------------------------------------------------------
(***************************************************************************)
(* GC keeps what is not dropped, in its slots.                             *)
(***************************************************************************)
\* Every version of t on disk is one of s, each another.
Embeds(s, t) ==
  \A i : \E q :
    /\ \A n : Has(t, i, n) => Has(s, i, q[n]) /\ t.versions[i][n] = s.versions[i][q[n]]
    /\ \A n, m : Has(t, i, n) /\ Has(t, i, m) /\ q[n] = q[m] => n = m

LEMMA EmbedKeeps ==
  ASSUME NEW s, NEW t, t.snap = s.snap, Embeds(s, t), NEW ws, Held(s, ws)
  PROVE  Held(t, ws)
<1> DEFINE Q(i, q) ==
      /\ \A n : Has(t, i, n) => Has(s, i, q[n]) /\ t.versions[i][n] = s.versions[i][q[n]]
      /\ \A n, m : Has(t, i, n) /\ Has(t, i, m) /\ q[n] = q[m] => n = m
<1>1. \A i : \E q : Q(i, q)
  BY DEF Embeds
<1>2. ASSUME NEW i, NEW n, Has(t, i, n)
      PROVE  Holds(t.snap, ws, t.versions[i][n].at, i, t.versions[i][n].id)
  <2>1. PICK q : Q(i, q)
    BY <1>1
  <2> QED
    BY <1>2, <2>1 DEF Held, InPlace
<1>3. ASSUME NEW i, NEW n, NEW j, NEW m, Has(t, i, n), Has(t, j, m),
             t.versions[i][n].at = t.versions[j][m].at
      PROVE  i = j /\ n = m
  <2>1. PICK q : Q(i, q)
    BY <1>1
  <2>2. PICK p : Q(j, p)
    BY <1>1
  <2>3. i = j /\ q[n] = p[m]
    BY <1>3, <2>1, <2>2, SMTT(30) DEF Held, Apart
  <2>4. Has(s, i, q[m]) /\ t.versions[i][m] = s.versions[i][q[m]]
    BY <1>3, <2>1, <2>3
  <2>5. Has(s, i, p[m]) /\ t.versions[i][m] = s.versions[i][p[m]]
    BY <1>3, <2>2, <2>3
  <2>6. q[m] = p[m]
    BY <2>4, <2>5 DEF Held, Apart
  <2> QED
    BY <1>3, <2>1, <2>3, <2>6
<1> QED
  BY <1>2, <1>3 DEF Held, InPlace, Apart

\* The writes of other things, or of slots that no version is thought to be in.
LEMMA HeldMore ==
  ASSUME NEW s, NEW ws, IsWrites(ws), Held(s, ws), NEW zs, IsWrites(zs),
         \A i, n : Has(s, i, n) => \A k \in DOMAIN zs : ~Sets(zs[k], s.versions[i][n].at)
  PROVE  Held(s, ws \o zs)
<1>1. ASSUME NEW i, NEW n, Has(s, i, n)
      PROVE  Holds(s.snap, ws \o zs, s.versions[i][n].at, i, s.versions[i][n].id)
  BY <1>1, HoldsMore DEF Held, InPlace
<1> QED
  BY <1>1 DEF Held, InPlace

LEMMA FreedIs ==
  ASSUME NEW s, Shape(s), NEW vs
  PROVE  Calm(s, Freed(s, vs))
<1> DEFINE list == FoldLeft(LAMBDA f, v :
                      List!Freed(f, [offset |-> v.offset, length |-> v.size]), s.list, vs)
           t == [s EXCEPT !.list = list]
           S == UNION {Sectors(v.offset, v.size) : v \in {v \in Range(vs) : v.offset > 0}}
<1>1. Freed(s, vs) = Tainted(t, "version", S)
  BY DEF Freed
<1> HIDE DEF list, S
<1>2. Calm(s, t)
  BY DEF Calm, Shape
<1> HIDE DEF t
<1>3. Calm(t, Tainted(t, "version", S))
  BY <1>2, TaintedIs DEF Calm
<1> QED
  BY <1>1, <1>2, <1>3, CalmKeeps

\* What all files drop.
AllDropped(s) == UNION {Range(Dropped(s.versions[i])) : i \in DOMAIN s.versions}

LEMMA DroppedIs ==
  ASSUME NEW s, IsStore(s)
  PROVE  /\ EachFile(s, Dropped) \in Seq(AllDropped(s))
         /\ EachFile(s, DroppedOnDisk) \in Seq({v \in AllDropped(s) : v.at # NoSlot})
         /\ \A i \in DOMAIN s.versions : \E q :
              IsPart(s.versions[i], Dropped(s.versions[i]), Remaining(s.versions[i]), q)
         /\ \A v \in AllDropped(s) : \E i \in DOMAIN s.versions :
              \E k \in DOMAIN Dropped(s.versions[i]) : v = Dropped(s.versions[i])[k]
<1>1. \A i \in DOMAIN s.versions : IsVersions(s.versions[i])
  BY DEF IsStore, IsMemory
<1>2. ASSUME NEW i \in DOMAIN s.versions
      PROVE  Dropped(s.versions[i]) \in Seq(AllDropped(s))
  <2>1. Dropped(s.versions[i]) \in Seq(Range(Dropped(s.versions[i])))
    BY <1>1, GcSplits
  <2>2. Range(Dropped(s.versions[i])) \subseteq AllDropped(s)
    BY DEF AllDropped
  <2> QED
    BY <2>1, <2>2
<1>3. IsFiniteSet(DOMAIN s.versions)
  BY DEF IsStore, IsMemory
<1>4. /\ EachFile(s, Dropped) \in Seq(AllDropped(s))
      /\ EachFile(s, DroppedOnDisk) \in Seq({v \in AllDropped(s) : v.at # NoSlot})
  BY <1>2, <1>3, EachFileIs
<1>5. \A v \in AllDropped(s) : \E i \in DOMAIN s.versions :
        \E k \in DOMAIN Dropped(s.versions[i]) : v = Dropped(s.versions[i])[k]
  BY DEF AllDropped, Range
<1> QED
  BY <1>1, <1>4, <1>5, GcSplits

LEMMA MaybeGcIs ==
  ASSUME NEW s, IsStore(s), NEW ws, IsWrites(ws), Held(s, ws)
  PROVE  LET g == maybe_gc_snapshots(s)
         IN  IsStore(g.state) /\ IsWrites(g.writes) /\ Held(g.state, ws \o g.writes)
<1> DEFINE g == maybe_gc_snapshots(s)
           freed == EachFile(s, DroppedOnDisk)
           kept == [s EXCEPT !.versions = [i \in DOMAIN @ |-> Remaining(@[i])]]
           t == Freed(kept, freed)
           zs == [k \in DOMAIN freed |-> Write("snap", freed[k].at, NoSnap)]
           Part(i, q) == IsPart(s.versions[i], Dropped(s.versions[i]), Remaining(s.versions[i]), q)
           Q(i) == CHOOSE q : Part(i, q)
<1>1. CASE g = [state |-> s, writes |-> <<>>]
  <2>1. Held(s, ws \o <<>>)
    BY HeldMore, NoWrites DEF IsOther
  <2> QED
    BY <1>1, <2>1, NoWrites DEF IsOther
<1>2. CASE g = [state |-> t, writes |-> zs]
  <2>1. \A i \in DOMAIN s.versions : Part(i, Q(i))
    BY DroppedIs, Zenon
  <2> HIDE DEF Q
  <2>2. /\ Shape(kept) /\ kept.snap = s.snap /\ kept.next_id = s.next_id
        /\ DOMAIN kept.versions = DOMAIN s.versions
        /\ kept.versions = [i \in DOMAIN kept.versions |-> kept.versions[i]]
        /\ \A i \in DOMAIN s.versions : kept.versions[i] = Remaining(s.versions[i])
    BY DEF IsStore, IsDisk, Shape
  <2>3. IsStore(kept)
    <3> HIDE DEF kept
    <3>1. \A i \in DOMAIN kept.versions : IsVersions(kept.versions[i])
      BY <2>2, GcSplits DEF IsStore, IsMemory
    <3>2. IsDisk(kept)
      BY <2>2 DEF IsStore, IsDisk
    <3>3. IsMemory(kept)
      BY <2>2, <3>1 DEF IsStore, IsMemory
    <3> QED
      BY <3>2, <3>3 DEF IsStore
  <2>4. Calm(kept, t)
    BY <2>2, FreedIs
  <2> HIDE DEF kept, freed, t
  <2>5. /\ freed \in Seq({v \in AllDropped(s) : v.at # NoSlot})
        /\ Len(freed) \in Nat /\ DOMAIN freed = 1 .. Len(freed)
        /\ \A k \in DOMAIN freed : freed[k] \in AllDropped(s) /\ freed[k].at # NoSlot
    <3> DEFINE B == {v \in AllDropped(s) : v.at # NoSlot}
    <3>1. freed \in Seq(B)
      BY DroppedIs DEF freed
    <3>2. \A v \in B : v \in AllDropped(s) /\ v.at # NoSlot
      OBVIOUS
    <3> HIDE DEF B
    <3>3. /\ Len(freed) \in Nat /\ DOMAIN freed = 1 .. Len(freed)
          /\ \A k \in DOMAIN freed : freed[k] \in B
      BY <3>1, OfItsRange
    <3> QED
      BY <3>1, <3>2, <3>3 DEF B
  <2>6. ASSUME NEW k \in DOMAIN freed
        PROVE  \E j, m : /\ Has(s, j, m) /\ freed[k] = s.versions[j][m]
                         /\ \A r \in DOMAIN kept.versions[j] : Q(j)[r] # m
    <3>1. PICK j \in DOMAIN s.versions : \E x \in DOMAIN Dropped(s.versions[j]) :
                                           freed[k] = Dropped(s.versions[j])[x]
      BY <2>5, DroppedIs
    <3> DEFINE old == s.versions[j]
               dropped == Dropped(old)
               rest == Remaining(old)
               q == Q(j)
    <3> HIDE DEF old, dropped, rest, q
    <3>2. IsPart(old, dropped, rest, q)
      BY <2>1 DEF old, dropped, rest, q
    <3>3. PICK x \in DOMAIN dropped : freed[k] = dropped[x]
      BY <3>1 DEF old, dropped
    <3>4. \E m \in DOMAIN old : dropped[x] = old[m] /\ \A r \in DOMAIN rest : q[r] # m
      BY <3>2, Zenon DEF IsPart
    <3>5. PICK m \in DOMAIN s.versions[j] :
            freed[k] = s.versions[j][m] /\ \A r \in DOMAIN Remaining(s.versions[j]) : Q(j)[r] # m
      BY <3>3, <3>4 DEF old, rest, q
    <3>6. Has(s, j, m)
      BY <2>5, <3>5 DEF Has
    <3> QED
      BY <2>2, <3>5, <3>6
  <2>7. Embeds(s, kept)
    <3>1. ASSUME NEW i \in DOMAIN s.versions
          PROVE  /\ \A n : Has(kept, i, n) => /\ Has(s, i, Q(i)[n])
                                              /\ kept.versions[i][n] = s.versions[i][Q(i)[n]]
                 /\ \A n, m : Has(kept, i, n) /\ Has(kept, i, m) /\ Q(i)[n] = Q(i)[m] => n = m
      BY <2>1, <2>2 DEF IsPart, Has
    <3>2. \A i : i \notin DOMAIN s.versions => \A n : ~Has(kept, i, n)
      BY <2>2 DEF Has
    <3> QED
      BY <3>1, <3>2 DEF Embeds
  <2>8. Held(kept, ws)
    BY <2>2, <2>7, EmbedKeeps
  <2>9. IsWrites(zs)
    <3>1. ASSUME NEW k \in DOMAIN freed PROVE IsWrite(zs[k])
      <4>1. freed[k].at \in SnapSlot
        BY <2>6, HasIs
      <4>2. IsRecord(NoSnap)
        BY DEF IsRecord, NoSnap
      <4> QED
        BY <4>1, <4>2, SnapWriteIs
    <3>2. zs \in Seq(Range(zs)) /\ DOMAIN zs = DOMAIN freed
      BY <2>5 DEF Range
    <3> HIDE DEF zs
    <3> QED
      BY <3>1, <3>2 DEF IsWrites
  <2>10. ASSUME NEW i, NEW n, Has(kept, i, n), NEW k \in DOMAIN zs
         PROVE  ~Sets(zs[k], kept.versions[i][n].at)
    <3>1. PICK j, m : /\ Has(s, j, m) /\ freed[k] = s.versions[j][m]
                      /\ \A r \in DOMAIN kept.versions[j] : Q(j)[r] # m
      BY <2>6
    <3>2. /\ Has(s, i, Q(i)[n]) /\ kept.versions[i][n] = s.versions[i][Q(i)[n]]
          /\ n \in DOMAIN kept.versions[i]
      BY <2>1, <2>2, <2>10 DEF IsPart, Has
    <3>3. kept.versions[i][n].at # freed[k].at
      BY <3>1, <3>2 DEF Held, Apart
    <3>4. zs[k].at = freed[k].at
      BY DEF Write
    <3> QED
      BY <3>3, <3>4 DEF Sets
  <2> HIDE DEF zs
  <2>11. Held(kept, ws \o zs)
    BY <2>8, <2>9, <2>10, HeldMore
  <2>12. IsStore(t) /\ Held(t, ws \o zs)
    BY <2>3, <2>4, <2>11, CalmKeeps DEF Calm, Held, InPlace, Apart, Has
  <2> QED
    BY <1>2, <2>9, <2>12
<1> QED
  BY <1>1, <1>2, Zenon DEF maybe_gc_snapshots

-----------------------------------------------------------------------------
(***************************************************************************)
(* A snapshot before a write.                                              *)
(***************************************************************************)
\* In memory: the version has no slot yet, and the oldest may be dropped.
LEMMA SnapshotIs ==
  ASSUME NEW s, IsStore(s), Held(s, <<>>), NEW i, NEW size
  PROVE  LET t == snapshot(s, i, size)
         IN  IsStore(t) /\ Held(t, <<>>)
<1> DEFINE v == [id |-> s.next_id, offset |-> s.files[i].offset, size |-> size, at |-> NoSlot]
           vs == VersionsOf(s, i)
           all == Append(vs, v)
           kept == IF Len(all) > MaxPerFile THEN Tail(all) ELSE all
           d == IF Len(all) > MaxPerFile THEN 1 ELSE 0
           t == [s EXCEPT !.next_id = @ + 1, !.versions = With(@, i, kept)]
           q == [n \in Nat |-> n + d]
           p == [n \in Nat |-> n]
<1>1. CASE snapshot(s, i, size) = s
  BY <1>1
<1>2. CASE snapshot(s, i, size) = t
  <2>1. IsVersion(v) /\ v.at = NoSlot
    BY DEF IsVersion, IsStore, IsMemory
  <2> HIDE DEF v
  <2>2. IsVersions(vs) /\ Len(vs) \in Nat /\ DOMAIN vs = 1 .. Len(vs)
    <3>1. CASE i \in DOMAIN s.versions
      BY <3>1 DEF VersionsOf, IsStore, IsMemory, IsVersions
    <3>2. CASE i \notin DOMAIN s.versions
      BY <3>2 DEF VersionsOf, IsVersions, Range
    <3> QED
      BY <3>1, <3>2
  <2>3. \A n \in DOMAIN vs : i \in DOMAIN s.versions /\ vs = s.versions[i]
    BY DEF VersionsOf
  <2> HIDE DEF vs
  <2>4. /\ all \in Seq(Range(vs) \cup {v}) /\ Len(all) = Len(vs) + 1
        /\ DOMAIN all = 1 .. (Len(vs) + 1)
        /\ \A n \in 1 .. Len(vs) : all[n] = vs[n]
        /\ all[Len(vs) + 1] = v
    <3>1. vs \in Seq(Range(vs) \cup {v})
      BY <2>2 DEF IsVersions
    <3> QED
      BY <2>2, <3>1
  <2> HIDE DEF all
  <2>5. /\ kept \in Seq(Range(vs) \cup {v}) /\ Len(kept) = Len(vs) + 1 - d
        /\ DOMAIN kept = 1 .. (Len(vs) + 1 - d)
        /\ \A n \in DOMAIN kept : n + d \in DOMAIN all /\ kept[n] = all[n + d]
    BY <2>2, <2>4
  <2>6. d \in {0, 1}
    OBVIOUS
  <2> HIDE DEF kept, d
  <2>7. \A n \in DOMAIN kept : \/ n + d \in DOMAIN vs /\ kept[n] = vs[n + d]
                               \/ kept[n] = v
    BY <2>2, <2>4, <2>5, <2>6
  <2>8. IsVersions(kept)
    <3>1. kept \in Seq(Range(kept))
      BY <2>5, OfItsRange
    <3> QED
      BY <2>1, <2>2, <2>7, <3>1 DEF IsVersions
  <2>9. /\ Shape(t) /\ t.snap = s.snap /\ t.next_id = s.next_id + 1
        /\ t.versions = With(s.versions, i, kept)
    BY DEF IsStore, IsDisk, Shape
  <2> HIDE DEF t
  <2>10. /\ DOMAIN t.versions = DOMAIN s.versions \cup {i}
         /\ t.versions = [j \in DOMAIN t.versions |-> t.versions[j]]
         /\ \A j \in DOMAIN t.versions : t.versions[j] = IF j = i THEN kept ELSE s.versions[j]
    BY <2>9 DEF With
  <2>11. IsStore(t)
    <3>1. IsFiniteSet(DOMAIN t.versions)
      BY <2>10, FS_AddElement DEF IsStore, IsMemory
    <3>2. \A j \in DOMAIN t.versions : IsVersions(t.versions[j])
      BY <2>8, <2>10 DEF IsStore, IsMemory
    <3>3. t.next_id \in Nat
      BY <2>9 DEF IsStore, IsMemory
    <3> QED
      BY <2>9, <2>10, <3>1, <3>2, <3>3 DEF IsStore, IsDisk, IsMemory
  <2>12. Embeds(s, t)
    <3>1. ASSUME NEW n, Has(t, i, n)
          PROVE  n \in Nat /\ Has(s, i, q[n]) /\ t.versions[i][n] = s.versions[i][q[n]]
      <4>1. n \in DOMAIN kept /\ kept[n] = t.versions[i][n] /\ kept[n].at # NoSlot /\ n \in Nat
        BY <2>2, <2>5, <2>6, <2>10, <3>1 DEF Has
      <4>2. n + d \in DOMAIN vs /\ kept[n] = vs[n + d] /\ q[n] = n + d
        BY <2>1, <2>7, <4>1
      <4> HIDE DEF q
      <4> QED
        BY <2>3, <4>1, <4>2 DEF Has
    <3>2. \A n, m : Has(t, i, n) /\ Has(t, i, m) /\ q[n] = q[m] => n = m
      BY <2>6, <3>1
    <3>3. ASSUME NEW j, j # i
          PROVE  \A n : Has(t, j, n) => Has(s, j, n) /\ t.versions[j][n] = s.versions[j][n]
      BY <2>10, <3>3 DEF Has
    <3>4. ASSUME NEW j, j # i, NEW n, Has(t, j, n) PROVE n \in Nat
      BY <2>10, <2>11, <3>4 DEF Has, IsStore, IsMemory, IsVersions
    <3>5. ASSUME NEW j, j # i
          PROVE  /\ \A n : Has(t, j, n) => Has(s, j, p[n]) /\ t.versions[j][n] = s.versions[j][p[n]]
                 /\ \A n, m : Has(t, j, n) /\ Has(t, j, m) /\ p[n] = p[m] => n = m
      BY <3>3, <3>4, <3>5
    <3> HIDE DEF q, p
    <3>6. ASSUME NEW j
          PROVE  \E f : /\ \A n : Has(t, j, n) => /\ Has(s, j, f[n])
                                                  /\ t.versions[j][n] = s.versions[j][f[n]]
                        /\ \A n, m : Has(t, j, n) /\ Has(t, j, m) /\ f[n] = f[m] => n = m
      <4>1. CASE j = i
        BY <3>1, <3>2, <4>1
      <4>2. CASE j # i
        BY <3>5, <4>2
      <4> QED
        BY <4>1, <4>2
    <3> QED
      BY <3>6 DEF Embeds
  <2> QED
    BY <1>2, <2>9, <2>11, <2>12, EmbedKeeps DEF t
<1> QED
  BY <1>1, <1>2, Zenon DEF snapshot

\* On disk too: the slot it gets was free.
LEMMA VersionedIs ==
  ASSUME NEW s, IsStore(s), Held(s, <<>>), NEW i, NEW size
  PROVE  LET v == Versioned(s, i, size)
         IN  IsStore(v.state) /\ IsWrites(v.writes) /\ Held(v.state, v.writes)
<1> DEFINE t == snapshot(s, i, size)
           vs == VersionsOf(t, i)
           F == FreeSnapSlots(t, i)
           slot == CHOOSE k \in F : \A m \in F : k <= m
           id == IF vs = <<>> THEN 1 ELSE Last(vs).id
           r == [ino |-> i, id |-> id, offset |-> s.files[i].offset, size |-> size, used |-> TRUE]
           w == Write("snap", slot, r)
           u == [t EXCEPT !.versions[i][Len(vs)].at = slot]
           v == Versioned(s, i, size)
<1>1. IsStore(t) /\ Held(t, <<>>)
  BY SnapshotIs
<1>2. v = IF F = {} THEN [state |-> t, writes |-> <<>>]
          ELSE [state |-> IF vs = <<>> THEN t ELSE u, writes |-> <<w>>]
  BY DEF Versioned, write_snapshot
<1> HIDE DEF t, v
<1>3. CASE F = {}
  BY <1>1, <1>2, <1>3, NoWrites DEF IsOther, v
<1>4. CASE F # {}
  <2>1. slot \in SnapSlot /\ ~t.snap[slot].used
    <3>1. F \in SUBSET Nat /\ F # {} /\ \A k \in F : k \in SnapSlot /\ ~t.snap[k].used
      BY <1>4, StoreAssumption DEF FreeSnapSlots
    <3>2. \E k \in F : \A m \in F : k <= m
      BY <3>1, Least
    <3>3. slot \in F
      BY <3>2, Zenon
    <3> QED
      BY <3>1, <3>3
  <2> HIDE DEF slot, F
  <2>2. \A j, n : Has(t, j, n) => t.versions[j][n].at # slot
    BY <1>1, <2>1 DEF Held, InPlace, Holds, IsRecordOf
  <2>3. /\ IsVersions(vs) /\ Len(vs) \in Nat /\ DOMAIN vs = 1 .. Len(vs)
        /\ vs # <<>> => /\ i \in DOMAIN t.versions /\ t.versions[i] = vs
                        /\ Len(vs) \in DOMAIN vs /\ Last(vs) = vs[Len(vs)]
    <3>1. CASE i \in DOMAIN t.versions
      <4>1. vs = t.versions[i] /\ IsVersions(vs)
        BY <1>1, <3>1 DEF VersionsOf, IsStore, IsMemory
      <4> HIDE DEF vs
      <4>2. Len(vs) \in Nat /\ DOMAIN vs = 1 .. Len(vs) /\ (vs # <<>> => Len(vs) >= 1)
        BY <4>1 DEF IsVersions
      <4> QED
        BY <3>1, <4>1, <4>2 DEF Last
    <3>2. CASE i \notin DOMAIN t.versions
      BY <3>2 DEF VersionsOf, IsVersions, Range
    <3> QED
      BY <3>1, <3>2
  <2> HIDE DEF vs
  <2>4. id \in Nat
    BY <2>3 DEF IsVersions, IsVersion
  <2>5. IsRecord(r) /\ IsRecordOf(r, i, id)
    BY <2>4 DEF IsRecord, IsRecordOf
  <2> HIDE DEF id, r
  <2>6. IsWrites(<<w>>) /\ w.to = "snap" /\ w.at = slot /\ w.what = r
    BY <2>1, <2>5, SnapWriteIs, OneWrite
  <2> HIDE DEF w
  <2>7. ASSUME NEW j, NEW n, Has(t, j, n)
        PROVE  Holds(t.snap, <<w>>, t.versions[j][n].at, j, t.versions[j][n].id)
    <3>1. \A k \in DOMAIN <<w>> : ~Sets(<<w>>[k], t.versions[j][n].at)
      BY <2>2, <2>6, <2>7 DEF Sets
    <3>2. IsRecordOf(t.snap[t.versions[j][n].at], j, t.versions[j][n].id)
      BY <1>1, <2>7 DEF Held, InPlace, Holds
    <3> QED
      BY <3>1, <3>2 DEF Holds
  <2>8. CASE vs = <<>>
    <3>1. Held(t, <<w>>)
      BY <1>1, <2>7 DEF Held, InPlace
    <3> QED
      BY <1>1, <1>2, <1>4, <2>6, <2>8, <3>1 DEF v
  <2>9. CASE vs # <<>>
    <3> DEFINE l == Len(vs)
               ws == [vs EXCEPT ![l].at = slot]
    <3>1. /\ Shape(u) /\ u.snap = t.snap /\ u.next_id = t.next_id
          /\ u.versions = [t.versions EXCEPT ![i] = ws]
      BY <1>1, <2>3, <2>9 DEF IsStore, IsDisk, Shape
    <3> HIDE DEF u
    <3>2. /\ DOMAIN ws = DOMAIN vs /\ l \in DOMAIN vs
          /\ \A n \in DOMAIN vs : n # l => ws[n] = vs[n]
          /\ ws[l] = [vs[l] EXCEPT !.at = slot]
      BY <2>3, <2>9
    <3>3. IsVersion(ws[l]) /\ ws[l].at = slot /\ ws[l].id = vs[l].id
      BY <2>1, <2>3, <3>2 DEF IsVersions, IsVersion
    <3>4. IsVersions(ws)
      <4>1. ws \in [1 .. l -> Range(ws)]
        BY <2>3 DEF Range
      <4>2. ws \in Seq(Range(ws))
        <5> HIDE DEF ws
        <5> QED
          BY <2>3, <4>1
      <4> HIDE DEF ws
      <4> QED
        BY <2>3, <3>2, <3>3, <4>2 DEF IsVersions
    <3> HIDE DEF ws
    <3>5. /\ DOMAIN u.versions = DOMAIN t.versions
          /\ u.versions = [j \in DOMAIN u.versions |-> u.versions[j]]
          /\ \A j \in DOMAIN t.versions : u.versions[j] = IF j = i THEN ws ELSE t.versions[j]
      BY <1>1, <3>1 DEF IsStore, IsMemory
    <3>6. IsStore(u)
      BY <1>1, <3>1, <3>4, <3>5 DEF IsStore, IsDisk, IsMemory
    <3>7. \A j, n : Has(u, j, n) =>
            \/ j = i /\ n = l /\ u.versions[j][n].at = slot /\ u.versions[j][n].id = vs[l].id
            \/ (j # i \/ n # l) /\ Has(t, j, n) /\ u.versions[j][n] = t.versions[j][n]
      BY <2>3, <2>9, <3>2, <3>3, <3>5 DEF Has
    <3>8. Holds(u.snap, <<w>>, slot, i, vs[l].id)
      <4>1. id = vs[l].id
        BY <2>3, <2>9 DEF id
      <4>2. Sets(<<w>>[1], slot) /\ IsRecordOf(<<w>>[1].what, i, vs[l].id) /\ 1 \in DOMAIN <<w>>
        BY <2>5, <2>6, <4>1 DEF Sets
      <4>3. \A m \in DOMAIN <<w>> : m > 1 => ~Sets(<<w>>[m], slot)
        OBVIOUS
      <4> QED
        BY <4>2, <4>3 DEF Holds
    <3>9. InPlace(u, <<w>>)
      BY <2>7, <3>1, <3>7, <3>8 DEF InPlace
    <3>10. Apart(u)
      BY <1>1, <2>2, <3>7 DEF Apart, Held
    <3> QED
      BY <1>2, <1>4, <2>6, <2>9, <3>6, <3>9, <3>10 DEF Held, v, u
  <2> QED
    BY <2>8, <2>9
<1> QED
  BY <1>3, <1>4

\* A write or a setattr: its snapshot, and GC.
LEMMA OverwrittenIs ==
  ASSUME NEW s, IsStore(s), Held(s, <<>>), NEW i, NEW old, NEW size,
         NEW keep \in BOOLEAN
  PROVE  LET r == Overwritten(s, i, old, size, keep)
         IN  IsStore(r.state) /\ IsWrites(r.writes) /\ Held(r.state, r.writes)
<1> DEFINE v == IF keep THEN Versioned(s, i, old) ELSE [state |-> s, writes |-> <<>>]
           g == IF keep THEN maybe_gc_snapshots(v.state) ELSE v
           more == IF keep THEN g.writes ELSE <<>>
           t == [g.state EXCEPT !.files[i].size = size]
           r == Overwritten(s, i, old, size, keep)
<1>1. IsStore(v.state) /\ IsWrites(v.writes) /\ Held(v.state, v.writes)
  BY VersionedIs, NoWrites DEF IsOther
<1>2. /\ IsStore(g.state) /\ IsWrites(more) /\ Held(g.state, v.writes \o more)
  <2>1. CASE keep
    <3> HIDE DEF v
    <3> QED
      BY <1>1, <2>1, MaybeGcIs
  <2>2. CASE ~keep
    <3>1. IsStore(s) /\ IsWrites(<<>>) /\ <<>> \o <<>> = <<>>
      BY NoWrites DEF IsOther
    <3> QED
      BY <2>2, <3>1
  <2> QED
    BY <2>1, <2>2
<1>3. r.state = t /\ r.writes = v.writes \o more
  BY DEF Overwritten
<1> HIDE DEF v, g, more
<1>4. Calm(g.state, t)
  BY <1>2 DEF Calm, Shape, IsStore, IsDisk
<1> HIDE DEF t
<1>5. IsStore(t) /\ Held(t, v.writes \o more)
  BY <1>2, <1>4, CalmKeeps DEF Calm, Held, InPlace, Apart, Has
<1>6. IsWrites(v.writes \o more)
  BY <1>1, <1>2, ConcatIs
<1> HIDE DEF r
<1> QED
  BY <1>3, <1>5, <1>6 DEF r

-----------------------------------------------------------------------------
(***************************************************************************)
(* A mount, and the commands between mounts.                               *)
(***************************************************************************)
LEMMA MaxOfIs ==
  ASSUME NEW S \in SUBSET Nat, IsFiniteSet(S)
  PROVE  MaxOf(S) \in Nat
<1>1. CASE S = {}
  BY <1>1 DEF MaxOf
<1>2. CASE S # {}
  <2>1. \E m \in S : \A x \in S : x <= m
    BY <1>2, Greatest
  <2>2. MaxOf(S) \in S
    BY <1>2, <2>1, Zenon DEF MaxOf
  <2> QED
    BY <2>2
<1> QED
  BY <1>1, <1>2

\* What a mount makes of the table: each used slot is one version's.
LEMMA LoadIs ==
  ASSUME NEW s, IsDisk(s)
  PROVE  LET t == load(s)
         IN  /\ IsStore(t) /\ Held(t, <<>>)
             /\ \A i \in DOMAIN t.versions : \A n \in DOMAIN t.versions[i] : Has(t, i, n)
<1> DEFINE o == open(s)
           at(i) == MaxOf({k \in Used(o) : o.inode[k].ino = i})
           inos == {o.inode[k].ino : k \in Used(o)}
           snaps == {k \in SnapSlot : o.snap[k].used}
           Of(i) == InOrder({k \in snaps : o.snap[k].ino = i})
           F == [i \in inos |-> [slot |-> at(i), size |-> o.inode[at(i)].size,
                                 offset |-> o.inode[at(i)].offset, len |-> o.inode[at(i)].len]]
           N == MaxOf(inos \cup {1}) + 1
           V == [i \in {o.snap[k].ino : k \in snaps} |->
                  [n \in DOMAIN Of(i) |->
                     [id |-> o.snap[Of(i)[n]].id, offset |-> o.snap[Of(i)[n]].offset,
                      size |-> o.snap[Of(i)[n]].size, at |-> Of(i)[n]]]]
           D == MaxOf({o.snap[k].id : k \in snaps}) + 1
           t == [o EXCEPT !.files = F, !.next_inode = N, !.versions = V, !.next_id = D]
<1>1. load(s) = t
  BY DEF load
<1>2. Shape(o) /\ o.snap = s.snap
  BY DEF open, IsDisk, Shape
<1> HIDE DEF F, N, o
<1>3. snaps \in SUBSET SnapSlot /\ snaps \in SUBSET Nat /\ IsFiniteSet(snaps)
  BY FS_Subset, StoreAssumption
<1>4. \A k \in snaps : IsRecord(o.snap[k]) /\ o.snap[k].used
  BY <1>2 DEF IsDisk, IsTable
<1> HIDE DEF snaps
<1>5. D \in Nat
  <2> DEFINE ids == {o.snap[k].id : k \in snaps}
  <2>1. ids \in SUBSET Nat
    BY <1>4 DEF IsRecord
  <2>2. IsFiniteSet(ids)
    <3> DEFINE f == [k \in snaps |-> o.snap[k].id]
    <3>1. IsFiniteSet({f[k] : k \in snaps})
      <4> HIDE DEF f
      <4> QED
        BY <1>3, ValuesAre
    <3>2. {f[k] : k \in snaps} = ids
      OBVIOUS
    <3> HIDE DEF f, ids
    <3> QED
      BY <3>1, <3>2
  <2> HIDE DEF ids
  <2>3. MaxOf(ids) \in Nat
    BY <2>1, <2>2, MaxOfIs
  <2> QED
    BY <2>3 DEF ids
<1> DEFINE S(i) == {k \in snaps : o.snap[k].ino = i}
           c(i) == Cardinality(S(i))
<1>6. ASSUME NEW i
      PROVE  /\ c(i) \in Nat /\ DOMAIN Of(i) = 1 .. c(i)
             /\ \A n \in 1 .. c(i) : Of(i)[n] \in S(i)
             /\ \A n, m \in 1 .. c(i) : Of(i)[n] = Of(i)[m] => n = m
  <2>1. S(i) \in SUBSET Nat /\ IsFiniteSet(S(i))
    BY <1>3, FS_Subset
  <2>2. /\ c(i) \in Nat /\ InOrder(S(i)) \in [1 .. c(i) -> S(i)]
        /\ \A n, m \in 1 .. c(i) : InOrder(S(i))[n] = InOrder(S(i))[m] => n = m
    <3> HIDE DEF S
    <3> QED
      BY <2>1, InOrderIs
  <2>3. Of(i) = InOrder(S(i))
    OBVIOUS
  <2> HIDE DEF c, S, Of
  <2> QED
    BY <2>2, <2>3
<1>7. \A i, k : k \in S(i) => k \in snaps /\ o.snap[k].ino = i
  OBVIOUS
<1> HIDE DEF D, Of, c, S
<1> DEFINE I == {o.snap[k].ino : k \in snaps}
           W(i, n) == [id |-> o.snap[Of(i)[n]].id, offset |-> o.snap[Of(i)[n]].offset,
                       size |-> o.snap[Of(i)[n]].size, at |-> Of(i)[n]]
<1>8. IsFiniteSet(I)
  <2> DEFINE f == [k \in snaps |-> o.snap[k].ino]
  <2>1. IsFiniteSet({f[k] : k \in snaps})
    <3> HIDE DEF f
    <3> QED
      BY <1>3, ValuesAre
  <2>2. {f[k] : k \in snaps} = I
    OBVIOUS
  <2> HIDE DEF f, I
  <2> QED
    BY <2>1, <2>2
<1>9. V = [i \in I |-> [n \in 1 .. c(i) |-> W(i, n)]]
  <2>1. V = [i \in I |-> [n \in DOMAIN Of(i) |-> W(i, n)]]
    OBVIOUS
  <2> HIDE DEF V, I, W
  <2> QED
    BY <1>6, <2>1
<1>10. Shape(t) /\ t.snap = o.snap /\ t.versions = V /\ t.next_id = D
  <2> HIDE DEF V
  <2> QED
    BY <1>2 DEF Shape
<1> HIDE DEF t, V, I
<1>11. ASSUME NEW i \in I, NEW n \in 1 .. c(i)
       PROVE  /\ V[i][n] = W(i, n) /\ V[i][n].at = Of(i)[n]
              /\ Of(i)[n] \in snaps /\ Of(i)[n] \in SnapSlot
              /\ IsVersion(V[i][n])
              /\ IsRecordOf(o.snap[Of(i)[n]], i, V[i][n].id)
  <2>1. Of(i)[n] \in snaps /\ Of(i)[n] \in SnapSlot /\ o.snap[Of(i)[n]].ino = i
    BY <1>3, <1>6, <1>7
  <2>2. IsRecord(o.snap[Of(i)[n]]) /\ o.snap[Of(i)[n]].used
    BY <1>4, <2>1
  <2>3. V[i][n] = W(i, n)
    <3> HIDE DEF W
    <3> QED
      BY <1>9
  <2>4. IsVersion(W(i, n)) /\ W(i, n).at = Of(i)[n] /\ W(i, n).id = o.snap[Of(i)[n]].id
    BY <2>1, <2>2 DEF IsVersion, IsRecord
  <2> HIDE DEF W
  <2> QED
    BY <2>1, <2>2, <2>3, <2>4 DEF IsRecordOf
<1>12. /\ DOMAIN V = I /\ V = [i \in DOMAIN V |-> V[i]]
       /\ \A i \in I : DOMAIN V[i] = 1 .. c(i) /\ V[i] = [n \in 1 .. c(i) |-> V[i][n]]
  <2> HIDE DEF W
  <2> QED
    BY <1>9
<1> HIDE DEF W
<1>13. ASSUME NEW i \in I PROVE IsVersions(V[i])
  <2>1. V[i] \in [1 .. c(i) -> Range(V[i])]
    BY <1>12 DEF Range
  <2>2. V[i] \in Seq(Range(V[i]))
    <3> DEFINE B == Range(V[i])
    <3> HIDE DEF B
    <3> QED
      BY <1>6, <2>1 DEF B
  <2> QED
    BY <1>11, <1>12, <2>2 DEF IsVersions
<1>14. IsStore(t)
  BY <1>2, <1>5, <1>8, <1>10, <1>12, <1>13 DEF IsStore, IsDisk, IsMemory
<1>15. NoSlot \notin SnapSlot
  BY StoreAssumption DEF NoSlot
<1>16. \A i, n : Has(t, i, n) <=> i \in I /\ n \in 1 .. c(i)
  <2>1. ASSUME NEW i, NEW n, Has(t, i, n) PROVE i \in I /\ n \in 1 .. c(i)
    <3>1. i \in DOMAIN V /\ n \in DOMAIN V[i]
      BY <1>10, <2>1 DEF Has
    <3> QED
      BY <1>12, <3>1
  <2>2. ASSUME NEW i \in I, NEW n \in 1 .. c(i) PROVE Has(t, i, n)
    <3>1. i \in DOMAIN V /\ n \in DOMAIN V[i]
      BY <1>12
    <3>2. V[i][n].at # NoSlot
      BY <1>11, <1>15
    <3> QED
      BY <1>10, <3>1, <3>2 DEF Has
  <2> QED
    BY <2>1, <2>2
<1>17. InPlace(t, <<>>)
  BY <1>10, <1>11, <1>16 DEF InPlace, Holds
<1>18. Apart(t)
  <2> SUFFICES ASSUME NEW i \in I, NEW n \in 1 .. c(i), NEW j \in I, NEW m \in 1 .. c(j),
                      Of(i)[n] = Of(j)[m]
               PROVE  i = j /\ n = m
    BY <1>10, <1>11, <1>16 DEF Apart
  <2>1. i = j
    BY <1>6, <1>7
  <2> QED
    BY <1>6, <2>1
<1>19. \A i \in DOMAIN t.versions : \A n \in DOMAIN t.versions[i] : Has(t, i, n)
  BY <1>10, <1>12, <1>16
<1> QED
  BY <1>1, <1>14, <1>17, <1>18, <1>19 DEF Held, t

\* What is left in memory when nothing is mounted.
LEMMA ClosedIs ==
  ASSUME NEW s, IsDisk(s)
  PROVE  IsStore(Closed(s)) /\ \A ws : Held(Closed(s), ws)
<1> DEFINE t == Closed(s)
<1>1. Shape(t) /\ t.snap = s.snap /\ t.versions = <<>> /\ t.next_id = 1
  BY DEF Closed, IsDisk, Shape
<1> HIDE DEF t
<1>2. DOMAIN t.versions = {} /\ t.versions = [i \in DOMAIN t.versions |-> t.versions[i]]
  BY <1>1
<1>3. IsStore(t)
  BY <1>1, <1>2, FS_EmptySet DEF IsStore, IsDisk, IsMemory
<1>4. \A i, n : ~Has(t, i, n)
  BY <1>2 DEF Has
<1> QED
  BY <1>3, <1>4 DEF Held, InPlace, Apart, t

\* The command's GC: of what was just read, all is on disk.
LEMMA SnapGcIs ==
  ASSUME NEW s, IsStore(s),
         \A i \in DOMAIN s.versions : \A n \in DOMAIN s.versions[i] : Has(s, i, n)
  PROVE  LET r == snap_gc(s) IN IsRequest(r) /\ IsDisk(r.state) /\ IsWrites(r.writes)
<1> DEFINE freed == EachFile(s, Dropped)
           t == Freed(s, freed)
           zs == [k \in DOMAIN freed |->
                    Write("snap", freed[k].at, [s.snap[freed[k].at] EXCEPT !.used = FALSE])]
           d == flush_disk(t, {})
<1>1. snap_gc(s) = [state |-> t, writes |-> zs \o d]
  BY DEF snap_gc
<1>2. IsDisk(t)
  BY FreedIs, CalmKeeps DEF IsStore, IsDisk
<1>3. IsOther(d)
  BY FlushIs
<1> HIDE DEF t, d, freed
<1>4. freed \in Seq(AllDropped(s))
  BY DroppedIs DEF freed
<1>5. /\ Len(freed) \in Nat /\ DOMAIN freed = 1 .. Len(freed)
      /\ \A k \in DOMAIN freed : freed[k] \in AllDropped(s)
  BY <1>4, OfItsRange
<1>6. ASSUME NEW k \in DOMAIN freed PROVE freed[k].at \in SnapSlot
  <2>1. PICK j \in DOMAIN s.versions : \E x \in DOMAIN Dropped(s.versions[j]) :
                                         freed[k] = Dropped(s.versions[j])[x]
    BY <1>5, DroppedIs
  <2>2. PICK q : IsPart(s.versions[j], Dropped(s.versions[j]), Remaining(s.versions[j]), q)
    BY DroppedIs
  <2>3. PICK m \in DOMAIN s.versions[j] : freed[k] = s.versions[j][m]
    BY <2>1, <2>2 DEF IsPart
  <2> QED
    BY <2>3, HasIs
<1>7. ASSUME NEW k \in DOMAIN freed PROVE IsWrite(zs[k])
  <2> DEFINE r == [s.snap[freed[k].at] EXCEPT !.used = FALSE]
  <2>1. IsRecord(r)
    BY <1>6 DEF IsStore, IsDisk, IsTable, IsRecord
  <2>2. zs[k] = Write("snap", freed[k].at, r)
    OBVIOUS
  <2> HIDE DEF r, zs
  <2> QED
    BY <1>6, <2>1, <2>2, SnapWriteIs
<1>8. zs \in Seq(Range(zs)) /\ DOMAIN zs = DOMAIN freed
  <2>1. zs = [k \in 1 .. Len(freed) |-> zs[k]]
    BY <1>5
  <2> HIDE DEF zs
  <2> QED
    BY <1>5, <2>1, ListIs
<1> HIDE DEF zs
<1>9. IsWrites(zs)
  BY <1>7, <1>8 DEF IsWrites
<1>10. IsWrites(zs \o d)
  BY <1>3, <1>9, ConcatIs DEF IsOther
<1> QED
  BY <1>1, <1>2, <1>10 DEF IsRequest

-----------------------------------------------------------------------------
(***************************************************************************)
(* Every step keeps the invariant.                                         *)
(***************************************************************************)
LEMMA InitHolds == Init => IInv
<1> SUFFICES ASSUME Init PROVE IInv
  OBVIOUS
<1>1. PICK n : st = load(Image(n))
  BY DEF Init
<1>2. IsDisk(Image(n))
  <2>1. Shape(Image(n)) /\ Image(n).snap = [k \in SnapSlot |-> NoSnap]
    BY DEF Image, Shape
  <2>2. IsRecord(NoSnap)
    BY DEF IsRecord, NoSnap
  <2>3. IsTable(Image(n).snap)
    BY <2>1, <2>2 DEF IsTable, Range
  <2> QED
    BY <2>1, <2>3 DEF IsDisk
<1>3. IsStore(st) /\ Held(st, <<>>)
  BY <1>1, <1>2, LoadIs
<1>4. todo = <<>>
  BY DEF Init
<1> QED
  BY <1>3, <1>4, NoWrites DEF IInv, IsOther

LEMMA RequestHolds ==
  ASSUME NEW r, IsStore(r.state), IsWrites(r.writes), Held(r.state, r.writes), Request(r)
  PROVE  IInv'
BY DEF Request, IInv

LEMMA CalmHolds ==
  ASSUME IInv, todo = <<>>, NEW r, IsCalm(st, r), Request(r)
  PROVE  IInv'
<1> DEFINE ws == r.writes
<1>1. Calm(st, r.state) /\ IsOther(ws)
  BY DEF IsCalm
<1>2. Held(st, <<>> \o ws)
  <2>1. \A k \in DOMAIN ws : \A a : ~Sets(ws[k], a)
    BY <1>1 DEF IsOther, Sets
  <2> QED
    BY <1>1, <2>1, HeldMore, NoWrites DEF IInv, IsOther
<1>3. <<>> \o ws = ws
  <2>1. ws \in Seq(Range(ws))
    BY <1>1 DEF IsOther, IsWrites
  <2> QED
    BY <2>1
<1>4. IsStore(r.state) /\ Held(r.state, ws)
  BY <1>1, <1>2, <1>3, CalmKeeps DEF IInv, Calm, Held, InPlace, Apart, Has
<1> QED
  BY <1>1, <1>4, RequestHolds DEF IsOther

LEMMA CommandHolds ==
  ASSUME NEW r, IsRequest(r), IsDisk(r.state), IsWrites(r.writes), Command(r)
  PROVE  IInv'
<1> DEFINE q == [r EXCEPT !.state = Closed(@)]
<1>1. q.state = Closed(r.state) /\ q.writes = r.writes
  BY DEF IsRequest
<1>2. Request(q)
  BY DEF Command
<1> HIDE DEF q
<1>3. IsStore(q.state) /\ Held(q.state, q.writes)
  BY <1>1, ClosedIs
<1> QED
  BY <1>1, <1>2, <1>3, RequestHolds

LEMMA NextHolds == IInv /\ [Next]_vars => IInv'
<1> SUFFICES ASSUME IInv, [Next]_vars PROVE IInv'
  OBVIOUS
<1>1. Shape(st) /\ IsDisk(st)
  BY DEF IInv, IsStore, IsDisk
<1>2. ASSUME NEW i \in Ino, Store(i) PROVE IInv'
  <2>1. PICK len : Request(persist_to_disk(st, i, len))
    BY <1>2 DEF Store
  <2>2. todo = <<>>
    BY <1>2 DEF Store, Idle
  <2> QED
    BY <1>1, <2>1, <2>2, PersistIs, CalmHolds
<1>3. ASSUME NEW i \in Ino, Unlink(i) PROVE IInv'
  <2>1. Request(unlink(st, i)) /\ todo = <<>>
    BY <1>3 DEF Unlink, Idle
  <2> QED
    BY <1>1, <2>1, UnlinkIs, CalmHolds
<1>4. ASSUME NEW i \in Ino, Rename(i) PROVE IInv'
  <2>1. Request(rename(st, i)) /\ todo = <<>>
    BY <1>4 DEF Rename, Idle
  <2> QED
    BY <1>1, <2>1, RenameIs, CalmHolds
<1>5. ASSUME NEW i \in Ino, NEW n, Overwrite(i, n) PROVE IInv'
  <2>1. PICK old \in {0, st.files[i].size} :
          old <= n /\ Request(Overwritten(st, i, old, n, old > 0))
    BY <1>5 DEF Overwrite
  <2>2. todo = <<>>
    BY <1>5 DEF Overwrite, Idle
  <2>3. (old > 0) \in BOOLEAN
    OBVIOUS
  <2> QED
    BY <2>1, <2>2, <2>3, OverwrittenIs, RequestHolds DEF IInv
<1>6. ASSUME NEW i \in Ino, NEW n, Setattr(i, n) PROVE IInv'
  <2>1. PICK old : Request(Overwritten(st, i, old, n, TRUE))
    BY <1>6 DEF Setattr
  <2>2. todo = <<>>
    BY <1>6 DEF Setattr, Idle
  <2> QED
    BY <2>1, <2>2, OverwrittenIs, RequestHolds DEF IInv
<1>7. ASSUME Create PROVE IInv'
  <2>1. Request(create(st)) /\ todo = <<>>
    BY <1>7 DEF Create, Idle
  <2> QED
    BY <1>1, <2>1, CreateIs, CalmHolds
<1>8. ASSUME Step PROVE IInv'
  BY <1>8, StepHolds
<1>9. ASSUME Crash PROVE IInv'
  <2> DEFINE t == IF todo = <<>> THEN st ELSE Tainted(st, Head(todo).cause, Exposed)
  <2>1. st' = Closed(t) /\ todo' = <<>>
    BY <1>9 DEF Crash
  <2>2. IsDisk(t)
    BY <1>1, TaintedIs, CalmKeeps
  <2> HIDE DEF t
  <2> QED
    BY <2>1, <2>2, ClosedIs, NoWrites DEF IInv, IsOther
<1>10. ASSUME Unmount PROVE IInv'
  <2>1. st' = Closed(st) /\ todo' = todo
    BY <1>10 DEF Unmount
  <2> QED
    BY <1>1, <2>1, ClosedIs DEF IInv
<1>11. ASSUME Load PROVE IInv'
  <2>1. st' = load(st) /\ todo' = todo /\ todo = <<>>
    BY <1>11 DEF Load, Idle
  <2> QED
    BY <1>1, <2>1, LoadIs DEF IInv
<1>12. /\ IsStore(load(st))
       /\ \A i \in DOMAIN load(st).versions : \A n \in DOMAIN load(st).versions[i] :
            Has(load(st), i, n)
  BY <1>1, LoadIs
<1>13. ASSUME Fsck PROVE IInv'
  <2>1. IsCalm(load(st), fsck_repair(load(st)))
    BY <1>12, FsckIs DEF IsStore, IsDisk
  <2> QED
    BY <1>12, <1>13, <2>1, CalmKeeps, CommandHolds DEF Fsck, IsCalm, IsOther, IsStore
<1>14. ASSUME SnapGc PROVE IInv'
  BY <1>12, <1>14, SnapGcIs, CommandHolds DEF SnapGc
<1>15. ASSUME NEW k, NEW v, SnapRestore(k, v) PROVE IInv'
  <2>1. IsCalm(load(st), snap_restore(load(st), k, v))
    BY <1>12, RestoreIs DEF IsStore, IsDisk
  <2>2. Command(snap_restore(load(st), k, v))
    BY <1>15 DEF SnapRestore
  <2> QED
    BY <1>12, <2>1, <2>2, CalmKeeps, CommandHolds DEF IsCalm, IsOther, IsStore
<1>16. CASE UNCHANGED vars
  BY <1>16 DEF vars, IInv
<1> QED
  BY <1>2, <1>3, <1>4, <1>5, <1>6, <1>7, <1>8, <1>9, <1>10, <1>11, <1>13, <1>14, <1>15, <1>16
     DEF Next

\* Once its writes are done, the invariant says what is to be shown.
LEMMA HeldIsEnough == IInv => VersionsHeld
<1> SUFFICES ASSUME IInv, mode = "mounted", todo = <<>> PROVE VersionsHeld
  BY DEF VersionsHeld
<1>1. ASSUME NEW i, NEW n, Has(st, i, n)
      PROVE  IsRecordOf(st.snap[st.versions[i][n].at], i, st.versions[i][n].id)
  BY <1>1 DEF IInv, Held, InPlace, Holds
<1>2. Apart(st)
  BY DEF IInv, Held
<1>3. ASSUME NEW i \in DOMAIN st.versions, NEW n \in DOMAIN st.versions[i],
             st.versions[i][n].at # NoSlot
      PROVE  /\ IsRecordOf(st.snap[st.versions[i][n].at], i, st.versions[i][n].id)
             /\ \A j \in DOMAIN st.versions : \A m \in DOMAIN st.versions[j] :
                  st.versions[j][m].at = st.versions[i][n].at => j = i /\ m = n
  <2>1. Has(st, i, n)
    BY <1>3 DEF Has
  <2>2. ASSUME NEW j \in DOMAIN st.versions, NEW m \in DOMAIN st.versions[j],
               st.versions[j][m].at = st.versions[i][n].at
        PROVE  j = i /\ m = n
    <3>1. Has(st, j, m)
      BY <1>3, <2>2 DEF Has
    <3> QED
      BY <1>2, <2>1, <2>2, <3>1 DEF Apart
  <2> QED
    BY <1>1, <2>1, <2>2
<1> QED
  BY <1>3, Zenon DEF VersionsHeld, IsRecordOf

\* A version in memory that counts as being on disk is there, in a slot of its
\* own, whatever snapshots, GC, the cap, crashes and commands came before: what
\* GC zeroes by slot, and what a mount reads, is that version (snapshot.rs:15
\* "Which slot in the on-disk snapshot table this came from").
THEOREM VersionsKeepSlots == Spec => []VersionsHeld
<1>1. Init => IInv
  BY InitHolds
<1>2. IInv /\ [Next]_vars => IInv'
  BY NextHolds
<1>3. IInv => VersionsHeld
  BY HeldIsEnough
<1> QED
  BY <1>1, <1>2, <1>3, PTL DEF Spec

-----------------------------------------------------------------------------
(***************************************************************************)
(* What is proved of the free list.  An instance has its own copies of the *)
(* operators.                                                              *)
(***************************************************************************)
FP == INSTANCE FreeListProofs WITH Holder <- Ino, Sizes <- 1 .. MaxSize, Sector <- 1,
        extents <- st.list, next_data_offset <- st.next, held <- <<>>

\* The store's constants are such as the free list assumes.
LEMMA Assumptions == FP!ExtentsAssumption
BY StoreAssumption DEF FP!ExtentsAssumption

\* The store's copy of the list's operators and the proofs' copy are one.
LEMMA SameList ==
  /\ \A s, e : List!Freed(s, e) = FP!Freed(s, e)
  /\ \A s, i, n : List!Taken(s, i, n) = FP!Taken(s, i, n)
  /\ \A used : List!rebuild_from_inodes(used) = FP!rebuild_from_inodes(used)
<1>1. \A s, e : List!Freed(s, e) = FP!Freed(s, e)
  BY DEF List!Freed, FP!Freed, List!Capped, FP!Capped, List!merge_adjacent,
       FP!merge_adjacent, List!FoldLeft, FP!FoldLeft, List!MapThenFoldSet,
       FP!MapThenFoldSet, List!Max, FP!Max, List!ByOffset, FP!ByOffset,
       List!Rank, FP!Rank, List!Cardinality, FP!Cardinality, List!Absorb,
       FP!Absorb, List!Touches, FP!Touches, List!Joined, FP!Joined, List!End,
       FP!End, List!Last, FP!Last, List!Front, FP!Front
<1>2. \A s, i, n : List!Taken(s, i, n) = FP!Taken(s, i, n)
  BY DEF List!Taken, FP!Taken, List!WorthKeeping, FP!WorthKeeping, List!Kept, FP!Kept,
       List!RemoveAt, FP!RemoveAt
<1>3. \A f, to : List!Gap(f, to) = FP!Gap(f, to)
  BY DEF List!Gap, FP!Gap
<1>4. \A c, x : List!Past(c, x) = FP!Past(c, x)
  BY DEF List!Past, FP!Past, List!End, FP!End
<1>5. \A a, x : List!Skip(a, x) = FP!Skip(a, x)
  BY <1>1, <1>3, <1>4 DEF List!Skip, FP!Skip
<1>6. \A s : List!ByOffset(s) = FP!ByOffset(s)
  BY DEF List!ByOffset, FP!ByOffset, List!Rank, FP!Rank, List!Cardinality, FP!Cardinality
<1>7. ASSUME NEW base, NEW s
      PROVE  List!FoldLeft(List!Skip, base, s) = FP!FoldLeft(FP!Skip, base, s)
  <2> DEFINE A(f) == f = [u \in SUBSET DOMAIN s |->
                            IF u = {} THEN base
                            ELSE List!Skip(f[u \ {List!Max(u)}], s[List!Max(u)])]
             B(f) == f = [u \in SUBSET DOMAIN s |->
                            IF u = {} THEN base
                            ELSE FP!Skip(f[u \ {FP!Max(u)}], s[FP!Max(u)])]
  <2>1. List!FoldLeft(List!Skip, base, s) = (CHOOSE f : A(f))[DOMAIN s]
    BY DEF List!FoldLeft, List!MapThenFoldSet
  <2>2. FP!FoldLeft(FP!Skip, base, s) = (CHOOSE f : B(f))[DOMAIN s]
    BY DEF FP!FoldLeft, FP!MapThenFoldSet
  <2>3. \A S : List!Max(S) = FP!Max(S)
    BY DEF List!Max, FP!Max
  <2>4. \A f : A(f) <=> B(f)
    BY <1>5, <2>3
  <2> HIDE DEF A, B
  <2> QED
    BY <2>1, <2>2, <2>4
<1>8. \A used : List!rebuild_from_inodes(used) = FP!rebuild_from_inodes(used)
  BY <1>1, <1>3, <1>6, <1>7 DEF List!rebuild_from_inodes, FP!rebuild_from_inodes
<1> QED
  BY <1>1, <1>2, <1>8

\* A free list in which no two extents meet.
Neat(l) == l \in Seq(FP!Extent) /\ FP!Distinct(l)

\* An extent's sectors, as inequalities.
LEMMA SectorsAre ==
  ASSUME NEW offset \in Nat, NEW length \in Nat
  PROVE  \A x : x \in Sectors(offset, length) <=> x \in Int /\ offset <= x /\ x < offset + length
BY DEF Sectors

\* A sector is on a neat list when an extent of the list covers it.
LEMMA InListIs ==
  ASSUME NEW l, Neat(l)
  PROVE  \A x : InList(l, x) <=> x \in FP!Covered(FP!Range(l))
<1>1. \A n \in DOMAIN l : l[n].offset \in Nat /\ l[n].length \in Nat
  <2>1. \A n \in DOMAIN l : l[n] \in FP!Extent
    BY DEF Neat
  <2> QED
    BY <2>1 DEF FP!Extent
<1>2. \A n \in DOMAIN l : FP!Bytes(l[n]) = Sectors(l[n].offset, l[n].length)
  BY <1>1 DEF FP!Bytes, FP!End, Sectors
<1>3. FP!Range(l) = {l[n] : n \in DOMAIN l} /\ Range(l) = {l[n] : n \in DOMAIN l}
  BY DEF FP!Range, Range
<1>4. ASSUME NEW x
      PROVE  x \in FP!Covered(FP!Range(l)) <=> \E n \in DOMAIN l : x \in FP!Bytes(l[n])
  BY <1>3 DEF FP!Covered
<1>5. ASSUME NEW x
      PROVE  InList(l, x) <=> \E n \in DOMAIN l : x \in Sectors(l[n].offset, l[n].length)
  BY <1>3 DEF InList
<1> QED
  BY <1>2, <1>4, <1>5

\* An empty list is neat and holds nothing.
LEMMA EmptyIsNeat == Neat(<<>>) /\ \A x : ~InList(<<>>, x)
BY DEF Neat, FP!Distinct, InList, Range

\* What is freed joins a list that stays neat, and nothing else does.
LEMMA ListFreed ==
  ASSUME NEW l, Neat(l), NEW offset \in Nat, NEW length \in Nat
  PROVE  LET t == List!Freed(l, [offset |-> offset, length |-> length])
         IN  /\ Neat(t)
             /\ \A x : InList(t, x) => \/ InList(l, x)
                                       \/ offset > 0 /\ x \in Sectors(offset, length)
<1> DEFINE e == [offset |-> offset, length |-> length]
           t == List!Freed(l, e)
<1>1. CASE offset = 0 \/ length = 0
  <2>1. t = l
    BY <1>1 DEF List!Freed
  <2> HIDE DEF t
  <2> QED
    BY <2>1 DEF t
<1>2. CASE offset # 0 /\ length # 0
  <2>1. e \in FP!Extent
    BY <1>2 DEF FP!Extent
  <2>2. t = FP!Freed(l, e)
    BY SameList
  <2>3. FP!Bytes(e) = Sectors(offset, length)
    BY DEF FP!Bytes, FP!End, Sectors
  <2> HIDE DEF e, t
  <2>4. /\ Neat(t)
        /\ FP!Covered(FP!Range(t)) \subseteq FP!Covered(FP!Range(l)) \cup FP!Bytes(e)
    BY <2>1, <2>2, Assumptions, FP!FreedStaysDistinct DEF Neat
  <2> QED
    BY <1>2, <2>3, <2>4, InListIs DEF t, e
<1> QED
  BY <1>1, <1>2

\* What is taken was on the list and is not on it any more.
LEMMA ListTaken ==
  ASSUME NEW l, Neat(l), NEW j \in DOMAIN l, NEW n \in Nat, List!IsBestFit(l, j, n)
  PROVE  /\ l[j].offset \in Nat \ {0}
         /\ Neat(List!Taken(l, j, n))
         /\ \A x : InList(List!Taken(l, j, n), x) =>
                    InList(l, x) /\ x \notin Sectors(l[j].offset, n)
         /\ \A x \in Sectors(l[j].offset, n) : InList(l, x)
<1> DEFINE t == List!Taken(l, j, n)
<1>1. l \in Seq(FP!Extent) /\ l[j] \in FP!Extent
  BY DEF Neat
<1>2. l[j].offset \in Nat \ {0} /\ l[j].length \in Nat \ {0} /\ l[j].length >= n
  BY <1>1 DEF List!IsBestFit, FP!Extent
<1>3. t = FP!Taken(l, j, n)
  BY SameList
<1>4. /\ Neat(t)
      /\ \A x \in FP!Covered(FP!Range(t)) :
           /\ x \in FP!Covered(FP!Range(l))
           /\ ~(l[j].offset <= x /\ x < l[j].offset + n)
  BY <1>2, <1>3, Assumptions, FP!TakenStaysDistinct DEF Neat
<1> HIDE DEF t
<1>5. \A x : InList(t, x) => InList(l, x) /\ x \notin Sectors(l[j].offset, n)
  BY <1>2, <1>4, InListIs, SectorsAre
<1>6. ASSUME NEW x \in Sectors(l[j].offset, n) PROVE InList(l, x)
  <2>1. x \in Sectors(l[j].offset, l[j].length)
    BY <1>2, SectorsAre
  <2> QED
    BY <2>1 DEF InList, Range
<1> QED
  BY <1>2, <1>4, <1>5, <1>6 DEF t

\* A list rebuilt from files is neat, whatever order they come in.
LEMMA ListRebuilt ==
  ASSUME NEW S \in SUBSET FP!Extent, NEW N \in Nat, \A e \in S : e.offset <= N /\ e.length <= N
  PROVE  Neat(List!rebuild_from_inodes(SetToSeq(S)))
<1>1. \A U : FP!SetToSeq(U) = SetToSeq(U)
  BY DEF FP!SetToSeq, SetToSeq, FP!Cardinality, Cardinality, FP!IsInjective, IsInjective
<1>2. FP!SetToSeq(S) \in Seq(FP!Extent)
  BY Assumptions, FP!VectorOf
<1> QED
  BY <1>1, <1>2, Assumptions, StoreAssumption, SameList, FP!RebuiltIsDistinct DEF Neat

\* alloc_data: the sectors it gives out were free, or lie past all others.
Given(s, n) == Sectors(AllocatedAt(s, n), n)

\* alloc_data hands out sectors that were free, and keeps none of them.
LEMMA AllocIs ==
  ASSUME NEW s, Shape(s), Neat(s.list), s.next \in Nat, s.next >= DataStart, NEW n \in Nat
  PROVE  LET t == alloc_data(s, n)
         IN  /\ t = [s EXCEPT !.list = t.list, !.next = t.next]
             /\ AllocatedAt(s, n) \in Nat \ {0}
             /\ Neat(t.list) /\ t.next \in Nat /\ t.next >= s.next
             /\ \A x : InList(t.list, x) => InList(s.list, x)
             /\ \A x \in Given(s, n) :
                  /\ InList(s.list, x) \/ x >= s.next
                  /\ (InList(s.list, x) => x < s.next) => ~InList(t.list, x) /\ x < t.next
<1> DEFINE t == alloc_data(s, n)
           j == CHOOSE j \in Fitting(s, n) : TRUE
           o == AllocatedAt(s, n)
<1>0. DataStart \in Nat \ {0}
  BY StoreAssumption
<1>1. CASE Fitting(s, n) # {}
  <2>1. j \in Fitting(s, n)
    BY <1>1
  <2>2. t = [s EXCEPT !.list = List!Taken(@, j, n)] /\ o = s.list[j].offset
    BY <1>1 DEF alloc_data, AllocatedAt
  <2> HIDE DEF j, t, o
  <2>3. j \in DOMAIN s.list /\ List!IsBestFit(s.list, j, n)
    BY <2>1 DEF Fitting
  <2>4. t.list = List!Taken(s.list, j, n) /\ t.next = s.next
    BY <2>2 DEF Shape
  <2>5. t = [s EXCEPT !.list = t.list, !.next = t.next]
    BY <2>2 DEF Shape
  <2>6. \A x \in Sectors(o, n) : x \in Int
    BY DEF Sectors
  <2> QED
    BY <2>2, <2>3, <2>4, <2>5, <2>6, ListTaken DEF Given, t, o
<1>2. CASE Fitting(s, n) = {}
  <2>1. t = [s EXCEPT !.next = @ + n] /\ o = s.next
    BY <1>2 DEF alloc_data, AllocatedAt
  <2> HIDE DEF t, o, j
  <2>2. t.list = s.list /\ t.next = s.next + n /\ t = [s EXCEPT !.list = t.list, !.next = t.next]
    BY <2>1 DEF Shape
  <2>3. \A x \in Sectors(o, n) : x \in Int /\ s.next <= x /\ x < s.next + n
    BY <2>1, SectorsAre
  <2> QED
    BY <1>0, <2>1, <2>2, <2>3 DEF Given, t, o
<1> QED
  BY <1>1, <1>2

-----------------------------------------------------------------------------
(***************************************************************************)
(* What a crash leaves, and what is lost in it; of a sector, who has it.   *)
(***************************************************************************)
Stored(s) ==
  [inode |-> s.inode, logged |-> s.logged, saved_list |-> s.saved_list,
   saved_next |-> s.saved_next, saved_dir |-> s.saved_dir, tainted |-> s.tainted]
Memory(s) == [files |-> s.files, list |-> s.list, next |-> s.next, dir |-> s.dir]

\* The inodes that a mount finds: those of the journal come before the table's.
Rec(d, k) == IF d.logged[k] = NoInode THEN d.inode[k] ELSE d.logged[k]
Named(d) == {k \in Slots : k < Capacity(d.saved_dir) /\ Rec(d, k).used}

AtFile(d, k, x) == k \in Named(d) /\ x \in Sectors(Rec(d, k).offset, Rec(d, k).len)
AtBlock(d, b, x) == b \in DOMAIN d.saved_dir /\ x \in Sectors(d.saved_dir[b], BlockSize)
Owned(d, x) == (\E k : AtFile(d, k, x)) \/ \E b : AtBlock(d, b, x)
OneOwner(d, x) ==
  /\ \A k, m : AtFile(d, k, x) /\ AtFile(d, m, x) => k = m
  /\ \A b, c : AtBlock(d, b, x) /\ AtBlock(d, c, x) => b = c
  /\ \A k, b : ~(AtFile(d, k, x) /\ AtBlock(d, b, x))

\* No sector that has an owner is given out, by the list or at its end.
Lone(d, list, next, x) ==
  /\ OneOwner(d, x)
  /\ Owned(d, x) => ~InList(list, x) /\ x < next
  /\ InList(list, x) => x < next

\* What is stored makes sense, and can be mounted.
IsInode(r) ==
  /\ r \in [ino : {r.ino}, size : Nat, offset : Nat, len : Nat, used : BOOLEAN]
  /\ r.size > 0 => r.offset > 0
IsLogged(d, k) ==
  /\ IsInode(d.logged[k]) /\ d.logged[k].used /\ k < Capacity(d.saved_dir)
  /\ d.inode[k] \in {d.logged[k], [d.logged[k] EXCEPT !.used = FALSE]}
IsStored(d) ==
  /\ d \in [inode : {d.inode}, logged : {d.logged}, saved_list : {d.saved_list},
            saved_next : Nat, saved_dir : Seq(Nat), tainted : {d.tainted}]
  /\ d.inode = [k \in Slots |-> d.inode[k]] /\ d.logged = [k \in Slots |-> d.logged[k]]
  /\ \A k \in Slots : IsInode(d.inode[k]) /\ (d.logged[k] = NoInode \/ IsLogged(d, k))
  /\ d.saved_next >= DataStart /\ Neat(d.saved_list)

Clear(d, x) == Lone(d, d.saved_list, d.saved_next, x)
IsSafe(d) == IsStored(d) /\ \A x \in Disk \ d.tainted : Clear(d, x)

\* As the write w is about to come.
IsSafeAt(d, w) ==
  /\ IsStored(d) /\ w.cause \in {"store", "growth"}
  /\ \A x \in Disk \ d.tainted :
       \/ Clear(d, x)
       \/ x \in w.exposed /\ (x >= d.saved_next \/ InList(d.saved_list, x))

\* Memory, of a mount, agrees with what is stored.
IsFiles(d, f) ==
  \A i \in DOMAIN f :
    /\ f[i] \in [slot : Named(d), size : Nat, offset : Nat, len : Nat]
    /\ d.inode[f[i].slot].used /\ d.inode[f[i].slot].ino = i
    /\ Sectors(f[i].offset, f[i].len) = Sectors(Rec(d, f[i].slot).offset, Rec(d, f[i].slot).len)
Agrees(d, m) ==
  /\ IsFiles(d, m.files)
  /\ Neat(m.list) /\ m.next \in Nat /\ m.next >= d.saved_next /\ m.dir = d.saved_dir
  /\ \A x \in Disk \ d.tainted : Lone(d, m.list, m.next, x)

\* What write w does to what is stored.
After(d, w) == IF w.to = "snap" THEN d ELSE Applied(d, w)

\* Every write of ws, from d on, leaves what is safe, and so do all of them.
Follows(S, d, ws) ==
  /\ S[0] = d
  /\ \A k \in 1 .. Len(ws) : IsSafeAt(S[k - 1], ws[k]) /\ S[k] = After(S[k - 1], ws[k])
Safe(d, ws, m, how) ==
  /\ ws \in Seq(Range(ws))
  /\ \E S : /\ Follows(S, d, ws)
            /\ IsSafe(S[Len(ws)])
            /\ how = "mounted" => Agrees(S[Len(ws)], m)

AllExcused == {"freed", "version", "logged", "store", "growth", "tail"} \subseteq Excuse

-----------------------------------------------------------------------------
\* The sequences of writes.
LEMMA SafeNil ==
  ASSUME NEW d, NEW m, NEW how
  PROVE  Safe(d, <<>>, m, how) <=> IsSafe(d) /\ (how = "mounted" => Agrees(d, m))
<1>1. <<>> \in Seq(Range(<<>>)) /\ Len(<<>>) = 0
  OBVIOUS
<1>2. \A S : Follows(S, d, <<>>) <=> S[0] = d
  BY <1>1 DEF Follows
<1>3. [k \in {0} |-> d][0] = d
  OBVIOUS
<1> QED
  BY <1>1, <1>2, <1>3 DEF Safe

\* A write that may be done now, before writes that may be done then.
LEMMA SafeCons ==
  ASSUME NEW d, NEW w, NEW ws, NEW m, NEW how,
         IsSafeAt(d, w), Safe(After(d, w), ws, m, how)
  PROVE  Safe(d, <<w>> \o ws, m, how)
<1> DEFINE n == Len(ws)
           us == <<w>> \o ws
<1>1. PICK S : /\ Follows(S, After(d, w), ws)
               /\ IsSafe(S[n]) /\ (how = "mounted" => Agrees(S[n], m))
  BY DEF Safe
<1>2. ws \in Seq(Range(ws)) /\ n \in Nat
  BY DEF Safe
<1>3. us \in Seq({w} \cup Range(ws)) /\ Len(us) = n + 1 /\ us[1] = w
  BY <1>2
<1>4. \A k \in 1 .. n : us[k + 1] = ws[k]
  BY <1>2
<1>5. us \in Seq(Range(us))
  BY <1>3, OfItsRange
<1> HIDE DEF n, us
<1> DEFINE R == [k \in 0 .. n + 1 |-> IF k = 0 THEN d ELSE S[k - 1]]
<1>6. R[0] = d /\ \A k \in 0 .. n : R[k + 1] = S[k]
  BY <1>2
<1> HIDE DEF R
<1>7. ASSUME NEW k \in 1 .. n + 1
      PROVE  IsSafeAt(R[k - 1], us[k]) /\ R[k] = After(R[k - 1], us[k])
  <2>1. CASE k = 1
    BY <1>1, <1>2, <1>3, <1>6, <2>1 DEF Follows
  <2>2. CASE k # 1
    <3> DEFINE j == k - 1
    <3>1. j \in 1 .. n /\ j \in 0 .. n /\ j - 1 \in 0 .. n /\ k = j + 1 /\ (j - 1) + 1 = j
      BY <1>2, <2>2
    <3> HIDE DEF j
    <3>2. R[k] = S[j] /\ R[j] = S[j - 1] /\ us[k] = ws[j]
      BY <1>4, <1>6, <3>1
    <3>3. IsSafeAt(S[j - 1], ws[j]) /\ S[j] = After(S[j - 1], ws[j])
      BY <1>1, <3>1 DEF Follows, n
    <3> QED
      BY <3>2, <3>3 DEF j
  <2> QED
    BY <2>1, <2>2
<1>8. Follows(R, d, us)
  BY <1>3, <1>6, <1>7 DEF Follows
<1>9. R[Len(us)] = S[n]
  BY <1>2, <1>3, <1>6
<1> QED
  BY <1>1, <1>5, <1>8, <1>9 DEF Safe, us

\* Of writes that are safe the first may be done, and the rest are safe after it.
LEMMA SafeTail ==
  ASSUME NEW d, NEW ws, ws # <<>>, NEW m, NEW how, Safe(d, ws, m, how)
  PROVE  IsSafeAt(d, Head(ws)) /\ Safe(After(d, Head(ws)), Tail(ws), m, how)
<1> DEFINE n == Len(ws)
           vs == Tail(ws)
<1>1. PICK S : /\ Follows(S, d, ws)
               /\ IsSafe(S[n]) /\ (how = "mounted" => Agrees(S[n], m))
  BY DEF Safe
<1>2. ws \in Seq(Range(ws)) /\ n \in Nat \ {0} /\ Head(ws) = ws[1]
  BY DEF Safe
<1>3. vs \in Seq(Range(ws)) /\ Len(vs) = n - 1 /\ \A k \in 1 .. n - 1 : vs[k] = ws[k + 1]
  BY <1>2
<1>4. vs \in Seq(Range(vs))
  BY <1>3, OfItsRange
<1> HIDE DEF n, vs
<1> DEFINE R == [k \in 0 .. n - 1 |-> S[k + 1]]
<1>5. \A k \in 0 .. n - 1 : R[k] = S[k + 1]
  OBVIOUS
<1> HIDE DEF R
<1>6. IsSafeAt(S[0], ws[1]) /\ S[1] = After(S[0], ws[1]) /\ S[0] = d
  <2>1. 1 \in 1 .. n /\ 1 - 1 = 0
    BY <1>2
  <2> QED
    BY <1>1, <2>1 DEF Follows, n
<1>7. ASSUME NEW k \in 1 .. n - 1
      PROVE  IsSafeAt(R[k - 1], vs[k]) /\ R[k] = After(R[k - 1], vs[k])
  <2> DEFINE j == k + 1
  <2>1. j \in 1 .. n /\ j - 1 = k /\ k - 1 \in 0 .. n - 1 /\ k \in 0 .. n - 1 /\ (k - 1) + 1 = k
    BY <1>2
  <2> HIDE DEF j
  <2>2. IsSafeAt(S[j - 1], ws[j]) /\ S[j] = After(S[j - 1], ws[j])
    BY <1>1, <2>1 DEF Follows, n
  <2>3. R[k] = S[j] /\ R[k - 1] = S[j - 1] /\ vs[k] = ws[j]
    BY <1>3, <1>5, <2>1 DEF j
  <2> QED
    BY <2>2, <2>3
<1>8. Follows(R, After(d, ws[1]), vs)
  <2>1. R[0] = S[1]
    BY <1>2, <1>5
  <2> QED
    BY <1>3, <1>6, <1>7, <2>1 DEF Follows
<1>9. R[Len(vs)] = S[n]
  BY <1>2, <1>3, <1>5
<1> QED
  BY <1>1, <1>2, <1>4, <1>6, <1>8, <1>9 DEF Safe, vs

\* The writes of snapshots do no harm.
LEMMA SafeSnaps ==
  ASSUME NEW d, IsSafe(d), NEW zs, IsWrites(zs),
         \A k \in DOMAIN zs : zs[k].to = "snap" /\ zs[k].cause = "store",
         NEW ws, NEW m, NEW how, Safe(d, ws, m, how)
  PROVE  Safe(d, zs \o ws, m, how)
<1> DEFINE n == Len(ws)
           z == Len(zs)
           us == zs \o ws
<1>1. PICK S : /\ Follows(S, d, ws)
               /\ IsSafe(S[n]) /\ (how = "mounted" => Agrees(S[n], m))
  BY DEF Safe
<1>2. /\ ws \in Seq(Range(ws)) /\ n \in Nat
      /\ zs \in Seq(Range(zs)) /\ z \in Nat /\ DOMAIN zs = 1 .. z
  BY DEF Safe, IsWrites
<1>3. us \in Seq(Range(zs) \cup Range(ws)) /\ Len(us) = z + n
  BY <1>2
<1>4. \A k \in 1 .. z + n : us[k] = IF k <= z THEN zs[k] ELSE ws[k - z]
  BY <1>2
<1>5. us \in Seq(Range(us))
  BY <1>3, OfItsRange
<1>6. \A k \in 1 .. z : zs[k].to = "snap" /\ zs[k].cause = "store"
  BY <1>2
<1> HIDE DEF n, z, us
<1> DEFINE R == [k \in 0 .. z + n |-> IF k <= z THEN d ELSE S[k - z]]
<1>7. \A k \in 0 .. z + n : R[k] = IF k <= z THEN d ELSE S[k - z]
  OBVIOUS
<1> HIDE DEF R
<1>8. ASSUME NEW k \in 1 .. z + n
      PROVE  IsSafeAt(R[k - 1], us[k]) /\ R[k] = After(R[k - 1], us[k])
  <2>1. CASE k <= z
    <3>1. R[k - 1] = d /\ R[k] = d /\ us[k] = zs[k] /\ k \in 1 .. z
      BY <1>2, <1>4, <1>7, <2>1
    <3>2. IsSafeAt(d, zs[k]) /\ After(d, zs[k]) = d
      BY <1>6, <3>1 DEF IsSafe, IsSafeAt, After
    <3> QED
      BY <3>1, <3>2
  <2>2. CASE k > z
    <3> DEFINE j == k - z
    <3>1. /\ j \in 1 .. n /\ k - 1 \in 0 .. z + n /\ k \in 0 .. z + n /\ ~(k <= z)
          /\ (k - 1 <= z => k - 1 = z /\ j - 1 = 0) /\ (k - 1) - z = j - 1
      BY <1>2, <2>2
    <3> HIDE DEF j
    <3>2. IsSafeAt(S[j - 1], ws[j]) /\ S[j] = After(S[j - 1], ws[j]) /\ S[0] = d
      BY <1>1, <3>1 DEF Follows, n
    <3>3. R[k] = S[j] /\ us[k] = ws[j]
      BY <1>4, <1>7, <3>1 DEF j
    <3>4. R[k - 1] = S[j - 1]
      BY <1>7, <3>1, <3>2
    <3> QED
      BY <3>2, <3>3, <3>4
  <2> QED
    BY <1>2, <2>1, <2>2
<1>9. R[Len(us)] = S[n] /\ R[0] = d
  <2>1. /\ z + n \in 0 .. z + n /\ 0 \in 0 .. z + n /\ 0 <= z /\ (z + n) - z = n
        /\ (z + n <= z => n = 0)
    BY <1>2
  <2>2. S[0] = d
    BY <1>1 DEF Follows
  <2> QED
    BY <1>3, <1>7, <2>1, <2>2
<1>10. Follows(R, d, us)
  BY <1>3, <1>8, <1>9 DEF Follows
<1> QED
  BY <1>1, <1>5, <1>9, <1>10 DEF Safe, us

-----------------------------------------------------------------------------
\* What owners there are is a matter of the inodes and the blocks.
LEMMA FewerOwners ==
  ASSUME NEW d, NEW e, NEW x,
         \A k : AtFile(e, k, x) => AtFile(d, k, x), \A b : AtBlock(e, b, x) => AtBlock(d, b, x)
  PROVE  /\ OneOwner(d, x) => OneOwner(e, x)
         /\ Owned(e, x) => Owned(d, x)
         /\ \A list, next : Lone(d, list, next, x) => Lone(e, list, next, x)
<1>1. OneOwner(d, x) => OneOwner(e, x)
  BY DEF OneOwner
<1>2. Owned(e, x) => Owned(d, x)
  BY DEF Owned
<1> QED
  BY <1>1, <1>2 DEF Lone

\* Who owns a sector is said by the records, the log and the blocks.
LEMMA SameOwners ==
  ASSUME NEW d, NEW e, e.inode = d.inode, e.logged = d.logged, e.saved_dir = d.saved_dir
  PROVE  /\ \A k : Rec(e, k) = Rec(d, k)
         /\ Named(e) = Named(d)
         /\ \A x : /\ OneOwner(e, x) <=> OneOwner(d, x)
                   /\ Owned(e, x) <=> Owned(d, x)
                   /\ \A list, next : Lone(e, list, next, x) <=> Lone(d, list, next, x)
         /\ \A f : IsFiles(e, f) <=> IsFiles(d, f)
<1>1. \A k : Rec(e, k) = Rec(d, k)
  BY DEF Rec
<1>2. Named(e) = Named(d)
  BY <1>1 DEF Named
<1>3. \A k, x : AtFile(e, k, x) <=> AtFile(d, k, x)
  BY <1>1, <1>2 DEF AtFile
<1>4. \A b, x : AtBlock(e, b, x) <=> AtBlock(d, b, x)
  BY DEF AtBlock
<1>5. \A f : IsFiles(e, f) <=> IsFiles(d, f)
  BY <1>1, <1>2 DEF IsFiles
<1> QED
  BY <1>1, <1>2, <1>3, <1>4, <1>5, FewerOwners

\* A sector stays alone when fewer can be handed out.
LEMMA LoneLess ==
  ASSUME NEW d, NEW list, NEW next \in Int, NEW x \in Int, Lone(d, list, next, x),
         NEW l, InList(l, x) => InList(list, x), NEW n \in Int, n >= next
  PROVE  Lone(d, l, n, x)
BY DEF Lone

\* Two sequences of one length with the same elements are one.
LEMMA SameSequence ==
  ASSUME NEW B, NEW s \in Seq(B), NEW t \in Seq(B), Len(s) = Len(t),
         \A k \in 1 .. Len(s) : s[k] = t[k]
  PROVE  s = t
<1>1. s = [k \in 1 .. Len(s) |-> s[k]] /\ t = [k \in 1 .. Len(t) |-> t[k]]
  OBVIOUS
<1> QED
  BY <1>1

\* Three sequences of one, joined.
LEMMA Tuples ==
  ASSUME NEW a, NEW b, NEW c
  PROVE  <<a>> \o (<<b>> \o (<<c>> \o <<>>)) = <<a, b, c>>
<1> DEFINE B == {a, b, c}
<1>1. <<c>> \o <<>> = <<c>>
  OBVIOUS
<1>2. <<b>> \o <<c>> = <<b, c>>
  <2>1. /\ <<b>> \o <<c>> \in Seq(B) /\ Len(<<b>> \o <<c>>) = 2
        /\ (<<b>> \o <<c>>)[1] = b /\ (<<b>> \o <<c>>)[2] = c
    OBVIOUS
  <2>2. <<b, c>> \in Seq(B) /\ Len(<<b, c>>) = 2 /\ <<b, c>>[1] = b /\ <<b, c>>[2] = c
    OBVIOUS
  <2>3. \A k \in 1 .. 2 : k = 1 \/ k = 2
    OBVIOUS
  <2> DEFINE s == <<b>> \o <<c>>
             t == <<b, c>>
  <2> HIDE DEF s, t, B
  <2>4. s \in Seq(B) /\ t \in Seq(B) /\ Len(s) = Len(t) /\ \A k \in 1 .. Len(s) : s[k] = t[k]
    BY <2>1, <2>2, <2>3 DEF s, t
  <2>5. s = t
    BY <2>4, SameSequence
  <2> QED
    BY <2>5 DEF s, t
<1>3. <<a>> \o <<b, c>> = <<a, b, c>>
  <2>1. /\ <<a>> \o <<b, c>> \in Seq(B) /\ Len(<<a>> \o <<b, c>>) = 3
        /\ (<<a>> \o <<b, c>>)[1] = a /\ (<<a>> \o <<b, c>>)[2] = b
        /\ (<<a>> \o <<b, c>>)[3] = c
    OBVIOUS
  <2>2. /\ <<a, b, c>> \in Seq(B) /\ Len(<<a, b, c>>) = 3
        /\ <<a, b, c>>[1] = a /\ <<a, b, c>>[2] = b /\ <<a, b, c>>[3] = c
    OBVIOUS
  <2>3. \A k \in 1 .. 3 : k = 1 \/ k = 2 \/ k = 3
    OBVIOUS
  <2> DEFINE s == <<a>> \o <<b, c>>
             t == <<a, b, c>>
  <2> HIDE DEF s, t, B
  <2>4. s \in Seq(B) /\ t \in Seq(B) /\ Len(s) = Len(t) /\ \A k \in 1 .. Len(s) : s[k] = t[k]
    BY <2>1, <2>2, <2>3 DEF s, t
  <2>5. s = t
    BY <2>4, SameSequence
  <2> QED
    BY <2>5 DEF s, t
<1> QED
  BY <1>1, <1>2, <1>3

\* An exposing write, field by field.
LEMMA ExposingIs ==
  ASSUME NEW to, NEW at, NEW what, NEW S, NEW cause
  PROVE  Exposing(Write(to, at, what), S, cause) =
           [to |-> to, at |-> at, what |-> what, exposed |-> S, cause |-> cause, cured |-> {}]
<1> DEFINE w == [Write(to, at, what) EXCEPT !.exposed = S]
<1>1. w = [to |-> to, at |-> at, what |-> what, exposed |-> S, cause |-> "store", cured |-> {}]
  BY DEF Write
<1>2. Exposing(Write(to, at, what), S, cause) = [w EXCEPT !.cause = cause]
  BY <1>1 DEF Exposing, Write
<1> HIDE DEF w
<1> QED
  BY <1>1, <1>2

\* The sectors CrashSafe is about are past the superblock's data start.
LEMMA DiskIs == \A x \in Disk : x \in Int /\ x >= DataStart /\ x > 0
BY StoreAssumption DEF Disk

\* More tainted sectors.
LEMMA MoreTainted ==
  ASSUME NEW d, NEW T, IsStored(d), NEW e, e = [d EXCEPT !.tainted = T], d.tainted \subseteq T
  PROVE  /\ e.inode = d.inode /\ e.logged = d.logged /\ e.saved_dir = d.saved_dir
         /\ e.saved_next = d.saved_next /\ e.saved_list = d.saved_list /\ e.tainted = T
         /\ IsStored(e)
         /\ IsSafe(d) => IsSafe(e)
         /\ \A m : Agrees(d, m) => Agrees(e, m)
<1>1. /\ e.inode = d.inode /\ e.logged = d.logged /\ e.saved_dir = d.saved_dir
      /\ e.saved_next = d.saved_next /\ e.saved_list = d.saved_list /\ e.tainted = T
      /\ e \in [inode : {e.inode}, logged : {e.logged}, saved_list : {e.saved_list},
                saved_next : Nat, saved_dir : Seq(Nat), tainted : {e.tainted}]
  BY DEF IsStored
<1>2. IsStored(e)
  BY <1>1 DEF IsStored, IsLogged
<1>3. IsSafe(d) => IsSafe(e)
  BY <1>1, <1>2, SameOwners DEF IsSafe, Clear
<1>4. \A m : Agrees(d, m) => Agrees(e, m)
  BY <1>1, SameOwners DEF Agrees
<1> QED
  BY <1>1, <1>2, <1>3, <1>4

-----------------------------------------------------------------------------
\* A flush, of what list and next have become, after an inode was written that
\* names the sectors S; the sectors in C are no longer tainted then.
LEMMA FlushIsSafe ==
  ASSUME NEW d, IsStored(d), NEW m, NEW how, NEW S, NEW C,
         Neat(m.list), m.next \in Nat, m.next >= d.saved_next, m.dir = d.saved_dir,
         \A x \in Disk \ (d.tainted \ C) : Lone(d, m.list, m.next, x),
         \A x \in Disk \ d.tainted : x \notin S => Clear(d, x),
         how = "mounted" => IsFiles(d, m.files),
         NEW s, s.next = m.next, s.list = m.list, s.dir = m.dir
  PROVE  /\ Safe(d, Curing(flush_disk(s, S), C), m, how)
         /\ C = {} => Safe(d, flush_disk(s, S), m, how)
<1> DEFINE a == Exposing(Write("next", 0, s.next), S, "store")
           b == [Exposing(Write("list", 0, s.list), S, "store") EXCEPT !.cured = C]
           c == Write("dir", 0, s.dir)
           d1 == [d EXCEPT !.saved_next = m.next]
           d2 == [d1 EXCEPT !.saved_list = m.list, !.tainted = @ \ C]
<1>1. /\ Curing(flush_disk(s, S), C) = <<a>> \o (<<b>> \o (<<c>> \o <<>>))
      /\ C = {} => flush_disk(s, S) = <<a>> \o (<<b>> \o (<<c>> \o <<>>))
  <2> DEFINE b0 == Exposing(Write("list", 0, s.list), S, "store")
  <2>1. /\ a.to = "next" /\ b0.to = "list" /\ c.to = "dir" /\ b0.cured = {}
        /\ b0 = [to |-> "list", at |-> 0, what |-> s.list, exposed |-> S, cause |-> "store",
                 cured |-> {}]
    <3>1. a = [to |-> "next", at |-> 0, what |-> s.next, exposed |-> S, cause |-> "store",
               cured |-> {}]
      BY ExposingIs, ZenonT(30)
    <3>2. b0 = [to |-> "list", at |-> 0, what |-> s.list, exposed |-> S, cause |-> "store",
                cured |-> {}]
      BY ExposingIs, ZenonT(30)
    <3>3. c.to = "dir"
      BY DEF Write
    <3> HIDE DEF a, b0, c
    <3> QED
      BY <3>1, <3>2, <3>3
  <2>2. flush_disk(s, S) = <<a, b0, c>>
    BY DEF flush_disk
  <2> HIDE DEF a, b0, c
  <2>3. Curing(<<a, b0, c>>, C) = <<a, [b0 EXCEPT !.cured = C], c>>
    <3> DEFINE q == Curing(<<a, b0, c>>, C)
    <3>1. DOMAIN <<a, b0, c>> = 1 .. 3
      OBVIOUS
    <3>2. q = [k \in 1 .. 3 |-> IF <<a, b0, c>>[k].to = "list"
                                THEN [<<a, b0, c>>[k] EXCEPT !.cured = C] ELSE <<a, b0, c>>[k]]
      BY <3>1 DEF Curing
    <3>3. q[1] = a /\ q[2] = [b0 EXCEPT !.cured = C] /\ q[3] = c
      BY <2>1, <3>2
    <3>4. q = [k \in 1 .. 3 |-> q[k]]
      BY <3>2
    <3> HIDE DEF q
    <3> QED
      BY <3>3, <3>4 DEF q
  <2>4. b = [b0 EXCEPT !.cured = C]
    BY DEF b0
  <2>5. C = {} => b = b0
    BY <2>1, <2>4
  <2> HIDE DEF b
  <2>6. <<a>> \o (<<b>> \o (<<c>> \o <<>>)) = <<a, b, c>>
    BY Tuples
  <2> QED
    BY <2>2, <2>3, <2>4, <2>5, <2>6
<1>2. /\ a.to = "next" /\ a.what = m.next /\ a.exposed = S /\ a.cause = "store"
      /\ b.to = "list" /\ b.what = m.list /\ b.exposed = S /\ b.cause = "store" /\ b.cured = C
      /\ c.to = "dir" /\ c.what = m.dir /\ c.cause = "store"
  BY DEF Exposing, Write
<1> HIDE DEF a, b, c
<1>3. After(d, a) = d1
  BY <1>2 DEF After, Applied
<1>4. /\ d1.inode = d.inode /\ d1.logged = d.logged /\ d1.saved_dir = d.saved_dir
      /\ d1.saved_next = m.next /\ d1.saved_list = d.saved_list /\ d1.tainted = d.tainted
      /\ d1 \in [inode : {d1.inode}, logged : {d1.logged}, saved_list : {d1.saved_list},
                saved_next : Nat, saved_dir : Seq(Nat), tainted : {d1.tainted}]
  BY DEF IsStored
<1>5. After(d1, b) = d2
  BY <1>2 DEF After, Applied
<1>6. /\ d2.inode = d.inode /\ d2.logged = d.logged /\ d2.saved_dir = d.saved_dir
      /\ d2.saved_next = m.next /\ d2.saved_list = m.list /\ d2.tainted = d.tainted \ C
      /\ d2 \in [inode : {d2.inode}, logged : {d2.logged}, saved_list : {d2.saved_list},
                saved_next : Nat, saved_dir : Seq(Nat), tainted : {d2.tainted}]
      /\ [d2 EXCEPT !.saved_dir = m.dir] = d2
  <2> HIDE DEF d1
  <2> QED
    BY <1>4
<1> HIDE DEF d1, d2
<1>7. After(d2, c) = d2
  BY <1>2, <1>6 DEF After, Applied
<1>8. d.saved_next \in Nat /\ d.saved_next >= DataStart /\ DataStart \in Nat /\ Neat(d.saved_list)
  BY StoreAssumption DEF IsStored
<1>9. IsStored(d1)
  BY <1>4, <1>8 DEF IsStored, IsLogged
<1>10. IsStored(d2)
  BY <1>6, <1>8 DEF IsStored, IsLogged
<1>11. IsSafeAt(d, a)
  <2> SUFFICES ASSUME NEW x \in Disk \ d.tainted, x \in S, x < d.saved_next, ~InList(d.saved_list, x)
               PROVE  Clear(d, x)
    BY <1>2, <1>8, DiskIs DEF IsSafeAt
  <2>1. OneOwner(d, x)
    BY DEF Lone
  <2> QED
    BY <2>1 DEF Clear, Lone
<1>12. IsSafeAt(d1, b)
  <2> SUFFICES ASSUME NEW x \in Disk \ d.tainted,
                      ~(x \in S /\ (x >= m.next \/ InList(d.saved_list, x)))
               PROVE  Lone(d, d.saved_list, m.next, x)
    BY <1>2, <1>4, <1>9, SameOwners DEF IsSafeAt, Clear
  <2>1. Lone(d, m.list, m.next, x) /\ x \in Int
    BY DiskIs
  <2>2. CASE x \notin S
    <3>1. Clear(d, x)
      BY <2>2
    <3> QED
      BY <1>8, <2>1, <3>1, LoneLess DEF Clear
  <2>3. CASE x \in S
    BY <2>1, <2>3 DEF Lone
  <2> QED
    BY <2>2, <2>3
<1>13. IsSafe(d2)
  BY <1>6, <1>10, SameOwners DEF IsSafe, Clear
<1>14. IsSafeAt(d2, c)
  BY <1>2, <1>13 DEF IsSafe, IsSafeAt
<1>15. how = "mounted" => Agrees(d2, m)
  BY <1>6, SameOwners DEF Agrees
<1>16. Safe(d2, <<>>, m, how)
  BY <1>13, <1>15, SafeNil
<1>17. Safe(d2, <<c>> \o <<>>, m, how)
  BY <1>7, <1>14, <1>16, SafeCons
<1>18. Safe(d1, <<b>> \o (<<c>> \o <<>>), m, how)
  BY <1>5, <1>12, <1>17, SafeCons
<1>19. Safe(d, <<a>> \o (<<b>> \o (<<c>> \o <<>>)), m, how)
  BY <1>3, <1>11, <1>18, SafeCons
<1> QED
  BY <1>1, <1>19

\* A function with one value changed.
LEMMA PutIs ==
  ASSUME NEW S, NEW f, f = [j \in S |-> f[j]], NEW k \in S, NEW v
  PROVE  LET g == [f EXCEPT ![k] = v]
         IN  g = [j \in S |-> g[j]] /\ \A j \in S : g[j] = IF j = k THEN v ELSE f[j]
<1> DEFINE g == [f EXCEPT ![k] = v]
<1>1. DOMAIN f = S
  OBVIOUS
<1>2. g = [j \in S |-> IF j = k THEN v ELSE f[j]]
  BY <1>1
<1> QED
  BY <1>2

IsInodeWrite(w, k, r) == w.to = "inode" /\ w.at = k /\ w.what = r /\ w.cause = "store"

\* An inode is written: what it named before, it does no longer.
Written(d, k, r, e) ==
  /\ IsStored(e)
  /\ e.inode = [d.inode EXCEPT ![k] = r]
  /\ e.saved_dir = d.saved_dir /\ e.saved_next = d.saved_next
  /\ e.saved_list = d.saved_list /\ e.tainted = d.tainted
  /\ Named(e) = Named(d) \cup {k}
  /\ Rec(e, k) = r /\ \A j \in Slots : j # k => Rec(e, j) = Rec(d, j)
  /\ \A x, j : AtFile(e, j, x) <=> IF j = k THEN x \in Sectors(r.offset, r.len)
                                   ELSE AtFile(d, j, x)
  /\ \A x, b : AtBlock(e, b, x) <=> AtBlock(d, b, x)

\* Writing an inode changes the record of its slot only.
LEMMA InodeWritten ==
  ASSUME NEW d, IsStored(d), NEW k \in Slots, k < Capacity(d.saved_dir),
         NEW r, IsInode(r), r.used, NEW w, IsInodeWrite(w, k, r)
  PROVE  Written(d, k, r, After(d, w))
<1> DEFINE e == After(d, w)
<1>1. e = [d EXCEPT !.inode[k] = r, !.logged[k] = r]
  BY DEF After, Applied, IsInodeWrite
<1>2. /\ e.inode = [d.inode EXCEPT ![k] = r] /\ e.logged = [d.logged EXCEPT ![k] = r]
      /\ e.saved_dir = d.saved_dir /\ e.saved_next = d.saved_next
      /\ e.saved_list = d.saved_list /\ e.tainted = d.tainted
      /\ e \in [inode : {e.inode}, logged : {e.logged}, saved_list : {e.saved_list},
                saved_next : Nat, saved_dir : Seq(Nat), tainted : {e.tainted}]
  BY <1>1 DEF IsStored
<1> HIDE DEF e
<1>3. /\ e.inode = [j \in Slots |-> e.inode[j]] /\ e.logged = [j \in Slots |-> e.logged[j]]
      /\ \A j \in Slots : /\ e.inode[j] = IF j = k THEN r ELSE d.inode[j]
                          /\ e.logged[j] = IF j = k THEN r ELSE d.logged[j]
  <2>1. /\ d.inode = [j \in Slots |-> d.inode[j]] /\ d.logged = [j \in Slots |-> d.logged[j]]
    BY DEF IsStored
  <2> QED
    BY <1>2, <2>1, PutIs
<1>4. r # NoInode
  BY DEF NoInode
<1>5. Rec(e, k) = r /\ \A j \in Slots : j # k => Rec(e, j) = Rec(d, j)
  BY <1>3, <1>4 DEF Rec
<1>6. Named(e) = Named(d) \cup {k}
  BY <1>2, <1>5 DEF Named
<1>7. \A x, j : AtFile(e, j, x) <=> IF j = k THEN x \in Sectors(r.offset, r.len)
                                    ELSE AtFile(d, j, x)
  <2>1. \A j : j \in Named(d) => j \in Slots
    BY DEF Named
  <2> QED
    BY <1>5, <1>6, <2>1 DEF AtFile
<1>8. \A x, b : AtBlock(e, b, x) <=> AtBlock(d, b, x)
  BY <1>2 DEF AtBlock
<1>9. \A j \in Slots : IsInode(e.inode[j]) /\ (e.logged[j] = NoInode \/ IsLogged(e, j))
  <2> SUFFICES ASSUME NEW j \in Slots
               PROVE  IsInode(e.inode[j]) /\ (e.logged[j] = NoInode \/ IsLogged(e, j))
    OBVIOUS
  <2>1. CASE j = k
    BY <1>2, <1>3, <2>1 DEF IsLogged
  <2>2. CASE j # k
    <3>1. e.inode[j] = d.inode[j] /\ e.logged[j] = d.logged[j]
      BY <1>3, <2>2
    <3>2. IsInode(d.inode[j]) /\ (d.logged[j] = NoInode \/ IsLogged(d, j))
      BY DEF IsStored
    <3> QED
      BY <1>2, <3>1, <3>2 DEF IsLogged
  <2> QED
    BY <2>1, <2>2
<1>10. IsStored(e)
  BY <1>2, <1>3, <1>9 DEF IsStored
<1> QED
  BY <1>2, <1>5, <1>6, <1>7, <1>8, <1>10 DEF e, Written

-----------------------------------------------------------------------------
\* An inode is written, and then all is flushed.
LEMMA WriteInodeIs ==
  ASSUME NEW k, NEW r
  PROVE  write_inode(k, r) = <<Write("inode", k, r)>> /\ IsInodeWrite(Write("inode", k, r), k, r)
BY DEF write_inode, Write, IsInodeWrite

\* An inode written, and the superblock after it: the request is safe if no
\* sector has two owners with the new record, under the old top and the new.
LEMMA WrittenIsSafe ==
  ASSUME NEW d, IsSafe(d), NEW k \in Slots, k < Capacity(d.saved_dir),
         NEW r, IsInode(r), r.used, NEW w, IsInodeWrite(w, k, r),
         NEW m, NEW how, NEW S,
         Neat(m.list), m.next \in Nat, m.next >= d.saved_next, m.dir = d.saved_dir,
         \A x \in Disk \ d.tainted : Lone(After(d, w), m.list, m.next, x),
         \A x \in Disk \ d.tainted : x \notin S => Lone(After(d, w), d.saved_list, d.saved_next, x),
         how = "mounted" => IsFiles(After(d, w), m.files),
         NEW s, s.next = m.next, s.list = m.list, s.dir = m.dir
  PROVE  Safe(d, <<w>> \o flush_disk(s, S), m, how)
<1> DEFINE e == After(d, w)
<1>1. /\ IsStored(e) /\ e.saved_dir = d.saved_dir /\ e.saved_next = d.saved_next
      /\ e.saved_list = d.saved_list /\ e.tainted = d.tainted
  <2>1. IsStored(d)
    BY DEF IsSafe
  <2>2. Written(d, k, r, e)
    BY <2>1, InodeWritten
  <2> QED
    BY <2>2 DEF Written
<1>2. IsSafeAt(d, w)
  BY DEF IsSafe, IsSafeAt, IsInodeWrite
<1>3. \A x \in Disk \ (e.tainted \ {}) : Lone(e, m.list, m.next, x)
  BY <1>1
<1>4. \A x \in Disk \ e.tainted : x \notin S => Clear(e, x)
  BY <1>1 DEF Clear
<1> HIDE DEF e
<1>5. Safe(e, flush_disk(s, S), m, how)
  <2>1. how = "mounted" => IsFiles(e, m.files)
    BY DEF e
  <2> DEFINE C == {}
  <2>2. \A x \in Disk \ (e.tainted \ C) : Lone(e, m.list, m.next, x)
    BY <1>3
  <2>3. C = {}
    OBVIOUS
  <2> HIDE DEF C
  <2> QED
    BY <1>1, <1>4, <2>1, <2>2, <2>3, FlushIsSafe
<1> QED
  BY <1>2, <1>5, SafeCons DEF e

\* Who else has a sector, besides the inode in slot k.
Others(d, k, x) == (\E j : j # k /\ AtFile(d, j, x)) \/ \E b : AtBlock(d, b, x)

\* A sector's owners but for one slot, and that slot.
LEMMA OthersAre ==
  ASSUME NEW d, NEW k, NEW x
  PROVE  /\ Owned(d, x) <=> Others(d, k, x) \/ AtFile(d, k, x)
         /\ OneOwner(d, x) /\ AtFile(d, k, x) => ~Others(d, k, x)
BY DEF Owned, Others, OneOwner

\* Inode r can be put into slot k; state s, in which the sectors of k count as
\* free or not, can give it new ones; t is s after that, and S what it gave.
CanPut(d, k, r, w) ==
  k \in Slots /\ k < Capacity(d.saved_dir) /\ IsInode(r) /\ r.used /\ IsInodeWrite(w, k, r)
CanGive(d, k, s) ==
  /\ Shape(s) /\ Neat(s.list) /\ s.next \in Nat /\ s.next >= d.saved_next /\ s.dir = d.saved_dir
  /\ \A x \in Disk \ d.tainted :
       /\ Others(d, k, x) => ~InList(s.list, x) /\ x < s.next
       /\ InList(s.list, x) => x < s.next
Gives(s, n, t, S) ==
  \/ t = alloc_data(s, n) /\ S = Given(s, n)
  \/ t = s /\ S = {}
SameTop(m, t) == m.list = t.list /\ m.next = t.next /\ m.dir = t.dir

\* An inode that gets an extent nobody else has, before or after the top moves.
LEMMA StoreIsSafe ==
  ASSUME NEW d, IsSafe(d), NEW k, NEW r, NEW w, CanPut(d, k, r, w),
         NEW s, CanGive(d, k, s), NEW n \in Nat, NEW t, Gives(s, n, t, Sectors(r.offset, r.len)),
         NEW m, SameTop(m, t), NEW how, how = "mounted" => IsFiles(After(d, w), m.files),
         NEW u, SameTop(u, t)
  PROVE  Safe(d, <<w>> \o flush_disk(u, Sectors(r.offset, r.len)), m, how)
<1> DEFINE e == After(d, w)
           S == Sectors(r.offset, r.len)
<1> USE DEF CanPut, CanGive, Gives, SameTop
<1>1. d.saved_next \in Nat /\ d.saved_next >= DataStart /\ DataStart \in Nat
  BY StoreAssumption DEF IsSafe, IsStored
<1>2. /\ Neat(t.list) /\ t.next \in Nat /\ t.next >= s.next /\ t.dir = s.dir
      /\ \A x : InList(t.list, x) => InList(s.list, x)
      /\ \A x \in S : /\ InList(s.list, x) \/ x >= s.next
                      /\ (InList(s.list, x) => x < s.next) => ~InList(t.list, x) /\ x < t.next
  <2>1. CASE t = alloc_data(s, n) /\ S = Given(s, n)
    <3>1. s.next >= DataStart
      BY <1>1
    <3>2. t = [s EXCEPT !.list = t.list, !.next = t.next]
      BY <2>1, <3>1, AllocIs
    <3>3. t.dir = s.dir
      BY <3>2 DEF Shape
    <3>4. Neat(t.list) /\ t.next \in Nat /\ t.next >= s.next
      BY <2>1, <3>1, AllocIs
    <3>5. \A x : InList(t.list, x) => InList(s.list, x)
      BY <2>1, <3>1, AllocIs
    <3>6. \A x \in S : /\ InList(s.list, x) \/ x >= s.next
                       /\ (InList(s.list, x) => x < s.next) => ~InList(t.list, x) /\ x < t.next
      BY <2>1, <3>1, AllocIs
    <3> QED
      BY <3>3, <3>4, <3>5, <3>6
  <2>2. CASE t = s /\ S = {}
    BY <2>2
  <2> QED
    BY <2>1, <2>2
<1>3. /\ \A x, j : AtFile(e, j, x) <=> IF j = k THEN x \in S ELSE AtFile(d, j, x)
      /\ \A x, b : AtBlock(e, b, x) <=> AtBlock(d, b, x)
  <2>1. IsStored(d)
    BY DEF IsSafe
  <2>2. Written(d, k, r, e)
    BY <2>1, InodeWritten
  <2> HIDE DEF e
  <2> QED
    BY <2>2 DEF Written
<1> HIDE DEF e
<1>4. ASSUME NEW x \in Disk \ d.tainted
      PROVE  /\ Lone(e, t.list, t.next, x)
             /\ x \notin S => Lone(e, d.saved_list, d.saved_next, x)
  <2>1. Clear(d, x) /\ x \in Int
    BY DiskIs DEF IsSafe
  <2>2. /\ Others(d, k, x) => ~InList(s.list, x) /\ x < s.next
        /\ InList(s.list, x) => x < s.next
    OBVIOUS
  <2>3. Owned(e, x) <=> Others(d, k, x) \/ x \in S
    BY <1>3 DEF Owned, Others
  <2>4. Others(d, k, x) => x \notin S
    BY <1>2, <2>1, <2>2
  <2>5. OneOwner(e, x)
    <3>1. OneOwner(d, x)
      BY <2>1 DEF Clear, Lone
    <3> QED
      BY <1>3, <2>4, <3>1 DEF OneOwner, Others
  <2>6. Lone(e, t.list, t.next, x)
    BY <1>2, <2>1, <2>2, <2>3, <2>5 DEF Lone
  <2>7. ASSUME x \notin S PROVE Lone(e, d.saved_list, d.saved_next, x)
    <3>1. Owned(e, x) => Owned(d, x)
      BY <2>3, <2>7, OthersAre
    <3> QED
      BY <2>1, <2>5, <3>1 DEF Lone, Clear
  <2> QED
    BY <2>6, <2>7
<1>5. m.next >= d.saved_next /\ m.dir = d.saved_dir /\ Neat(m.list) /\ m.next \in Nat
  BY <1>1, <1>2
<1> QED
  BY <1>4, <1>5, WrittenIsSafe DEF e

\* The file in the inode that is written, and all others.
LEMMA FilesWritten ==
  ASSUME NEW d, IsStored(d), NEW f, IsFiles(d, f), NEW k \in Slots, k < Capacity(d.saved_dir),
         NEW r, IsInode(r), r.used, NEW w, IsInodeWrite(w, k, r), NEW g,
         NEW i, r.ino = i, NEW v, v = [slot |-> k, size |-> v.size, offset |-> v.offset, len |-> v.len],
         v.size \in Nat, v.offset \in Nat, v.len \in Nat,
         Sectors(v.offset, v.len) = Sectors(r.offset, r.len),
         \A j \in DOMAIN g : \/ j = i /\ g[j] = v
                             \/ j \in DOMAIN f /\ g[j] = f[j] /\ f[j].slot # k
  PROVE  IsFiles(After(d, w), g)
<1> DEFINE e == After(d, w)
<1>1. Written(d, k, r, e)
  BY InodeWritten
<1>2. \A j \in Slots : e.inode[j] = IF j = k THEN r ELSE d.inode[j]
  <2>1. d.inode = [j \in Slots |-> d.inode[j]]
    BY DEF IsStored
  <2> QED
    BY <1>1, <2>1, PutIs DEF Written
<1>3. \A j \in Named(d) : j \in Slots
  BY DEF Named
<1> HIDE DEF e
<1> SUFFICES ASSUME NEW j \in DOMAIN g
             PROVE  /\ g[j] \in [slot : Named(e), size : Nat, offset : Nat, len : Nat]
                    /\ e.inode[g[j].slot].used /\ e.inode[g[j].slot].ino = j
                    /\ Sectors(g[j].offset, g[j].len) =
                         Sectors(Rec(e, g[j].slot).offset, Rec(e, g[j].slot).len)
  BY DEF IsFiles, e
<1>4. CASE j = i /\ g[j] = v
  <2>1. g[j].slot = k /\ g[j] \in [slot : Named(e), size : Nat, offset : Nat, len : Nat]
    BY <1>1, <1>4 DEF Written
  <2> QED
    BY <1>1, <1>2, <1>4, <2>1 DEF Written
<1>5. CASE j \in DOMAIN f /\ g[j] = f[j] /\ f[j].slot # k
  <2>1. /\ f[j] \in [slot : Named(d), size : Nat, offset : Nat, len : Nat]
        /\ d.inode[f[j].slot].used /\ d.inode[f[j].slot].ino = j
        /\ Sectors(f[j].offset, f[j].len) =
             Sectors(Rec(d, f[j].slot).offset, Rec(d, f[j].slot).len)
    BY <1>5 DEF IsFiles
  <2>2. f[j].slot \in Named(d) /\ f[j].slot \in Slots
    BY <1>3, <2>1
  <2>3. e.inode[f[j].slot] = d.inode[f[j].slot] /\ Rec(e, f[j].slot) = Rec(d, f[j].slot)
    BY <1>1, <1>2, <1>5, <2>2 DEF Written
  <2>4. g[j] \in [slot : Named(e), size : Nat, offset : Nat, len : Nat]
    BY <1>1, <1>5, <2>1 DEF Written
  <2> QED
    BY <1>5, <2>1, <2>3, <2>4
<1> QED
  BY <1>4, <1>5

\* Two files have two inodes.
LEMMA SlotsApart ==
  ASSUME NEW d, NEW f, IsFiles(d, f), NEW i \in DOMAIN f, NEW j \in DOMAIN f, i # j
  PROVE  f[i].slot # f[j].slot
BY DEF IsFiles

-----------------------------------------------------------------------------
\* A disk write changes what is stored, and nothing in memory.
LEMMA AppliedStores ==
  ASSUME NEW s, Shape(s), NEW w, IsWrite(w)
  PROVE  Stored(Applied(s, w)) = After(Stored(s), w) /\ Memory(Applied(s, w)) = Memory(s)
<1> DEFINE t == Applied(s, w)
           d == Stored(s)
<1>0. /\ d.inode = s.inode /\ d.logged = s.logged /\ d.saved_list = s.saved_list
      /\ d.saved_next = s.saved_next /\ d.saved_dir = s.saved_dir /\ d.tainted = s.tainted
      /\ d = [inode |-> d.inode, logged |-> d.logged, saved_list |-> d.saved_list,
              saved_next |-> d.saved_next, saved_dir |-> d.saved_dir, tainted |-> d.tainted]
  BY DEF Stored
<1> SUFFICES Stored(t) = After(d, w) /\ Memory(t) = Memory(s)
  OBVIOUS
<1> HIDE DEF d, t
<1>1. CASE w.to = "inode"
  <2> DEFINE I == [s.inode EXCEPT ![w.at] = w.what]
             L == [s.logged EXCEPT ![w.at] = w.what]
  <2>1. t = [s EXCEPT !.inode = I, !.logged = L]
    <3>1. t = [s EXCEPT !.inode[w.at] = w.what, !.logged[w.at] = w.what]
      BY <1>1 DEF Applied, t
    <3> QED
      BY <3>1 DEF Shape
  <2>2. After(d, w) = [d EXCEPT !.inode = I, !.logged = L]
    <3>1. After(d, w) = [d EXCEPT !.inode[w.at] = w.what, !.logged[w.at] = w.what]
      BY <1>1 DEF After, Applied
    <3> QED
      BY <1>0, <3>1
  <2> HIDE DEF I, L
  <2> QED
    BY <1>0, <2>1, <2>2 DEF Shape, Stored, Memory
<1>2. CASE w.to = "free"
  <2>1. t = [s EXCEPT !.inode[w.at].used = FALSE]
    BY <1>2 DEF Applied, t
  <2>2. After(d, w) = [d EXCEPT !.inode[w.at].used = FALSE]
    BY <1>2 DEF After, Applied
  <2> QED
    BY <1>0, <2>1, <2>2 DEF Shape, Stored, Memory
<1>3. CASE w.to = "zero"
  <2> DEFINE I == [k \in Slots |-> IF k \in w.at THEN NoInode ELSE s.inode[k]]
  <2>1. t = [s EXCEPT !.inode = I]
    BY <1>3 DEF Applied, t
  <2>2. After(d, w) = [d EXCEPT !.inode = I]
    BY <1>0, <1>3 DEF After, Applied
  <2> HIDE DEF I
  <2> QED
    BY <1>0, <2>1, <2>2 DEF Shape, Stored, Memory
<1>4. CASE w.to = "snap"
  <2>1. t = [s EXCEPT !.snap[w.at] = w.what]
    BY <1>4 DEF Applied, t
  <2>2. After(d, w) = d
    BY <1>4 DEF After
  <2> QED
    BY <1>0, <2>1, <2>2 DEF Shape, Stored, Memory
<1>5. CASE w.to = "next"
  <2>1. t = [s EXCEPT !.saved_next = w.what]
    BY <1>5 DEF Applied, t
  <2>2. After(d, w) = [d EXCEPT !.saved_next = w.what]
    BY <1>5 DEF After, Applied
  <2> QED
    BY <1>0, <2>1, <2>2 DEF Shape, Stored, Memory
<1>6. CASE w.to = "list"
  <2>1. t = [s EXCEPT !.saved_list = w.what, !.tainted = @ \ w.cured]
    BY <1>6 DEF Applied, t
  <2>2. After(d, w) = [d EXCEPT !.saved_list = w.what, !.tainted = @ \ w.cured]
    BY <1>6 DEF After, Applied
  <2> QED
    BY <1>0, <2>1, <2>2 DEF Shape, Stored, Memory
<1>7. CASE w.to = "dir"
  <2>1. t = [s EXCEPT !.saved_dir = w.what]
    BY <1>7 DEF Applied, t
  <2>2. After(d, w) = [d EXCEPT !.saved_dir = w.what]
    BY <1>7 DEF After, Applied
  <2> QED
    BY <1>0, <2>1, <2>2 DEF Shape, Stored, Memory
<1>8. w.to \in {"inode", "free", "zero", "snap", "next", "list", "dir"}
  BY DEF IsWrite
<1> QED
  BY <1>1, <1>2, <1>3, <1>4, <1>5, <1>6, <1>7, <1>8

\* Unmounting changes nothing on disk.
LEMMA ClosedStores == \A s : Shape(s) => Stored(Closed(s)) = Stored(s)
BY DEF Shape, Closed, Stored

\* t has what s has, except perhaps a free list and more tainted sectors.
Kin(s, t) ==
  /\ Shape(t) /\ s.tainted \subseteq t.tainted
  /\ t = [s EXCEPT !.list = t.list, !.tainted = t.tainted]

\* Two states that differ in what is excused, or in the list, store the same.
LEMMA KinStores ==
  ASSUME NEW s, Shape(s), NEW t, Kin(s, t), IsSafe(Stored(s))
  PROVE  /\ t.files = s.files /\ t.next = s.next /\ t.dir = s.dir
         /\ Stored(t) = [Stored(s) EXCEPT !.tainted = t.tainted]
         /\ Stored(t).tainted = t.tainted /\ Stored(s).tainted = s.tainted
         /\ Stored(t).inode = s.inode /\ Stored(t).logged = s.logged
         /\ Stored(t).saved_dir = s.saved_dir /\ Stored(t).saved_next = s.saved_next
         /\ IsSafe(Stored(t))
         /\ \A f : IsFiles(Stored(t), f) <=> IsFiles(Stored(s), f)
         /\ \A x, list, next : Lone(Stored(t), list, next, x) <=> Lone(Stored(s), list, next, x)
<1>1. /\ t.files = s.files /\ t.next = s.next /\ t.dir = s.dir
      /\ t.inode = s.inode /\ t.logged = s.logged
      /\ t.saved_dir = s.saved_dir /\ t.saved_next = s.saved_next /\ t.saved_list = s.saved_list
  BY DEF Kin, Shape
<1>2. Stored(t) = [Stored(s) EXCEPT !.tainted = t.tainted]
  BY <1>1 DEF Stored
<1>3. /\ Stored(t).tainted = t.tainted /\ Stored(s).tainted = s.tainted
      /\ Stored(t).inode = s.inode /\ Stored(t).logged = s.logged
      /\ Stored(t).saved_dir = s.saved_dir /\ Stored(t).saved_next = s.saved_next
      /\ Stored(s).inode = s.inode /\ Stored(s).logged = s.logged
      /\ Stored(s).saved_dir = s.saved_dir
  BY <1>1 DEF Stored
<1> DEFINE d == Stored(s)
           e == Stored(t)
<1> HIDE DEF d, e
<1>4. IsSafe(e)
  <2>1. IsStored(d) /\ e = [d EXCEPT !.tainted = t.tainted] /\ d.tainted \subseteq t.tainted
    BY <1>2, <1>3 DEF Kin, IsSafe, d, e
  <2> QED
    BY <2>1, MoreTainted DEF d
<1>5. e.inode = d.inode /\ e.logged = d.logged /\ e.saved_dir = d.saved_dir
  BY <1>3 DEF d, e
<1>6. /\ \A f : IsFiles(e, f) <=> IsFiles(d, f)
      /\ \A x, list, next : Lone(e, list, next, x) <=> Lone(d, list, next, x)
  BY <1>5, SameOwners
<1> QED
  BY <1>1, <1>2, <1>3, <1>4, <1>6 DEF d, e

\* What a file gives back when it is stored anew or goes.
Returned(s, i) ==
  LET f == s.files[i]
  IN  IF f.offset > 0 /\ f.size > 0 THEN free_data(s, f.offset, f.size, "freed", Own(s, i)) ELSE s

\* A file's extent given back: what is on the list then was free, or was
\* the file's, or is excused.
LEMMA ReturnedIs ==
  ASSUME AllExcused, NEW s, Shape(s), Neat(s.list), NEW i,
         s.files[i].size \in Nat, s.files[i].offset \in Nat
  PROVE  LET u == Returned(s, i)
         IN  /\ Kin(s, u) /\ Neat(u.list)
             /\ \A x : InList(u.list, x) /\ x \notin u.tainted => InList(s.list, x) \/ x \in Own(s, i)
<1> DEFINE f == s.files[i]
           u == Returned(s, i)
           l == List!Freed(s.list, [offset |-> f.offset, length |-> f.size])
           T == s.tainted \cup (Sectors(f.offset, f.size) \ Own(s, i))
<1>1. CASE ~(f.offset > 0 /\ f.size > 0)
  <2>1. u = s
    BY <1>1 DEF Returned
  <2>2. Kin(s, s)
    BY DEF Kin, Shape
  <2> QED
    BY <2>1, <2>2
<1>2. CASE f.offset > 0 /\ f.size > 0
  <2>1. u = [s EXCEPT !.list = l, !.tainted = T]
    <3>1. u = free_data(s, f.offset, f.size, "freed", Own(s, i))
      BY <1>2 DEF Returned
    <3> DEFINE v == [s EXCEPT !.list = l]
    <3>2. u = Tainted(v, "freed", Sectors(f.offset, f.size) \ Own(s, i))
      BY <1>2, <3>1 DEF free_data
    <3>3. "freed" \in Excuse
      BY DEF AllExcused
    <3> HIDE DEF l
    <3>4. u = [v EXCEPT !.tainted = @ \cup (Sectors(f.offset, f.size) \ Own(s, i))]
      BY <3>2, <3>3 DEF Tainted
    <3> HIDE DEF u
    <3> QED
      BY <3>4 DEF Shape
  <2>2. /\ Neat(l)
        /\ \A x : InList(l, x) => InList(s.list, x) \/ x \in Sectors(f.offset, f.size)
    BY ListFreed
  <2> HIDE DEF l, T, u
  <2>3. u.list = l /\ u.tainted = T /\ Kin(s, u)
    BY <2>1 DEF Kin, Shape, T
  <2> QED
    BY <2>2, <2>3 DEF T, u
<1> QED
  BY <1>1, <1>2

\* Of a sector that is not tainted, after the file in inode k has given back.
LEMMA ReturnedLone ==
  ASSUME AllExcused, NEW s, Shape(s), IsSafe(Stored(s)), Agrees(Stored(s), Memory(s)),
         NEW i \in Live(s), NEW x \in Disk, x \notin Returned(s, i).tainted
  PROVE  LET u == Returned(s, i)
             k == s.files[i].slot
         IN  /\ x \in Own(s, i) <=> AtFile(Stored(s), k, x)
             /\ Lone(Stored(s), s.list, s.next, x)
             /\ Others(Stored(s), k, x) => x \notin Own(s, i) /\ ~InList(u.list, x) /\ x < s.next
             /\ InList(u.list, x) => x < s.next
<1> DEFINE d == Stored(s)
           u == Returned(s, i)
           k == s.files[i].slot
<1>1. /\ s.files[i] \in [slot : Named(d), size : Nat, offset : Nat, len : Nat]
      /\ Own(s, i) = Sectors(Rec(d, k).offset, Rec(d, k).len)
  BY DEF Agrees, Memory, IsFiles, Live, Own
<1>2. Neat(s.list) /\ \A y \in Disk \ d.tainted : Lone(d, s.list, s.next, y)
  BY DEF Agrees, Memory
<1>3. /\ Kin(s, u)
      /\ \A y : InList(u.list, y) /\ y \notin u.tainted => InList(s.list, y) \/ y \in Own(s, i)
  BY <1>1, <1>2, ReturnedIs
<1>4. d.tainted = s.tainted
  BY DEF Stored
<1> HIDE DEF d, u
<1>5. x \in Own(s, i) <=> AtFile(d, k, x)
  BY <1>1 DEF AtFile
<1>6. Lone(d, s.list, s.next, x)
  BY <1>2, <1>3, <1>4 DEF Kin, u
<1>7. InList(u.list, x) => InList(s.list, x) \/ x \in Own(s, i)
  BY <1>3 DEF u
<1>8. x \in Own(s, i) => Owned(d, x) /\ ~Others(d, k, x)
  BY <1>5, <1>6, OthersAre DEF Lone
<1>9. Others(d, k, x) => Owned(d, x)
  BY OthersAre
<1> QED
  BY <1>5, <1>6, <1>7, <1>8, <1>9 DEF Lone, d, u

-----------------------------------------------------------------------------
\* A mount's state: what is stored is safe, and memory agrees.
Sound(s) == Shape(s) /\ IsSafe(Stored(s)) /\ Agrees(Stored(s), Memory(s))
IsSafeRequest(r, how) == Safe(Stored(r.state), r.writes, Memory(r.state), how)

\* What is known of file i.
LEMMA FileIs ==
  ASSUME NEW s, Sound(s), NEW i \in Live(s)
  PROVE  LET f == s.files[i]
             d == Stored(s)
         IN  /\ f = [slot |-> f.slot, size |-> f.size, offset |-> f.offset, len |-> f.len]
             /\ f.size \in Nat /\ f.offset \in Nat /\ f.len \in Nat
             /\ f.slot \in Slots /\ f.slot \in Named(d) /\ f.slot < Capacity(s.saved_dir)
             /\ s.inode[f.slot].used /\ s.inode[f.slot].ino = i
             /\ s.dir = s.saved_dir /\ s.next \in Nat /\ s.next >= s.saved_next /\ Neat(s.list)
             /\ IsFiles(d, s.files)
             /\ \A j \in Live(s) : j # i => s.files[j].slot # f.slot
<1> DEFINE d == Stored(s)
           f == s.files[i]
<1>1. d.inode = s.inode /\ d.saved_dir = s.saved_dir /\ d.saved_next = s.saved_next
  BY DEF Stored
<1>2. /\ IsFiles(d, s.files) /\ s.dir = d.saved_dir /\ s.next \in Nat /\ s.next >= d.saved_next
      /\ Neat(s.list)
  BY DEF Sound, Agrees, Memory
<1> HIDE DEF d
<1>3. /\ f \in [slot : Named(d), size : Nat, offset : Nat, len : Nat]
      /\ d.inode[f.slot].used /\ d.inode[f.slot].ino = i
  BY <1>2 DEF IsFiles, Live
<1>4. f.slot \in Slots /\ f.slot < Capacity(d.saved_dir)
  BY <1>3 DEF Named
<1>5. \A j \in Live(s) : j # i => s.files[j].slot # f.slot
  BY <1>2, SlotsApart DEF Live
<1> QED
  BY <1>1, <1>2, <1>3, <1>4, <1>5 DEF d

\* A file stored: its new extent on disk before its record names it.
LEMMA PersistIsSafe ==
  ASSUME AllExcused, NEW s, Sound(s), NEW i \in Live(s), NEW len \in Nat, NEW how
  PROVE  IsSafeRequest(persist_to_disk(s, i, len), how)
<1> DEFINE f == s.files[i]
           k == f.slot
           u == Returned(s, i)
           d == Stored(u)
           o == IF len = 0 THEN DataStart ELSE AllocatedAt(u, len)
           a == IF len = 0 THEN u ELSE alloc_data(u, len)
           t == [a EXCEPT !.files[i].offset = o, !.files[i].len = len]
           r == [ino |-> i, size |-> f.size, offset |-> o, len |-> len, used |-> TRUE]
           w == Write("inode", k, r)
           S == Sectors(o, len)
           v == [slot |-> k, size |-> f.size, offset |-> o, len |-> len]
<1>1. /\ f = [slot |-> f.slot, size |-> f.size, offset |-> f.offset, len |-> f.len]
      /\ f.size \in Nat /\ f.offset \in Nat
      /\ k \in Slots /\ k < Capacity(s.saved_dir)
      /\ s.dir = s.saved_dir /\ s.next \in Nat /\ s.next >= s.saved_next /\ Neat(s.list)
      /\ IsFiles(Stored(s), s.files)
      /\ \A j \in Live(s) : j # i => s.files[j].slot # k
  BY FileIs
<1>2. persist_to_disk(s, i, len) = [state |-> t, writes |-> <<w>> \o flush_disk(t, S)]
  <2>1. write_inode(k, r) = <<w>>
    BY WriteInodeIs
  <2> HIDE DEF w
  <2> QED
    BY <2>1 DEF persist_to_disk, Returned
<1>3. Shape(s) /\ IsSafe(Stored(s))
  BY DEF Sound
<1>4. Kin(s, u) /\ Neat(u.list)
  BY <1>1, <1>3, ReturnedIs
<1>5. /\ u.files = s.files /\ u.next = s.next /\ u.dir = s.dir /\ Shape(u)
      /\ d.tainted = u.tainted /\ d.saved_dir = s.saved_dir /\ d.saved_next = s.saved_next
      /\ IsSafe(d) /\ IsFiles(d, s.files)
  <2>1. Shape(u)
    BY <1>4 DEF Kin
  <2> HIDE DEF u, d
  <2>2. u.files = s.files /\ u.next = s.next /\ u.dir = s.dir
    BY <1>3, <1>4, KinStores
  <2>3. d.tainted = u.tainted /\ d.saved_dir = s.saved_dir /\ d.saved_next = s.saved_next
    BY <1>3, <1>4, KinStores DEF d
  <2>4. IsSafe(d)
    BY <1>3, <1>4, KinStores DEF d
  <2>5. IsFiles(d, s.files)
    BY <1>1, <1>3, <1>4, KinStores DEF d
  <2> QED
    BY <2>1, <2>2, <2>3, <2>4, <2>5
<1>6. ASSUME NEW x \in Disk \ d.tainted
      PROVE  /\ Others(d, k, x) => ~InList(u.list, x) /\ x < u.next
             /\ InList(u.list, x) => x < u.next
  <2>1. /\ Others(Stored(s), k, x) => ~InList(u.list, x) /\ x < s.next
        /\ InList(u.list, x) => x < s.next
    BY <1>5, ReturnedLone DEF Sound
  <2>2. Others(d, k, x) <=> Others(Stored(s), k, x)
    <3>1. d = [Stored(s) EXCEPT !.tainted = u.tainted] /\ IsStored(Stored(s))
      BY <1>3, <1>4, KinStores DEF IsSafe
    <3>2. s.tainted \subseteq u.tainted /\ Stored(s).tainted = s.tainted
      BY <1>4 DEF Kin, Stored
    <3> HIDE DEF d
    <3>3. /\ d.inode = Stored(s).inode /\ d.logged = Stored(s).logged
          /\ d.saved_dir = Stored(s).saved_dir
      BY <3>1, <3>2, MoreTainted
    <3> QED
      BY <3>3, SameOwners DEF Others, AtFile, AtBlock
  <2> QED
    BY <1>5, <2>1, <2>2
<1> HIDE DEF u
<1>7. DataStart \in Nat \ {0} /\ s.saved_next >= DataStart /\ s.saved_next \in Nat
  BY <1>3, StoreAssumption DEF IsSafe, IsStored, Stored
<1>8. /\ o \in Nat \ {0}
      /\ \/ a = alloc_data(u, len) /\ S = Given(u, len)
         \/ a = u /\ S = {}
      /\ a = [u EXCEPT !.list = a.list, !.next = a.next]
  <2>1. CASE len = 0
    <3>1. S = {}
      BY <1>7, <2>1 DEF Sectors
    <3> QED
      BY <1>5, <1>7, <2>1, <3>1 DEF Shape
  <2>2. CASE len # 0
    <3>1. u.next \in Nat /\ u.next >= DataStart
      BY <1>1, <1>5, <1>7
    <3>2. AllocatedAt(u, len) \in Nat \ {0}
      BY <1>4, <1>5, <3>1, AllocIs
    <3>3. alloc_data(u, len) = [u EXCEPT !.list = alloc_data(u, len).list,
                                         !.next = alloc_data(u, len).next]
      BY <1>4, <1>5, <3>1, AllocIs
    <3> QED
      BY <2>2, <3>2, <3>3 DEF Given
  <2> QED
    BY <2>1, <2>2
<1> HIDE DEF o, a
<1>9. /\ t.list = a.list /\ t.next = a.next /\ t.dir = a.dir
      /\ t.files = [a.files EXCEPT ![i].offset = o, ![i].len = len]
      /\ Stored(t) = d
  <2>1. /\ Shape(a) /\ a.files = s.files /\ a.dir = u.dir
        /\ a.inode = u.inode /\ a.logged = u.logged /\ a.saved_list = u.saved_list
        /\ a.saved_next = u.saved_next /\ a.saved_dir = u.saved_dir /\ a.tainted = u.tainted
    BY <1>5, <1>8 DEF Shape
  <2> DEFINE F == [a.files EXCEPT ![i].offset = o, ![i].len = len]
  <2>2. t = [a EXCEPT !.files = F]
    BY <2>1 DEF Shape
  <2> HIDE DEF F, t
  <2> QED
    BY <2>1, <2>2 DEF Shape, Stored, F
<1>10. /\ DOMAIN t.files = DOMAIN s.files /\ t.files[i] = v
       /\ \A j \in DOMAIN s.files : j # i => t.files[j] = s.files[j]
  <2>1. a.files = s.files /\ i \in DOMAIN s.files
    BY <1>5, <1>8 DEF Shape, Live
  <2>2. /\ DOMAIN t.files = DOMAIN s.files
        /\ t.files[i] = [[f EXCEPT !.offset = o] EXCEPT !.len = len]
        /\ \A j \in DOMAIN s.files : j # i => t.files[j] = s.files[j]
    <3> HIDE DEF t
    <3> QED
      BY <1>9, <2>1
  <2>3. [[f EXCEPT !.offset = o] EXCEPT !.len = len] = v
    <3> DEFINE g == f
    <3> HIDE DEF g
    <3>1. PICK p, q, y, z : /\ g = [slot |-> p, size |-> q, offset |-> y, len |-> z]
                            /\ p = g.slot /\ q = g.size
      BY <1>1, Zenon DEF g
    <3>2. [[g EXCEPT !.offset = o] EXCEPT !.len = len] =
            [slot |-> p, size |-> q, offset |-> o, len |-> len]
      <4> DEFINE h == [g EXCEPT !.offset = o]
      <4>1. h = [slot |-> p, size |-> q, offset |-> o, len |-> z]
        BY <3>1
      <4> HIDE DEF h
      <4>2. [h EXCEPT !.len = len] = [slot |-> p, size |-> q, offset |-> o, len |-> len]
        BY <4>1
      <4> QED
        BY <4>2 DEF h
    <3> QED
      BY <3>1, <3>2, Zenon DEF g
  <2> HIDE DEF t, v
  <2> QED
    BY <2>2, <2>3
<1>11. IsInode(r) /\ r.used /\ IsInodeWrite(w, k, r)
  BY <1>1, <1>8, WriteInodeIs DEF IsInode
<1>12. IsFiles(After(d, w), t.files)
  <2>1. \A j \in DOMAIN t.files : \/ j = i /\ t.files[j] = v
                                  \/ j \in DOMAIN s.files /\ t.files[j] = s.files[j] /\ s.files[j].slot # k
    BY <1>1, <1>10 DEF Live
  <2>2. Sectors(v.offset, v.len) = Sectors(r.offset, r.len) /\ r.ino = i
    OBVIOUS
  <2>3. v = [slot |-> k, size |-> v.size, offset |-> v.offset, len |-> v.len]
        /\ v.size \in Nat /\ v.offset \in Nat /\ v.len \in Nat
    BY <1>1, <1>8
  <2>4. IsStored(d) /\ k < Capacity(d.saved_dir)
    BY <1>1, <1>5 DEF IsSafe
  <2> HIDE DEF t, v, r, w, d, k
  <2> QED
    BY <1>1, <1>5, <1>11, <2>1, <2>2, <2>3, <2>4, FilesWritten
<1>13. S = Sectors(r.offset, r.len)
  OBVIOUS
<1>14. SameTop(Memory(t), a) /\ SameTop(t, a) /\ Memory(t).files = t.files
  BY <1>9 DEF Memory, SameTop
<1>15. CanPut(d, k, r, w)
  BY <1>1, <1>5, <1>11 DEF CanPut
<1>16. CanGive(d, k, u)
  <2>1. u.next \in Nat /\ u.next >= d.saved_next /\ u.dir = d.saved_dir
    BY <1>1, <1>5
  <2> HIDE DEF d, k
  <2> QED
    BY <1>4, <1>5, <1>6, <2>1 DEF CanGive
<1>17. Gives(u, len, a, S)
  BY <1>8 DEF Gives
<1> DEFINE m == Memory(t)
<1> HIDE DEF t, r, w, S, d, k, m
<1>18. how = "mounted" => IsFiles(After(d, w), m.files)
  BY <1>12, <1>14 DEF m
<1>19. SameTop(m, a) /\ SameTop(t, a)
  BY <1>14 DEF m
<1>20. Safe(d, <<w>> \o flush_disk(t, S), m, how)
  BY <1>5, <1>13, <1>15, <1>16, <1>17, <1>18, <1>19, StoreIsSafe
<1> QED
  BY <1>2, <1>9, <1>20 DEF IsSafeRequest, m

-----------------------------------------------------------------------------
\* An inode that is freed in place: what the journal holds of it stays.
Vacated(d, k, e) ==
  /\ IsStored(e)
  /\ e.saved_dir = d.saved_dir /\ e.saved_next = d.saved_next
  /\ e.saved_list = d.saved_list /\ e.tainted = d.tainted
  /\ \A j \in Slots : j # k => e.inode[j] = d.inode[j] /\ Rec(e, j) = Rec(d, j)
  /\ \A j \in Named(d) : j # k => j \in Named(e)
  /\ \A x, j : AtFile(e, j, x) => AtFile(d, j, x)
  /\ d.logged[k] = NoInode => \A x : ~AtFile(e, k, x)
  /\ \A x, b : AtBlock(e, b, x) <=> AtBlock(d, b, x)

\* Freeing an inode empties its slot only.
LEMMA InodeVacated ==
  ASSUME NEW d, IsStored(d), NEW k \in Slots, NEW w, w.to = "free", w.at = k
  PROVE  Vacated(d, k, After(d, w))
<1> DEFINE e == After(d, w)
           g == [d.inode[k] EXCEPT !.used = FALSE]
<1>1. /\ d.inode = [j \in Slots |-> d.inode[j]] /\ IsInode(d.inode[k])
      /\ d.logged[k] = NoInode \/ IsLogged(d, k)
  BY DEF IsStored
<1>2. IsInode(g) /\ ~g.used
  BY <1>1 DEF IsInode
<1> HIDE DEF g
<1>3. e = [d EXCEPT !.inode[k] = g]
  BY DEF After, Applied, g
<1>4. /\ e.inode = [d.inode EXCEPT ![k] = g] /\ e.logged = d.logged
      /\ e.saved_dir = d.saved_dir /\ e.saved_next = d.saved_next
      /\ e.saved_list = d.saved_list /\ e.tainted = d.tainted
      /\ e \in [inode : {e.inode}, logged : {e.logged}, saved_list : {e.saved_list},
                saved_next : Nat, saved_dir : Seq(Nat), tainted : {e.tainted}]
  BY <1>3 DEF IsStored
<1> HIDE DEF e
<1>5. /\ e.inode = [j \in Slots |-> e.inode[j]]
      /\ \A j \in Slots : e.inode[j] = IF j = k THEN g ELSE d.inode[j]
  BY <1>1, <1>4, PutIs
<1>6. IsStored(e)
  <2>1. ASSUME NEW j \in Slots
        PROVE  IsInode(e.inode[j]) /\ (e.logged[j] = NoInode \/ IsLogged(e, j))
    <3>1. CASE j # k
      BY <1>4, <1>5, <3>1 DEF IsStored, IsLogged
    <3>2. CASE j = k
      <4>1. e.inode[j] = g /\ e.logged[j] = d.logged[k]
        BY <1>4, <1>5, <3>2
      <4>2. IsLogged(d, k) => IsLogged(e, k)
        <5> SUFFICES ASSUME IsLogged(d, k)
                     PROVE  g \in {d.logged[k], [d.logged[k] EXCEPT !.used = FALSE]}
          BY <1>4, <3>2, <4>1 DEF IsLogged
        <5>1. CASE d.inode[k] = d.logged[k]
          BY <5>1 DEF g
        <5>2. CASE d.inode[k] = [d.logged[k] EXCEPT !.used = FALSE]
          BY <5>2 DEF g, IsLogged, IsInode
        <5> QED
          BY <5>1, <5>2 DEF IsLogged
      <4> QED
        BY <1>1, <1>2, <3>2, <4>1, <4>2
    <3> QED
      BY <3>1, <3>2
  <2> QED
    BY <1>4, <1>5, <2>1 DEF IsStored
<1>7. \A j \in Slots : j # k => e.inode[j] = d.inode[j] /\ Rec(e, j) = Rec(d, j)
  BY <1>4, <1>5 DEF Rec
<1>8. d.logged[k] # NoInode => Rec(e, k) = Rec(d, k)
  BY <1>4 DEF Rec
<1>9. d.logged[k] = NoInode => ~Rec(e, k).used
  BY <1>2, <1>4, <1>5 DEF Rec
<1>10. \A j \in Named(e) : j \in Named(d) /\ Rec(e, j) = Rec(d, j)
  BY <1>4, <1>7, <1>8, <1>9 DEF Named
<1>11. d.logged[k] = NoInode => k \notin Named(e)
  BY <1>9 DEF Named
<1>12. \A j \in Named(d) : j # k => j \in Named(e)
  BY <1>4, <1>7 DEF Named
<1>13. /\ \A x, j : AtFile(e, j, x) => AtFile(d, j, x)
       /\ d.logged[k] = NoInode => \A x : ~AtFile(e, k, x)
       /\ \A x, b : AtBlock(e, b, x) <=> AtBlock(d, b, x)
  BY <1>4, <1>10, <1>11 DEF AtFile, AtBlock
<1> QED
  BY <1>4, <1>6, <1>7, <1>12, <1>13 DEF Vacated, e

\* A file removed.
LEMMA UnlinkIsSafe ==
  ASSUME AllExcused, NEW s, Sound(s), NEW i \in Live(s), NEW how
  PROVE  IsSafeRequest(unlink(s, i), how)
<1> DEFINE f == s.files[i]
           k == f.slot
           u == Returned(s, i)
           L == IF s.logged[k].ino = i THEN Own(s, i) ELSE {}
           v == [u EXCEPT !.files = Without(@, i)]
           t == Tainted(v, "logged", L)
           w == Write("free", k, 0)
           c == Stored(s)
           d == Stored(t)
           e == After(d, w)
           m == Memory(t)
<1>1. /\ f = [slot |-> f.slot, size |-> f.size, offset |-> f.offset, len |-> f.len]
      /\ f.size \in Nat /\ f.offset \in Nat
      /\ k \in Slots /\ k < Capacity(s.saved_dir)
      /\ s.dir = s.saved_dir /\ s.next \in Nat /\ s.next >= s.saved_next /\ Neat(s.list)
      /\ IsFiles(c, s.files)
      /\ s.inode[k].ino = i
      /\ \A j \in Live(s) : j # i => s.files[j].slot # k
  BY FileIs
<1>2. unlink(s, i) = [state |-> t, writes |-> <<w>>]
  BY DEF unlink, Returned
<1>3. Shape(s) /\ IsSafe(c) /\ IsStored(c)
  BY DEF Sound, IsSafe
<1>4. Kin(s, u) /\ Neat(u.list)
  BY <1>1, <1>3, ReturnedIs
<1>5. /\ Shape(t) /\ t.files = Without(s.files, i) /\ t.list = u.list /\ t.next = s.next
      /\ t.dir = s.dir /\ t.tainted = u.tainted \cup L
      /\ d = [c EXCEPT !.tainted = u.tainted \cup L] /\ c.tainted \subseteq u.tainted \cup L
  <2>1. "logged" \in Excuse
    BY DEF AllExcused
  <2>2. v = [s EXCEPT !.list = u.list, !.tainted = u.tainted, !.files = Without(s.files, i)]
    <3> HIDE DEF u
    <3>1. u = [s EXCEPT !.list = u.list, !.tainted = u.tainted] /\ u.files = s.files
      BY <1>3, <1>4 DEF Kin, Shape
    <3> DEFINE F == Without(s.files, i)
    <3>2. v = [u EXCEPT !.files = F]
      BY <3>1
    <3> HIDE DEF F, v
    <3>3. v = [[s EXCEPT !.list = u.list, !.tainted = u.tainted] EXCEPT !.files = F]
      BY <3>1, <3>2, Zenon
    <3> QED
      BY <3>3 DEF F
  <2> DEFINE F == Without(s.files, i)
             W == u.tainted
             l == u.list
  <2> HIDE DEF F, W, l, v, L
  <2>3. v = [s EXCEPT !.list = l, !.tainted = W, !.files = F]
    BY <2>2 DEF F, W, l
  <2>4. t = [v EXCEPT !.tainted = W \cup L]
    BY <1>3, <2>1, <2>3 DEF Tainted, Shape
  <2> HIDE DEF t
  <2>5. /\ Shape(t) /\ t.files = F /\ t.list = l /\ t.next = s.next
        /\ t.dir = s.dir /\ t.tainted = W \cup L
        /\ t.inode = s.inode /\ t.logged = s.logged /\ t.saved_list = s.saved_list
        /\ t.saved_next = s.saved_next /\ t.saved_dir = s.saved_dir
    BY <1>3, <2>3, <2>4 DEF Shape
  <2>6. d = [c EXCEPT !.tainted = W \cup L]
    <3>1. /\ t.inode = s.inode /\ t.logged = s.logged /\ t.saved_list = s.saved_list
          /\ t.saved_next = s.saved_next /\ t.saved_dir = s.saved_dir
      BY <2>5
    <3>2. Stored(t) = [Stored(s) EXCEPT !.tainted = t.tainted]
      BY <3>1 DEF Stored
    <3> QED
      BY <2>5, <3>2
  <2>7. c.tainted \subseteq W
    BY <1>4 DEF Kin, Stored, W
  <2> QED
    BY <2>5, <2>6, <2>7 DEF F, W, l
<1> HIDE DEF t, u, c
<1>6. /\ d.inode = c.inode /\ d.logged = c.logged /\ d.saved_dir = c.saved_dir
      /\ d.saved_next = c.saved_next /\ d.saved_list = c.saved_list
      /\ d.tainted = u.tainted \cup L /\ IsSafe(d) /\ IsStored(d)
  <2> DEFINE W == u.tainted \cup L
  <2> HIDE DEF W, d
  <2>1. d = [c EXCEPT !.tainted = W] /\ c.tainted \subseteq W
    BY <1>5 DEF W
  <2> QED
    BY <1>3, <2>1, MoreTainted DEF W
<1>7. c.inode = s.inode /\ c.logged = s.logged /\ c.saved_dir = s.saved_dir /\ c.saved_next = s.saved_next
  BY DEF Stored, c
<1>8. Vacated(d, k, e)
  <2> HIDE DEF d, k
  <2> QED
    BY <1>1, <1>6, InodeVacated DEF Write
<1> HIDE DEF d, e, k
<1>9. ASSUME NEW x \in Disk \ d.tainted
      PROVE  Lone(e, t.list, t.next, x) /\ Clear(e, x)
  <2>1. /\ x \in Own(s, i) <=> AtFile(c, k, x)
        /\ Lone(c, s.list, s.next, x)
        /\ Others(c, k, x) => x \notin Own(s, i) /\ ~InList(u.list, x) /\ x < s.next
        /\ InList(u.list, x) => x < s.next
    BY <1>6, ReturnedLone DEF Sound, u, c, k
  <2>2. /\ \A j : AtFile(e, j, x) => AtFile(c, j, x)
        /\ \A b : AtBlock(e, b, x) <=> AtBlock(c, b, x)
    <3>1. /\ \A j : AtFile(e, j, x) => AtFile(d, j, x)
          /\ \A b : AtBlock(e, b, x) <=> AtBlock(d, b, x)
      BY <1>8 DEF Vacated
    <3>2. /\ \A j : AtFile(d, j, x) <=> AtFile(c, j, x)
          /\ \A b : AtBlock(d, b, x) <=> AtBlock(c, b, x)
      BY <1>6, SameOwners DEF AtFile, AtBlock
    <3> QED
      BY <3>1, <3>2
  <2>3. Clear(c, x)
    BY <1>3, <1>5, <1>6 DEF IsSafe
  <2>4. Clear(e, x)
    <3>1. e.saved_list = c.saved_list /\ e.saved_next = c.saved_next
      BY <1>6, <1>8 DEF Vacated
    <3> QED
      BY <2>2, <2>3, <3>1, FewerOwners DEF Clear
  <2>5. ~AtFile(e, k, x)
    <3>1. CASE s.logged[k] = NoInode
      BY <1>6, <1>7, <1>8, <3>1 DEF Vacated
    <3>2. CASE s.logged[k] # NoInode
      <4>1. IsLogged(c, k)
        BY <1>1, <1>3, <1>7, <3>2 DEF IsStored
      <4>2. s.logged[k].ino = i
        <5>1. s.inode[k] = s.logged[k] \/ s.inode[k] = [s.logged[k] EXCEPT !.used = FALSE]
          BY <1>7, <4>1 DEF IsLogged
        <5>2. IsInode(s.logged[k])
          BY <1>7, <4>1 DEF IsLogged
        <5> QED
          BY <1>1, <5>1, <5>2 DEF IsInode
      <4>3. x \notin Own(s, i)
        BY <1>6, <4>2 DEF L, k
      <4> QED
        BY <2>1, <2>2, <4>3
    <3> QED
      BY <3>1, <3>2
  <2>6. Owned(e, x) => Others(c, k, x)
    BY <2>2, <2>5 DEF Owned, Others
  <2>7. OneOwner(e, x)
    BY <2>4 DEF Clear, Lone
  <2> QED
    BY <1>5, <2>1, <2>4, <2>6, <2>7 DEF Lone
<1>10. IsStored(e) /\ e.tainted = d.tainted /\ e.saved_dir = d.saved_dir /\ e.saved_next = d.saved_next
  BY <1>8 DEF Vacated
<1>11. IsSafe(e)
  BY <1>9, <1>10 DEF IsSafe
<1>12. IsFiles(e, t.files)
  <2>1. \A j : j \in DOMAIN t.files => j \in DOMAIN s.files /\ j # i /\ t.files[j] = s.files[j]
    BY <1>5 DEF Without
  <2>2. Named(c) = Named(d) /\ \A j : Rec(c, j) = Rec(d, j)
    BY <1>6, SameOwners
  <2>3. ASSUME NEW j \in DOMAIN t.files
        PROVE  /\ t.files[j] \in [slot : Named(e), size : Nat, offset : Nat, len : Nat]
               /\ e.inode[t.files[j].slot].used /\ e.inode[t.files[j].slot].ino = j
               /\ Sectors(t.files[j].offset, t.files[j].len) =
                    Sectors(Rec(e, t.files[j].slot).offset, Rec(e, t.files[j].slot).len)
    <3> DEFINE g == s.files[j]
    <3>1. /\ g \in [slot : Named(c), size : Nat, offset : Nat, len : Nat]
          /\ c.inode[g.slot].used /\ c.inode[g.slot].ino = j
          /\ Sectors(g.offset, g.len) = Sectors(Rec(c, g.slot).offset, Rec(c, g.slot).len)
      BY <1>1, <2>1 DEF IsFiles
    <3>2. g.slot # k /\ t.files[j] = g
      BY <1>1, <2>1 DEF Live, k
    <3> HIDE DEF g
    <3>3. g.slot \in Slots /\ g.slot \in Named(d)
      BY <2>2, <3>1 DEF Named
    <3>4. /\ e.inode[g.slot] = d.inode[g.slot] /\ Rec(e, g.slot) = Rec(d, g.slot)
          /\ g.slot \in Named(e)
      BY <1>8, <3>2, <3>3 DEF Vacated
    <3>5. g \in [slot : Named(e), size : Nat, offset : Nat, len : Nat]
      BY <3>1, <3>4
    <3> QED
      BY <1>6, <2>2, <3>1, <3>2, <3>4, <3>5
  <2> QED
    BY <2>3 DEF IsFiles
<1>13. Agrees(e, m)
  <2>1. m.files = t.files /\ m.list = t.list /\ m.next = t.next /\ m.dir = t.dir
    BY DEF Memory
  <2> HIDE DEF m
  <2> QED
    BY <1>1, <1>4, <1>5, <1>6, <1>7, <1>9, <1>10, <1>12, <2>1 DEF Agrees
<1>14. Safe(e, <<>>, m, how)
  BY <1>11, <1>13, SafeNil
<1>15. IsSafeAt(d, w)
  BY <1>6 DEF IsSafe, IsSafeAt, Write
<1>16. Safe(d, <<w>> \o <<>>, m, how)
  BY <1>14, <1>15, SafeCons DEF e
<1>17. <<w>> \o <<>> = <<w>>
  OBVIOUS
<1> QED
  BY <1>2, <1>16, <1>17 DEF IsSafeRequest, d

-----------------------------------------------------------------------------
\* The inode of a file is the one that the journal holds, if it holds one.
LEMMA UsedIsRec ==
  ASSUME NEW d, IsStored(d), NEW k \in Slots, d.inode[k].used
  PROVE  Rec(d, k) = d.inode[k]
<1>1. CASE d.logged[k] = NoInode
  BY <1>1 DEF Rec
<1>2. CASE d.logged[k] # NoInode
  <2>1. IsLogged(d, k)
    BY <1>2 DEF IsStored
  <2>2. d.inode[k] = d.logged[k] \/ d.inode[k] = [d.logged[k] EXCEPT !.used = FALSE]
    BY <2>1 DEF IsLogged
  <2>3. d.inode[k] # [d.logged[k] EXCEPT !.used = FALSE]
    BY <2>1 DEF IsLogged, IsInode
  <2> QED
    BY <1>2, <2>2, <2>3 DEF Rec
<1> QED
  BY <1>1, <1>2

\* A file renamed: its record is written again with the extent it has.
LEMMA RenameIsSafe ==
  ASSUME NEW s, Sound(s), NEW i \in Live(s), NEW how
  PROVE  IsSafeRequest(rename(s, i), how)
<1> DEFINE f == s.files[i]
           k == f.slot
           d == Stored(s)
           r == d.inode[k]
           w == Write("inode", k, r)
           e == After(d, w)
           m == Memory(s)
<1>1. /\ f = [slot |-> f.slot, size |-> f.size, offset |-> f.offset, len |-> f.len]
      /\ f.size \in Nat /\ f.offset \in Nat /\ f.len \in Nat
      /\ k \in Slots /\ k \in Named(d) /\ k < Capacity(s.saved_dir)
      /\ s.inode[k].used /\ s.inode[k].ino = i
      /\ s.dir = s.saved_dir /\ s.next \in Nat /\ s.next >= s.saved_next /\ Neat(s.list)
      /\ IsFiles(d, s.files)
      /\ \A j \in Live(s) : j # i => s.files[j].slot # k
  BY FileIs
<1>2. /\ d.inode = s.inode /\ d.saved_dir = s.saved_dir /\ d.saved_next = s.saved_next
      /\ m.files = s.files /\ m.list = s.list /\ m.next = s.next /\ m.dir = s.dir
  BY DEF Stored, Memory
<1>3. IsSafe(d) /\ IsStored(d) /\ Agrees(d, m)
  BY DEF Sound, IsSafe
<1>4. rename(s, i) = [state |-> s, writes |-> <<w>> \o flush_disk(s, {})]
  <2>1. write_inode(k, r) = <<w>> /\ r = s.inode[k]
    BY <1>2, WriteInodeIs
  <2> HIDE DEF w, d
  <2> QED
    BY <2>1 DEF rename
<1>5. IsInodeWrite(w, k, r)
  BY WriteInodeIs
<1> HIDE DEF d, w, m
<1>6. Rec(d, k) = r /\ IsInode(r) /\ r.used /\ r.ino = i
  BY <1>1, <1>2, <1>3, UsedIsRec, ZenonT(40) DEF IsStored
<1>7. Sectors(f.offset, f.len) = Sectors(r.offset, r.len)
  BY <1>1, <1>6 DEF IsFiles, Live
<1> HIDE DEF r
<1>8. Written(d, k, r, e)
  BY <1>1, <1>2, <1>3, <1>5, <1>6, InodeWritten
<1>9. IsFiles(e, s.files)
  <2>1. \A j \in DOMAIN s.files : \/ j = i /\ s.files[j] = f
                                  \/ j \in DOMAIN s.files /\ s.files[j] = s.files[j]
                                       /\ s.files[j].slot # k
    BY <1>1 DEF Live
  <2> DEFINE g == s.files
  <2> HIDE DEF f, k, g
  <2>2. f = [slot |-> k, size |-> f.size, offset |-> f.offset, len |-> f.len]
    BY <1>1 DEF k
  <2> QED
    BY <1>1, <1>2, <1>3, <1>5, <1>6, <1>7, <2>1, <2>2, FilesWritten DEF g
<1> HIDE DEF e
<1>10. ASSUME NEW x, NEW list, NEW next, Lone(d, list, next, x) PROVE Lone(e, list, next, x)
  <2>1. /\ \A j : AtFile(e, j, x) => AtFile(d, j, x)
        /\ \A b : AtBlock(e, b, x) => AtBlock(d, b, x)
    BY <1>1, <1>6, <1>8 DEF Written, AtFile
  <2> QED
    BY <1>10, <2>1, FewerOwners
<1>11. \A x \in Disk \ d.tainted : /\ Lone(e, m.list, m.next, x)
                                   /\ Lone(e, d.saved_list, d.saved_next, x)
  BY <1>3, <1>10 DEF Agrees, IsSafe, Clear
<1> HIDE DEF f, k
<1>12. Safe(d, <<w>> \o flush_disk(s, {}), m, how)
  <2> DEFINE S == {}
  <2>1. \A x \in Disk \ d.tainted : x \notin S => Lone(e, d.saved_list, d.saved_next, x)
    BY <1>11
  <2>2. \A x \in Disk \ d.tainted : Lone(e, m.list, m.next, x)
    BY <1>11
  <2>3. Neat(m.list) /\ m.next \in Nat /\ m.next >= d.saved_next /\ m.dir = d.saved_dir
    BY <1>1, <1>2
  <2>4. how = "mounted" => IsFiles(e, m.files)
    BY <1>2, <1>9
  <2>5. s.next = m.next /\ s.list = m.list /\ s.dir = m.dir /\ k < Capacity(d.saved_dir)
    BY <1>1, <1>2
  <2> HIDE DEF S
  <2>6. Safe(d, <<w>> \o flush_disk(s, S), m, how)
    BY <1>1, <1>3, <1>5, <1>6, <2>1, <2>2, <2>3, <2>4, <2>5, WrittenIsSafe DEF e
  <2> QED
    BY <2>6 DEF S
<1> QED
  BY <1>4, <1>12 DEF IsSafeRequest, d, m

-----------------------------------------------------------------------------
\* A new file has no sectors.
LEMMA NewInodeIs ==
  ASSUME NEW i
  PROVE  LET r == [NoInode EXCEPT !.ino = i, !.used = TRUE]
         IN  IsInode(r) /\ r.used /\ r.ino = i /\ r.len = 0
<1> DEFINE h == [NoInode EXCEPT !.ino = i]
           r == [NoInode EXCEPT !.ino = i, !.used = TRUE]
<1>1. h = [ino |-> i, size |-> 0, offset |-> 0, len |-> 0, used |-> FALSE]
  <2>1. PICK p, q, y, z, b :
          /\ NoInode = [ino |-> p, size |-> q, offset |-> y, len |-> z, used |-> b]
          /\ q = 0 /\ y = 0 /\ z = 0 /\ b = FALSE
    BY Zenon DEF NoInode
  <2>2. h = [ino |-> i, size |-> q, offset |-> y, len |-> z, used |-> b]
    BY <2>1
  <2> QED
    BY <2>1, <2>2, Zenon
<1>2. r = [h EXCEPT !.used = TRUE]
  OBVIOUS
<1> HIDE DEF h, r
<1>3. r = [ino |-> i, size |-> 0, offset |-> 0, len |-> 0, used |-> TRUE]
  BY <1>1, <1>2
<1>4. IsInode(r) /\ r.used /\ r.ino = i /\ r.len = 0
  BY <1>3 DEF IsInode
<1> QED
  BY <1>4 DEF r

\* A new file, in a slot that is free.
LEMMA CreatedIsSafe ==
  ASSUME NEW d, IsSafe(d), NEW m, Agrees(d, m), NEW k \in Slots, k < Capacity(d.saved_dir),
         ~d.inode[k].used, NEW i, NEW r, IsInode(r), r.used, r.ino = i, r.len = 0,
         NEW v, v = [slot |-> k, size |-> v.size, offset |-> v.offset, len |-> v.len],
         v.size \in Nat, v.offset \in Nat, v.len = 0,
         NEW n, SameTop(n, m), n.files = With(m.files, i, v), NEW how
  PROVE  Safe(d, <<Write("inode", k, r)>>, n, how)
<1> DEFINE w == Write("inode", k, r)
           e == After(d, w)
           g == n.files
<1>3. IsInodeWrite(w, k, r) /\ IsStored(d)
  BY WriteInodeIs DEF IsSafe
<1> HIDE DEF w, e
<1>4. Written(d, k, r, e)
  BY <1>3, InodeWritten DEF e
<1>5. \A o \in Nat : Sectors(o, 0) = {}
  BY DEF Sectors
<1>6. Sectors(r.offset, r.len) = {} /\ Sectors(v.offset, v.len) = {}
  BY <1>5 DEF IsInode
<1>7. ASSUME NEW x, NEW list, NEW next, Lone(d, list, next, x) PROVE Lone(e, list, next, x)
  <2>1. /\ \A j : AtFile(e, j, x) => AtFile(d, j, x)
        /\ \A b : AtBlock(e, b, x) => AtBlock(d, b, x)
    BY <1>4, <1>6 DEF Written
  <2> QED
    BY <1>7, <2>1, FewerOwners
<1>8. IsFiles(d, m.files)
  BY DEF Agrees
<1>9. IsFiles(e, g)
  <2>1. \A j \in DOMAIN g : \/ j = i /\ g[j] = v
                            \/ j \in DOMAIN m.files /\ g[j] = m.files[j]
                                 /\ m.files[j].slot # k
    BY <1>8 DEF With, IsFiles
  <2>2. Sectors(v.offset, v.len) = Sectors(r.offset, r.len) /\ v.len \in Nat
    BY <1>6
  <2> HIDE DEF g
  <2> QED
    BY <1>3, <1>8, <2>1, <2>2, FilesWritten DEF e
<1>10. /\ IsStored(e) /\ e.saved_dir = d.saved_dir /\ e.saved_next = d.saved_next
       /\ e.saved_list = d.saved_list /\ e.tainted = d.tainted
  BY <1>4 DEF Written
<1>11. IsSafe(e)
  BY <1>7, <1>10 DEF IsSafe, Clear
<1>12. Agrees(e, n)
  BY <1>7, <1>9, <1>10 DEF Agrees, SameTop
<1>13. IsSafeAt(d, w)
  BY <1>3 DEF IsSafe, IsSafeAt, IsInodeWrite
<1>14. Safe(e, <<>>, n, how)
  BY <1>11, <1>12, SafeNil
<1>15. Safe(d, <<w>> \o <<>>, n, how)
  BY <1>13, <1>14, SafeCons DEF e
<1>16. <<w>> \o <<>> = <<w>>
  OBVIOUS
<1> QED
  BY <1>15, <1>16 DEF w

-----------------------------------------------------------------------------
\* The inode table grows by a block.
IsCons(v, a, u, B) ==
  /\ v \in Seq(B) /\ Len(v) = Len(u) + 1 /\ v[1] = a
  /\ \A k \in 1 .. Len(u) : v[k + 1] = u[k]

\* A sequence with an element put in front.
LEMMA ConsIs ==
  ASSUME NEW B, NEW a \in B, NEW u \in Seq(B)
  PROVE  IsCons(Cons(a, u), a, u, B)
BY DEF Cons, IsCons

\* Three writes and a fourth, one at a time.
LEMMA FourWrites ==
  ASSUME NEW a, NEW b, NEW c, NEW w
  PROVE  <<a, b, c>> \o <<w>> = <<a>> \o (<<b>> \o (<<c>> \o <<w>>))
<1> DEFINE B == {a, b, c, w}
           s == <<a, b, c>> \o <<w>>
           x == <<w>>
           u == Cons(c, x)
           v == Cons(b, u)
           t == Cons(a, v)
<1>1. s \in Seq(B) /\ Len(s) = 4 /\ s[1] = a /\ s[2] = b /\ s[3] = c /\ s[4] = w
  OBVIOUS
<1>2. x \in Seq(B) /\ Len(x) = 1 /\ x[1] = w /\ a \in B /\ b \in B /\ c \in B
  OBVIOUS
<1> HIDE DEF s, t, u, v, x, B
<1>3. u \in Seq(B) /\ Len(u) = 2 /\ u[1] = c /\ u[2] = w
  <2>1. IsCons(u, c, x, B)
    BY <1>2, ConsIs DEF u
  <2> QED
    BY <1>2, <2>1 DEF IsCons
<1>4. v \in Seq(B) /\ Len(v) = 3 /\ v[1] = b /\ v[2] = c /\ v[3] = w
  <2>1. IsCons(v, b, u, B)
    BY <1>2, <1>3, ConsIs DEF v
  <2> QED
    BY <1>3, <2>1 DEF IsCons
<1>5. t \in Seq(B) /\ Len(t) = 4 /\ t[1] = a /\ t[2] = b /\ t[3] = c /\ t[4] = w
  <2>1. IsCons(t, a, v, B)
    BY <1>2, <1>4, ConsIs DEF t
  <2> QED
    BY <1>4, <2>1 DEF IsCons
<1>6. \A k \in 1 .. 4 : k = 1 \/ k = 2 \/ k = 3 \/ k = 4
  OBVIOUS
<1>7. s \in Seq(B) /\ t \in Seq(B) /\ Len(s) = Len(t) /\ \A k \in 1 .. Len(s) : s[k] = t[k]
  BY <1>1, <1>5, <1>6
<1>8. s = t
  BY <1>7, SameSequence
<1> QED
  BY <1>8, Zenon DEF s, t, u, v, x, Cons

\* What a further block of inodes adds to the table.
LEMMA CapacityIs ==
  ASSUME NEW n \in Nat
  PROVE  /\ BlockSlots * (n + 1) \in Nat
         /\ BlockSlots * (n + 2) = BlockSlots * (n + 1) + BlockSlots
         /\ n + 1 < MaxInoBlocks => /\ BlockSlots * (n + 1) \in Slots
                                    /\ BlockSlots * (n + 2) <= BlockSlots * MaxInoBlocks
<1>1. BlockSlots \in Nat \ {0} /\ MaxInoBlocks \in Nat
  BY StoreAssumption
<1>2. \A a, b \in Nat : a * b \in Nat
  OBVIOUS
<1>3. \A a, b, c \in Nat : a * (b + c) = a * b + a * c
  OBVIOUS
<1>4. BlockSlots * 1 = BlockSlots
  BY <1>1
<1>5. BlockSlots * (n + 1) \in Nat
  BY <1>1, <1>2
<1>6. BlockSlots * (n + 2) = BlockSlots * (n + 1) + BlockSlots
  <2>1. BlockSlots * ((n + 1) + 1) = BlockSlots * (n + 1) + BlockSlots * 1
    BY <1>1, <1>3
  <2>2. (n + 1) + 1 = n + 2
    OBVIOUS
  <2> QED
    BY <1>4, <2>1, <2>2
<1>7. ASSUME n + 1 < MaxInoBlocks PROVE BlockSlots * (n + 2) <= BlockSlots * MaxInoBlocks
  <2> DEFINE g == MaxInoBlocks - (n + 2)
  <2>1. g \in Nat /\ MaxInoBlocks = (n + 2) + g
    BY <1>1, <1>7
  <2> HIDE DEF g
  <2>2. BlockSlots * ((n + 2) + g) = BlockSlots * (n + 2) + BlockSlots * g
    BY <1>1, <1>3, <2>1
  <2>3. BlockSlots * g \in Nat /\ BlockSlots * (n + 2) \in Nat
    BY <1>1, <1>2, <2>1
  <2> QED
    BY <2>1, <2>2, <2>3
<1>8. ASSUME n + 1 < MaxInoBlocks PROVE BlockSlots * (n + 1) \in Slots
  <2>1. BlockSlots * MaxInoBlocks \in Nat
    BY <1>1, <1>2
  <2> HIDE DEF NoSlot
  <2> QED
    BY <1>1, <1>5, <1>6, <1>7, <1>8, <2>1 DEF Slots
<1> QED
  BY <1>5, <1>6, <1>7, <1>8

-----------------------------------------------------------------------------
\* The slots of the new block, which no inode is in yet, are cleared.
Cleared(d, S, e) ==
  /\ IsStored(e)
  /\ e.saved_dir = d.saved_dir /\ e.saved_next = d.saved_next
  /\ e.saved_list = d.saved_list /\ e.tainted = d.tainted /\ e.logged = d.logged
  /\ \A k \in Slots : e.inode[k] = IF k \in S THEN NoInode ELSE d.inode[k]
  /\ \A k \in S \cap Slots : Rec(e, k) = NoInode

\* A block of zeroes empties the slots it holds, which nobody uses yet.
LEMMA SlotsCleared ==
  ASSUME NEW d, IsStored(d), NEW S, \A k \in S : k >= Capacity(d.saved_dir) /\ k \in Int,
         NEW w, w.to = "zero", w.at = S
  PROVE  Cleared(d, S, After(d, w))
<1> DEFINE e == After(d, w)
           I == [k \in Slots |-> IF k \in S THEN NoInode ELSE d.inode[k]]
<1>1. e = [d EXCEPT !.inode = I]
  <2>1. e = [d EXCEPT !.inode = [k \in Slots |-> IF k \in w.at THEN NoInode ELSE @[k]]]
    BY DEF After, Applied
  <2> QED
    BY <2>1 DEF IsStored
<1> HIDE DEF I, e
<1>2. /\ e.inode = I /\ e.logged = d.logged
      /\ e.saved_dir = d.saved_dir /\ e.saved_next = d.saved_next
      /\ e.saved_list = d.saved_list /\ e.tainted = d.tainted
      /\ e \in [inode : {e.inode}, logged : {e.logged}, saved_list : {e.saved_list},
                saved_next : Nat, saved_dir : Seq(Nat), tainted : {e.tainted}]
  BY <1>1 DEF IsStored
<1>3. /\ e.inode = [k \in Slots |-> e.inode[k]]
      /\ \A k \in Slots : e.inode[k] = IF k \in S THEN NoInode ELSE d.inode[k]
  BY <1>2 DEF I
<1>4. IsInode(NoInode)
  BY DEF IsInode, NoInode
<1>5. Capacity(d.saved_dir) \in Int
  <2>1. Len(d.saved_dir) \in Nat
    BY DEF IsStored
  <2> QED
    BY <2>1, CapacityIs DEF Capacity
<1>6. ASSUME NEW k \in Slots
      PROVE  /\ IsInode(e.inode[k]) /\ (e.logged[k] = NoInode \/ IsLogged(e, k))
             /\ k \in S => Rec(e, k) = NoInode
  <2>1. IsInode(d.inode[k]) /\ (d.logged[k] = NoInode \/ IsLogged(d, k))
    BY DEF IsStored
  <2>2. CASE k \in S
    <3>1. e.logged[k] = NoInode
      BY <1>2, <1>5, <2>1, <2>2 DEF IsLogged
    <3> QED
      BY <1>3, <1>4, <2>2, <3>1 DEF Rec
  <2>3. CASE k \notin S
    BY <1>2, <1>3, <2>1, <2>3 DEF IsLogged
  <2> QED
    BY <2>2, <2>3
<1>7. IsStored(e)
  BY <1>2, <1>3, <1>6 DEF IsStored
<1> QED
  BY <1>2, <1>3, <1>6, <1>7 DEF Cleared, e

\* The directory names one more block: its slots hold no inode.
Extended(d, at, e) ==
  /\ IsStored(e)
  /\ e.saved_dir = Append(d.saved_dir, at) /\ e.saved_next = d.saved_next
  /\ e.saved_list = d.saved_list /\ e.tainted = d.tainted /\ e.inode = d.inode
  /\ Named(e) = Named(d) /\ \A k : Rec(e, k) = Rec(d, k)
  /\ \A x, b : AtBlock(e, b, x) <=> \/ AtBlock(d, b, x)
                                    \/ b = Len(d.saved_dir) + 1 /\ x \in Sectors(at, BlockSize)

\* A block named in the directory adds empty slots and owns its sector.
LEMMA DirExtended ==
  ASSUME NEW d, IsStored(d), NEW at \in Nat,
         \A k \in Slots : k >= Capacity(d.saved_dir) /\ k < Capacity(d.saved_dir) + BlockSlots
                            => Rec(d, k) = NoInode,
         NEW w, w.to = "dir", w.what = Append(d.saved_dir, at)
  PROVE  Extended(d, at, After(d, w))
<1> DEFINE e == After(d, w)
           D == Append(d.saved_dir, at)
           L == Len(d.saved_dir)
<1>1. e = [d EXCEPT !.saved_dir = D]
  BY DEF After, Applied
<1>2. d.saved_dir \in Seq(Nat) /\ L \in Nat
  BY DEF IsStored
<1>3. /\ D \in Seq(Nat) /\ Len(D) = L + 1 /\ DOMAIN D = DOMAIN d.saved_dir \cup {L + 1}
      /\ L + 1 \notin DOMAIN d.saved_dir
      /\ D[L + 1] = at /\ \A b \in DOMAIN d.saved_dir : D[b] = d.saved_dir[b]
  BY <1>2
<1> HIDE DEF D, e
<1>4. /\ e.inode = d.inode /\ e.logged = d.logged
      /\ e.saved_dir = D /\ e.saved_next = d.saved_next
      /\ e.saved_list = d.saved_list /\ e.tainted = d.tainted
      /\ e \in [inode : {e.inode}, logged : {e.logged}, saved_list : {e.saved_list},
                saved_next : Nat, saved_dir : Seq(Nat), tainted : {e.tainted}]
  BY <1>1, <1>3 DEF IsStored
<1>5. /\ Capacity(d.saved_dir) \in Nat
      /\ Capacity(D) = Capacity(d.saved_dir) + BlockSlots
      /\ BlockSlots \in Nat
  <2>1. Capacity(D) = BlockSlots * (L + 2) /\ Capacity(d.saved_dir) = BlockSlots * (L + 1)
    <3>1. (L + 1) + 1 = L + 2
      BY <1>2
    <3> QED
      BY <1>3, <3>1 DEF Capacity
  <2> QED
    BY <1>2, <2>1, CapacityIs, StoreAssumption
<1>6. \A k : Rec(e, k) = Rec(d, k)
  BY <1>4 DEF Rec
<1>7. Named(e) = Named(d)
  <2>1. \A k \in Slots : k \in Int
    BY DEF Slots
  <2>2. ~NoInode.used
    BY DEF NoInode
  <2>3. \A k \in Slots : k < Capacity(D) /\ Rec(d, k).used => k < Capacity(d.saved_dir)
    BY <1>5, <2>1, <2>2
  <2>4. \A k \in Slots : k < Capacity(d.saved_dir) => k < Capacity(D)
    BY <1>5, <2>1
  <2> QED
    BY <1>4, <1>6, <2>3, <2>4 DEF Named
<1>8. \A k \in Slots : k < Capacity(d.saved_dir) => k < Capacity(D)
  <2>1. \A k \in Slots : k \in Int
    BY DEF Slots
  <2> QED
    BY <1>5, <2>1
<1>9. IsStored(e)
  BY <1>4, <1>8 DEF IsStored, IsLogged
<1>10. \A x, b : AtBlock(e, b, x) <=> \/ AtBlock(d, b, x)
                                      \/ b = L + 1 /\ x \in Sectors(at, BlockSize)
  BY <1>3, <1>4 DEF AtBlock
<1> QED
  BY <1>4, <1>6, <1>7, <1>9, <1>10 DEF Extended, D, e

\* The superblock's next offset moves and nothing else does.
LEMMA NextAdvanced ==
  ASSUME NEW d, IsStored(d), NEW n \in Nat, n >= DataStart, NEW w, w.to = "next", w.what = n
  PROVE  LET e == After(d, w)
         IN  /\ IsStored(e) /\ e.inode = d.inode /\ e.logged = d.logged
             /\ e.saved_dir = d.saved_dir /\ e.saved_next = n
             /\ e.saved_list = d.saved_list /\ e.tainted = d.tainted
<1> DEFINE e == After(d, w)
<1>1. e = [d EXCEPT !.saved_next = n]
  BY DEF After, Applied
<1> HIDE DEF e
<1>2. /\ e.inode = d.inode /\ e.logged = d.logged /\ e.saved_dir = d.saved_dir
      /\ e.saved_next = n /\ e.saved_list = d.saved_list /\ e.tainted = d.tainted
      /\ e \in [inode : {e.inode}, logged : {e.logged}, saved_list : {e.saved_list},
                saved_next : Nat, saved_dir : Seq(Nat), tainted : {e.tainted}]
  BY <1>1 DEF IsStored
<1>3. IsStored(e)
  BY <1>2 DEF IsStored, IsLogged
<1> QED
  BY <1>2, <1>3 DEF e

-----------------------------------------------------------------------------
\* The three writes of a new block at sector at, and the memory after them.
IsGrowth(m, a, b, c) ==
  LET new == Capacity(m.dir)
  IN  /\ a.to = "zero" /\ a.at = new .. (new + BlockSlots - 1) /\ a.cause = "store"
      /\ b.to = "dir" /\ b.what = Append(m.dir, m.next) /\ b.cause = "store"
      /\ c.to = "next" /\ c.what = m.next + BlockSize /\ c.cause = "growth"
      /\ c.exposed = Sectors(m.next, BlockSize)
IsGrown(m, n) ==
  /\ n.files = m.files /\ n.list = m.list
  /\ n.dir = Append(m.dir, m.next) /\ n.next = m.next + BlockSize
Grows(d, m, n, a, b, c) ==
  LET e == After(After(After(d, a), b), c)
      new == Capacity(m.dir)
  IN  /\ IsSafeAt(d, a) /\ IsSafeAt(After(d, a), b) /\ IsSafeAt(After(After(d, a), b), c)
      /\ IsSafe(e) /\ Agrees(e, n)
      /\ new \in Slots /\ new < Capacity(e.saved_dir) /\ ~e.inode[new].used

\* The inode table grows: the superblock moves past the block, the block is
\* cleared, and the directory names it, in this order.
LEMMA GrowthIsSafe ==
  ASSUME NEW d, IsSafe(d), NEW m, Agrees(d, m), Len(m.dir) + 1 < MaxInoBlocks,
         NEW a, NEW b, NEW c, IsGrowth(m, a, b, c), NEW n, IsGrown(m, n)
  PROVE  Grows(d, m, n, a, b, c)
<1> DEFINE at == m.next
           new == Capacity(m.dir)
           S == new .. (new + BlockSlots - 1)
           d1 == After(d, a)
           d2 == After(d1, b)
           d3 == After(d2, c)
           B == Sectors(at, BlockSize)
<1>1. /\ IsStored(d) /\ at \in Nat /\ at >= d.saved_next /\ d.saved_next \in Nat
      /\ d.saved_next >= DataStart /\ DataStart \in Nat /\ BlockSize \in Nat
      /\ m.dir = d.saved_dir /\ d.saved_dir \in Seq(Nat) /\ Len(m.dir) \in Nat
      /\ BlockSlots \in Nat \ {0} /\ Neat(d.saved_list)
  BY StoreAssumption DEF IsSafe, Agrees, IsStored
<1>2. /\ new \in Nat /\ new \in Slots
      /\ Capacity(Append(m.dir, at)) = new + BlockSlots
      /\ new + BlockSlots <= BlockSlots * MaxInoBlocks
  <2>1. Len(Append(m.dir, at)) = Len(m.dir) + 1
    BY <1>1
  <2>2. /\ new = BlockSlots * (Len(m.dir) + 1)
        /\ Capacity(Append(m.dir, at)) = BlockSlots * (Len(m.dir) + 2)
    <3>1. (Len(m.dir) + 1) + 1 = Len(m.dir) + 2
      BY <1>1
    <3> QED
      BY <2>1, <3>1 DEF Capacity
  <2> QED
    BY <1>1, <2>2, CapacityIs
<1>3. \A k \in S : k \in Int /\ k >= Capacity(d.saved_dir)
  BY <1>1, <1>2
<1>4. /\ a.to = "zero" /\ a.at = S /\ a.cause = "store"
      /\ b.to = "dir" /\ b.what = Append(d.saved_dir, at) /\ b.cause = "store"
      /\ c.to = "next" /\ c.what = at + BlockSize /\ c.cause = "growth" /\ c.exposed = B
  BY <1>1 DEF IsGrowth
<1> HIDE DEF d1, d2, d3, S, new
<1>5. Cleared(d, S, d1)
  BY <1>1, <1>3, <1>4, SlotsCleared DEF d1
<1>6. \A k \in S \cap Slots : Rec(d1, k) = NoInode
  BY <1>5 DEF Cleared
<1>7. /\ \A k : k \in Named(d1) <=> k \in Named(d)
      /\ \A k \in Named(d) : Rec(d1, k) = Rec(d, k) /\ d1.inode[k] = d.inode[k]
  <2>1. \A k \in Slots : k < Capacity(d.saved_dir) => k \notin S
    <3>1. \A k \in Slots : k \in Int
      BY DEF Slots
    <3> QED
      BY <1>1, <1>2, <1>3, <3>1 DEF new
  <2>2. \A k \in Slots : k < Capacity(d.saved_dir) => Rec(d1, k) = Rec(d, k) /\ d1.inode[k] = d.inode[k]
    BY <1>5, <2>1 DEF Cleared, Rec
  <2> QED
    BY <1>5, <2>2 DEF Cleared, Named
<1>8. \A k \in Slots : k >= Capacity(d1.saved_dir) /\ k < Capacity(d1.saved_dir) + BlockSlots
                         => Rec(d1, k) = NoInode
  <2>1. Capacity(d1.saved_dir) = new /\ \A k \in Slots : k \in Int
    BY <1>1, <1>5 DEF Cleared, Slots, new
  <2>2. \A k \in Slots : k >= new /\ k < new + BlockSlots => k \in S
    <3>1. \A p, q, k \in Int : k >= p /\ k < p + q => k \in p .. (p + q - 1)
      OBVIOUS
    <3>2. new \in Int /\ BlockSlots \in Int
      BY <1>1, <1>2
    <3> QED
      BY <2>1, <3>1, <3>2 DEF S
  <2> QED
    BY <1>6, <2>1, <2>2
<1>9. IsStored(d1) /\ d1.saved_dir = d.saved_dir
  BY <1>5 DEF Cleared
<1>10. Extended(d1, at, d2)
  BY <1>1, <1>4, <1>8, <1>9, DirExtended DEF d2
<1>11. /\ IsStored(d3) /\ d3.inode = d2.inode /\ d3.logged = d2.logged
       /\ d3.saved_dir = d2.saved_dir /\ d3.saved_next = at + BlockSize
       /\ d3.saved_list = d2.saved_list /\ d3.tainted = d2.tainted
  <2>1. IsStored(d2)
    BY <1>10 DEF Extended
  <2>2. at + BlockSize \in Nat /\ at + BlockSize >= DataStart
    BY <1>1
  <2> QED
    BY <1>4, <2>1, <2>2, NextAdvanced DEF d3
<1>12. ASSUME NEW x
       PROVE  /\ \A k : AtFile(d1, k, x) <=> AtFile(d, k, x)
              /\ \A k : AtFile(d2, k, x) <=> AtFile(d, k, x)
              /\ \A k : AtBlock(d1, k, x) <=> AtBlock(d, k, x)
              /\ \A k : AtBlock(d2, k, x) <=> \/ AtBlock(d, k, x)
                                              \/ k = Len(m.dir) + 1 /\ x \in B
  <2>1. \A k : AtFile(d1, k, x) <=> AtFile(d, k, x)
    BY <1>7 DEF AtFile
  <2>2. \A k : AtFile(d2, k, x) <=> AtFile(d1, k, x)
    BY <1>10 DEF AtFile, Extended
  <2>3. \A k : AtBlock(d1, k, x) <=> AtBlock(d, k, x)
    BY <1>9 DEF AtBlock
  <2>4. \A k : AtBlock(d2, k, x) <=> \/ AtBlock(d1, k, x)
                                     \/ k = Len(m.dir) + 1 /\ x \in B
    BY <1>1, <1>9, <1>10 DEF Extended
  <2> QED
    BY <2>1, <2>2, <2>3, <2>4
<1>13. /\ d2.saved_next = d.saved_next /\ d2.saved_list = d.saved_list
       /\ d1.saved_next = d.saved_next /\ d1.saved_list = d.saved_list
       /\ d1.tainted = d.tainted /\ d2.tainted = d.tainted
  BY <1>5, <1>10 DEF Cleared, Extended
<1>14. IsSafeAt(d, a)
  BY <1>1, <1>4 DEF IsSafe, IsSafeAt
<1>15. IsSafeAt(d1, b)
  <2>1. \A x \in Disk \ d.tainted : Clear(d1, x)
    BY <1>12, <1>13, FewerOwners DEF IsSafe, Clear
  <2> QED
    BY <1>4, <1>9, <1>13, <2>1 DEF IsSafeAt
<1>16. \A x \in Disk : x \in B => x >= at /\ x < at + BlockSize
  BY <1>1, SectorsAre
<1>17. ASSUME NEW x \in Disk \ d.tainted, x \notin B, NEW list, NEW next, Lone(d, list, next, x)
       PROVE  Lone(d2, list, next, x)
  BY <1>12, <1>17, FewerOwners
<1>18. IsSafeAt(d2, c)
  <2>1. ASSUME NEW x \in Disk \ d.tainted, x \notin B PROVE Clear(d2, x)
    BY <1>13, <1>17, <2>1 DEF IsSafe, Clear
  <2>2. ASSUME NEW x \in Disk \ d.tainted, x \in B PROVE x >= d2.saved_next
    BY <1>1, <1>13, <1>16, <2>2, DiskIs
  <2>3. IsStored(d2)
    BY <1>10 DEF Extended
  <2> QED
    BY <1>4, <1>13, <2>1, <2>2, <2>3 DEF IsSafeAt
<1>19. ASSUME NEW x \in Disk \ d.tainted
       PROVE  /\ Lone(d3, d.saved_list, at + BlockSize, x)
              /\ Lone(d3, m.list, at + BlockSize, x)
  <2>1. \A list, next : Lone(d3, list, next, x) <=> Lone(d2, list, next, x)
    BY <1>11, SameOwners
  <2>2. x \in Int /\ Clear(d, x) /\ Lone(d, m.list, at, x) /\ at + BlockSize \in Int
    BY <1>1, DiskIs DEF IsSafe, Agrees
  <2>3. CASE x \notin B
    <3>1. Lone(d2, d.saved_list, d.saved_next, x) /\ Lone(d2, m.list, at, x)
      BY <1>17, <2>2, <2>3 DEF Clear
    <3>2. at + BlockSize >= at /\ at + BlockSize >= d.saved_next /\ at \in Int /\ d.saved_next \in Int
      BY <1>1
    <3> QED
      BY <2>1, <2>2, <3>1, <3>2, LoneLess
  <2>4. CASE x \in B
    <3>1. x >= at /\ x < at + BlockSize
      BY <1>16, <2>4
    <3>2. ~Owned(d, x) /\ ~InList(m.list, x) /\ ~InList(d.saved_list, x)
      BY <1>1, <2>2, <3>1 DEF Lone, Clear
    <3>3. OneOwner(d2, x)
      BY <1>12, <2>4, <3>2 DEF OneOwner, Owned
    <3> QED
      BY <2>1, <3>1, <3>2, <3>3 DEF Lone
  <2> QED
    BY <2>3, <2>4
<1>20. IsSafe(d3)
  BY <1>11, <1>13, <1>19 DEF IsSafe, Clear
<1>21. IsFiles(d3, m.files)
  <2>1. IsFiles(d, m.files)
    BY DEF Agrees
  <2>2. \A k : k \in Named(d2) <=> k \in Named(d)
    BY <1>7, <1>10 DEF Extended
  <2>3. \A k \in Named(d) : Rec(d2, k) = Rec(d, k) /\ d2.inode[k] = d.inode[k]
    BY <1>7, <1>10 DEF Extended
  <2>4. IsFiles(d2, m.files)
    BY <2>1, <2>2, <2>3 DEF IsFiles
  <2> QED
    BY <1>11, <2>4, SameOwners
<1>22. Agrees(d3, n)
  <2>1. n.files = m.files /\ n.list = m.list /\ n.dir = Append(m.dir, at) /\ n.next = at + BlockSize
    BY DEF IsGrown
  <2>2. d3.saved_dir = Append(m.dir, at)
    BY <1>1, <1>9, <1>10, <1>11 DEF Extended
  <2>3. at + BlockSize \in Nat
    BY <1>1
  <2> QED
    BY <1>11, <1>13, <1>19, <1>21, <2>1, <2>2, <2>3 DEF Agrees
<1>23. new < Capacity(d3.saved_dir) /\ ~d3.inode[new].used
  <2>1. new \in S /\ new < new + BlockSlots
    BY <1>1, <1>2 DEF S
  <2>2. d1.inode[new] = NoInode
    BY <1>2, <1>5, <2>1 DEF Cleared
  <2>3. d3.inode[new] = NoInode
    BY <1>10, <1>11, <2>2 DEF Extended
  <2>4. Capacity(d3.saved_dir) = new + BlockSlots
    BY <1>1, <1>2, <1>9, <1>10, <1>11 DEF Extended
  <2> QED
    BY <2>1, <2>3, <2>4 DEF NoInode
<1> QED
  BY <1>2, <1>14, <1>15, <1>18, <1>20, <1>22, <1>23 DEF Grows, d1, d2, d3, new

-----------------------------------------------------------------------------
\* A file created, with or without a new block of inodes.
LEMMA CreateIsSafe ==
  ASSUME NEW s, Sound(s), FreeSlots(s) # {} \/ Len(s.dir) + 1 < MaxInoBlocks, NEW how
  PROVE  IsSafeRequest(create(s), how)
<1> DEFINE q == alloc_inode(s)
           i == s.next_inode
           k == q.slot
           v == [slot |-> k, size |-> 0, offset |-> DataStart, len |-> 0]
           t == [q.state EXCEPT !.next_inode = @ + 1, !.files = With(@, i, v)]
           r == [NoInode EXCEPT !.ino = i, !.used = TRUE]
           w == Write("inode", k, r)
           d == Stored(s)
           m == Memory(s)
<1>1. create(s) = [state |-> t, writes |-> q.writes \o <<w>>]
  BY WriteInodeIs DEF create
<1>2. IsInode(r) /\ r.used /\ r.ino = i /\ r.len = 0
  BY NewInodeIs
<1>3. /\ v = [slot |-> k, size |-> v.size, offset |-> v.offset, len |-> v.len]
      /\ v.size \in Nat /\ v.offset \in Nat /\ v.len = 0
  BY StoreAssumption
<1>4. /\ Shape(s) /\ IsSafe(d) /\ Agrees(d, m) /\ IsStored(d)
      /\ d.inode = s.inode /\ d.saved_dir = s.saved_dir /\ s.dir = s.saved_dir
      /\ m.files = s.files /\ m.list = s.list /\ m.next = s.next /\ m.dir = s.dir
  BY DEF Sound, IsSafe, Agrees, Stored, Memory
<1> HIDE DEF r, v, d, m
<1>5. CASE FreeSlots(s) # {}
  <2> DEFINE F == FreeSlots(s)
  <2>1. k = (CHOOSE j \in F : \A l \in F : j <= l) /\ q.state = s /\ q.writes = <<>>
    BY <1>5 DEF alloc_inode
  <2>2. F \in SUBSET Nat /\ \A j \in F : j \in Slots /\ j < Capacity(s.dir) /\ ~s.inode[j].used
    BY DEF FreeSlots, Slots
  <2> HIDE DEF F
  <2>3. \E j \in F : \A l \in F : j <= l
    BY <1>5, <2>2, Least DEF F
  <2>4. k \in F
    BY <2>1, <2>3, Zenon
  <2>5. k \in Slots /\ k < Capacity(d.saved_dir) /\ ~d.inode[k].used
    BY <1>4, <2>2, <2>4
  <2>6. t = [s EXCEPT !.next_inode = @ + 1, !.files = With(@, i, v)]
    BY <2>1
  <2> HIDE DEF t, q
  <2>7. /\ Stored(t) = d /\ t.files = With(s.files, i, v)
        /\ t.list = s.list /\ t.next = s.next /\ t.dir = s.dir
    <3> DEFINE G == With(s.files, i, v)
    <3>1. t = [s EXCEPT !.next_inode = @ + 1, !.files = G]
      BY <1>4, <2>6 DEF Shape
    <3> HIDE DEF G
    <3> QED
      BY <1>4, <3>1 DEF Shape, Stored, d, G
  <2> DEFINE n == Memory(t)
  <2>8. SameTop(n, m) /\ n.files = With(m.files, i, v)
    BY <1>4, <2>7 DEF SameTop, Memory
  <2> HIDE DEF n, k
  <2>9. Safe(d, <<w>>, n, how)
    BY <1>2, <1>3, <1>4, <2>5, <2>8, CreatedIsSafe DEF k
  <2>10. <<>> \o <<w>> = <<w>>
    OBVIOUS
  <2> QED
    BY <1>1, <2>1, <2>7, <2>9, <2>10 DEF IsSafeRequest, n
<1>6. CASE FreeSlots(s) = {}
  <2> DEFINE at == s.next
             new == Capacity(s.dir)
             g == Grown(s, at)
             a == Write("zero", new .. (new + BlockSlots - 1), 0)
             b == Write("dir", 0, g.dir)
             c == Exposing(Write("next", 0, g.next), Sectors(at, BlockSize), "growth")
             n == Memory(g)
             D == Append(s.dir, at)
             N == at + BlockSize
  <2>1. k = new /\ q.state = g /\ q.writes = <<a, b, c>>
    BY <1>6 DEF alloc_inode
  <2>2. /\ Shape(g) /\ g.dir = D /\ g.next = N /\ g.list = s.list /\ g.files = s.files
        /\ Stored(g) = d
    <3>1. g = [s EXCEPT !.dir = D, !.next = N]
      BY <1>4 DEF Grown, Shape
    <3> HIDE DEF D, N, g
    <3> QED
      BY <1>4, <3>1 DEF Shape, Stored, d
  <2> HIDE DEF g
  <2>3. IsGrowth(m, a, b, c)
    <3>1. c = [to |-> "next", at |-> 0, what |-> g.next, exposed |-> Sectors(at, BlockSize),
               cause |-> "growth", cured |-> {}]
      BY ExposingIs, Zenon
    <3> HIDE DEF c
    <3>2. /\ c.to = "next" /\ c.what = m.next + BlockSize /\ c.cause = "growth"
          /\ c.exposed = Sectors(m.next, BlockSize)
      BY <1>4, <2>2, <3>1
    <3>3. /\ a.to = "zero" /\ a.at = Capacity(m.dir) .. (Capacity(m.dir) + BlockSlots - 1)
          /\ a.cause = "store"
          /\ b.to = "dir" /\ b.what = Append(m.dir, m.next) /\ b.cause = "store"
      BY <1>4, <2>2 DEF Write
    <3> QED
      BY <3>2, <3>3 DEF IsGrowth
  <2>4. IsGrown(m, n)
    BY <1>4, <2>2 DEF IsGrown, Memory
  <2>5. Grows(d, m, n, a, b, c)
    <3> HIDE DEF a, b, c, n
    <3> QED
      BY <1>4, <1>6, <2>3, <2>4, GrowthIsSafe
  <2> HIDE DEF a, b, c, n
  <2> DEFINE e == After(After(After(d, a), b), c)
  <2>6. /\ IsSafe(e) /\ Agrees(e, n)
        /\ k \in Slots /\ k < Capacity(e.saved_dir) /\ ~e.inode[k].used
    BY <1>4, <2>1, <2>5 DEF Grows
  <2>7. t = [g EXCEPT !.next_inode = @ + 1, !.files = With(@, i, v)]
    BY <2>1
  <2> HIDE DEF t, q, e
  <2>8. /\ Stored(t) = d /\ t.files = With(s.files, i, v)
        /\ t.list = g.list /\ t.next = g.next /\ t.dir = g.dir
    <3> DEFINE G == With(s.files, i, v)
    <3>1. t = [g EXCEPT !.next_inode = @ + 1, !.files = G]
      BY <2>2, <2>7 DEF Shape
    <3> HIDE DEF G
    <3>2. Stored(t) = Stored(g)
      BY <2>2, <3>1 DEF Shape, Stored
    <3> QED
      BY <2>2, <3>1, <3>2 DEF Shape, G
  <2> DEFINE p == Memory(t)
  <2>9. SameTop(p, n) /\ p.files = With(n.files, i, v)
    BY <2>2, <2>8 DEF SameTop, Memory, n
  <2> HIDE DEF p, k
  <2>10. Safe(e, <<w>>, p, how)
    BY <1>2, <1>3, <2>6, <2>9, CreatedIsSafe DEF k
  <2> HIDE DEF w
  <2>11. /\ IsSafeAt(d, a) /\ IsSafeAt(After(d, a), b)
         /\ IsSafeAt(After(After(d, a), b), c)
    BY <2>5 DEF Grows
  <2>12. Safe(After(After(d, a), b), <<c>> \o <<w>>, p, how)
    BY <2>10, <2>11, SafeCons DEF e
  <2>13. Safe(After(d, a), <<b>> \o (<<c>> \o <<w>>), p, how)
    BY <2>11, <2>12, SafeCons
  <2>14. Safe(d, <<a>> \o (<<b>> \o (<<c>> \o <<w>>)), p, how)
    BY <2>11, <2>13, SafeCons
  <2>15. q.writes \o <<w>> = <<a>> \o (<<b>> \o (<<c>> \o <<w>>))
    BY <2>1, FourWrites DEF q
  <2>16. create(s).state = t /\ create(s).writes = <<a>> \o (<<b>> \o (<<c>> \o <<w>>))
    <3> DEFINE ws == q.writes \o <<w>>
    <3> HIDE DEF ws
    <3>1. create(s).state = t /\ create(s).writes = ws
      BY <1>1 DEF ws
    <3> QED
      BY <2>15, <3>1 DEF ws
  <2> QED
    BY <2>8, <2>14, <2>16, Zenon DEF IsSafeRequest, p
<1> QED
  BY <1>5, <1>6

-----------------------------------------------------------------------------
\* A mount: the journal's inodes are in the table then, and the memory is what
\* is stored.
LEMMA MaxOfIn ==
  ASSUME NEW S \in SUBSET Nat, IsFiniteSet(S), S # {}
  PROVE  MaxOf(S) \in S
<1>1. \E m \in S : \A x \in S : x <= m
  BY Greatest
<1> QED
  BY <1>1, Zenon DEF MaxOf

\* The slots of the inode table are finitely many.
LEMMA SlotsFinite == Slots \in SUBSET Nat /\ IsFiniteSet(Slots)
<1>1. BlockSlots * MaxInoBlocks \in Nat
  <2>1. \A a, b \in Nat : a * b \in Nat
    OBVIOUS
  <2> QED
    BY <2>1, StoreAssumption
<1>2. Slots \in SUBSET Nat
  BY DEF Slots
<1>3. IsFiniteSet(Slots)
  BY <1>1, FS_Interval DEF Slots
<1> QED
  BY <1>2, <1>3

\* A mount of a disk that is safe finds a state that is sound.
LEMMA LoadIsSound ==
  ASSUME NEW s, Shape(s), IsSafe(Stored(s))
  PROVE  LET t == load(s)
         IN  /\ Sound(t) /\ t.tainted = s.tainted
             /\ t.next = s.saved_next /\ t.saved_next = s.saved_next
             /\ t.list = s.saved_list /\ t.saved_list = s.saved_list
             /\ \A k \in Slots : t.logged[k] = NoInode
             /\ Used(t) = Named(Stored(t))
<1> DEFINE d == Stored(s)
           o == open(s)
           S(i) == {k \in Used(o) : o.inode[k].ino = i}
           at(i) == MaxOf(S(i))
           inos == {o.inode[k].ino : k \in Used(o)}
           snaps == {k \in SnapSlot : o.snap[k].used}
           Of(i) == InOrder({k \in snaps : o.snap[k].ino = i})
           F == [i \in inos |-> [slot |-> at(i), size |-> o.inode[at(i)].size,
                                 offset |-> o.inode[at(i)].offset, len |-> o.inode[at(i)].len]]
           N == MaxOf(inos \cup {1}) + 1
           V == [i \in {o.snap[k].ino : k \in snaps} |->
                  [n \in DOMAIN Of(i) |->
                     [id |-> o.snap[Of(i)[n]].id, offset |-> o.snap[Of(i)[n]].offset,
                      size |-> o.snap[Of(i)[n]].size, at |-> Of(i)[n]]]]
           D == MaxOf({o.snap[k].id : k \in snaps}) + 1
           t == [o EXCEPT !.files = F, !.next_inode = N, !.versions = V, !.next_id = D]
           I == [k \in Slots |-> IF s.logged[k] = NoInode THEN s.inode[k] ELSE s.logged[k]]
           J == [k \in Slots |-> NoInode]
           e == Stored(t)
           m == Memory(t)
<1>1. load(s) = t
  BY DEF load
<1> HIDE DEF F, N, V, D
<1>2. o = [s EXCEPT !.inode = I, !.logged = J, !.list = s.saved_list,
                    !.next = s.saved_next, !.dir = s.saved_dir]
  BY DEF open, Shape
<1> HIDE DEF o, I, J
<1>3. /\ o.inode = I /\ o.logged = J /\ o.list = s.saved_list /\ o.next = s.saved_next
      /\ o.dir = s.saved_dir /\ o.saved_list = s.saved_list /\ o.saved_next = s.saved_next
      /\ o.saved_dir = s.saved_dir /\ o.tainted = s.tainted /\ Shape(o)
  BY <1>2 DEF Shape
<1>4. /\ t.inode = I /\ t.logged = J /\ t.list = s.saved_list /\ t.next = s.saved_next
      /\ t.dir = s.saved_dir /\ t.saved_list = s.saved_list /\ t.saved_next = s.saved_next
      /\ t.saved_dir = s.saved_dir /\ t.tainted = s.tainted /\ Shape(t) /\ t.files = F
  BY <1>3 DEF Shape
<1> HIDE DEF t
<1>5. /\ e.inode = I /\ e.logged = J /\ e.saved_list = s.saved_list
      /\ e.saved_next = s.saved_next /\ e.saved_dir = s.saved_dir /\ e.tainted = s.tainted
      /\ m.files = F /\ m.list = s.saved_list /\ m.next = s.saved_next /\ m.dir = s.saved_dir
      /\ e \in [inode : {e.inode}, logged : {e.logged}, saved_list : {e.saved_list},
                saved_next : {e.saved_next}, saved_dir : {e.saved_dir}, tainted : {e.tainted}]
  BY <1>4 DEF Stored, Memory
<1>6. /\ d.inode = s.inode /\ d.logged = s.logged /\ d.saved_list = s.saved_list
      /\ d.saved_next = s.saved_next /\ d.saved_dir = s.saved_dir /\ d.tainted = s.tainted
      /\ IsSafe(d) /\ IsStored(d)
  BY DEF Stored, IsSafe
<1> HIDE DEF e, m, d
<1>7. \A k \in Slots : I[k] = Rec(d, k) /\ J[k] = NoInode
  BY <1>6 DEF I, J, Rec
<1>8. \A k \in Slots : IsInode(Rec(d, k))
  BY <1>6 DEF IsStored, IsLogged, Rec
<1>9. \A k \in Slots : Rec(e, k) = Rec(d, k)
  BY <1>5, <1>7 DEF Rec
<1>10. Named(e) = Named(d)
  BY <1>5, <1>6, <1>9 DEF Named
<1>11. \A x, list, next : Lone(d, list, next, x) => Lone(e, list, next, x)
  <2>1. \A k, x : AtFile(e, k, x) => AtFile(d, k, x)
    BY <1>9, <1>10 DEF AtFile, Named
  <2>2. \A b, x : AtBlock(e, b, x) => AtBlock(d, b, x)
    BY <1>5, <1>6 DEF AtBlock
  <2> QED
    BY <2>1, <2>2, FewerOwners
<1>12. IsStored(e)
  <2>1. I = [k \in Slots |-> I[k]] /\ J = [k \in Slots |-> J[k]]
    BY DEF I, J
  <2>2. /\ d.saved_next \in Nat /\ d.saved_dir \in Seq(Nat)
        /\ d.saved_next >= DataStart /\ Neat(d.saved_list)
    BY <1>6 DEF IsStored
  <2>3. e \in [inode : {e.inode}, logged : {e.logged}, saved_list : {e.saved_list},
               saved_next : Nat, saved_dir : Seq(Nat), tainted : {e.tainted}]
    BY <1>5, <1>6, <2>2
  <2> QED
    BY <1>5, <1>6, <1>7, <1>8, <2>1, <2>2, <2>3 DEF IsStored
<1>13. \A x \in Disk \ e.tainted : Lone(e, s.saved_list, s.saved_next, x)
  BY <1>5, <1>6, <1>11 DEF IsSafe, Clear
<1>14. IsSafe(e)
  BY <1>5, <1>12, <1>13 DEF IsSafe, Clear
<1>15. Used(o) = Named(e) /\ Used(t) = Named(e)
  BY <1>3, <1>4, <1>5, <1>7, <1>9, <1>10 DEF Used, Named
<1>16. ASSUME NEW i \in inos PROVE at(i) \in Used(o) /\ o.inode[at(i)].ino = i
  <2>1. S(i) # {} /\ S(i) \in SUBSET Slots
    BY <1>16 DEF Used
  <2>2. \A k \in S(i) : k \in Used(o) /\ o.inode[k].ino = i
    OBVIOUS
  <2> HIDE DEF S
  <2>3. S(i) \in SUBSET Nat /\ IsFiniteSet(S(i))
    BY <2>1, SlotsFinite, FS_Subset
  <2>4. MaxOf(S(i)) \in S(i)
    BY <2>1, <2>3, MaxOfIn
  <2> QED
    BY <2>2, <2>4
<1> HIDE DEF at
<1>17. IsFiles(e, F)
  <2>1. DOMAIN F = inos
    BY DEF F
  <2>2. ASSUME NEW i \in inos
        PROVE  /\ F[i] \in [slot : Named(e), size : Nat, offset : Nat, len : Nat]
               /\ e.inode[F[i].slot].used /\ e.inode[F[i].slot].ino = i
               /\ Sectors(F[i].offset, F[i].len) =
                    Sectors(Rec(e, F[i].slot).offset, Rec(e, F[i].slot).len)
    <3> DEFINE k == at(i)
               r == I[k]
    <3>1. F[i] = [slot |-> k, size |-> r.size, offset |-> r.offset, len |-> r.len]
      <4> HIDE DEF inos
      <4> QED
        BY <1>3 DEF F
    <3>2. k \in Named(e) /\ o.inode[k].ino = i
      BY <1>15, <1>16
    <3> HIDE DEF k, r
    <3>3. k \in Slots /\ Rec(e, k).used
      BY <3>2 DEF Named
    <3>4. r = Rec(e, k) /\ e.inode[k] = r /\ r.ino = i
      BY <1>3, <1>5, <1>7, <1>9, <3>2, <3>3 DEF r
    <3>5. r.size \in Nat /\ r.offset \in Nat /\ r.len \in Nat
      BY <1>7, <1>8, <1>9, <3>3, <3>4 DEF IsInode
    <3>6. F[i].slot = k /\ F[i].offset = r.offset /\ F[i].len = r.len
          /\ F[i] \in [slot : Named(e), size : Nat, offset : Nat, len : Nat]
      BY <3>1, <3>2, <3>5
    <3> QED
      BY <3>3, <3>4, <3>6
  <2> HIDE DEF inos
  <2> QED
    BY <2>1, <2>2 DEF IsFiles
<1>18. Agrees(e, m)
  <2>1. /\ Neat(s.saved_list) /\ s.saved_next \in Nat
    BY <1>6 DEF IsStored
  <2> QED
    BY <1>5, <1>13, <1>17, <2>1 DEF Agrees
<1>19. \A k \in Slots : t.logged[k] = NoInode
  BY <1>4, <1>7
<1> HIDE DEF inos
<1> QED
  BY <1>1, <1>4, <1>14, <1>15, <1>18, <1>19 DEF Sound, e, m

-----------------------------------------------------------------------------
(***************************************************************************)
(* The extents of versions: numbers, in memory, in the table and in what   *)
(* is still to be written to it.                                           *)
(***************************************************************************)
IsSized(r) == r.offset \in Nat /\ r.size \in Nat
AllSized(vs) == \A n \in DOMAIN vs : IsSized(vs[n])
TableSized(s) == \A k \in SnapSlot : IsSized(s.snap[k])
Sized(s) == TableSized(s) /\ \A i \in DOMAIN s.versions : AllSized(s.versions[i])
SizedWrites(ws) == \A k \in DOMAIN ws : ws[k].to = "snap" => IsSized(ws[k].what)

\* Nothing but writes of snapshots.
OnlySnaps(ws) == IsWrites(ws) /\ \A k \in DOMAIN ws : ws[k].to = "snap" /\ ws[k].cause = "store"

\* t differs from s in its versions.
SameBut(s, t) == Shape(t) /\ t = [s EXCEPT !.versions = t.versions, !.next_id = t.next_id]

\* A snapshot in memory has the size it is asked for.
LEMMA SnapshotSized ==
  ASSUME NEW s, IsStore(s), Sized(s), NEW i, s.files[i].offset \in Nat, NEW size \in Nat
  PROVE  LET t == snapshot(s, i, size) IN SameBut(s, t) /\ t.snap = s.snap /\ Sized(t)
<1> DEFINE v == [id |-> s.next_id, offset |-> s.files[i].offset, size |-> size, at |-> NoSlot]
           vs == VersionsOf(s, i)
           all == Append(vs, v)
           kept == IF Len(all) > MaxPerFile THEN Tail(all) ELSE all
           V == With(s.versions, i, kept)
           t == [s EXCEPT !.next_id = @ + 1, !.versions = V]
<1>0. Shape(s)
  BY DEF IsStore, IsDisk
<1>1. CASE snapshot(s, i, size) = s
  <2>1. SameBut(s, s)
    BY <1>0 DEF SameBut, Shape
  <2> QED
    BY <1>1, <2>1
<1>2. CASE snapshot(s, i, size) = t
  <2>1. IsSized(v)
    BY DEF IsSized
  <2> HIDE DEF v
  <2>2. vs \in Seq(Range(vs)) /\ AllSized(vs)
    <3>1. CASE i \in DOMAIN s.versions
      BY <3>1 DEF VersionsOf, IsStore, IsMemory, IsVersions, Sized
    <3>2. CASE i \notin DOMAIN s.versions
      BY <3>2 DEF VersionsOf, AllSized, Range
    <3> QED
      BY <3>1, <3>2
  <2> HIDE DEF vs
  <2>3. /\ all \in Seq(Range(vs) \cup {v}) /\ Len(all) = Len(vs) + 1 /\ Len(vs) \in Nat
        /\ \A n \in DOMAIN all : (n \in DOMAIN vs /\ all[n] = vs[n]) \/ all[n] = v
    BY <2>2
  <2> HIDE DEF all
  <2>4. \A n \in DOMAIN kept : \E m \in DOMAIN all : kept[n] = all[m]
    <3>1. all # <<>>
      BY <2>3
    <3>2. \A n \in DOMAIN Tail(all) : n + 1 \in DOMAIN all /\ Tail(all)[n] = all[n + 1]
      BY <2>3, <3>1
    <3> QED
      BY <3>2
  <2>5. AllSized(kept)
    BY <2>1, <2>2, <2>3, <2>4 DEF AllSized
  <2> HIDE DEF kept
  <2>6. \A j \in DOMAIN V : AllSized(V[j])
    BY <2>5 DEF With, Sized
  <2> HIDE DEF V
  <2>7. Shape(t) /\ t.snap = s.snap /\ t.versions = V /\ SameBut(s, t)
    BY <1>0 DEF Shape, SameBut
  <2> HIDE DEF t
  <2> QED
    BY <1>2, <2>6, <2>7 DEF Sized, TableSized
<1> QED
  BY <1>1, <1>2, Zenon DEF snapshot

\* A snapshot, and the write of it, have the size they are asked for.
LEMMA VersionedSized ==
  ASSUME NEW s, IsStore(s), Held(s, <<>>), Sized(s), NEW i, s.files[i].offset \in Nat,
         NEW size \in Nat
  PROVE  LET v == Versioned(s, i, size)
         IN  SameBut(s, v.state) /\ Sized(v.state) /\ SizedWrites(v.writes) /\ OnlySnaps(v.writes)
<1> DEFINE t == snapshot(s, i, size)
           vs == VersionsOf(t, i)
           F == FreeSnapSlots(t, i)
           slot == CHOOSE k \in F : \A m \in F : k <= m
           id == IF vs = <<>> THEN 1 ELSE Last(vs).id
           r == [ino |-> i, id |-> id, offset |-> s.files[i].offset, size |-> size, used |-> TRUE]
           w == Write("snap", slot, r)
           V == [t.versions EXCEPT ![i][Len(vs)].at = slot]
           u == [t EXCEPT !.versions[i][Len(vs)].at = slot]
           v == Versioned(s, i, size)
<1>1. IsStore(t) /\ SameBut(s, t) /\ Sized(t) /\ IsStore(s)
  BY SnapshotIs, SnapshotSized
<1>2. v = IF F = {} THEN [state |-> t, writes |-> <<>>]
          ELSE [state |-> IF vs = <<>> THEN t ELSE u, writes |-> <<w>>]
  BY DEF Versioned, write_snapshot
<1>3. IsWrites(v.writes)
  BY VersionedIs
<1>4. IsSized(r)
  BY DEF IsSized
<1>5. vs # <<>> => i \in DOMAIN t.versions /\ vs = t.versions[i] /\ IsVersions(vs)
  BY <1>1 DEF VersionsOf, IsStore, IsMemory
<1> HIDE DEF t, v, r, vs, F, slot
<1>6. w.to = "snap" /\ w.cause = "store" /\ w.what = r
  BY DEF Write
<1> HIDE DEF w
<1>7. ASSUME vs # <<>> PROVE SameBut(s, u) /\ Sized(u)
  <2> DEFINE ws == [vs EXCEPT ![Len(vs)].at = slot]
             W == [t.versions EXCEPT ![i] = ws]
  <2>1. u = [t EXCEPT !.versions = W]
    BY <1>1, <1>5, <1>7 DEF IsStore, IsDisk, Shape
  <2>2. AllSized(ws)
    <3>1. \A n \in DOMAIN vs : vs[n] \in [id : Nat, offset : {vs[n].offset}, size : {vs[n].size},
                                         at : SnapSlot \cup {NoSlot}]
      BY <1>5, <1>7 DEF IsVersions, IsVersion
    <3>2. AllSized(vs)
      BY <1>1, <1>5, <1>7 DEF Sized
    <3>3. ASSUME NEW n \in DOMAIN ws PROVE IsSized(ws[n])
      <4>1. IsSized(vs[n]) /\ n \in DOMAIN vs
        BY <3>2 DEF AllSized
      <4>2. ws[n] = IF n = Len(vs) THEN [vs[n] EXCEPT !.at = slot] ELSE vs[n]
        BY <4>1
      <4>3. ws[n].offset = vs[n].offset /\ ws[n].size = vs[n].size
        <5> HIDE DEF ws
        <5> QED
          BY <3>1, <4>1, <4>2
      <4> HIDE DEF ws
      <4> QED
        BY <4>1, <4>3 DEF IsSized
    <3> QED
      BY <3>3 DEF AllSized
  <2> HIDE DEF ws, u
  <2>3. \A j \in DOMAIN W : AllSized(W[j])
    BY <1>1, <2>2 DEF Sized
  <2> HIDE DEF W
  <2>4. Shape(u) /\ u.snap = t.snap /\ u.versions = W /\ SameBut(s, u)
    BY <1>1, <2>1 DEF Shape, SameBut, IsStore, IsDisk
  <2> QED
    BY <1>1, <2>3, <2>4 DEF Sized, TableSized
<1>8. SizedWrites(<<>>) /\ \A k \in DOMAIN <<>> : FALSE
  BY DEF SizedWrites
<1>9. SizedWrites(<<w>>) /\ \A k \in DOMAIN <<w>> : <<w>>[k] = w
  BY <1>4, <1>6 DEF SizedWrites
<1> DEFINE x == IF vs = <<>> THEN t ELSE u
<1>10. SameBut(s, x) /\ Sized(x)
  BY <1>1, <1>7
<1> HIDE DEF u, x
<1>11. CASE F = {}
  <2>1. v.state = t /\ v.writes = <<>>
    BY <1>2, <1>11
  <2> QED
    BY <1>1, <1>3, <1>8, <2>1 DEF OnlySnaps, v
<1>12. CASE F # {}
  <2>1. v.state = x /\ v.writes = <<w>>
    BY <1>2, <1>12 DEF x
  <2> QED
    BY <1>3, <1>6, <1>9, <1>10, <2>1 DEF OnlySnaps, v
<1> QED
  BY <1>11, <1>12

-----------------------------------------------------------------------------
\* What GC drops and what it keeps are versions as they were.
LEMMA PartsSized ==
  ASSUME NEW s, IsStore(s), Sized(s)
  PROVE  /\ \A i \in DOMAIN s.versions : AllSized(Remaining(s.versions[i]))
         /\ \A v \in AllDropped(s) : IsSized(v)
<1>1. ASSUME NEW i \in DOMAIN s.versions
      PROVE  AllSized(Remaining(s.versions[i])) /\ AllSized(Dropped(s.versions[i]))
  <2> DEFINE old == s.versions[i]
             rest == Remaining(old)
             dropped == Dropped(old)
  <2>1. PICK q : IsPart(old, dropped, rest, q)
    BY DroppedIs
  <2>2. AllSized(old)
    BY DEF Sized
  <2> HIDE DEF old, rest, dropped
  <2>3. AllSized(rest) /\ AllSized(dropped)
    BY <2>1, <2>2 DEF IsPart, AllSized
  <2> QED
    BY <2>3 DEF old, rest, dropped
<1>2. ASSUME NEW v \in AllDropped(s) PROVE IsSized(v)
  <2>1. PICK i \in DOMAIN s.versions :
          \E k \in DOMAIN Dropped(s.versions[i]) : v = Dropped(s.versions[i])[k]
    BY DroppedIs
  <2> QED
    BY <1>1, <2>1 DEF AllSized
<1> QED
  BY <1>1, <1>2

\* What GC leaves before it frees, what it frees, and what it writes.
Frees(s, r, freed, kept, ws) ==
  /\ SameBut(s, kept) /\ Sized(kept)
  /\ freed \in Seq(Range(freed)) /\ AllSized(freed)
  /\ r.state = Freed(kept, freed)
  /\ r.writes = ws

\* GC writes to the table of snapshots only, and frees versions that have a size.
LEMMA GcSized ==
  ASSUME NEW s, IsStore(s), Sized(s), NEW ws, IsWrites(ws), Held(s, ws)
  PROVE  LET g == maybe_gc_snapshots(s)
         IN  /\ OnlySnaps(g.writes) /\ SizedWrites(g.writes)
             /\ \/ g.state = s
                \/ \E freed, kept : Frees(s, g, freed, kept, g.writes)
<1> DEFINE g == maybe_gc_snapshots(s)
           freed == EachFile(s, DroppedOnDisk)
           V == [i \in DOMAIN s.versions |-> Remaining(s.versions[i])]
           kept == [s EXCEPT !.versions = [i \in DOMAIN @ |-> Remaining(@[i])]]
           t == Freed(kept, freed)
           zs == [k \in DOMAIN freed |-> Write("snap", freed[k].at, NoSnap)]
<1>1. IsWrites(g.writes)
  BY MaybeGcIs
<1>2. CASE g = [state |-> s, writes |-> <<>>]
  BY <1>1, <1>2 DEF OnlySnaps, SizedWrites
<1>3. CASE g = [state |-> t, writes |-> zs]
  <2>1. /\ freed \in Seq(Range(freed)) /\ AllSized(freed)
    <3> DEFINE B == {v \in AllDropped(s) : v.at # NoSlot}
    <3>1. freed \in Seq(B)
      BY DroppedIs
    <3>2. \A v \in B : IsSized(v)
      BY PartsSized
    <3> HIDE DEF B, freed
    <3> QED
      BY <3>1, <3>2, OfItsRange DEF AllSized
  <2>2. kept = [s EXCEPT !.versions = V] /\ Shape(s)
    BY DEF IsStore, IsDisk, Shape
  <2>3. \A i \in DOMAIN V : AllSized(V[i])
    BY PartsSized
  <2> HIDE DEF V, freed, kept, t
  <2>4. kept.versions = V /\ kept.snap = s.snap /\ SameBut(s, kept)
    BY <2>2 DEF SameBut, Shape
  <2>5. Sized(kept)
    BY <2>3, <2>4 DEF Sized, TableSized
  <2>6. \A k \in DOMAIN zs : zs[k].to = "snap" /\ zs[k].cause = "store" /\ zs[k].what = NoSnap
    BY DEF Write
  <2>7. IsSized(NoSnap)
    BY DEF IsSized, NoSnap
  <2> HIDE DEF zs, g
  <2>8. g.state = t /\ g.writes = zs
    BY <1>3
  <2>9. OnlySnaps(g.writes) /\ SizedWrites(g.writes)
    BY <1>1, <2>6, <2>7, <2>8 DEF OnlySnaps, SizedWrites, g
  <2>10. Frees(s, g, freed, kept, g.writes)
    BY <2>1, <2>4, <2>5, <2>8 DEF Frees, t
  <2> QED
    BY <2>9, <2>10 DEF g
<1> QED
  BY <1>2, <1>3, Zenon DEF maybe_gc_snapshots

\* A write done keeps the sizes in the table.
LEMMA AppliedSized ==
  ASSUME NEW s, IsStore(s), TableSized(s), NEW w, IsWrite(w), w.to = "snap" => IsSized(w.what)
  PROVE  TableSized(Applied(s, w)) /\ (Sized(s) => Sized(Applied(s, w)))
<1> DEFINE t == Applied(s, w)
<1>1. /\ t.versions = s.versions
      /\ t.snap = IF w.to = "snap" THEN [s.snap EXCEPT ![w.at] = w.what] ELSE s.snap
  BY DEF Applied, IsStore, IsDisk, Shape, IsWrite
<1> HIDE DEF t
<1>2. TableSized(t)
  BY <1>1 DEF TableSized, IsStore, IsDisk, IsTable
<1> QED
  BY <1>1, <1>2 DEF Sized, t

-----------------------------------------------------------------------------
\* A mount finds versions as big as the table says.
LEMMA LoadSized ==
  ASSUME NEW s, IsDisk(s), TableSized(s)
  PROVE  Sized(load(s)) /\ load(s).snap = s.snap
<1> DEFINE o == open(s)
           at(i) == MaxOf({k \in Used(o) : o.inode[k].ino = i})
           inos == {o.inode[k].ino : k \in Used(o)}
           snaps == {k \in SnapSlot : o.snap[k].used}
           Of(i) == InOrder({k \in snaps : o.snap[k].ino = i})
           F == [i \in inos |-> [slot |-> at(i), size |-> o.inode[at(i)].size,
                                 offset |-> o.inode[at(i)].offset, len |-> o.inode[at(i)].len]]
           N == MaxOf(inos \cup {1}) + 1
           V == [i \in {o.snap[k].ino : k \in snaps} |->
                  [n \in DOMAIN Of(i) |->
                     [id |-> o.snap[Of(i)[n]].id, offset |-> o.snap[Of(i)[n]].offset,
                      size |-> o.snap[Of(i)[n]].size, at |-> Of(i)[n]]]]
           D == MaxOf({o.snap[k].id : k \in snaps}) + 1
           t == [o EXCEPT !.files = F, !.next_inode = N, !.versions = V, !.next_id = D]
<1>1. load(s) = t
  BY DEF load
<1>2. Shape(o) /\ o.snap = s.snap
  BY DEF open, IsDisk, Shape
<1>3. \A i \in DOMAIN V : \A n \in DOMAIN V[i] :
        /\ V[i][n].offset = o.snap[V[i][n].at].offset
        /\ V[i][n].size = o.snap[V[i][n].at].size
  <2> HIDE DEF Of, snaps, o
  <2> QED
    OBVIOUS
<1> HIDE DEF F, N, V, D, o
<1>4. t.versions = V /\ t.snap = s.snap
  BY <1>2 DEF Shape
<1> HIDE DEF t
<1>5. ASSUME NEW i \in DOMAIN V, NEW n \in DOMAIN V[i] PROVE IsSized(V[i][n])
  <2>1. Has(t, i, n) /\ IsStore(t)
    BY <1>1, <1>4, LoadIs
  <2>2. V[i][n].at \in SnapSlot
    BY <1>4, <2>1, HasIs
  <2> QED
    BY <1>2, <1>3, <2>2 DEF TableSized, IsSized
<1> QED
  BY <1>1, <1>4, <1>5 DEF Sized, TableSized, AllSized

\* snap gc frees versions that have a size, and writes the table, then the top.
LEMMA SnapGcSized ==
  ASSUME NEW s, IsStore(s), Sized(s),
         \A i \in DOMAIN s.versions : \A n \in DOMAIN s.versions[i] : Has(s, i, n)
  PROVE  \E freed, zs :
           /\ freed \in Seq(Range(freed)) /\ AllSized(freed)
           /\ snap_gc(s).state = Freed(s, freed)
           /\ snap_gc(s).writes = zs \o flush_disk(Freed(s, freed), {})
           /\ OnlySnaps(zs) /\ SizedWrites(snap_gc(s).writes)
<1> DEFINE freed == EachFile(s, Dropped)
           t == Freed(s, freed)
           zs == [k \in DOMAIN freed |->
                    Write("snap", freed[k].at, [s.snap[freed[k].at] EXCEPT !.used = FALSE])]
           d == flush_disk(t, {})
<1>1. snap_gc(s) = [state |-> t, writes |-> zs \o d]
  BY DEF snap_gc
<1>2. IsOther(d)
  BY FlushIs
<1> HIDE DEF t, d, freed
<1>3. freed \in Seq(AllDropped(s))
  BY DroppedIs DEF freed
<1>4. /\ Len(freed) \in Nat /\ DOMAIN freed = 1 .. Len(freed) /\ freed \in Seq(Range(freed))
      /\ \A k \in DOMAIN freed : freed[k] \in AllDropped(s)
  BY <1>3, OfItsRange
<1>5. AllSized(freed)
  BY <1>4, PartsSized DEF AllSized
<1>6. ASSUME NEW k \in DOMAIN freed PROVE freed[k].at \in SnapSlot
  <2>1. PICK j \in DOMAIN s.versions : \E x \in DOMAIN Dropped(s.versions[j]) :
                                         freed[k] = Dropped(s.versions[j])[x]
    BY <1>4, DroppedIs
  <2>2. PICK q : IsPart(s.versions[j], Dropped(s.versions[j]), Remaining(s.versions[j]), q)
    BY DroppedIs
  <2>3. PICK m \in DOMAIN s.versions[j] : freed[k] = s.versions[j][m]
    BY <2>1, <2>2 DEF IsPart
  <2> QED
    BY <2>3, HasIs
<1>7. ASSUME NEW k \in DOMAIN freed
      PROVE  IsWrite(zs[k]) /\ zs[k].to = "snap" /\ zs[k].cause = "store" /\ IsSized(zs[k].what)
  <2> DEFINE r == [s.snap[freed[k].at] EXCEPT !.used = FALSE]
  <2>1. IsRecord(r) /\ IsSized(r)
    <3>1. IsRecord(s.snap[freed[k].at]) /\ IsSized(s.snap[freed[k].at])
      BY <1>6 DEF IsStore, IsDisk, IsTable, Sized, TableSized
    <3> QED
      BY <3>1 DEF IsRecord, IsSized
  <2>2. zs[k] = Write("snap", freed[k].at, r)
    OBVIOUS
  <2> HIDE DEF r, zs
  <2>3. zs[k].cause = "store"
    BY <2>2 DEF Write
  <2> QED
    BY <1>6, <2>1, <2>2, <2>3, SnapWriteIs
<1>8. zs \in Seq(Range(zs)) /\ DOMAIN zs = DOMAIN freed
  <2>1. zs = [k \in 1 .. Len(freed) |-> zs[k]]
    BY <1>4
  <2> HIDE DEF zs
  <2> QED
    BY <1>4, <2>1, ListIs
<1> HIDE DEF zs
<1>9. OnlySnaps(zs) /\ SizedWrites(zs)
  BY <1>7, <1>8 DEF IsWrites, OnlySnaps, SizedWrites
<1>10. SizedWrites(zs \o d)
  <2>1. d \in Seq(Range(d)) /\ SizedWrites(d)
    BY <1>2 DEF IsOther, IsWrites, SizedWrites
  <2> DEFINE B == Range(zs) \cup Range(d)
  <2>2. zs \in Seq(B) /\ d \in Seq(B)
    BY <1>8, <2>1
  <2>3. \A k \in DOMAIN (zs \o d) : \/ k \in DOMAIN zs /\ (zs \o d)[k] = zs[k]
                                    \/ k - Len(zs) \in DOMAIN d /\ (zs \o d)[k] = d[k - Len(zs)]
    BY <2>2
  <2> QED
    BY <1>9, <2>1, <2>3 DEF SizedWrites
<1> DEFINE g == snap_gc(s)
<1>11. g.state = t /\ g.writes = zs \o d
  BY <1>1
<1> HIDE DEF g
<1> QED
  BY <1>4, <1>5, <1>9, <1>10, <1>11, Zenon DEF t, d, g

-----------------------------------------------------------------------------
\* Versions that are freed: all that comes onto the list is tainted.
VersionSectors(vs) == UNION {Sectors(v.offset, v.size) : v \in {v \in Range(vs) : v.offset > 0}}

\* Freeing versions one by one is a loop of rounds.
LEMMA FreedLoop ==
  ASSUME NEW base, NEW vs
  PROVE  FoldLeft(LAMBDA list, v : List!Freed(list, [offset |-> v.offset, length |-> v.size]),
                  base, vs) = Looped(Freeing, base, vs)
<1> DEFINE Give(x, v) == List!Freed(x, [offset |-> v.offset, length |-> v.size])
           seq == vs
           A(f) == f = [u \in SUBSET DOMAIN seq |->
                          IF u = {} THEN base
                          ELSE Give(f[u \ {Max(u)}], seq[Max(u)])]
           B(f) == f = [u \in SUBSET DOMAIN seq |->
                          IF u = {} THEN base
                          ELSE Do(Freeing, f[u \ {Max(u)}], seq[Max(u)])]
<1>1. \A x, y : Do(Freeing, x, y) = Give(x, y)
  BY DEF Do, Freeing
<1>2. FoldLeft(LAMBDA list, v : List!Freed(list, [offset |-> v.offset, length |-> v.size]),
               base, vs) = (CHOOSE f : A(f))[DOMAIN seq]
  BY DEF FoldLeft, MapThenFoldSet
<1>3. Looped(Freeing, base, seq) = (CHOOSE f : B(f))[DOMAIN seq]
  BY DEF Looped, FoldLeft, MapThenFoldSet
<1> HIDE DEF Give
<1>4. \A f : A(f) <=> B(f)
  BY <1>1
<1> HIDE DEF A, B
<1> QED
  BY <1>2, <1>3, <1>4

\* Versions freed: what is on the list then was on it, or is excused.
LEMMA VersionsFreed ==
  ASSUME AllExcused, NEW s, Shape(s), Neat(s.list), NEW vs, vs \in Seq(Range(vs)), AllSized(vs)
  PROVE  LET t == Freed(s, vs)
         IN  /\ Kin(s, t) /\ Neat(t.list) /\ t.versions = s.versions /\ t.snap = s.snap
             /\ \A x : InList(t.list, x) /\ x \notin t.tainted => InList(s.list, x)
<1> DEFINE T == VersionSectors(vs)
           n == Len(vs)
           A == {l \in Seq(FP!Extent) : Neat(l) /\ \A x : InList(l, x) => InList(s.list, x) \/ x \in T}
           l == Looped(Freeing, s.list, vs)
           u == [s EXCEPT !.list = l]
           t == Freed(s, vs)
           W == s.tainted \cup T
<1>1. n \in Nat /\ DOMAIN vs = 1 .. n
  OBVIOUS
<1>2. ASSUME NEW k \in 1 .. n
      PROVE  /\ vs[k].offset \in Nat /\ vs[k].size \in Nat
             /\ vs[k].offset > 0 => Sectors(vs[k].offset, vs[k].size) \subseteq T
  <2>1. vs[k].offset \in Nat /\ vs[k].size \in Nat
    BY <1>1 DEF AllSized, IsSized
  <2>2. vs[k] \in Range(vs)
    BY <1>1 DEF Range
  <2> QED
    BY <2>1, <2>2 DEF VersionSectors
<1>3. s.list \in A
  BY DEF Neat
<1> HIDE DEF T
<1>4. ASSUME NEW x \in A, NEW k \in 1 .. n PROVE Do(Freeing, x, vs[k]) \in A
  <2> DEFINE y == List!Freed(x, [offset |-> vs[k].offset, length |-> vs[k].size])
  <2>1. Do(Freeing, x, vs[k]) = y
    BY DEF Do, Freeing
  <2>2. Neat(x)
    OBVIOUS
  <2>3. /\ Neat(y)
        /\ \A z : InList(y, z) => \/ InList(x, z)
                                  \/ vs[k].offset > 0 /\ z \in Sectors(vs[k].offset, vs[k].size)
    BY <1>2, <2>2, ListFreed
  <2> HIDE DEF y
  <2> QED
    BY <1>2, <2>1, <2>3 DEF Neat
<1>5. l \in A
  <2> HIDE DEF A, n
  <2> QED
    BY <1>1, <1>3, <1>4, LoopStays
<1>6. Neat(l) /\ \A x : InList(l, x) => InList(s.list, x) \/ x \in T
  BY <1>5
<1> HIDE DEF A, l
<1>7. t = Tainted(u, "version", T)
  BY FreedLoop DEF Freed, VersionSectors, l, T
<1>8. "version" \in Excuse
  BY DEF AllExcused
<1> HIDE DEF t, W
<1>9. t = [u EXCEPT !.tainted = @ \cup T]
  BY <1>7, <1>8 DEF Tainted
<1>10. t = [s EXCEPT !.list = l, !.tainted = W]
  BY <1>9 DEF Shape, W
<1>11. t.list = l /\ t.tainted = W /\ Kin(s, t) /\ t.versions = s.versions /\ t.snap = s.snap
  BY <1>10 DEF Kin, Shape, W
<1> QED
  BY <1>6, <1>11 DEF W, t

-----------------------------------------------------------------------------
\* t has what s has, except perhaps versions, and more tainted sectors that it
\* may give out.
Eased(s, t) ==
  /\ Shape(t) /\ s.tainted \subseteq t.tainted
  /\ t.files = s.files /\ t.next = s.next /\ t.dir = s.dir
  /\ t.inode = s.inode /\ t.logged = s.logged /\ t.saved_list = s.saved_list
  /\ t.saved_next = s.saved_next /\ t.saved_dir = s.saved_dir
  /\ Neat(t.list)
  /\ \A x : InList(t.list, x) /\ x \notin t.tainted => InList(s.list, x)

\* What only moves versions eases a state, and so does what frees them.
LEMMA EasedBy ==
  /\ \A s, t : SameBut(s, t) /\ Shape(s) /\ Neat(s.list) => Eased(s, t)
  /\ \A s, t : /\ Kin(s, t) /\ Shape(s) /\ Neat(t.list)
               /\ \A x : InList(t.list, x) /\ x \notin t.tainted => InList(s.list, x)
               => Eased(s, t)
  /\ \A s, t, u : Eased(s, t) /\ Eased(t, u) => Eased(s, u)
<1>1. ASSUME NEW s, NEW t, SameBut(s, t), Shape(s), Neat(s.list) PROVE Eased(s, t)
  <2>1. /\ t.tainted = s.tainted /\ t.list = s.list
        /\ t.files = s.files /\ t.next = s.next /\ t.dir = s.dir
        /\ t.inode = s.inode /\ t.logged = s.logged /\ t.saved_list = s.saved_list
        /\ t.saved_next = s.saved_next /\ t.saved_dir = s.saved_dir
    BY <1>1 DEF SameBut, Shape
  <2> QED
    BY <1>1, <2>1 DEF SameBut, Eased
<1>2. ASSUME NEW s, NEW t, Kin(s, t), Shape(s), Neat(t.list),
             \A x : InList(t.list, x) /\ x \notin t.tainted => InList(s.list, x)
      PROVE  Eased(s, t)
  <2>1. /\ t.files = s.files /\ t.next = s.next /\ t.dir = s.dir
        /\ t.inode = s.inode /\ t.logged = s.logged /\ t.saved_list = s.saved_list
        /\ t.saved_next = s.saved_next /\ t.saved_dir = s.saved_dir
    BY <1>2 DEF Kin, Shape
  <2> QED
    BY <1>2, <2>1 DEF Kin, Eased
<1>3. ASSUME NEW s, NEW t, NEW u, Eased(s, t), Eased(t, u) PROVE Eased(s, u)
  BY <1>3 DEF Eased
<1> QED
  BY <1>1, <1>2, <1>3

\* A sound state that is eased is sound.
LEMMA EasedIsSound ==
  ASSUME NEW s, Sound(s), NEW t, Eased(s, t)
  PROVE  Sound(t)
<1> DEFINE d == Stored(s)
           e == Stored(t)
           m == Memory(s)
           n == Memory(t)
<1>1. /\ e.inode = d.inode /\ e.logged = d.logged /\ e.saved_dir = d.saved_dir
      /\ e.saved_next = d.saved_next /\ e.saved_list = d.saved_list
      /\ e.tainted = t.tainted /\ d.tainted = s.tainted
      /\ n.files = m.files /\ n.next = m.next /\ n.dir = m.dir
      /\ n.list = t.list /\ m.list = s.list
  BY DEF Eased, Stored, Memory
<1>2. e = [d EXCEPT !.tainted = t.tainted]
  BY DEF Eased, Stored
<1>3. Shape(t) /\ IsSafe(d) /\ Agrees(d, m) /\ IsStored(d) /\ s.tainted \subseteq t.tainted
  BY DEF Sound, IsSafe, Eased
<1> HIDE DEF d, e, m, n
<1>4. IsSafe(e)
  BY <1>1, <1>2, <1>3, MoreTainted
<1>5. ASSUME NEW x \in Disk \ e.tainted PROVE Lone(e, n.list, n.next, x)
  <2>1. Lone(e, m.list, m.next, x)
    BY <1>1, <1>3, SameOwners DEF Agrees
  <2>2. InList(n.list, x) => InList(m.list, x)
    BY <1>1 DEF Eased
  <2> QED
    BY <1>1, <2>1, <2>2 DEF Lone
<1>6. Agrees(e, n)
  BY <1>1, <1>3, <1>5, SameOwners DEF Agrees, Eased
<1> QED
  BY <1>3, <1>4, <1>6 DEF Sound, d, e, m, n

\* A file's size in memory says nothing of its sectors.
LEMMA FileSizedIsSound ==
  ASSUME NEW s, Sound(s), NEW i \in Live(s), NEW size \in Nat
  PROVE  Sound([s EXCEPT !.files[i].size = size])
<1> DEFINE F == [s.files EXCEPT ![i].size = size]
           t == [s EXCEPT !.files[i].size = size]
           d == Stored(s)
           n == Memory(t)
<1>1. Shape(s) /\ IsSafe(d) /\ Agrees(d, Memory(s)) /\ IsFiles(d, s.files)
  BY DEF Sound, Agrees, Memory
<1>2. t = [s EXCEPT !.files = F]
  BY <1>1 DEF Shape
<1> HIDE DEF t, F, d
<1>3. /\ Shape(t) /\ t.files = F /\ t.list = s.list /\ t.next = s.next /\ t.dir = s.dir
      /\ Stored(t) = d
  BY <1>1, <1>2 DEF Shape, Stored, d
<1>4. IsFiles(d, F)
  <2> SUFFICES ASSUME NEW j \in DOMAIN F
               PROVE  /\ F[j] \in [slot : Named(d), size : Nat, offset : Nat, len : Nat]
                      /\ d.inode[F[j].slot].used /\ d.inode[F[j].slot].ino = j
                      /\ Sectors(F[j].offset, F[j].len) =
                           Sectors(Rec(d, F[j].slot).offset, Rec(d, F[j].slot).len)
    BY DEF IsFiles
  <2> DEFINE f == s.files[j]
  <2>1. /\ j \in DOMAIN s.files
        /\ F[j] = IF j = i THEN [f EXCEPT !.size = size] ELSE f
    BY DEF F
  <2>2. /\ f \in [slot : Named(d), size : Nat, offset : Nat, len : Nat]
        /\ d.inode[f.slot].used /\ d.inode[f.slot].ino = j
        /\ Sectors(f.offset, f.len) = Sectors(Rec(d, f.slot).offset, Rec(d, f.slot).len)
    BY <1>1, <2>1 DEF IsFiles
  <2> HIDE DEF f
  <2>3. F[j].slot = f.slot /\ F[j].offset = f.offset /\ F[j].len = f.len
        /\ F[j] \in [slot : Named(d), size : Nat, offset : Nat, len : Nat]
    BY <2>1, <2>2
  <2> QED
    BY <2>2, <2>3
<1>5. /\ n.files = F /\ n.list = s.list /\ n.next = s.next /\ n.dir = s.dir
      /\ Memory(s).list = s.list /\ Memory(s).next = s.next /\ Memory(s).dir = s.dir
  BY <1>3 DEF Memory
<1> HIDE DEF n
<1>6. Agrees(d, n)
  BY <1>1, <1>4, <1>5 DEF Agrees
<1> QED
  BY <1>1, <1>3, <1>6 DEF Sound, n, t

\* Writes to the table of snapshots, one lot after another.
LEMMA SnapsConcat ==
  ASSUME NEW v, OnlySnaps(v), SizedWrites(v), NEW w, OnlySnaps(w), SizedWrites(w)
  PROVE  OnlySnaps(v \o w) /\ SizedWrites(v \o w)
<1>1. IsWrites(v) /\ IsWrites(w) /\ IsWrites(v \o w)
  BY ConcatIs DEF OnlySnaps
<1> DEFINE B == Range(v) \cup Range(w)
<1>2. v \in Seq(B) /\ w \in Seq(B)
  BY <1>1 DEF IsWrites
<1>3. \A k \in DOMAIN (v \o w) : \/ k \in DOMAIN v /\ (v \o w)[k] = v[k]
                                 \/ k - Len(v) \in DOMAIN w /\ (v \o w)[k] = w[k - Len(v)]
  BY <1>2
<1> QED
  BY <1>1, <1>3 DEF OnlySnaps, SizedWrites

\* Writes to the table of snapshots may be done in any sound state.
LEMMA SnapsAreSafe ==
  ASSUME NEW s, Sound(s), NEW ws, OnlySnaps(ws), NEW how
  PROVE  Safe(Stored(s), ws, Memory(s), how)
<1> DEFINE m == Memory(s)
           d == Stored(s)
<1>1. IsSafe(d) /\ Agrees(d, m)
  BY DEF Sound
<1> HIDE DEF m, d
<1>2. Safe(d, <<>>, m, how)
  BY <1>1, SafeNil
<1>3. ws \in Seq(Range(ws))
  BY DEF OnlySnaps, IsWrites
<1>4. ws \o <<>> = ws
  BY <1>3
<1>5. Safe(d, ws \o <<>>, m, how)
  BY <1>1, <1>2, SafeSnaps DEF OnlySnaps
<1> QED
  BY <1>4, <1>5 DEF m, d

-----------------------------------------------------------------------------
\* GC eases a state.
LEMMA GcEases ==
  ASSUME AllExcused, NEW s, IsStore(s), Sized(s), NEW ws, IsWrites(ws), Held(s, ws), Neat(s.list)
  PROVE  LET g == maybe_gc_snapshots(s)
         IN  /\ Eased(s, g.state) /\ Sized(g.state)
             /\ OnlySnaps(g.writes) /\ SizedWrites(g.writes)
<1> DEFINE g == maybe_gc_snapshots(s)
           t == g.state
<1>1. /\ OnlySnaps(g.writes) /\ SizedWrites(g.writes)
      /\ \/ t = s
         \/ \E freed, kept : Frees(s, g, freed, kept, g.writes)
  BY GcSized
<1>2. Shape(s)
  BY DEF IsStore, IsDisk
<1> HIDE DEF g
<1>3. CASE t = s
  <2>1. Eased(s, s)
    BY <1>2 DEF Eased
  <2> QED
    BY <1>1, <1>3, <2>1 DEF g
<1>4. CASE \E freed, kept : Frees(s, g, freed, kept, g.writes)
  <2>1. PICK freed, kept : Frees(s, g, freed, kept, g.writes)
    BY <1>4
  <2>2. /\ SameBut(s, kept) /\ Sized(kept) /\ t = Freed(kept, freed)
        /\ freed \in Seq(Range(freed)) /\ AllSized(freed)
    BY <2>1 DEF Frees
  <2>3. Eased(s, kept)
    BY <1>2, <2>2, EasedBy
  <2>4. Shape(kept) /\ Neat(kept.list)
    BY <2>3 DEF Eased
  <2> HIDE DEF t
  <2>5. /\ Kin(kept, t) /\ Neat(t.list) /\ t.versions = kept.versions /\ t.snap = kept.snap
        /\ \A x : InList(t.list, x) /\ x \notin t.tainted => InList(kept.list, x)
    BY <2>2, <2>4, VersionsFreed
  <2>6. Eased(kept, t)
    BY <2>4, <2>5, EasedBy
  <2>7. Eased(s, t)
    BY <2>3, <2>6, EasedBy
  <2>8. Sized(t)
    BY <2>2, <2>5 DEF Sized, TableSized
  <2> QED
    BY <1>1, <2>7, <2>8 DEF g, t
<1> QED
  BY <1>1, <1>3, <1>4

\* A file overwritten or cut: a snapshot of it, GC, and the size in memory.
LEMMA OverwrittenIsSafe ==
  ASSUME AllExcused, NEW s, Sound(s), IsStore(s), Held(s, <<>>), Sized(s), NEW i \in Live(s),
         NEW old \in Nat, NEW size \in Nat, NEW keep \in BOOLEAN, NEW how
  PROVE  LET r == Overwritten(s, i, old, size, keep)
         IN  IsSafeRequest(r, how) /\ Sized(r.state) /\ SizedWrites(r.writes)
<1> DEFINE v == IF keep THEN Versioned(s, i, old) ELSE [state |-> s, writes |-> <<>>]
           g == IF keep THEN maybe_gc_snapshots(v.state) ELSE v
           more == IF keep THEN g.writes ELSE <<>>
           t == [g.state EXCEPT !.files[i].size = size]
           r == Overwritten(s, i, old, size, keep)
           u == g.state
<1>1. s.files[i].offset \in Nat /\ Neat(s.list) /\ Shape(s)
  BY FileIs DEF Sound
<1>2. r.state = t /\ r.writes = v.writes \o more
  BY DEF Overwritten
<1>3. OnlySnaps(<<>>) /\ SizedWrites(<<>>)
  BY NoWrites DEF OnlySnaps, SizedWrites, IsOther
<1>4. /\ Eased(s, u) /\ Sized(u)
      /\ OnlySnaps(v.writes) /\ SizedWrites(v.writes)
      /\ OnlySnaps(more) /\ SizedWrites(more)
  <2>1. CASE keep
    <3> DEFINE p == Versioned(s, i, old)
               q == maybe_gc_snapshots(p.state)
    <3>1. v = p /\ g = q /\ more = q.writes
      BY <2>1
    <3> HIDE DEF p, v, g, more
    <3>2. IsStore(p.state) /\ IsWrites(p.writes) /\ Held(p.state, p.writes)
      BY VersionedIs DEF p
    <3>3. SameBut(s, p.state) /\ Sized(p.state) /\ SizedWrites(p.writes) /\ OnlySnaps(p.writes)
      BY <1>1, VersionedSized DEF p
    <3>4. Eased(s, p.state)
      BY <1>1, <3>3, EasedBy
    <3>5. Neat(p.state.list)
      BY <3>4 DEF Eased
    <3>6. /\ Eased(p.state, q.state) /\ Sized(q.state)
          /\ OnlySnaps(q.writes) /\ SizedWrites(q.writes)
      BY <3>2, <3>3, <3>5, GcEases
    <3>7. Eased(s, q.state)
      BY <3>4, <3>6, EasedBy
    <3> QED
      BY <3>1, <3>3, <3>6, <3>7
  <2>2. CASE ~keep
    <3>1. u = s /\ v.writes = <<>> /\ more = <<>>
      BY <2>2
    <3>2. Eased(s, s)
      BY <1>1 DEF Eased
    <3> QED
      BY <1>3, <3>1, <3>2
  <2> QED
    BY <2>1, <2>2
<1> HIDE DEF v, g, more, r
<1>5. Sound(u)
  BY <1>4, EasedIsSound
<1>6. i \in Live(u)
  BY <1>4 DEF Eased, Live
<1>7. Sound(t)
  BY <1>5, <1>6, FileSizedIsSound
<1>8. Shape(u)
  BY <1>4 DEF Eased
<1>9. t.versions = u.versions /\ t.snap = u.snap
  BY <1>8 DEF Shape
<1>10. Sized(t)
  BY <1>4, <1>9 DEF Sized, TableSized
<1> DEFINE ws == v.writes \o more
<1>11. OnlySnaps(ws) /\ SizedWrites(ws)
  BY <1>4, SnapsConcat
<1> HIDE DEF t, ws
<1>12. Safe(Stored(t), ws, Memory(t), how)
  BY <1>7, <1>11, SnapsAreSafe
<1> QED
  BY <1>2, <1>10, <1>11, <1>12 DEF IsSafeRequest, r, ws

-----------------------------------------------------------------------------
(***************************************************************************)
(* The commands: what they leave is only on disk.                          *)
(***************************************************************************)
LEMMA Unmounted ==
  ASSUME NEW d, NEW ws, NEW m, NEW how, Safe(d, ws, m, how), NEW n
  PROVE  Safe(d, ws, n, "unmounted")
BY DEF Safe

\* A finite set with less than two elements has at most one.
LEMMA AtMostOne ==
  ASSUME NEW S, IsFiniteSet(S)
  PROVE  Cardinality(S) < 2 <=> \A a, b \in S : a = b
<1>1. Cardinality(S) \in Nat
  BY FS_CardinalityType
<1>2. ASSUME \A a, b \in S : a = b PROVE Cardinality(S) < 2
  <2>1. CASE S = {}
    BY <2>1, FS_EmptySet
  <2>2. CASE S # {}
    <3>1. PICK a : S = {a}
      BY <1>2, <2>2
    <3> QED
      BY <3>1, FS_Singleton
  <2> QED
    BY <2>1, <2>2
<1>3. ASSUME NEW a \in S, NEW b \in S, a # b PROVE Cardinality(S) >= 2
  <2>1. IsFiniteSet({a}) /\ Cardinality({a}) = 1
    BY FS_Singleton
  <2>2. Cardinality({a} \cup {b}) = 2 /\ {a} \cup {b} \in SUBSET S
    BY <1>3, <2>1, FS_AddElement
  <2> QED
    BY <1>1, <2>2, FS_Subset
<1> QED
  BY <1>1, <1>2, <1>3

\* Just mounted: the journal is empty, and the memory is what is stored.
Fresh(s) ==
  /\ s.next = s.saved_next /\ s.list = s.saved_list
  /\ \A k \in Slots : s.logged[k] = NoInode
  /\ Used(s) = Named(Stored(s))

\* In what a mount finds, the owners fsck counts are the owners on disk.
LEMMA OwnersAre ==
  ASSUME NEW s, Sound(s), Fresh(s), NEW x
  PROVE  /\ Owned(Stored(s), x) <=> Owners(s, x) # {}
         /\ Cardinality(Owners(s, x)) < 2 => OneOwner(Stored(s), x)
<1> DEFINE d == Stored(s)
           A == {k \in Used(s) : x \in Sectors(s.inode[k].offset, s.inode[k].len)}
           B == {b \in DOMAIN s.dir : x \in Sectors(s.dir[b], BlockSize)}
           FA == {<<"file", k>> : k \in A}
           FB == {<<"block", b>> : b \in B}
<1>1. /\ d.inode = s.inode /\ d.logged = s.logged /\ d.saved_dir = s.dir /\ IsStored(d)
      /\ Used(s) = Named(d)
  BY DEF Sound, Agrees, Memory, IsSafe, Stored, Fresh
<1> HIDE DEF d
<1>2. \A k \in Slots : Rec(d, k) = s.inode[k]
  BY <1>1 DEF Rec, Fresh
<1>3. \A k : k \in A <=> AtFile(d, k, x)
  BY <1>1, <1>2 DEF AtFile, Named
<1>4. \A b : b \in B <=> AtBlock(d, b, x)
  BY <1>1 DEF AtBlock
<1>5. IsFiniteSet(FA) /\ IsFiniteSet(FB)
  <2>1. IsFiniteSet(A)
    <3>1. A \in SUBSET Slots
      BY <1>1 DEF Named
    <3> QED
      BY <3>1, SlotsFinite, FS_Subset
  <2>2. IsFiniteSet(B)
    <3>1. s.dir \in Seq(Nat)
      BY <1>1 DEF IsStored
    <3>2. DOMAIN s.dir = 1 .. Len(s.dir) /\ Len(s.dir) \in Nat /\ B \in SUBSET DOMAIN s.dir
      BY <3>1
    <3> HIDE DEF B
    <3>3. IsFiniteSet(DOMAIN s.dir)
      <4>1. \A n \in Nat : IsFiniteSet(1 .. n)
        BY FS_Interval
      <4> QED
        BY <3>2, <4>1, Zenon
    <3> QED
      BY <3>2, <3>3, FS_Subset
  <2> HIDE DEF A, B
  <2>3. IsFiniteSet(FA)
    <3> DEFINE f == [k \in A |-> <<"file", k>>]
    <3>1. {f[k] : k \in A} = FA
      OBVIOUS
    <3> HIDE DEF f, FA
    <3>2. IsFiniteSet({f[k] : k \in A})
      BY <2>1, ValuesAre
    <3> QED
      BY <3>1, <3>2
  <2>4. IsFiniteSet(FB)
    <3> DEFINE f == [b \in B |-> <<"block", b>>]
    <3>1. {f[b] : b \in B} = FB
      OBVIOUS
    <3> HIDE DEF f, FB
    <3>2. IsFiniteSet({f[b] : b \in B})
      BY <2>2, ValuesAre
    <3> QED
      BY <3>1, <3>2
  <2> QED
    BY <2>3, <2>4
<1>6. Owners(s, x) = FA \cup FB
  BY DEF Owners
<1>7. IsFiniteSet(FA \cup FB)
  BY <1>5, FS_Union
<1> HIDE DEF A, B
<1>8. Owned(d, x) <=> FA \cup FB # {}
  BY <1>3, <1>4 DEF Owned
<1>9. ASSUME Cardinality(FA \cup FB) < 2 PROVE OneOwner(d, x)
  <2>1. \A a, b \in FA \cup FB : a = b
    BY <1>7, <1>9, AtMostOne
  <2>2. \A k \in A : <<"file", k>> \in FA \cup FB
    OBVIOUS
  <2>3. \A b \in B : <<"block", b>> \in FA \cup FB
    OBVIOUS
  <2> HIDE DEF FA, FB
  <2>4. \A k, m \in A : k = m
    <3>1. \A k, m \in A : <<"file", k>> = <<"file", m>>
      BY <2>1, <2>2
    <3> QED
      BY <3>1
  <2>5. \A b, c \in B : b = c
    <3>1. \A b, c \in B : <<"block", b>> = <<"block", c>>
      BY <2>1, <2>3
    <3> QED
      BY <3>1
  <2>6. \A k \in A : \A b \in B : FALSE
    <3>1. \A k \in A : \A b \in B : <<"file", k>> = <<"block", b>>
      BY <2>1, <2>2, <2>3
    <3> QED
      BY <3>1
  <2> QED
    BY <1>3, <1>4, <2>4, <2>5, <2>6 DEF OneOwner
<1> QED
  BY <1>6, <1>8, <1>9 DEF d

-----------------------------------------------------------------------------
\* fsck's repair: the extents it keeps have one owner each, and the list it
\* rebuilds has none of them.
LEMMA FsckIsSafe ==
  ASSUME AllExcused, NEW s, Sound(s), Fresh(s), NEW m
  PROVE  LET r == fsck_repair(s)
         IN  /\ Safe(Stored(r.state), r.writes, m, "unmounted")
             /\ Shape(r.state) /\ r.state.snap = s.snap /\ IsOther(r.writes)
<1> DEFINE sized == {k \in Used(s) : s.inode[k].size > 0 /\ s.inode[k].offset + s.inode[k].size <= DiskEnd}
           E == {[offset |-> s.inode[k].offset, length |-> s.inode[k].size] : k \in sized}
           fresh == List!rebuild_from_inodes(SetToSeq(E))
           cured == {x \in Disk : x < s.next /\ Cardinality(Owners(s, x)) < 2}
           tail == {x \in Disk : InList(fresh, x) /\ (x >= s.next \/ Owners(s, x) # {})}
           u == [s EXCEPT !.list = fresh]
           t == Tainted(u, "tail", tail)
           r == fsck_repair(s)
           C == cured \ tail
           W == s.tainted \cup tail
           d == Stored(t)
           n == Memory(t)
<1>1. \/ r = [state |-> s, writes |-> <<>>]
      \/ r = [state |-> t, writes |-> Curing(flush_disk(t, {}), C)]
  BY DEF fsck_repair
<1> HIDE DEF r
<1>2. Shape(s) /\ IsSafe(Stored(s)) /\ IsStored(Stored(s))
  BY DEF Sound, IsSafe
<1>3. CASE r = [state |-> s, writes |-> <<>>]
  <2>1. Safe(Stored(s), <<>>, m, "unmounted")
    BY <1>2, SafeNil
  <2> QED
    BY <1>2, <1>3, <2>1, NoWrites DEF r
<1>4. CASE r = [state |-> t, writes |-> Curing(flush_disk(t, {}), C)]
  <2>1. Neat(fresh)
    <3>1. ASSUME NEW k \in sized
          PROVE  /\ s.inode[k].offset \in Nat \ {0} /\ s.inode[k].size \in Nat \ {0}
                 /\ s.inode[k].offset <= DiskEnd /\ s.inode[k].size <= DiskEnd
      <4>1. k \in Slots /\ s.inode[k].size > 0 /\ s.inode[k].offset + s.inode[k].size <= DiskEnd
        BY DEF Used
      <4>2. IsInode(s.inode[k])
        BY <1>2, <4>1 DEF IsStored, Stored
      <4>3. s.inode[k].offset \in Nat /\ s.inode[k].size \in Nat /\ s.inode[k].offset > 0
        BY <4>1, <4>2 DEF IsInode
      <4> QED
        BY <4>1, <4>3, StoreAssumption
    <3> HIDE DEF sized
    <3>2. E \in SUBSET FP!Extent
      BY <3>1 DEF FP!Extent
    <3>3. DiskEnd \in Nat /\ \A e \in E : e.offset <= DiskEnd /\ e.length <= DiskEnd
      BY <3>1, StoreAssumption
    <3> HIDE DEF E
    <3> QED
      BY <3>2, <3>3, ListRebuilt
  <2> HIDE DEF fresh
  <2>2. "tail" \in Excuse
    BY DEF AllExcused
  <2> HIDE DEF tail, cured, C
  <2>3. t = [s EXCEPT !.list = fresh, !.tainted = W]
    <3>1. t = [u EXCEPT !.tainted = @ \cup tail]
      BY <2>2 DEF Tainted
    <3> HIDE DEF t
    <3> QED
      BY <1>2, <3>1 DEF Shape
  <2> HIDE DEF t, W
  <2>4. t.list = fresh /\ t.tainted = W /\ t.snap = s.snap /\ Kin(s, t)
    BY <1>2, <2>3 DEF Kin, Shape, W
  <2>5. /\ t.next = s.next /\ t.dir = s.dir
        /\ d.tainted = W /\ d.saved_dir = s.saved_dir /\ d.saved_next = s.saved_next
        /\ IsSafe(d) /\ IsStored(d)
    <3> HIDE DEF d
    <3>1. t.next = s.next /\ t.dir = s.dir
      BY <1>2, <2>4, KinStores
    <3>2. d.tainted = W /\ d.saved_dir = s.saved_dir /\ d.saved_next = s.saved_next
      BY <1>2, <2>4, KinStores DEF d
    <3>3. IsSafe(d)
      BY <1>2, <2>4, KinStores DEF d
    <3> QED
      BY <3>1, <3>2, <3>3 DEF IsSafe
  <2>6. \A x, list, next : Lone(d, list, next, x) <=> Lone(Stored(s), list, next, x)
    <3> HIDE DEF d
    <3> QED
      BY <1>2, <2>4, KinStores DEF d
  <2>7. s.next = s.saved_next /\ s.dir = s.saved_dir /\ s.next \in Nat
    BY DEF Sound, Agrees, Memory, Stored, Fresh
  <2>8. ASSUME NEW x \in Disk \ (d.tainted \ C) PROVE Lone(d, fresh, s.next, x)
    <3>1. x \notin tail
      BY <2>5, <2>8 DEF W, C
    <3>2. InList(fresh, x) => ~(x >= s.next) /\ Owners(s, x) = {}
      BY <3>1 DEF tail
    <3>3. Owned(Stored(s), x) <=> Owners(s, x) # {}
      BY OwnersAre
    <3>4. OneOwner(Stored(s), x) /\ (Owned(Stored(s), x) => x < s.next)
      <4>1. CASE x \notin d.tainted
        <5>1. x \in Disk \ Stored(s).tainted
          BY <2>5, <4>1 DEF W, Stored
        <5>2. Lone(Stored(s), s.list, s.next, x)
          BY <5>1 DEF Sound, Agrees, Memory
        <5> QED
          BY <5>2 DEF Lone
      <4>2. CASE x \in C
        BY <4>2, OwnersAre DEF C, cured
      <4> QED
        BY <2>8, <4>1, <4>2
    <3>5. x \in Int
      BY DiskIs
    <3>6. Lone(Stored(s), fresh, s.next, x)
      BY <2>7, <3>2, <3>3, <3>4, <3>5 DEF Lone
    <3> QED
      BY <2>6, <3>6
  <2>9. n.list = fresh /\ n.next = s.next /\ n.dir = s.dir
    BY <2>4, <2>5 DEF Memory
  <2> DEFINE S == {}
  <2>10. \A x \in Disk \ d.tainted : x \notin S => Clear(d, x)
    BY <2>5 DEF IsSafe
  <2>11. t.next = n.next /\ t.list = n.list /\ t.dir = n.dir
    BY <2>4, <2>5, <2>9
  <2> HIDE DEF S, d, n
  <2>12. Safe(d, Curing(flush_disk(t, S), C), n, "unmounted")
    <3>1. Neat(n.list) /\ n.next \in Nat /\ n.next >= d.saved_next /\ n.dir = d.saved_dir
      BY <2>1, <2>5, <2>7, <2>9
    <3>2. \A x \in Disk \ (d.tainted \ C) : Lone(d, n.list, n.next, x)
      BY <2>8, <2>9
    <3> DEFINE how == "unmounted"
    <3>3. how = "mounted" => IsFiles(d, n.files)
      OBVIOUS
    <3> HIDE DEF how
    <3>4. Safe(d, Curing(flush_disk(t, S), C), n, how)
      BY <2>5, <2>10, <2>11, <3>1, <3>2, <3>3, FlushIsSafe
    <3> QED
      BY <3>4 DEF how
  <2>13. Safe(d, Curing(flush_disk(t, S), C), m, "unmounted")
    BY <2>12, Unmounted
  <2>14. IsOther(Curing(flush_disk(t, S), C))
    BY FlushIs
  <2>15. r.state = t /\ r.writes = Curing(flush_disk(t, S), C)
    BY <1>4 DEF S
  <2> QED
    BY <2>4, <2>13, <2>14, <2>15 DEF Kin, d, r
<1> QED
  BY <1>1, <1>3, <1>4

-----------------------------------------------------------------------------
\* The superblock written again.
LEMMA FlushedIsSafe ==
  ASSUME NEW s, Sound(s), NEW how
  PROVE  Safe(Stored(s), flush_disk(s, {}), Memory(s), how)
<1> DEFINE S == {}
           C == {}
           d == Stored(s)
           m == Memory(s)
<1>1. IsSafe(d) /\ IsStored(d) /\ Agrees(d, m)
  BY DEF Sound, IsSafe
<1>2. s.next = m.next /\ s.list = m.list /\ s.dir = m.dir
  BY DEF Memory
<1>3. \A x \in Disk \ (d.tainted \ C) : Lone(d, m.list, m.next, x)
  <2> HIDE DEF d, m
  <2> QED
    BY <1>1 DEF Agrees
<1>4. \A x \in Disk \ d.tainted : x \notin S => Clear(d, x)
  BY <1>1 DEF IsSafe
<1> HIDE DEF d, m, S
<1>5. C = {}
  OBVIOUS
<1> HIDE DEF C
<1>6. Safe(d, flush_disk(s, S), m, how)
  BY <1>1, <1>2, <1>3, <1>4, <1>5, FlushIsSafe DEF Agrees
<1> QED
  BY <1>6 DEF d, m, S

\* The command snap gc.
LEMMA SnapGcIsSafe ==
  ASSUME AllExcused, NEW s, Sound(s), IsStore(s), Sized(s),
         \A i \in DOMAIN s.versions : \A n \in DOMAIN s.versions[i] : Has(s, i, n), NEW m
  PROVE  LET r == snap_gc(s)
         IN  /\ Safe(Stored(r.state), r.writes, m, "unmounted")
             /\ Shape(r.state) /\ r.state.snap = s.snap /\ SizedWrites(r.writes)
<1> DEFINE r == snap_gc(s)
<1>1. PICK freed, zs : /\ freed \in Seq(Range(freed)) /\ AllSized(freed)
                       /\ r.state = Freed(s, freed)
                       /\ r.writes = zs \o flush_disk(Freed(s, freed), {})
                       /\ OnlySnaps(zs) /\ SizedWrites(r.writes)
  BY SnapGcSized
<1> DEFINE t == Freed(s, freed)
<1> HIDE DEF r
<1>2. Shape(s) /\ Neat(s.list)
  BY DEF Sound, Agrees, Memory
<1>3. /\ Kin(s, t) /\ Neat(t.list) /\ t.snap = s.snap
      /\ \A x : InList(t.list, x) /\ x \notin t.tainted => InList(s.list, x)
  BY <1>1, <1>2, VersionsFreed
<1> HIDE DEF t
<1>4. Eased(s, t)
  BY <1>2, <1>3, EasedBy
<1>5. Sound(t)
  BY <1>4, EasedIsSound
<1> DEFINE ws == flush_disk(t, {})
           h == "unmounted"
<1> HIDE DEF h
<1>6. Safe(Stored(t), ws, Memory(t), h)
  BY <1>5, FlushedIsSafe
<1> HIDE DEF ws
<1>7. Safe(Stored(t), zs \o ws, Memory(t), h)
  BY <1>1, <1>5, <1>6, SafeSnaps DEF Sound, OnlySnaps
<1>8. Safe(Stored(t), zs \o ws, m, "unmounted")
  BY <1>7, Unmounted
<1> QED
  BY <1>1, <1>3, <1>8 DEF Kin, r, t, ws

\* The command snap restore: the file gets a new extent at the top.
LEMMA RestoreIsSafe ==
  ASSUME NEW s, Sound(s), Fresh(s), NEW k \in Used(s), NEW v, s.snap[v].size \in Nat, NEW m
  PROVE  LET r == snap_restore(s, k, v)
         IN  /\ Safe(Stored(r.state), r.writes, m, "unmounted")
             /\ Shape(r.state) /\ r.state.snap = s.snap
<1> DEFINE n == s.snap[v].size
           o == AllocatedAt(s, n)
           t == alloc_data(s, n)
           i == [s.inode[k] EXCEPT !.size = n, !.offset = o, !.len = n]
           w == Write("inode", k, i)
           r == snap_restore(s, k, v)
           d == Stored(s)
           q == Memory(t)
<1>1. r = [state |-> t, writes |-> write_inode(k, i) \o flush_disk(t, Sectors(o, n))]
  BY DEF snap_restore
<1>2. write_inode(k, i) = <<w>> /\ IsInodeWrite(w, k, i)
  BY WriteInodeIs
<1> HIDE DEF r, w
<1>3. /\ Shape(s) /\ IsSafe(d) /\ IsStored(d) /\ Agrees(d, Memory(s)) /\ Neat(s.list)
      /\ s.next \in Nat /\ s.next >= d.saved_next /\ s.dir = d.saved_dir
      /\ d.inode = s.inode /\ d.saved_dir = s.dir /\ d.saved_next = s.saved_next
  BY DEF Sound, Agrees, Memory, IsSafe, Stored
<1>4. s.next >= DataStart
  BY <1>3, StoreAssumption DEF IsStored
<1>5. /\ t = [s EXCEPT !.list = t.list, !.next = t.next] /\ o \in Nat \ {0}
  BY <1>3, <1>4, AllocIs
<1>6. k \in Slots /\ k < Capacity(d.saved_dir) /\ s.inode[k].used
  BY <1>3 DEF Used
<1>7. IsInode(s.inode[k])
  BY <1>3, <1>6 DEF IsStored
<1>8. IsInode(i) /\ i.used /\ Sectors(i.offset, i.len) = Sectors(o, n)
  <2> DEFINE x == s.inode[k]
  <2> HIDE DEF o, n, x
  <2>1. PICK a, b, c, e, f : x = [ino |-> a, size |-> b, offset |-> c, len |-> e, used |-> f]
    BY <1>7, Zenon DEF IsInode, x
  <2> DEFINE y == [x EXCEPT !.size = n]
             z == [y EXCEPT !.offset = o]
             j == [z EXCEPT !.len = n]
  <2>2. y = [ino |-> a, size |-> n, offset |-> c, len |-> e, used |-> f]
    BY <2>1
  <2> HIDE DEF y
  <2>3. z = [ino |-> a, size |-> n, offset |-> o, len |-> e, used |-> f]
    BY <2>2
  <2> HIDE DEF z
  <2>4. j = [ino |-> a, size |-> n, offset |-> o, len |-> n, used |-> f]
    BY <2>3
  <2>5. i = j
    BY DEF x, y, z
  <2>6. f = TRUE
    BY <1>6, <1>7, <2>1 DEF x, IsInode
  <2> HIDE DEF i, j
  <2>7. i = [ino |-> a, size |-> n, offset |-> o, len |-> n, used |-> TRUE]
    BY <2>4, <2>5, <2>6
  <2> QED
    BY <1>5, <2>7 DEF IsInode, o, n
<1> HIDE DEF i, t, o
<1>9. /\ Shape(t) /\ t.snap = s.snap /\ t.dir = s.dir /\ Stored(t) = d
  BY <1>3, <1>5 DEF Shape, Stored, d
<1>10. CanPut(d, k, i, w)
  BY <1>2, <1>6, <1>8 DEF CanPut
<1> HIDE DEF d
<1>11. CanGive(d, k, s)
  <2> SUFFICES ASSUME NEW x \in Disk \ d.tainted
               PROVE  /\ Others(d, k, x) => ~InList(s.list, x) /\ x < s.next
                      /\ InList(s.list, x) => x < s.next
    BY <1>3 DEF CanGive
  <2>1. Lone(d, s.list, s.next, x)
    BY <1>3 DEF Agrees, Memory
  <2> QED
    BY <2>1, OthersAre DEF Lone
<1>12. Gives(s, n, t, Sectors(i.offset, i.len))
  BY <1>8 DEF Gives, Given, t, o
<1>13. SameTop(q, t) /\ SameTop(t, t)
  BY <1>9 DEF SameTop, Memory
<1> DEFINE h == "unmounted"
<1>14. h = "mounted" => IsFiles(After(d, w), q.files)
  OBVIOUS
<1> HIDE DEF h, q, n
<1>15. Safe(d, <<w>> \o flush_disk(t, Sectors(i.offset, i.len)), q, h)
  BY <1>3, <1>10, <1>11, <1>12, <1>13, <1>14, StoreIsSafe DEF n
<1>16. Safe(d, <<w>> \o flush_disk(t, Sectors(i.offset, i.len)), m, "unmounted")
  BY <1>15, Unmounted
<1>17. r.state = t /\ r.writes = <<w>> \o flush_disk(t, Sectors(i.offset, i.len))
  BY <1>1, <1>2, <1>8 DEF n
<1> QED
  BY <1>9, <1>16, <1>17 DEF r

-----------------------------------------------------------------------------
(***************************************************************************)
(* Who can hand out or holds a sector, in a state that is sound.           *)
(***************************************************************************)
LEMMA OneClaim ==
  ASSUME NEW s, Sound(s), NEW x \in Disk, x \notin s.tainted
  PROVE  Cardinality(Claims(s, x)) <= 1
<1> DEFINE d == Stored(s)
           F == {i \in Live(s) : x \in Own(s, i)}
           B == {b \in DOMAIN s.dir : x \in Sectors(s.dir[b], BlockSize)}
           L == {z \in {0} : InList(s.list, x)}
           N == {z \in {0} : x >= s.next}
           CF == {<<"file", i>> : i \in F}
           CB == {<<"block", b>> : b \in B}
           CL == {<<"list", 0>> : z \in L}
           CN == {<<"next", 0>> : z \in N}
<1>1. Lone(d, s.list, s.next, x) /\ IsFiles(d, s.files) /\ s.dir = d.saved_dir /\ s.next \in Nat
  BY DEF Sound, Agrees, Memory, Stored
<1>2. x \in Int
  BY DiskIs
<1> HIDE DEF d
<1>3. \A i \in F : AtFile(d, s.files[i].slot, x) /\ i \in DOMAIN s.files
  BY <1>1 DEF IsFiles, Live, Own, AtFile
<1>4. \A b \in B : AtBlock(d, b, x)
  BY <1>1 DEF AtBlock
<1>5. \A i, j \in F : i = j
  BY <1>1, <1>3, SlotsApart DEF Lone, OneOwner
<1>6. \A b, c \in B : b = c
  BY <1>1, <1>4 DEF Lone, OneOwner
<1>7. \A i \in F : \A b \in B : FALSE
  BY <1>1, <1>3, <1>4 DEF Lone, OneOwner
<1>8. F # {} \/ B # {} => Owned(d, x)
  BY <1>3, <1>4 DEF Owned
<1>9. (F # {} \/ B # {}) => L = {} /\ N = {}
  BY <1>1, <1>2, <1>8 DEF Lone
<1>10. L # {} => N = {}
  BY <1>1, <1>2 DEF Lone
<1> HIDE DEF F, B, L, N
<1>11. Claims(s, x) = CF \cup CB \cup CL \cup CN
  BY DEF Claims, F, B, L, N
<1>12. \E c : CF \cup CB \cup CL \cup CN \subseteq {c}
  <2>1. CASE F # {}
    <3>1. PICK i : i \in F
      BY <2>1
    <3>2. CB = {} /\ CL = {} /\ CN = {} /\ CF \subseteq {<<"file", i>>}
      BY <1>5, <1>7, <1>9, <3>1
    <3> QED
      BY <3>2
  <2>2. CASE F = {} /\ B # {}
    <3>1. PICK b : b \in B
      BY <2>2
    <3>2. CF = {} /\ CL = {} /\ CN = {} /\ CB \subseteq {<<"block", b>>}
      BY <1>6, <1>9, <2>2, <3>1
    <3> QED
      BY <3>2
  <2>3. CASE F = {} /\ B = {} /\ L # {}
    <3>1. CF = {} /\ CB = {} /\ CN = {} /\ CL \subseteq {<<"list", 0>>}
      BY <1>10, <2>3
    <3> QED
      BY <3>1
  <2>4. CASE F = {} /\ B = {} /\ L = {}
    <3>1. CF = {} /\ CB = {} /\ CL = {} /\ CN \subseteq {<<"next", 0>>}
      BY <2>4
    <3> QED
      BY <3>1
  <2> QED
    BY <2>1, <2>2, <2>3, <2>4
<1> HIDE DEF CF, CB, CL, CN
<1>13. PICK c : Claims(s, x) \subseteq {c}
  BY <1>11, <1>12
<1>14. IsFiniteSet({c}) /\ Cardinality({c}) = 1
  BY FS_Singleton
<1>15. Cardinality(Claims(s, x)) <= Cardinality({c})
  BY <1>13, <1>14, FS_Subset
<1> QED
  BY <1>14, <1>15

\* A new image, and one with files, are safe to start with.
LEMMA ImageIsSafe ==
  ASSUME NEW n \in Nat
  PROVE  LET s == Image(n) IN Shape(s) /\ IsDisk(s) /\ TableSized(s) /\ IsSafe(Stored(s))
<1> DEFINE s == Image(n)
           d == Stored(s)
           I == [k \in Slots |->
                  IF k < n THEN [ino |-> k + 2, size |-> 1, offset |-> DataStart + k, len |-> 1,
                                 used |-> TRUE]
                  ELSE NoInode]
           J == [k \in Slots |-> NoInode]
           T == [k \in SnapSlot |-> NoSnap]
<1>1. s = [files |-> <<>>, list |-> <<>>, next |-> 0, dir |-> <<>>, versions |-> <<>>,
           next_id |-> 0, next_inode |-> 0, inode |-> I, logged |-> J, snap |-> T,
           saved_list |-> <<>>, saved_next |-> DataStart + n, saved_dir |-> <<>>, tainted |-> {}]
  BY DEF Image
<1> HIDE DEF s
<1>2. /\ I = [k \in Slots |-> I[k]] /\ J = [k \in Slots |-> J[k]]
      /\ \A k \in Slots : /\ J[k] = NoInode
                          /\ k < n => I[k] = [ino |-> k + 2, size |-> 1, offset |-> DataStart + k,
                                              len |-> 1, used |-> TRUE]
                          /\ ~(k < n) => I[k] = NoInode
  OBVIOUS
<1>3. IsTable(T) /\ \A k \in SnapSlot : IsSized(T[k])
  <2>1. IsRecord(NoSnap) /\ IsSized(NoSnap)
    BY DEF IsRecord, IsSized, NoSnap
  <2> QED
    BY <2>1 DEF IsTable, Range
<1> HIDE DEF I, J, T
<1>4. Shape(s) /\ s.snap = T
  BY <1>1 DEF Shape
<1>5. IsDisk(s) /\ TableSized(s)
  BY <1>3, <1>4 DEF IsDisk, TableSized
<1>6. /\ d.inode = I /\ d.logged = J /\ d.saved_list = <<>> /\ d.saved_next = DataStart + n
      /\ d.saved_dir = <<>> /\ d.tainted = {}
      /\ d \in [inode : {d.inode}, logged : {d.logged}, saved_list : {d.saved_list},
                saved_next : {d.saved_next}, saved_dir : {d.saved_dir}, tainted : {d.tainted}]
  BY <1>1 DEF Stored
<1> HIDE DEF d
<1>7. DataStart \in Nat \ {0}
  BY StoreAssumption
<1>8. \A k \in Slots : k \in Nat
  BY SlotsFinite
<1>9. \A k \in Slots : IsInode(I[k])
  <2>1. IsInode(NoInode)
    BY DEF IsInode, NoInode
  <2>2. ASSUME NEW k \in Slots, k < n PROVE IsInode(I[k])
    <3>1. I[k] = [ino |-> k + 2, size |-> 1, offset |-> DataStart + k, len |-> 1, used |-> TRUE]
      BY <1>2, <2>2
    <3>2. DataStart + k \in Nat /\ DataStart + k > 0
      BY <1>7, <1>8
    <3> QED
      BY <3>1, <3>2 DEF IsInode
  <2> QED
    BY <1>2, <2>1, <2>2
<1>10. IsStored(d)
  <2>1. d \in [inode : {d.inode}, logged : {d.logged}, saved_list : {d.saved_list},
               saved_next : Nat, saved_dir : Seq(Nat), tainted : {d.tainted}]
    <3>1. <<>> \in Seq(Nat) /\ DataStart + n \in Nat
      BY <1>7
    <3> QED
      BY <1>6, <3>1
  <2> QED
    BY <1>2, <1>6, <1>7, <1>9, <2>1, EmptyIsNeat DEF IsStored
<1>11. ASSUME NEW k, NEW x, AtFile(d, k, x) PROVE k \in Nat /\ k < n /\ x = DataStart + k
  <2>1. k \in Slots /\ Rec(d, k) = I[k] /\ I[k].used /\ x \in Sectors(I[k].offset, I[k].len)
    BY <1>2, <1>6, <1>11 DEF AtFile, Named, Rec
  <2>2. k < n
    BY <1>2, <2>1 DEF NoInode
  <2>3. I[k].offset = DataStart + k /\ I[k].len = 1
    BY <1>2, <2>1, <2>2
  <2>4. x \in Sectors(DataStart + k, 1) /\ k \in Nat
    BY <1>8, <2>1, <2>3
  <2>5. \A a \in Nat : \A y \in Sectors(a, 1) : y = a
    BY DEF Sectors
  <2> QED
    BY <1>7, <2>2, <2>4, <2>5
<1>12. \A b, x : ~AtBlock(d, b, x)
  BY <1>6 DEF AtBlock
<1>13. ASSUME NEW x \in Disk PROVE Clear(d, x)
  <2>1. \A k, m : AtFile(d, k, x) /\ AtFile(d, m, x) => k = m
    <3>1. \A k, m \in Nat : DataStart + k = DataStart + m => k = m
      BY <1>7
    <3> QED
      BY <1>11, <3>1
  <2>2. OneOwner(d, x)
    BY <1>12, <2>1 DEF OneOwner
  <2>3. Owned(d, x) => x < DataStart + n
    BY <1>7, <1>11, <1>12 DEF Owned
  <2> QED
    BY <1>6, <2>2, <2>3, EmptyIsNeat DEF Clear, Lone
<1>14. IsSafe(d)
  BY <1>10, <1>13 DEF IsSafe
<1> QED
  BY <1>4, <1>5, <1>14 DEF s, d

-----------------------------------------------------------------------------
(***************************************************************************)
(* Every step keeps the disk safe.                                         *)
(***************************************************************************)
SafeInv ==
  /\ Safe(Stored(st), todo, Memory(st), mode)
  /\ Sized(st) /\ SizedWrites(todo)

\* A request that leaves versions alone keeps their sizes.
LEMMA CalmSized ==
  ASSUME NEW s, Sized(s), NEW r, IsCalm(s, r)
  PROVE  Sized(r.state) /\ SizedWrites(r.writes)
BY DEF IsCalm, Calm, IsOther, Sized, TableSized, SizedWrites

\* Unmounting keeps the sizes in the table.
LEMMA ClosedSized ==
  ASSUME NEW s, Shape(s), TableSized(s)
  PROVE  Sized(Closed(s)) /\ Shape(Closed(s))
<1> DEFINE t == Closed(s)
<1>1. Shape(t) /\ t.snap = s.snap /\ t.versions = <<>>
  BY DEF Closed, Shape
<1> HIDE DEF t
<1>2. DOMAIN t.versions = {}
  BY <1>1
<1> QED
  BY <1>1, <1>2 DEF Sized, TableSized, t

\* Between two requests.
LEMMA IdleIsSafe ==
  ASSUME IInv, SafeInv, todo = <<>>
  PROVE  /\ Shape(st) /\ IsDisk(st) /\ TableSized(st) /\ IsSafe(Stored(st))
         /\ mode = "mounted" => Sound(st)
<1>1. Shape(st) /\ IsDisk(st)
  BY DEF IInv, IsStore, IsDisk
<1>2. IsSafe(Stored(st)) /\ (mode = "mounted" => Agrees(Stored(st), Memory(st)))
  BY SafeNil DEF SafeInv
<1> QED
  BY <1>1, <1>2 DEF SafeInv, Sized, Sound

\* A request whose writes are safe keeps the invariant.
LEMMA MountedRequest ==
  ASSUME NEW r, IsSafeRequest(r, mode), Sized(r.state), SizedWrites(r.writes), Request(r)
  PROVE  SafeInv'
BY DEF Request, IsSafeRequest, SafeInv

\* So does a command.
LEMMA SafeCommand ==
  ASSUME NEW r, IsRequest(r), Shape(r.state), TableSized(r.state), SizedWrites(r.writes),
         Command(r), Safe(Stored(r.state), r.writes, Memory(Closed(r.state)), "unmounted")
  PROVE  SafeInv'
<1> DEFINE q == [r EXCEPT !.state = Closed(@)]
<1>1. q.state = Closed(r.state) /\ q.writes = r.writes
  BY DEF IsRequest
<1>2. Request(q) /\ mode = "unmounted"
  BY DEF Command, Idle
<1> HIDE DEF q
<1>3. IsSafeRequest(q, mode)
  BY <1>1, <1>2, ClosedStores DEF IsSafeRequest
<1>4. Sized(q.state) /\ SizedWrites(q.writes)
  BY <1>1, ClosedSized
<1> QED
  BY <1>2, <1>3, <1>4, MountedRequest

\* A crash: what was exposed then is let pass.
LEMMA CrashedIsSafe ==
  ASSUME AllExcused, IInv, SafeInv
  PROVE  LET t == IF todo = <<>> THEN st ELSE Tainted(st, Head(todo).cause, Exposed)
         IN  Shape(t) /\ t.snap = st.snap /\ IsSafe(Stored(t))
<1>1. Shape(st)
  BY DEF IInv, IsStore, IsDisk
<1>2. CASE todo = <<>>
  BY <1>1, <1>2, IdleIsSafe
<1>3. CASE todo # <<>>
  <2> DEFINE w == Head(todo)
             t == Tainted(st, w.cause, Exposed)
             T == st.tainted \cup Exposed
             d == Stored(st)
             e == Stored(t)
  <2>1. IsSafeAt(d, w)
    BY <1>3, SafeTail DEF SafeInv
  <2>2. w.cause \in Excuse
    BY <2>1 DEF IsSafeAt, AllExcused
  <2>3. Exposed = {x \in w.exposed : x >= st.saved_next \/ InList(st.saved_list, x)}
    BY <1>3 DEF Exposed
  <2> HIDE DEF w
  <2>4. t = [st EXCEPT !.tainted = T]
    BY <2>2 DEF Tainted
  <2> HIDE DEF T, t
  <2>5. Shape(t) /\ t.snap = st.snap /\ e = [d EXCEPT !.tainted = T]
    <3>1. /\ Shape(t) /\ t.snap = st.snap
          /\ t.inode = st.inode /\ t.logged = st.logged /\ t.saved_list = st.saved_list
          /\ t.saved_next = st.saved_next /\ t.saved_dir = st.saved_dir /\ t.tainted = T
      BY <1>1, <2>4 DEF Shape
    <3> QED
      BY <3>1 DEF Stored
  <2>6. /\ d.tainted = st.tainted /\ d.saved_next = st.saved_next /\ d.saved_list = st.saved_list
    BY DEF Stored
  <2> HIDE DEF d, e
  <2>7. IsStored(d) /\ d.tainted \subseteq T
    BY <2>1, <2>6 DEF IsSafeAt, T
  <2>8. /\ e.inode = d.inode /\ e.logged = d.logged /\ e.saved_dir = d.saved_dir
        /\ e.saved_next = d.saved_next /\ e.saved_list = d.saved_list /\ e.tainted = T
        /\ IsStored(e)
    BY <2>5, <2>7, MoreTainted
  <2>9. \A x \in Disk \ T : Clear(d, x)
    BY <2>1, <2>3, <2>6 DEF IsSafeAt, T
  <2>10. IsSafe(e)
    BY <2>8, <2>9, SameOwners DEF IsSafe, Clear
  <2> QED
    BY <1>3, <2>5, <2>10 DEF t, e, w
<1> QED
  BY <1>2, <1>3

\* An unmounted disk that is safe is safe.
LEMMA ClosedIsSafe ==
  ASSUME NEW s, Shape(s), TableSized(s), IsSafe(Stored(s))
  PROVE  /\ Safe(Stored(Closed(s)), <<>>, Memory(Closed(s)), "unmounted")
         /\ Sized(Closed(s)) /\ SizedWrites(<<>>)
<1>1. Stored(Closed(s)) = Stored(s)
  BY ClosedStores
<1>2. SizedWrites(<<>>)
  BY DEF SizedWrites
<1>3. Safe(Stored(s), <<>>, Memory(Closed(s)), "unmounted")
  BY SafeNil
<1> QED
  BY <1>1, <1>2, <1>3, ClosedSized

\* What the next mount finds.
LEMMA FoundIsSound ==
  ASSUME IInv, SafeInv, todo = <<>>
  PROVE  LET t == load(st)
         IN  /\ Sound(t) /\ Fresh(t) /\ t.tainted = st.tainted /\ t.snap = st.snap
             /\ IsStore(t) /\ Sized(t)
             /\ \A i \in DOMAIN t.versions : \A n \in DOMAIN t.versions[i] : Has(t, i, n)
<1> DEFINE t == load(st)
<1>1. Shape(st) /\ IsDisk(st) /\ TableSized(st) /\ IsSafe(Stored(st))
  BY IdleIsSafe
<1>2. /\ Sound(t) /\ t.tainted = st.tainted
      /\ t.next = st.saved_next /\ t.saved_next = st.saved_next
      /\ t.list = st.saved_list /\ t.saved_list = st.saved_list
      /\ \A k \in Slots : t.logged[k] = NoInode
      /\ Used(t) = Named(Stored(t))
  BY <1>1, LoadIsSound
<1>3. /\ IsStore(t)
      /\ \A i \in DOMAIN t.versions : \A n \in DOMAIN t.versions[i] : Has(t, i, n)
  BY <1>1, LoadIs
<1>4. Sized(t) /\ t.snap = st.snap
  BY <1>1, LoadSized
<1> HIDE DEF t
<1> QED
  BY <1>2, <1>3, <1>4 DEF Fresh, t

-----------------------------------------------------------------------------
\* A new disk is safe.
LEMMA InitIsSafe == Init => SafeInv
<1> SUFFICES ASSUME Init PROVE SafeInv
  OBVIOUS
<1>1. PICK n \in {0, BlockSlots} : st = load(Image(n))
  BY DEF Init
<1>2. n \in Nat
  BY StoreAssumption
<1> DEFINE s == Image(n)
<1>3. Shape(s) /\ IsDisk(s) /\ TableSized(s) /\ IsSafe(Stored(s))
  BY <1>2, ImageIsSafe
<1> HIDE DEF s
<1>4. Sound(load(s))
  BY <1>3, LoadIsSound
<1>5. Sized(load(s))
  BY <1>3, LoadSized
<1>6. st = load(s) /\ todo = <<>>
  BY <1>1 DEF Init, s
<1>7. Safe(Stored(st), todo, Memory(st), mode)
  BY <1>4, <1>6, SafeNil DEF Sound
<1>8. SizedWrites(todo)
  BY <1>6 DEF SizedWrites
<1> QED
  BY <1>5, <1>6, <1>7, <1>8 DEF SafeInv

\* A pending write keeps the invariant: it is what Safe says.
LEMMA StepIsSafe ==
  ASSUME IInv, SafeInv, Step
  PROVE  SafeInv'
<1> DEFINE w == Head(todo)
           t == Applied(st, w)
<1>1. st' = t /\ todo' = Tail(todo) /\ todo # <<>> /\ mode' = mode
  BY DEF Step
<1>2. IsStore(st) /\ Shape(st) /\ TableSized(st)
  BY DEF IInv, IsStore, IsDisk, SafeInv, Sized
<1>3. todo \in Seq(Range(todo)) /\ \A k \in DOMAIN todo : IsWrite(todo[k])
  BY DEF IInv, IsWrites
<1>4. w = todo[1] /\ 1 \in DOMAIN todo
  BY <1>1, <1>3
<1>5. \A k \in DOMAIN Tail(todo) : Tail(todo)[k] = todo[k + 1] /\ k + 1 \in DOMAIN todo
  BY <1>1, <1>3
<1>6. IsWrite(w) /\ (w.to = "snap" => IsSized(w.what))
  BY <1>3, <1>4 DEF SafeInv, SizedWrites
<1>7. SizedWrites(Tail(todo))
  BY <1>5 DEF SafeInv, SizedWrites
<1> HIDE DEF w
<1>8. Stored(t) = After(Stored(st), w) /\ Memory(t) = Memory(st)
  BY <1>2, <1>6, AppliedStores
<1>9. Sized(t)
  BY <1>2, <1>6, AppliedSized DEF SafeInv
<1> HIDE DEF t
<1>10. Safe(After(Stored(st), w), Tail(todo), Memory(st), mode)
  BY <1>1, SafeTail DEF SafeInv, w
<1> QED
  BY <1>1, <1>7, <1>8, <1>9, <1>10 DEF SafeInv

\* Every request, command, write and crash keeps the invariant.
LEMMA NextIsSafe ==
  ASSUME AllExcused, IInv, SafeInv, [Next]_vars
  PROVE  SafeInv'
<1>1. ASSUME NEW i \in Ino, Store(i) PROVE SafeInv'
  <2>1. PICK len \in {st.files[i].size} \cup (1 .. st.files[i].size) :
          Request(persist_to_disk(st, i, len))
    BY <1>1 DEF Store
  <2>2. todo = <<>> /\ mode = "mounted" /\ i \in Live(st)
    BY <1>1 DEF Store, Idle
  <2>3. Sound(st) /\ Shape(st)
    BY <2>2, IdleIsSafe
  <2>4. len \in Nat
    <3>1. st.files[i].size \in Nat
      BY <2>2, <2>3, FileIs
    <3> QED
      BY <3>1
  <2>5. IsSafeRequest(persist_to_disk(st, i, len), mode)
    BY <2>2, <2>3, <2>4, PersistIsSafe
  <2>6. Sized(persist_to_disk(st, i, len).state) /\ SizedWrites(persist_to_disk(st, i, len).writes)
    BY <2>3, PersistIs, CalmSized DEF SafeInv
  <2> QED
    BY <2>1, <2>5, <2>6, MountedRequest
<1>2. ASSUME NEW i \in Ino, Unlink(i) PROVE SafeInv'
  <2>1. Request(unlink(st, i)) /\ todo = <<>> /\ mode = "mounted" /\ i \in Live(st)
    BY <1>2 DEF Unlink, Idle
  <2>2. Sound(st) /\ Shape(st)
    BY <2>1, IdleIsSafe
  <2>3. IsSafeRequest(unlink(st, i), mode)
    BY <2>1, <2>2, UnlinkIsSafe
  <2>4. Sized(unlink(st, i).state) /\ SizedWrites(unlink(st, i).writes)
    BY <2>2, UnlinkIs, CalmSized DEF SafeInv
  <2> QED
    BY <2>1, <2>3, <2>4, MountedRequest
<1>3. ASSUME NEW i \in Ino, Rename(i) PROVE SafeInv'
  <2>1. Request(rename(st, i)) /\ todo = <<>> /\ mode = "mounted" /\ i \in Live(st)
    BY <1>3 DEF Rename, Idle
  <2>2. Sound(st) /\ Shape(st)
    BY <2>1, IdleIsSafe
  <2>3. IsSafeRequest(rename(st, i), mode)
    BY <2>1, <2>2, RenameIsSafe
  <2>4. Sized(rename(st, i).state) /\ SizedWrites(rename(st, i).writes)
    BY <2>2, RenameIs, CalmSized DEF SafeInv
  <2> QED
    BY <2>1, <2>3, <2>4, MountedRequest
<1>4. ASSUME NEW i \in Live(st), NEW old \in {0, st.files[i].size}, NEW size \in Nat,
             NEW keep \in BOOLEAN, todo = <<>>, mode = "mounted",
             Request(Overwritten(st, i, old, size, keep))
      PROVE  SafeInv'
  <2>1. Sound(st)
    BY <1>4, IdleIsSafe
  <2>2. old \in Nat
    <3>1. st.files[i].size \in Nat
      BY <2>1, FileIs
    <3> QED
      BY <3>1
  <2>3. IsStore(st) /\ Held(st, <<>>) /\ Sized(st)
    BY <1>4 DEF IInv, SafeInv
  <2>4. /\ IsSafeRequest(Overwritten(st, i, old, size, keep), mode)
        /\ Sized(Overwritten(st, i, old, size, keep).state)
        /\ SizedWrites(Overwritten(st, i, old, size, keep).writes)
    BY <2>1, <2>2, <2>3, OverwrittenIsSafe
  <2> QED
    BY <1>4, <2>4, MountedRequest
<1>5. ASSUME NEW i \in Ino, NEW n \in 1 .. MaxSize, Overwrite(i, n) PROVE SafeInv'
  <2>1. PICK old \in {0, st.files[i].size} :
          old <= n /\ Request(Overwritten(st, i, old, n, old > 0))
    BY <1>5 DEF Overwrite
  <2>2. todo = <<>> /\ mode = "mounted" /\ i \in Live(st)
    BY <1>5 DEF Overwrite, Idle
  <2>3. (old > 0) \in BOOLEAN /\ n \in Nat
    BY StoreAssumption
  <2> QED
    BY <1>4, <2>1, <2>2, <2>3
<1>6. ASSUME NEW i \in Ino, NEW n \in 0 .. MaxSize, Setattr(i, n) PROVE SafeInv'
  <2>1. PICK old \in {0, st.files[i].size} : Request(Overwritten(st, i, old, n, TRUE))
    BY <1>6 DEF Setattr
  <2>2. todo = <<>> /\ mode = "mounted" /\ i \in Live(st)
    BY <1>6 DEF Setattr, Idle
  <2>3. n \in Nat
    BY StoreAssumption
  <2> QED
    BY <1>4, <2>1, <2>2, <2>3
<1>7. ASSUME Create PROVE SafeInv'
  <2>1. /\ Request(create(st)) /\ todo = <<>> /\ mode = "mounted"
        /\ FreeSlots(st) # {} \/ Len(st.dir) + 1 < MaxInoBlocks
    BY <1>7 DEF Create, Idle
  <2>2. Sound(st) /\ Shape(st)
    BY <2>1, IdleIsSafe
  <2>3. IsSafeRequest(create(st), mode)
    BY <2>1, <2>2, CreateIsSafe
  <2>4. Sized(create(st).state) /\ SizedWrites(create(st).writes)
    BY <2>2, CreateIs, CalmSized DEF SafeInv
  <2> QED
    BY <2>1, <2>3, <2>4, MountedRequest
<1>8. ASSUME Step PROVE SafeInv'
  BY <1>8, StepIsSafe
<1>9. ASSUME Crash PROVE SafeInv'
  <2> DEFINE t == IF todo = <<>> THEN st ELSE Tainted(st, Head(todo).cause, Exposed)
  <2>1. st' = Closed(t) /\ todo' = <<>> /\ mode' = "unmounted"
    BY <1>9 DEF Crash
  <2>2. Shape(t) /\ t.snap = st.snap /\ IsSafe(Stored(t))
    BY CrashedIsSafe
  <2>3. TableSized(t)
    BY <2>2 DEF SafeInv, Sized, TableSized
  <2> HIDE DEF t
  <2> QED
    BY <2>1, <2>2, <2>3, ClosedIsSafe DEF SafeInv
<1>10. ASSUME Unmount PROVE SafeInv'
  <2>1. st' = Closed(st) /\ todo' = <<>> /\ mode' = "unmounted" /\ todo = <<>>
    BY <1>10 DEF Unmount, Idle
  <2>2. Shape(st) /\ TableSized(st) /\ IsSafe(Stored(st))
    BY <2>1, IdleIsSafe
  <2> QED
    BY <2>1, <2>2, ClosedIsSafe DEF SafeInv
<1>11. ASSUME Load PROVE SafeInv'
  <2>1. st' = load(st) /\ todo' = <<>> /\ todo = <<>>
    BY <1>11 DEF Load, Idle
  <2>2. Sound(load(st)) /\ Sized(load(st))
    BY <2>1, FoundIsSound
  <2>3. Safe(Stored(load(st)), <<>>, Memory(load(st)), mode')
    BY <2>2, SafeNil DEF Sound
  <2>4. SizedWrites(<<>>)
    BY DEF SizedWrites
  <2> QED
    BY <2>1, <2>2, <2>3, <2>4 DEF SafeInv
<1> DEFINE f == load(st)
<1>12. ASSUME todo = <<>>
       PROVE  /\ Sound(f) /\ Fresh(f) /\ f.snap = st.snap /\ IsStore(f) /\ Sized(f)
              /\ \A i \in DOMAIN f.versions : \A n \in DOMAIN f.versions[i] : Has(f, i, n)
              /\ Shape(f) /\ TableSized(f)
  BY <1>12, FoundIsSound DEF Sound, Sized
<1> HIDE DEF f
<1>13. ASSUME Fsck PROVE SafeInv'
  <2> DEFINE r == fsck_repair(f)
  <2>1. Command(r) /\ todo = <<>>
    BY <1>13 DEF Fsck, Command, Idle, f
  <2>2. /\ Safe(Stored(r.state), r.writes, Memory(Closed(r.state)), "unmounted")
        /\ Shape(r.state) /\ r.state.snap = f.snap /\ IsOther(r.writes)
    BY <1>12, <2>1, FsckIsSafe
  <2>3. IsRequest(r)
    BY <1>12, <2>1, FsckIs DEF IsCalm
  <2> HIDE DEF r
  <2>4. TableSized(r.state) /\ SizedWrites(r.writes)
    BY <1>12, <2>1, <2>2 DEF TableSized, SizedWrites, IsOther
  <2> QED
    BY <2>1, <2>2, <2>3, <2>4, SafeCommand
<1>14. ASSUME SnapGc PROVE SafeInv'
  <2> DEFINE r == snap_gc(f)
  <2>1. Command(r) /\ todo = <<>>
    BY <1>14 DEF SnapGc, Command, Idle, f
  <2>2. /\ Safe(Stored(r.state), r.writes, Memory(Closed(r.state)), "unmounted")
        /\ Shape(r.state) /\ r.state.snap = f.snap /\ SizedWrites(r.writes)
    BY <1>12, <2>1, SnapGcIsSafe
  <2>3. IsRequest(r)
    BY <1>12, <2>1, SnapGcIs
  <2> HIDE DEF r
  <2>4. TableSized(r.state)
    BY <1>12, <2>1, <2>2 DEF TableSized
  <2> QED
    BY <2>1, <2>2, <2>3, <2>4, SafeCommand
<1>15. ASSUME NEW k \in Slots, NEW v \in SnapSlot, SnapRestore(k, v) PROVE SafeInv'
  <2> DEFINE r == snap_restore(f, k, v)
  <2>1. Command(r) /\ todo = <<>> /\ k \in Used(f)
    BY <1>15 DEF SnapRestore, Idle, f
  <2>2. f.snap[v].size \in Nat
    BY <1>12, <2>1 DEF TableSized, IsSized
  <2>3. /\ Safe(Stored(r.state), r.writes, Memory(Closed(r.state)), "unmounted")
        /\ Shape(r.state) /\ r.state.snap = f.snap
    BY <1>12, <2>1, <2>2, RestoreIsSafe
  <2>4. IsCalm(f, r)
    BY <1>12, <2>1, RestoreIs
  <2> HIDE DEF r
  <2>5. TableSized(r.state) /\ SizedWrites(r.writes) /\ IsRequest(r)
    BY <1>12, <2>1, <2>3, <2>4, CalmSized DEF TableSized, IsCalm
  <2> QED
    BY <2>1, <2>3, <2>5, SafeCommand
<1>16. CASE UNCHANGED vars
  BY <1>16 DEF vars, SafeInv
<1> QED
  BY <1>1, <1>2, <1>3, <1>5, <1>6, <1>7, <1>8, <1>9, <1>10, <1>11, <1>13, <1>14, <1>15, <1>16
     DEF Next

\* In a safe state no sector has two owners.
LEMMA SafeIsEnough == IInv /\ SafeInv => CrashSafe
<1> SUFFICES ASSUME IInv, SafeInv, todo = <<>>, NEW x \in Disk \ st.tainted
             PROVE  /\ Cardinality(Claims(load(st), x)) <= 1
                    /\ mode = "mounted" => Cardinality(Claims(st, x)) <= 1
  BY DEF CrashSafe
<1>1. Sound(load(st)) /\ load(st).tainted = st.tainted
  BY FoundIsSound
<1>2. Cardinality(Claims(load(st), x)) <= 1
  BY <1>1, OneClaim
<1>3. ASSUME mode = "mounted" PROVE Cardinality(Claims(st, x)) <= 1
  BY <1>3, IdleIsSafe, OneClaim
<1> QED
  BY <1>2, <1>3

\* With the six known ways let pass, whatever the constants: after any requests
\* and commands, and after a crash between any two disk writes of one, no
\* sector has two owners, in memory or in what the next mount finds: not two
\* files, a file and a block of the inode table, nor an owner and an allocator
\* (fs/mod.rs:302 "advance the superblock pointer").
THEOREM SectorsHaveOneOwner ==
  ASSUME AllExcused
  PROVE  Spec => []CrashSafe
<1>1. Init => IInv /\ SafeInv
  BY InitHolds, InitIsSafe
<1>2. IInv /\ SafeInv /\ [Next]_vars => IInv' /\ SafeInv'
  BY NextHolds, NextIsSafe
<1>3. IInv /\ SafeInv => CrashSafe
  BY SafeIsEnough
<1> QED
  BY <1>1, <1>2, <1>3, PTL DEF Spec

-----------------------------------------------------------------------------
(***************************************************************************)
(* The namespace, beside the store.                                        *)
(***************************************************************************)
-----------------------------------------------------------------------------
(***************************************************************************)
(* What leads on from r along the links E, to any of U.                    *)
(***************************************************************************)
IsClosure(w, n, r, U, E) ==
  /\ w[0] = {r}
  /\ \A k \in 1 .. n : w[k] = w[k - 1] \cup {y \in U : \E x \in w[k - 1] : <<x, y>> \in E}

IsLoop(m, n, base, D) == m[0] = base /\ \A k \in 1 .. n : m[k] = D[m[k - 1]]

\* A loop of n rounds that do the same has values after each.
LEMMA RoundsDefined ==
  ASSUME NEW n \in Nat, NEW A, NEW base \in A, NEW D \in [A -> A]
  PROVE  \E m \in [0 .. n -> A] : IsLoop(m, n, base, D)
<1> DEFINE C == [q \in A \X (1 .. n) |-> D[q[1]]]
<1>1. C \in [A \X (1 .. n) -> A]
  OBVIOUS
<1>2. \A a \in A : \A k \in 1 .. n : C[<<a, k>>] = D[a]
  OBVIOUS
<1> HIDE DEF C
<1>3. PICK g \in [SUBSET (1 .. n) -> A] : IsFold(g, n, base, C)
  BY <1>1, FoldDefined, Zenon
<1>4. IsFoldIn(g, n, A, base, C)
  BY <1>3 DEF IsFold, IsFoldIn
<1>5. PICK m \in [0 .. n -> A] : IsRounds(m, g, n, base, C)
  BY <1>1, <1>4, FoldRounds, Zenon
<1>6. \A k \in 1 .. n : m[k - 1] \in A
  OBVIOUS
<1>7. m[0] = base /\ \A k \in 1 .. n : m[k] = C[<<m[k - 1], k>>]
  BY <1>5 DEF IsRounds
<1>8. \A k \in 1 .. n : m[k] = D[m[k - 1]]
  BY <1>2, <1>6, <1>7
<1> QED
  BY <1>7, <1>8 DEF IsLoop

\* After as many rounds as there are places to go to, nothing is added any more:
\* what leads on from r, and no more than that, has been found.
LEMMA Closes ==
  ASSUME NEW U, IsFiniteSet(U), NEW n \in Nat, Cardinality(U) <= n, NEW r, r \notin U, NEW E,
         NEW w, IsClosure(w, n, r, U, E)
  PROVE  /\ r \in w[n] /\ w[n] \subseteq U \cup {r}
         /\ \A x \in w[n], y \in U : <<x, y>> \in E => y \in w[n]
         /\ \A S : r \in S /\ (\A x \in S, y \in U : <<x, y>> \in E => y \in S)
                     => w[n] \subseteq S
<1> DEFINE G(k) == {y \in U : \E x \in w[k] : <<x, y>> \in E}
<1>1. w[0] = {r} /\ \A k \in 1 .. n : w[k] = w[k - 1] \cup G(k - 1)
  BY DEF IsClosure
<1>6. ASSUME NEW k \in 0 .. (n - 1) PROVE w[k + 1] = w[k] \cup G(k)
  <2>1. k + 1 \in 1 .. n /\ (k + 1) - 1 = k
    OBVIOUS
  <2> HIDE DEF G
  <2>2. w[k + 1] = w[(k + 1) - 1] \cup G((k + 1) - 1)
    BY <1>1, <2>1
  <2> QED
    BY <2>1, <2>2
<1>2. \A k \in 0 .. n : r \in w[k] /\ w[k] \subseteq U \cup {r}
  <2> DEFINE T == {k \in 0 .. n : r \in w[k] /\ w[k] \subseteq U \cup {r}}
  <2>1. 0 \in T
    BY <1>1
  <2>2. ASSUME NEW k \in 0 .. (n - 1), k \in T PROVE k + 1 \in T
    <3>1. k + 1 \in 1 .. n /\ k + 1 \in 0 .. n /\ (k + 1) - 1 = k
      OBVIOUS
    <3>2. w[k + 1] = w[k] \cup G(k)
      BY <1>6
    <3> QED
      BY <2>2, <3>1, <3>2
  <2> HIDE DEF T
  <2>3. 0 .. n \subseteq T
    BY <2>1, <2>2, UpTo
  <2> QED
    BY <2>3 DEF T
<1>3. ASSUME NEW S, r \in S, \A x \in S, y \in U : <<x, y>> \in E => y \in S
      PROVE  w[n] \subseteq S
  <2> DEFINE T == {k \in 0 .. n : w[k] \subseteq S}
  <2>1. 0 \in T
    BY <1>1, <1>3
  <2>2. ASSUME NEW k \in 0 .. (n - 1), k \in T PROVE k + 1 \in T
    <3>1. k + 1 \in 1 .. n /\ k + 1 \in 0 .. n /\ (k + 1) - 1 = k
      OBVIOUS
    <3>2. w[k + 1] = w[k] \cup G(k)
      BY <1>6
    <3> QED
      BY <1>3, <2>2, <3>1, <3>2
  <2> HIDE DEF T
  <2>3. 0 .. n \subseteq T
    BY <2>1, <2>2, UpTo
  <2>4. n \in 0 .. n
    OBVIOUS
  <2> QED
    BY <2>3, <2>4 DEF T
<1>4. G(n) \subseteq w[n]
  <2>1. SUFFICES ASSUME ~(G(n) \subseteq w[n]) PROVE FALSE
    OBVIOUS
  <2>2. ASSUME NEW k \in 0 .. n, G(k) \subseteq w[k] PROVE FALSE
    <3> DEFINE T == {d \in 0 .. (n - k) : w[k + d] = w[k]}
    <3>1. 0 \in T
      OBVIOUS
    <3>2. ASSUME NEW d \in 0 .. ((n - k) - 1), d \in T PROVE d + 1 \in T
      <4>1. k + d \in 0 .. (n - 1) /\ k + (d + 1) = (k + d) + 1 /\ d + 1 \in 0 .. (n - k)
        OBVIOUS
      <4>2. w[k + (d + 1)] = w[k + d] \cup G(k + d)
        BY <1>6, <4>1
      <4>3. w[k + d] = w[k]
        BY <3>2
      <4>4. G(k + d) = G(k)
        BY <4>3
      <4> HIDE DEF G
      <4>5. w[k + (d + 1)] = w[k]
        BY <2>2, <4>2, <4>3, <4>4
      <4> QED
        BY <4>1, <4>5
    <3>3. n - k \in Nat /\ n - k \in 0 .. (n - k) /\ k + (n - k) = n
      OBVIOUS
    <3> HIDE DEF T
    <3>4. n - k \in T
      BY <3>1, <3>2, <3>3, UpTo
    <3>5. w[n] = w[k]
      BY <3>3, <3>4 DEF T
    <3>6. G(n) = G(k)
      BY <3>5
    <3> HIDE DEF G
    <3> QED
      BY <2>1, <2>2, <3>5, <3>6
  <2> DEFINE T == {k \in 0 .. n : IsFiniteSet(w[k]) /\ Cardinality(w[k]) >= k + 1}
  <2>3. IsFiniteSet(U \cup {r}) /\ Cardinality(U \cup {r}) = Cardinality(U) + 1
    BY FS_AddElement
  <2>4. 0 \in T
    <3>1. IsFiniteSet({r}) /\ Cardinality({r}) = 1
      BY FS_Singleton
    <3>2. w[0] = {r}
      BY <1>1
    <3>3. IsFiniteSet(w[0]) /\ Cardinality(w[0]) = 1
      BY <3>1, <3>2, Zenon
    <3>4. 0 \in 0 .. n /\ Cardinality(w[0]) >= 0 + 1
      BY <3>3
    <3> HIDE DEF G
    <3> QED
      BY <3>3, <3>4
  <2>5. ASSUME NEW k \in 0 .. (n - 1), k \in T PROVE k + 1 \in T
    <3>1. k + 1 \in 1 .. n /\ k + 1 \in 0 .. n /\ (k + 1) - 1 = k /\ k \in 0 .. n
      OBVIOUS
    <3>2. w[k + 1] = w[k] \cup G(k)
      BY <1>6
    <3>3. ~(G(k) \subseteq w[k])
      BY <2>2, <3>1
    <3> HIDE DEF G
    <3>4. w[k] \in SUBSET w[k + 1] /\ w[k] # w[k + 1]
      BY <3>2, <3>3
    <3>5. IsFiniteSet(w[k + 1])
      BY <1>2, <2>3, <3>1, FS_Subset
    <3>6. Cardinality(w[k]) < Cardinality(w[k + 1])
      <4>1. Cardinality(w[k]) <= Cardinality(w[k + 1])
        BY <3>4, <3>5, FS_Subset
      <4>2. Cardinality(w[k]) # Cardinality(w[k + 1])
        BY <3>4, <3>5, FS_Subset
      <4>3. Cardinality(w[k]) \in Nat /\ Cardinality(w[k + 1]) \in Nat
        BY <2>5, <3>5, FS_CardinalityType
      <4> QED
        BY <4>1, <4>2, <4>3
    <3>7. Cardinality(w[k]) \in Nat /\ Cardinality(w[k + 1]) \in Nat
      BY <2>5, <3>5, FS_CardinalityType
    <3>8. Cardinality(w[k + 1]) >= (k + 1) + 1
      BY <2>5, <3>6, <3>7
    <3> QED
      BY <3>1, <3>5, <3>8
  <2> HIDE DEF T
  <2>6. n \in T
    BY <2>4, <2>5, UpTo
  <2>7. IsFiniteSet(w[n]) /\ Cardinality(w[n]) >= n + 1
    BY <2>6 DEF T
  <2>8. Cardinality(U) \in Nat /\ Cardinality(w[n]) \in Nat
    BY <2>7, FS_CardinalityType
  <2>9. w[n] \in SUBSET (U \cup {r})
    BY <1>2
  <2>10. Cardinality(w[n]) <= Cardinality(U \cup {r})
    BY <2>3, <2>9, FS_Subset
  <2>11. Cardinality(w[n]) = Cardinality(U \cup {r})
    BY <2>3, <2>7, <2>8, <2>10
  <2>12. w[n] = U \cup {r}
    BY <2>3, <2>9, <2>11, FS_Subset
  <2> QED
    BY <2>1, <2>12
<1>5. n \in 0 .. n
  OBVIOUS
<1> QED
  BY <1>2, <1>3, <1>4, <1>5

\* The model counts as the facts about finite sets do.
LEMMA SameCardinality == \A S : NS!Cardinality(S) = Cardinality(S)
BY DEF NS!Cardinality, Cardinality

\* A file that its parent's entry leads to.
Followed(s, i) ==
  /\ NS!IsDir(s, s.files[i].parent)
  /\ NS!lookup(s, s.files[i].parent, s.files[i].name) = i

\* S has what is below what it has, by entries, and by parents.
IsPath(s, S) ==
  /\ NS!Root \in S
  /\ \A i \in NS!Live(s) : s.files[i].parent \in S /\ Followed(s, i) => i \in S
IsTree(s, i, S) ==
  /\ i \in S
  /\ \A j \in NS!Live(s) : s.files[j].parent \in S => j \in S

\* Reached is the least set that has the root and what its entries lead to.
LEMMA ReachedIs ==
  ASSUME NEW s, IsFiniteSet(NS!Live(s)), NS!Root \notin NS!Live(s)
  PROVE  /\ IsPath(s, NS!Reached(s)) /\ NS!Reached(s) \subseteq NS!Live(s) \cup {NS!Root}
         /\ \A S : IsPath(s, S) => NS!Reached(s) \subseteq S
<1> DEFINE U == NS!Live(s)
           n == Cardinality(U)
           A == SUBSET (U \cup {NS!Root})
           Round(above) ==
             above \cup {i \in U \ above : /\ s.files[i].parent \in above /\ NS!IsDir(s, s.files[i].parent)
                                          /\ NS!lookup(s, s.files[i].parent, s.files[i].name) = i}
           Rounds(f) == f = [k \in 0 .. n |-> IF k = 0 THEN {NS!Root} ELSE Round(f[k - 1])]
           w == CHOOSE f : Rounds(f)
           E == {p \in (U \cup {NS!Root}) \X U : s.files[p[2]].parent = p[1] /\ Followed(s, p[2])}
<1>1. n \in Nat
  BY FS_CardinalityType
<1>2. NS!Reached(s) = w[n]
  BY SameCardinality, Zenon DEF NS!Reached
<1>3. \E f : Rounds(f)
  <2> DEFINE D == [a \in A |-> Round(a)]
  <2>1. D \in [A -> A]
    OBVIOUS
  <2>6. {NS!Root} \in A
    OBVIOUS
  <2>2. \A a \in A : D[a] = Round(a)
    OBVIOUS
  <2> HIDE DEF D, A, n, Round
  <2>3. PICK m \in [0 .. n -> A] : IsLoop(m, n, {NS!Root}, D)
    BY <1>1, <2>1, <2>6, RoundsDefined, Zenon
  <2>4. \A k \in 1 .. n : m[k] = Round(m[k - 1])
    <3>1. \A k \in 1 .. n : m[k - 1] \in A
      BY <1>1
    <3> QED
      BY <2>2, <2>3, <3>1 DEF IsLoop
  <2>5. m = [k \in 0 .. n |-> IF k = 0 THEN {NS!Root} ELSE Round(m[k - 1])]
    <3>1. \A k \in 0 .. n : m[k] = IF k = 0 THEN {NS!Root} ELSE Round(m[k - 1])
      BY <1>1, <2>3, <2>4 DEF IsLoop
    <3> QED
      BY <3>1
  <2> QED
    BY <2>5
<1>4. Rounds(w)
  BY <1>3
<1> HIDE DEF w
<1>14. \A k \in 0 .. n : w[k] = IF k = 0 THEN {NS!Root} ELSE Round(w[k - 1])
  <2> HIDE DEF Round, n
  <2> QED
    BY <1>4, Zenon
<1>5. \A k \in 1 .. n : w[k] = Round(w[k - 1])
  <2> HIDE DEF Round, n
  <2> QED
    BY <1>1, <1>14
<1>6. w[0] = {NS!Root}
  <2> HIDE DEF Round, n
  <2> QED
    BY <1>1, <1>14
<1>7. \A k \in 0 .. n : w[k] \in A
  <2> DEFINE T == {k \in 0 .. n : w[k] \in A}
  <2>1. 0 \in T
    BY <1>1, <1>6
  <2>2. ASSUME NEW k \in 0 .. (n - 1), k \in T PROVE k + 1 \in T
    <3>1. k + 1 \in 1 .. n /\ k + 1 \in 0 .. n /\ (k + 1) - 1 = k
      BY <1>1
    <3>2. w[k + 1] = Round(w[k])
      <4> HIDE DEF Round
      <4> QED
        BY <1>5, <3>1
    <3> QED
      BY <2>2, <3>1, <3>2
  <2> HIDE DEF T, n
  <2> QED
    BY <1>1, <2>1, <2>2, UpTo DEF T
<1>8. IsClosure(w, n, NS!Root, U, E)
  <2>1. ASSUME NEW k \in 1 .. n PROVE w[k] = w[k - 1] \cup {y \in U : \E x \in w[k - 1] : <<x, y>> \in E}
    <3>1. w[k - 1] \in A /\ w[k] = Round(w[k - 1])
      BY <1>1, <1>5, <1>7
    <3> QED
      BY <3>1 DEF Followed
  <2> HIDE DEF n, U, E
  <2> QED
    BY <1>6, <2>1 DEF IsClosure
<1>9. n <= n
  BY <1>1
<1> HIDE DEF E
<1>10. /\ NS!Root \in w[n] /\ w[n] \subseteq U \cup {NS!Root}
       /\ \A x \in w[n], y \in U : <<x, y>> \in E => y \in w[n]
       /\ \A S : NS!Root \in S /\ (\A x \in S, y \in U : <<x, y>> \in E => y \in S) => w[n] \subseteq S
  BY <1>1, <1>8, <1>9, Closes
<1>11. IsPath(s, w[n])
  <2>1. ASSUME NEW i \in U, s.files[i].parent \in w[n], Followed(s, i) PROVE i \in w[n]
    <3>1. <<s.files[i].parent, i>> \in E
      BY <1>10, <2>1 DEF E
    <3> QED
      BY <1>10, <2>1, <3>1
  <2> QED
    BY <1>10, <2>1 DEF IsPath
<1>12. ASSUME NEW S, IsPath(s, S) PROVE w[n] \subseteq S
  <2>1. \A x \in S, y \in U : <<x, y>> \in E => y \in S
    BY <1>12 DEF E, IsPath
  <2> QED
    BY <1>10, <1>12, <2>1 DEF IsPath
<1> HIDE DEF n
<1> QED
  BY <1>2, <1>10, <1>11, <1>12

\* Below is the least set that has i and the files with a parent in it.
LEMMA BelowIs ==
  ASSUME NEW s, IsFiniteSet(NS!Live(s)), NEW i
  PROVE  /\ IsTree(s, i, NS!Below(s, i)) /\ NS!Below(s, i) \subseteq NS!Live(s) \cup {i}
         /\ \A S : IsTree(s, i, S) => NS!Below(s, i) \subseteq S
<1> DEFINE U == NS!Live(s) \ {i}
           n == Cardinality(NS!Live(s))
           A == SUBSET (NS!Live(s) \cup {i})
           Round(above) == above \cup {j \in NS!Live(s) : s.files[j].parent \in above}
           Rounds(f) == f = [k \in 0 .. n |-> IF k = 0 THEN {i} ELSE Round(f[k - 1])]
           w == CHOOSE f : Rounds(f)
           E == {p \in (NS!Live(s) \cup {i}) \X U : s.files[p[2]].parent = p[1]}
<1>1. n \in Nat /\ IsFiniteSet(U) /\ Cardinality(U) <= n
  <2>1. U \in SUBSET NS!Live(s)
    OBVIOUS
  <2> HIDE DEF U
  <2> QED
    BY <2>1, FS_CardinalityType, FS_Subset
<1>2. NS!Below(s, i) = w[n]
  BY SameCardinality, Zenon DEF NS!Below
<1>3. \E f : Rounds(f)
  <2> DEFINE D == [a \in A |-> Round(a)]
  <2>1. D \in [A -> A]
    OBVIOUS
  <2>6. {i} \in A
    OBVIOUS
  <2>2. \A a \in A : D[a] = Round(a)
    OBVIOUS
  <2> HIDE DEF D, A, n, Round
  <2>3. PICK m \in [0 .. n -> A] : IsLoop(m, n, {i}, D)
    BY <1>1, <2>1, <2>6, RoundsDefined, Zenon
  <2>4. \A k \in 1 .. n : m[k] = Round(m[k - 1])
    <3>1. \A k \in 1 .. n : m[k - 1] \in A
      BY <1>1
    <3> QED
      BY <2>2, <2>3, <3>1 DEF IsLoop
  <2>5. m = [k \in 0 .. n |-> IF k = 0 THEN {i} ELSE Round(m[k - 1])]
    <3>1. \A k \in 0 .. n : m[k] = IF k = 0 THEN {i} ELSE Round(m[k - 1])
      BY <1>1, <2>3, <2>4 DEF IsLoop
    <3> QED
      BY <3>1
  <2> QED
    BY <2>5
<1>4. Rounds(w)
  BY <1>3
<1> HIDE DEF w
<1>14. \A k \in 0 .. n : w[k] = IF k = 0 THEN {i} ELSE Round(w[k - 1])
  <2> HIDE DEF Round, n
  <2> QED
    BY <1>4, Zenon
<1>5. \A k \in 1 .. n : w[k] = Round(w[k - 1])
  <2> HIDE DEF Round, n
  <2> QED
    BY <1>1, <1>14
<1>6. w[0] = {i}
  <2> HIDE DEF Round, n
  <2> QED
    BY <1>1, <1>14
<1>7. \A k \in 0 .. n : w[k] \in A /\ i \in w[k]
  <2> DEFINE T == {k \in 0 .. n : w[k] \in A /\ i \in w[k]}
  <2>1. 0 \in T
    BY <1>1, <1>6
  <2>2. ASSUME NEW k \in 0 .. (n - 1), k \in T PROVE k + 1 \in T
    <3>1. k + 1 \in 1 .. n /\ k + 1 \in 0 .. n /\ (k + 1) - 1 = k
      BY <1>1
    <3>2. w[k + 1] = Round(w[k])
      <4> HIDE DEF Round
      <4> QED
        BY <1>5, <3>1
    <3> QED
      BY <2>2, <3>1, <3>2
  <2> HIDE DEF T, n
  <2> QED
    BY <1>1, <2>1, <2>2, UpTo DEF T
<1>8. IsClosure(w, n, i, U, E)
  <2>1. ASSUME NEW k \in 1 .. n PROVE w[k] = w[k - 1] \cup {y \in U : \E x \in w[k - 1] : <<x, y>> \in E}
    <3>1. w[k - 1] \in A /\ i \in w[k - 1] /\ w[k] = Round(w[k - 1])
      BY <1>1, <1>5, <1>7
    <3> QED
      BY <3>1 DEF Followed
  <2> HIDE DEF n, U, E
  <2> QED
    BY <1>6, <2>1 DEF IsClosure
<1>9. i \notin U
  OBVIOUS
<1> HIDE DEF E, U, n
<1>10. /\ i \in w[n] /\ w[n] \subseteq U \cup {i}
       /\ \A x \in w[n], y \in U : <<x, y>> \in E => y \in w[n]
       /\ \A S : i \in S /\ (\A x \in S, y \in U : <<x, y>> \in E => y \in S) => w[n] \subseteq S
  BY <1>1, <1>8, <1>9, Closes
<1>11. IsTree(s, i, w[n])
  <2>1. ASSUME NEW j \in NS!Live(s), s.files[j].parent \in w[n], j # i PROVE j \in w[n]
    <3>1. j \in U /\ <<s.files[j].parent, j>> \in E
      BY <1>10, <2>1 DEF E, U
    <3> QED
      BY <1>10, <2>1, <3>1
  <2> QED
    BY <1>10, <2>1 DEF IsTree
<1>12. ASSUME NEW S, IsTree(s, i, S) PROVE w[n] \subseteq S
  <2>1. \A x \in S, y \in U : <<x, y>> \in E => y \in S
    BY <1>12 DEF E, U, IsTree
  <2> QED
    BY <1>10, <1>12, <2>1 DEF IsTree
<1>13. U \cup {i} \subseteq NS!Live(s) \cup {i}
  BY DEF U
<1> QED
  BY <1>2, <1>10, <1>11, <1>12, <1>13

-----------------------------------------------------------------------------
(***************************************************************************)
(* The types of the names.                                                 *)
(***************************************************************************)
\* Maps of any size, and the types of entries, files and inodes.
IsMap(f, D, V) == f = [x \in DOMAIN f |-> f[x]] /\ \A x \in DOMAIN f : x \in D /\ f[x] \in V
Maps(D, V) == UNION {[S -> V] : S \in SUBSET D}

Words == NS!Name \cup {NS!Unreadable}
Records == [ino : Nat, parent : Nat, name : Words, dir : BOOLEAN, used : BOOLEAN]
Entries == [ino : Nat, dir : BOOLEAN, slot : Slot]
FileRecords == [name : NS!Name, parent : Nat, dir : BOOLEAN, slot : Slot, dirty : BOOLEAN]
Buffered == [name : NS!Name, slot : Slot]
Keys == Nat \X NS!Name

\* The states, as a set for loops to stay in.
NameStates ==
  [index : Maps(Keys, Entries), files : Maps(Nat, FileRecords), next_inode : Nat,
   cached : SUBSET Nat, buffer : Maps(Nat, Buffered), inode : [Slot -> Records],
   logged : [Slot -> Records], truth : Maps(Keys, Entries), excused : SUBSET Nat,
   doubled : SUBSET Nat, names : SUBSET NS!Name]

HasNames(s) ==
  s \in [index : {s.index}, files : {s.files}, next_inode : {s.next_inode}, cached : {s.cached},
         buffer : {s.buffer}, inode : {s.inode}, logged : {s.logged}, truth : {s.truth},
         excused : {s.excused}, doubled : {s.doubled}, names : {s.names}]
IsNames(s) ==
  /\ HasNames(s)
  /\ IsMap(s.index, Keys, Entries) /\ IsMap(s.files, Nat, FileRecords) /\ s.next_inode \in Nat
  /\ s.cached \subseteq Nat /\ IsMap(s.buffer, Nat, Buffered)
  /\ s.inode \in [Slot -> Records] /\ s.logged \in [Slot -> Records]
  /\ IsMap(s.truth, Keys, Entries) /\ s.excused \subseteq Nat /\ s.doubled \subseteq Nat
  /\ s.names \subseteq NS!Name

\* Namespace's setting, in terms of the facts about finite sets.
NameSetting ==
  /\ NameIno \subseteq Nat \ {0, 1} /\ TagBase \in Nat \ {0, 1}
  /\ Slot \in SUBSET Nat /\ IsFiniteSet(Slot)
  /\ \A n \in NS!Name : NameKept[n] \in Words
  /\ \A n \in Sidecar : n \notin Virtual /\ (n \in NS!Name => NameKept[n] = n)

\* A set is finite in the model if it is in the facts about finite sets.
LEMMA SettingIs == NameSetting
BY NamesAssumption DEF NS!Setting, NameSetting, Words, NS!IsFiniteSet, IsFiniteSet

\* Maps, by what they have.
LEMMA MapsAre == \A D, V, f : f \in Maps(D, V) <=> IsMap(f, D, V)
<1>1. ASSUME NEW D, NEW V, NEW f, f \in Maps(D, V) PROVE IsMap(f, D, V)
  <2>1. PICK S \in SUBSET D : f \in [S -> V]
    BY <1>1 DEF Maps
  <2> QED
    BY <2>1 DEF IsMap
<1>2. ASSUME NEW D, NEW V, NEW f, IsMap(f, D, V) PROVE f \in Maps(D, V)
  <2>1. DOMAIN f \in SUBSET D /\ f \in [DOMAIN f -> V]
    BY <1>2 DEF IsMap
  <2> QED
    BY <2>1 DEF Maps
<1> QED
  BY <1>1, <1>2

\* The states, field by field.
LEMMA NameStatesAre == \A s : s \in NameStates <=> IsNames(s)
BY MapsAre DEF NameStates, IsNames, HasNames

\* A map with one value set.
LEMMA WithIs ==
  ASSUME NEW f, NEW x, NEW v
  PROVE  LET g == NS!With(f, x, v)
         IN  /\ DOMAIN g = DOMAIN f \cup {x} /\ g[x] = v
             /\ \A y \in DOMAIN f : y # x => g[y] = f[y]
             /\ \A D, V : IsMap(f, D, V) /\ x \in D /\ v \in V => IsMap(g, D, V)
<1> DEFINE g == NS!With(f, x, v)
<1>1. g = [y \in DOMAIN f \cup {x} |-> IF y = x THEN v ELSE f[y]]
  BY DEF NS!With
<1> HIDE DEF g
<1>2. DOMAIN g = DOMAIN f \cup {x} /\ g[x] = v /\ \A y \in DOMAIN f : y # x => g[y] = f[y]
  BY <1>1
<1>3. g = [y \in DOMAIN g |-> g[y]]
  BY <1>1
<1>4. ASSUME NEW D, NEW V, IsMap(f, D, V), x \in D, v \in V PROVE IsMap(g, D, V)
  BY <1>2, <1>3, <1>4 DEF IsMap
<1> QED
  BY <1>2, <1>4 DEF g

\* A map with one value removed.
LEMMA WithoutIs ==
  ASSUME NEW f, NEW x
  PROVE  LET g == NS!Without(f, x)
         IN  /\ DOMAIN g = DOMAIN f \ {x} /\ \A y \in DOMAIN g : g[y] = f[y]
             /\ \A D, V : IsMap(f, D, V) => IsMap(g, D, V)
<1> DEFINE g == NS!Without(f, x)
<1>1. g = [y \in DOMAIN f \ {x} |-> f[y]]
  BY DEF NS!Without
<1> HIDE DEF g
<1>2. DOMAIN g = DOMAIN f \ {x} /\ (\A y \in DOMAIN g : g[y] = f[y]) /\ g = [y \in DOMAIN g |-> g[y]]
  BY <1>1
<1>3. ASSUME NEW D, NEW V, IsMap(f, D, V) PROVE IsMap(g, D, V)
  BY <1>2, <1>3 DEF IsMap
<1> QED
  BY <1>2, <1>3 DEF g

\* A map with one field of one value changed.
LEMMA FilesDirtied ==
  ASSUME NEW f, IsMap(f, Nat, FileRecords), NEW i \in DOMAIN f, NEW b \in BOOLEAN
  PROVE  LET g == [f EXCEPT ![i].dirty = b]
         IN  /\ IsMap(g, Nat, FileRecords) /\ DOMAIN g = DOMAIN f
             /\ \A j \in DOMAIN f : /\ g[j].name = f[j].name /\ g[j].parent = f[j].parent
                                    /\ g[j].dir = f[j].dir /\ g[j].slot = f[j].slot
<1> DEFINE v == [f[i] EXCEPT !.dirty = b]
           g == [f EXCEPT ![i] = v]
<1>1. v \in FileRecords /\ v.name = f[i].name /\ v.parent = f[i].parent /\ v.dir = f[i].dir
      /\ v.slot = f[i].slot
  BY DEF IsMap, FileRecords
<1> HIDE DEF v
<1>2. DOMAIN g = DOMAIN f /\ g = [j \in DOMAIN g |-> g[j]]
      /\ \A j \in DOMAIN f : g[j] = IF j = i THEN v ELSE f[j]
  BY DEF IsMap
<1> HIDE DEF g
<1>3. IsMap(g, Nat, FileRecords)
  BY <1>1, <1>2 DEF IsMap
<1>4. \A j \in DOMAIN f : /\ g[j].name = f[j].name /\ g[j].parent = f[j].parent
                          /\ g[j].dir = f[j].dir /\ g[j].slot = f[j].slot
  BY <1>1, <1>2
<1> QED
  BY <1>2, <1>3, <1>4 DEF g, v

\* Letting files pass changes nothing else.
LEMMA ExcusedIs ==
  ASSUME NEW s, HasNames(s), NEW cause, NEW S \in SUBSET Nat
  PROVE  LET t == NS!Excused(s, cause, S)
         IN  /\ t = [s EXCEPT !.excused = t.excused] /\ HasNames(t)
             /\ s.excused \subseteq t.excused /\ (cause \in Lost => S \subseteq t.excused)
             /\ (s.excused \subseteq Nat => t.excused \subseteq Nat)
             /\ (IsNames(s) => IsNames(t))
BY DEF NS!Excused, HasNames, IsNames

-----------------------------------------------------------------------------
(***************************************************************************)
(* Storing files: each number has one slot in a mount, its home, whose     *)
(* inode may be written with that number at any time.                      *)
(***************************************************************************)
\* An inode at the home of its number; two files alike but for what is dirty; and
\* the homes, which files and buffered files are at.
Placed(r, k, h) == r.used /\ r.ino \in DOMAIN h /\ h[r.ino] = k
SameFile(f, g) == f.name = g.name /\ f.parent = g.parent /\ f.dir = g.dir /\ f.slot = g.slot

IsHome(s, h) ==
  /\ h = [i \in DOMAIN h |-> h[i]] /\ \A i \in DOMAIN h : i \in Nat /\ h[i] \in Slot
  /\ \A i \in NS!Live(s) : i \in DOMAIN h /\ h[i] = s.files[i].slot
  /\ \A i \in DOMAIN s.buffer : i \in DOMAIN h /\ h[i] = s.buffer[i].slot

\* What storing leaves alone: the index, and of the files all but that they are dirty.
Stays(s, t, h) ==
  /\ IsNames(t) /\ IsHome(t, h)
  /\ t.index = s.index /\ t.next_inode = s.next_inode /\ t.doubled = s.doubled
  /\ DOMAIN t.files = DOMAIN s.files /\ \A i \in DOMAIN s.files : SameFile(t.files[i], s.files[i])
  /\ s.excused \subseteq t.excused
  /\ \A k \in Slot : t.inode[k] = s.inode[k] \/ Placed(t.inode[k], k, h)
  /\ \A k \in Slot : t.logged[k] \in {s.logged[k], NS!NoInode} \/ Placed(t.logged[k], k, h)

\* Storing nothing leaves everything alone.
LEMMA StaysItself == \A s, h : IsNames(s) /\ IsHome(s, h) => Stays(s, s, h)
BY DEF Stays, SameFile

\* What two steps in turn leave alone.
LEMMA StaysOn ==
  ASSUME NEW s, NEW t, NEW u, NEW h, Stays(s, t, h), Stays(t, u, h)
  PROVE  Stays(s, u, h)
BY DEF Stays, SameFile

\* The inode written for a file (fuse/mod.rs:454).
LEMMA RecordIs ==
  ASSUME NameSetting, NEW i \in Nat, NEW d \in Nat, NEW n \in NS!Name, NEW dir \in BOOLEAN
  PROVE  LET r == NS!Record(i, d, n, dir)
         IN  /\ r \in Records /\ r.used /\ r.ino = i /\ r.parent = d /\ r.dir = dir
             /\ r.name = NameKept[n]
BY DEF NameSetting, NS!Record, Records

\* A slot that was never written.
LEMMA NoInodeIs == NS!NoInode \in Records /\ ~NS!NoInode.used
BY DEF NS!NoInode, Records, Words

\* A record written, to the table and the journal.
IsWritten(s, t, k, r) ==
  /\ t = [s EXCEPT !.inode = t.inode, !.logged = t.logged] /\ IsNames(t)
  /\ t.inode[k] = r /\ t.logged[k] = r
  /\ \A m \in Slot : m # k => t.inode[m] = s.inode[m] /\ t.logged[m] = s.logged[m]

\* A write changes the one slot, in the table and in the journal.
LEMMA WrittenIs ==
  ASSUME NEW s, IsNames(s), NEW k \in Slot, NEW r \in Records
  PROVE  IsWritten(s, NS!write_inode(s, k, r), k, r)
<1> DEFINE a == [s.inode EXCEPT ![k] = r]
           b == [s.logged EXCEPT ![k] = r]
           t == NS!write_inode(s, k, r)
<1>1. t = [s EXCEPT !.inode = a, !.logged = b]
  BY DEF NS!write_inode
<1>2. a \in [Slot -> Records] /\ b \in [Slot -> Records]
  BY DEF IsNames
<1>3. a[k] = r /\ b[k] = r /\ \A m \in Slot : m # k => a[m] = s.inode[m] /\ b[m] = s.logged[m]
  BY DEF IsNames
<1> HIDE DEF a, b, t
<1>4. HasNames(t) /\ t.inode = a /\ t.logged = b /\ t = [s EXCEPT !.inode = t.inode, !.logged = t.logged]
  BY <1>1 DEF HasNames, IsNames
<1>5. IsNames(t)
  BY <1>1, <1>2, <1>4 DEF IsNames, HasNames
<1> QED
  BY <1>3, <1>4, <1>5 DEF t, IsWritten

\* A write of a number's inode to its home.
LEMMA WriteStays ==
  ASSUME NEW s, IsNames(s), NEW h, IsHome(s, h), NEW i \in DOMAIN h, NEW r \in Records,
         r.used, r.ino = i
  PROVE  Stays(s, NS!write_inode(s, h[i], r), h)
<1> DEFINE t == NS!write_inode(s, h[i], r)
<1>1. h[i] \in Slot
  BY DEF IsHome
<1>6. IsWritten(s, t, h[i], r)
  BY <1>1, WrittenIs
<1> HIDE DEF t
<1>2. /\ t = [s EXCEPT !.inode = t.inode, !.logged = t.logged] /\ IsNames(t)
      /\ t.inode[h[i]] = r /\ t.logged[h[i]] = r
      /\ \A m \in Slot : m # h[i] => t.inode[m] = s.inode[m] /\ t.logged[m] = s.logged[m]
  BY <1>6 DEF IsWritten
<1>3. /\ t.index = s.index /\ t.next_inode = s.next_inode /\ t.doubled = s.doubled
      /\ t.files = s.files /\ t.excused = s.excused /\ t.buffer = s.buffer
  BY <1>2 DEF IsNames, HasNames
<1>4. IsHome(t, h)
  BY <1>3 DEF IsHome, NS!Live
<1>5. \A k \in Slot : /\ t.inode[k] = s.inode[k] \/ Placed(t.inode[k], k, h)
                      /\ t.logged[k] = s.logged[k] \/ Placed(t.logged[k], k, h)
  BY <1>2 DEF Placed
<1> QED
  BY <1>2, <1>3, <1>4, <1>5 DEF Stays, SameFile, t

\* Letting files pass stores nothing.
LEMMA ExcusedStays ==
  ASSUME NEW s, IsNames(s), NEW h, IsHome(s, h), NEW cause, NEW S \in SUBSET Nat
  PROVE  Stays(s, NS!Excused(s, cause, S), h)
<1> DEFINE t == NS!Excused(s, cause, S)
<1>1. t = [s EXCEPT !.excused = t.excused] /\ s.excused \subseteq t.excused /\ IsNames(t)
  BY ExcusedIs DEF IsNames
<1> HIDE DEF t
<1>2. /\ t.index = s.index /\ t.next_inode = s.next_inode /\ t.doubled = s.doubled
      /\ t.files = s.files /\ t.buffer = s.buffer /\ t.inode = s.inode /\ t.logged = s.logged
  BY <1>1 DEF IsNames, HasNames
<1> QED
  BY <1>1, <1>2 DEF Stays, SameFile, IsHome, NS!Live, t

\* A file stored writes its own inode, at its home.
LEMMA PersistStays ==
  ASSUME NameSetting, NEW s, IsNames(s), NEW h, IsHome(s, h), NEW i \in DOMAIN h, NEW name \in NS!Name
  PROVE  Stays(s, NS!persist_to_disk(s, i, name, h[i]), h)
<1> DEFINE d == IF i \in NS!Live(s) THEN s.files[i].parent ELSE NS!Root
           r == NS!Record(i, d, name, FALSE)
           t == NS!write_inode(s, h[i], r)
<1>1. i \in Nat /\ d \in Nat
  BY DEF IsHome, IsNames, IsMap, FileRecords, NS!Live, NS!Root
<1> HIDE DEF d
<1>2. r \in Records /\ r.used /\ r.ino = i
  BY <1>1 DEF NameSetting, NS!Record, Records
<1> HIDE DEF r
<1>3. Stays(s, t, h)
  BY <1>2, WriteStays
<1>4. IsNames(t) /\ IsHome(t, h)
  BY <1>3 DEF Stays
<1> HIDE DEF t
<1>5. CASE i \notin NS!Live(s)
  <2> DEFINE S == {i} \cup {j \in NS!Live(s) : s.files[j].slot = h[i]}
  <2>1. NS!persist_to_disk(s, i, name, h[i]) = NS!Excused(t, "deleted", S)
    BY <1>5 DEF NS!persist_to_disk, t, r, d
  <2>2. S \in SUBSET Nat
    BY <1>1 DEF IsNames, IsMap, NS!Live
  <2> HIDE DEF S
  <2> QED
    BY <1>3, <1>4, <2>1, <2>2, ExcusedStays, StaysOn
<1>6. CASE i \in NS!Live(s)
  <2> DEFINE A == IF name # s.files[i].name THEN {i} ELSE {}
             B == IF s.files[i].dir THEN {i} ELSE {}
             u == NS!Excused(t, "renamed", A)
  <2>1. NS!persist_to_disk(s, i, name, h[i]) = NS!Excused(u, "demoted", B)
    BY <1>6 DEF NS!persist_to_disk, t, r, d
  <2>2. A \in SUBSET Nat /\ B \in SUBSET Nat
    BY <1>1
  <2> HIDE DEF A, B
  <2>3. Stays(t, u, h)
    BY <1>4, <2>2, ExcusedStays
  <2>4. IsNames(u) /\ IsHome(u, h)
    BY <2>3 DEF Stays
  <2> HIDE DEF u
  <2>5. Stays(u, NS!Excused(u, "demoted", B), h)
    BY <2>2, <2>4, ExcusedStays
  <2> QED
    BY <1>3, <2>1, <2>3, <2>5, StaysOn
<1> QED
  BY <1>5, <1>6

-----------------------------------------------------------------------------
\* The two loops over names, as rounds.
DoName(loop, x, y) == IF loop = "load" THEN NS!TakeUp(x, y) ELSE NS!PersistBuffered(x, y)
LoopedNames(loop, s, seq) ==
  NS!FoldLeft(LAMBDA x, y : DoName(loop, x, y), s, seq)
IsNameLoop(m, n, loop, s, seq) ==
  /\ m[0] = s /\ m[n] = LoopedNames(loop, s, seq)
  /\ \A k \in 1 .. n : m[k] = DoName(loop, m[k - 1], seq[k])

\* The model and the facts about finite sets have one maximum.
LEMMA SameMax == \A S : NS!Max(S) = Max(S)
BY DEF NS!Max, Max

\* A loop that stays in a set has a state of it after each round.
LEMMA NameLoopIs ==
  ASSUME NEW A, NEW loop, NEW n \in Nat, NEW seq, DOMAIN seq = 1 .. n, NEW s \in A,
         \A u \in A : \A k \in 1 .. n : DoName(loop, u, seq[k]) \in A
  PROVE  \E m \in [0 .. n -> A] : IsNameLoop(m, n, loop, s, seq)
<1> DEFINE D == [q \in A \X (1 .. n) |-> DoName(loop, q[1], seq[q[2]])]
           Rounds(h) == h = [t \in SUBSET (1 .. n) |->
                            IF t = {} THEN s ELSE DoName(loop, h[t \ {NS!Max(t)}], seq[NS!Max(t)])]
           h == CHOOSE g : Rounds(g)
<1>1. D \in [A \X (1 .. n) -> A]
  OBVIOUS
<1>2. PICK g \in [SUBSET (1 .. n) -> A] : IsFold(g, n, s, D)
  <2> HIDE DEF D
  <2> QED
    BY <1>1, FoldDefined, Zenon
<1>3. Rounds(g)
  <2>1. ASSUME NEW t \in SUBSET (1 .. n), t # {}
        PROVE  D[<<g[t \ {Max(t)}], Max(t)>>] = DoName(loop, g[t \ {Max(t)}], seq[Max(t)])
    <3>1. Max(t) \in 1 .. n /\ g[t \ {Max(t)}] \in A
      BY <2>1, MaxIn
    <3> QED
      BY <3>1
  <2> HIDE DEF D
  <2> QED
    BY <1>2, <2>1, SameMax DEF IsFold
<1>4. Rounds(h)
  BY <1>3, Zenon
<1>5. LoopedNames(loop, s, seq) = h[1 .. n]
  BY DEF LoopedNames, NS!FoldLeft, NS!MapThenFoldSet
<1>6. h[{}] = s
  BY <1>4
<1>7. ASSUME NEW t \in SUBSET (1 .. n), t # {}, h[t \ {Max(t)}] \in A
      PROVE  h[t] = D[<<h[t \ {Max(t)}], Max(t)>>]
  <2>1. Max(t) \in 1 .. n
    BY <1>7, MaxIn
  <2>2. h[t] = DoName(loop, h[t \ {Max(t)}], seq[Max(t)])
    <3> HIDE DEF h
    <3> QED
      BY <1>4, <1>7, SameMax
  <2> HIDE DEF h
  <2> QED
    BY <1>7, <2>1, <2>2
<1> HIDE DEF h, D
<1>8. IsFoldIn(h, n, A, s, D)
  BY <1>6, <1>7 DEF IsFoldIn
<1>9. PICK m \in [0 .. n -> A] : IsRounds(m, h, n, s, D)
  BY <1>1, <1>8, FoldRounds, Zenon
<1>10. ASSUME NEW k \in 1 .. n PROVE m[k] = DoName(loop, m[k - 1], seq[k])
  <2>1. m[k - 1] \in A /\ m[k] = D[<<m[k - 1], k>>]
    BY <1>9 DEF IsRounds
  <2> QED
    BY <2>1 DEF D
<1>11. m[0] = s /\ m[n] = LoopedNames(loop, s, seq)
  BY <1>5, <1>9 DEF IsRounds
<1> QED
  BY <1>10, <1>11 DEF IsNameLoop

\* Storing what is buffered and loading are such loops.
LEMMA NameLoops ==
  ASSUME NEW s, NEW order
  PROVE  /\ NS!PersistAll(s, order) = LoopedNames("persist", s, order)
         /\ NS!load(s) = LoopedNames("load", NS!open(s), NS!InOrder(Slot))
<1>1. NS!PersistAll(s, order) = LoopedNames("persist", s, order)
  <2> DEFINE A(f) == f = [u \in SUBSET DOMAIN order |->
                            IF u = {} THEN s
                            ELSE NS!PersistBuffered(f[u \ {NS!Max(u)}], order[NS!Max(u)])]
             B(f) == f = [u \in SUBSET DOMAIN order |->
                            IF u = {} THEN s
                            ELSE DoName("persist", f[u \ {NS!Max(u)}], order[NS!Max(u)])]
  <2>1. NS!PersistAll(s, order) = (CHOOSE f : A(f))[DOMAIN order]
    BY DEF NS!PersistAll, NS!FoldLeft, NS!MapThenFoldSet
  <2>2. LoopedNames("persist", s, order) = (CHOOSE f : B(f))[DOMAIN order]
    BY DEF LoopedNames, NS!FoldLeft, NS!MapThenFoldSet
  <2>3. \A f : A(f) <=> B(f)
    BY DEF DoName
  <2> HIDE DEF A, B
  <2> QED
    BY <2>1, <2>2, <2>3
<1> DEFINE o == NS!open(s)
           seq == NS!InOrder(Slot)
<1>2. NS!load(s) = LoopedNames("load", o, seq)
  <2> DEFINE A(f) == f = [u \in SUBSET DOMAIN seq |->
                            IF u = {} THEN o
                            ELSE NS!TakeUp(f[u \ {NS!Max(u)}], seq[NS!Max(u)])]
             B(f) == f = [u \in SUBSET DOMAIN seq |->
                            IF u = {} THEN o
                            ELSE DoName("load", f[u \ {NS!Max(u)}], seq[NS!Max(u)])]
  <2>1. NS!load(s) = (CHOOSE f : A(f))[DOMAIN seq]
    BY DEF NS!load, NS!FoldLeft, NS!MapThenFoldSet
  <2>2. LoopedNames("load", o, seq) = (CHOOSE f : B(f))[DOMAIN seq]
    BY DEF LoopedNames, NS!FoldLeft, NS!MapThenFoldSet
  <2>3. \A f : A(f) <=> B(f)
    BY DEF DoName
  <2> HIDE DEF A, B
  <2> QED
    BY <2>1, <2>2, <2>3
<1> QED
  BY <1>1, <1>2 DEF o, seq

\* What is done in every round of a loop is done by the loop.
LEMMA NameLoopStays ==
  ASSUME NEW A, NEW loop, NEW n \in Nat, NEW seq, DOMAIN seq = 1 .. n, NEW s \in A,
         \A u \in A : \A k \in 1 .. n : DoName(loop, u, seq[k]) \in A
  PROVE  LoopedNames(loop, s, seq) \in A
<1>1. PICK m \in [0 .. n -> A] : IsNameLoop(m, n, loop, s, seq)
  BY NameLoopIs, Zenon
<1>2. n \in 0 .. n
  OBVIOUS
<1> QED
  BY <1>1, <1>2 DEF IsNameLoop

\* Changes that storing makes besides: what is dirty, cached and buffered.
LEMMA DirtyStays ==
  ASSUME NEW s, IsNames(s), NEW h, IsHome(s, h), NEW i \in NS!Live(s), NEW b \in BOOLEAN
  PROVE  Stays(s, [s EXCEPT !.files[i].dirty = b], h)
<1> DEFINE g == [s.files EXCEPT ![i].dirty = b]
           t == [s EXCEPT !.files = g]
<1>1. /\ IsMap(g, Nat, FileRecords) /\ DOMAIN g = DOMAIN s.files
      /\ \A j \in DOMAIN s.files : /\ g[j].name = s.files[j].name /\ g[j].parent = s.files[j].parent
                                   /\ g[j].dir = s.files[j].dir /\ g[j].slot = s.files[j].slot
  BY FilesDirtied DEF IsNames, NS!Live
<1>2. t = [s EXCEPT !.files[i].dirty = b]
  BY DEF IsNames, HasNames
<1> HIDE DEF g
<1>3. /\ HasNames(t) /\ t.files = g /\ t.index = s.index /\ t.next_inode = s.next_inode
      /\ t.doubled = s.doubled /\ t.excused = s.excused /\ t.buffer = s.buffer
      /\ t.inode = s.inode /\ t.logged = s.logged /\ t.cached = s.cached /\ t.truth = s.truth
      /\ t.names = s.names
  BY DEF IsNames, HasNames
<1> HIDE DEF t
<1>4. IsNames(t)
  BY <1>1, <1>3 DEF IsNames
<1>5. IsHome(t, h)
  BY <1>1, <1>3 DEF IsHome, NS!Live
<1> QED
  BY <1>1, <1>2, <1>3, <1>4, <1>5 DEF Stays, SameFile

\* A file stored is no longer dirty.
LEMMA CleanStays ==
  ASSUME NEW s, IsNames(s), NEW h, IsHome(s, h), NEW i \in NS!Live(s)
  PROVE  Stays(s, NS!Clean(s, i), h)
BY DirtyStays DEF NS!Clean

\* What the cache holds is no matter of the names.
LEMMA CachedStays ==
  ASSUME NEW s, IsNames(s), NEW h, IsHome(s, h), NEW c \in SUBSET Nat
  PROVE  Stays(s, [s EXCEPT !.cached = c], h)
<1> DEFINE t == [s EXCEPT !.cached = c]
<1>1. IsNames(t) /\ t.index = s.index /\ t.next_inode = s.next_inode /\ t.files = s.files
      /\ t.doubled = s.doubled /\ t.excused = s.excused /\ t.buffer = s.buffer
      /\ t.inode = s.inode /\ t.logged = s.logged
  BY DEF IsNames, HasNames
<1> HIDE DEF t
<1>2. IsHome(t, h)
  BY <1>1 DEF IsHome, NS!Live
<1> QED
  BY <1>1, <1>2 DEF Stays, SameFile, t

\* Buffered files are stored at their homes.
LEMMA BufferStays ==
  ASSUME NEW s, IsNames(s), NEW h, IsHome(s, h), NEW b, IsMap(b, Nat, Buffered),
         \A i \in DOMAIN b : i \in DOMAIN h /\ h[i] = b[i].slot
  PROVE  Stays(s, [s EXCEPT !.buffer = b], h)
<1> DEFINE t == [s EXCEPT !.buffer = b]
<1>1. IsNames(t) /\ t.index = s.index /\ t.next_inode = s.next_inode /\ t.files = s.files
      /\ t.doubled = s.doubled /\ t.excused = s.excused /\ t.buffer = b
      /\ t.inode = s.inode /\ t.logged = s.logged
  BY DEF IsNames, HasNames
<1> HIDE DEF t
<1>2. IsHome(t, h)
  BY <1>1 DEF IsHome, NS!Live
<1> QED
  BY <1>1, <1>2 DEF Stays, SameFile, t

\* The journal cleared.
Unlogged(s) == [s EXCEPT !.logged = [k \in Slot |-> NS!NoInode]]
\* A journal without entries changes no slot.
LEMMA UnloggedStays ==
  ASSUME NEW s, IsNames(s), NEW h, IsHome(s, h)
  PROVE  Stays(s, Unlogged(s), h)
<1> DEFINE l == [k \in Slot |-> NS!NoInode]
           t == [s EXCEPT !.logged = l]
<1>1. l \in [Slot -> Records] /\ \A k \in Slot : l[k] = NS!NoInode
  BY NoInodeIs
<1> HIDE DEF l
<1>2. IsNames(t) /\ t.index = s.index /\ t.next_inode = s.next_inode /\ t.files = s.files
      /\ t.doubled = s.doubled /\ t.excused = s.excused /\ t.buffer = s.buffer
      /\ t.inode = s.inode /\ t.logged = l
  BY <1>1 DEF IsNames, HasNames
<1> HIDE DEF t
<1>3. IsHome(t, h)
  BY <1>2 DEF IsHome, NS!Live
<1> QED
  BY <1>1, <1>2, <1>3 DEF Stays, SameFile, t, Unlogged, l

\* A buffered file is stored at its home, or has been.
LEMMA BufferedStays ==
  ASSUME NameSetting, NEW s, IsNames(s), NEW h, IsHome(s, h), NEW i
  PROVE  Stays(s, NS!PersistBuffered(s, i), h)
<1>1. CASE i \notin DOMAIN s.buffer
  BY <1>1, StaysItself DEF NS!PersistBuffered
<1>2. CASE i \in DOMAIN s.buffer
  <2> DEFINE b == NS!Without(s.buffer, i)
             t == [s EXCEPT !.buffer = b]
  <2>1. /\ NS!PersistBuffered(s, i) = NS!persist_to_disk(t, i, s.buffer[i].name, h[i])
        /\ i \in DOMAIN h /\ s.buffer[i].name \in NS!Name
    BY <1>2 DEF NS!PersistBuffered, IsHome, IsNames, IsMap, Buffered
  <2>7. IsMap(s.buffer, Nat, Buffered)
    BY DEF IsNames
  <2>8. DOMAIN b = DOMAIN s.buffer \ {i} /\ (\A y \in DOMAIN b : b[y] = s.buffer[y])
        /\ \A D, V : IsMap(s.buffer, D, V) => IsMap(b, D, V)
    BY WithoutIs, Zenon
  <2>2. IsMap(b, Nat, Buffered) /\ \A j \in DOMAIN b : j \in DOMAIN s.buffer /\ b[j] = s.buffer[j]
    <3> HIDE DEF b
    <3> QED
      BY <2>7, <2>8
  <2>3. \A j \in DOMAIN b : j \in DOMAIN h /\ h[j] = b[j].slot
    BY <2>2 DEF IsHome
  <2> HIDE DEF b
  <2>4. Stays(s, t, h)
    BY <2>2, <2>3, BufferStays
  <2>5. IsNames(t) /\ IsHome(t, h)
    BY <2>4 DEF Stays
  <2> HIDE DEF t
  <2>6. Stays(t, NS!persist_to_disk(t, i, s.buffer[i].name, h[i]), h)
    BY <2>1, <2>5, PersistStays
  <2> QED
    BY <2>1, <2>4, <2>6, StaysOn
<1> QED
  BY <1>1, <1>2

\* So are all of them, in any order.
LEMMA PersistAllStays ==
  ASSUME NameSetting, NEW s, IsNames(s), NEW h, IsHome(s, h), NEW order, NEW n \in Nat,
         DOMAIN order = 1 .. n
  PROVE  Stays(s, NS!PersistAll(s, order), h)
<1> DEFINE A == {u \in NameStates : Stays(s, u, h)}
<1>1. s \in A
  BY NameStatesAre, StaysItself
<1>2. ASSUME NEW u \in A, NEW k \in 1 .. n PROVE DoName("persist", u, order[k]) \in A
  <2> DEFINE v == NS!PersistBuffered(u, order[k])
  <2>1. IsNames(u) /\ IsHome(u, h) /\ Stays(s, u, h)
    BY NameStatesAre DEF Stays
  <2>2. Stays(u, v, h)
    BY <2>1, BufferedStays
  <2>3. DoName("persist", u, order[k]) = v
    BY DEF DoName
  <2> HIDE DEF v
  <2>4. Stays(s, v, h) /\ v \in NameStates
    BY <2>1, <2>2, StaysOn, NameStatesAre DEF Stays
  <2> QED
    BY <2>3, <2>4
<1> HIDE DEF A
<1>3. LoopedNames("persist", s, order) \in A
  BY <1>1, <1>2, NameLoopStays
<1>4. NS!PersistAll(s, order) \in A
  BY <1>3, NameLoops
<1> QED
  BY <1>4 DEF A

\* The flush before an eviction (fuse/mod.rs:357).
LEMMA PreFlushStays ==
  ASSUME NameSetting, NEW s, IsNames(s), NEW h, IsHome(s, h), NEW i
  PROVE  Stays(s, NS!pre_eviction_flush(s, i), h)
<1>1. CASE ~NS!Dirty(s, i)
  BY <1>1, StaysItself DEF NS!pre_eviction_flush
<1>2. CASE NS!Dirty(s, i)
  <2>1. i \in NS!Live(s) /\ i \in DOMAIN h /\ h[i] = s.files[i].slot /\ s.files[i].name \in NS!Name
    BY <1>2 DEF NS!Dirty, IsHome, IsNames, IsMap, FileRecords, NS!Live
  <2> DEFINE t == IF i \in DOMAIN s.buffer THEN NS!PersistBuffered(s, i)
                  ELSE NS!persist_to_disk(s, i, s.files[i].name, h[i])
  <2>2. NS!pre_eviction_flush(s, i) = NS!Clean(t, i)
    BY <1>2, <2>1 DEF NS!pre_eviction_flush
  <2>3. Stays(s, t, h)
    BY <2>1, BufferedStays, PersistStays
  <2> HIDE DEF t
  <2>4. IsNames(t) /\ IsHome(t, h) /\ i \in NS!Live(t)
    BY <2>1, <2>3 DEF Stays, NS!Live
  <2> QED
    BY <2>2, <2>3, <2>4, CleanStays, StaysOn
<1> QED
  BY <1>1, <1>2

\* The flush after one (fuse/mod.rs:384).
LEMMA FlushEvictedStays ==
  ASSUME NameSetting, NEW s, IsNames(s), NEW h, IsHome(s, h), NEW i, NEW has_data
  PROVE  Stays(s, NS!FlushEvicted(s, i, has_data), h)
<1>1. NS!FlushEvicted(s, i, has_data) \in {s, NS!Clean(s, i), NS!pre_eviction_flush(s, i)}
      /\ (NS!FlushEvicted(s, i, has_data) = NS!Clean(s, i) => i \in NS!Live(s)
            \/ NS!FlushEvicted(s, i, has_data) \in {s, NS!pre_eviction_flush(s, i)})
  BY DEF NS!FlushEvicted, NS!Dirty
<1> QED
  BY <1>1, StaysItself, CleanStays, PreFlushStays

\* A number cached; and no longer.
Taken(s, i) == [s EXCEPT !.cached = @ \cup {i}]
Left(s, v) == [s EXCEPT !.cached = @ \ {v}]

\* What an insertion may leave.
LEMMA InsertIs ==
  ASSUME NEW s, NEW i
  PROVE  NS!cache_insert(s, i) =
           {Taken(s, i)}
             \cup {Taken(NS!pre_eviction_flush(s, v), i) : v \in s.cached}
             \cup {Taken(Left(NS!pre_eviction_flush(s, v), v), i) : v \in s.cached}
             \cup {NS!FlushEvicted(Left(Taken(s, i), v), v, has_data) :
                     v \in s.cached \ {i}, has_data \in BOOLEAN}
BY DEF NS!cache_insert, Taken, Left

\* An insertion into the cache, with the files it stores.
LEMMA InsertStays ==
  ASSUME NameSetting, NEW s, IsNames(s), NEW h, IsHome(s, h), NEW i \in Nat,
         NEW t \in NS!cache_insert(s, i)
  PROVE  Stays(s, t, h)
<1>1. ASSUME NEW u, Stays(s, u, h) PROVE Stays(s, Taken(u, i), h)
  <2>1. IsNames(u) /\ IsHome(u, h) /\ u.cached \cup {i} \in SUBSET Nat
    BY <1>1 DEF Stays, IsNames
  <2>2. Stays(u, Taken(u, i), h)
    BY <2>1, CachedStays DEF Taken
  <2> QED
    BY <1>1, <2>2, StaysOn
<1>2. ASSUME NEW u, Stays(s, u, h), NEW v PROVE Stays(s, Left(u, v), h)
  <2>1. IsNames(u) /\ IsHome(u, h) /\ u.cached \ {v} \in SUBSET Nat
    BY <1>2 DEF Stays, IsNames
  <2>2. Stays(u, Left(u, v), h)
    BY <2>1, CachedStays DEF Left
  <2> QED
    BY <1>2, <2>2, StaysOn
<1>3. Stays(s, s, h)
  BY StaysItself
<1>4. ASSUME NEW u, NEW v, Stays(s, u, h)
      PROVE  Stays(s, NS!pre_eviction_flush(u, v), h)
  <2>1. IsNames(u) /\ IsHome(u, h)
    BY <1>4 DEF Stays
  <2>2. Stays(u, NS!pre_eviction_flush(u, v), h)
    BY <2>1, PreFlushStays
  <2> QED
    BY <1>4, <2>2, StaysOn
<1>5. ASSUME NEW u, NEW v, NEW b, Stays(s, u, h)
      PROVE  Stays(s, NS!FlushEvicted(u, v, b), h)
  <2>1. IsNames(u) /\ IsHome(u, h)
    BY <1>5 DEF Stays
  <2>2. Stays(u, NS!FlushEvicted(u, v, b), h)
    BY <2>1, FlushEvictedStays
  <2> QED
    BY <1>5, <2>2, StaysOn
<1>6. \/ t = Taken(s, i)
      \/ \E v : \/ t = Taken(NS!pre_eviction_flush(s, v), i)
                \/ t = Taken(Left(NS!pre_eviction_flush(s, v), v), i)
                \/ \E b : t = NS!FlushEvicted(Left(Taken(s, i), v), v, b)
  BY InsertIs
<1> QED
  BY <1>1, <1>2, <1>3, <1>4, <1>5, <1>6

-----------------------------------------------------------------------------
(***************************************************************************)
(* A mount.                                                                *)
(***************************************************************************)
\* An inode that a mount takes up; the slots of the files.
Good(r) == NS!is_valid(r) /\ r.name # NS!Unreadable
NameSlots(s) == {s.files[i].slot : i \in NS!Live(s)}

\* Where the records that a mount may take up, and those of slots in H, belong.
Homes(s, h, H) ==
  /\ \A i \in DOMAIN h : i > 1 /\ i < s.next_inode
  /\ \A k \in Slot : Good(s.inode[k]) \/ k \in H => Placed(s.inode[k], k, h)
  /\ \A k \in Slot : s.logged[k] # NS!NoInode /\ (Good(s.logged[k]) \/ k \in H)
                       => Placed(s.logged[k], k, h)
\* No two files share a slot.
NamesApart(s) ==
  \A i, j \in NS!Live(s) : s.files[i].slot = s.files[j].slot => i = j
\* An entry names a file that has its name, parent, kind and slot.
IsEntry(s, k) ==
  LET e == s.index[k]
  IN  /\ e.ino \in NS!Live(s)
      /\ LET f == s.files[e.ino]
         IN  <<f.parent, f.name>> = k /\ f.dir = e.dir /\ f.slot = e.slot
Agree(s) == \A k \in DOMAIN s.index : IsEntry(s, k)
Found(s) == NS!Live(s) \ s.excused \subseteq NS!Reached(s)

\* A mount in which the slots H are recorded.
IsMount(s, h, H) ==
  IsNames(s) /\ IsHome(s, h) /\ Homes(s, h, H) /\ NamesApart(s) /\ Agree(s) /\ Found(s)

\* A mount has finitely many files, and none has the number of the root.
LEMMA MountFinite ==
  ASSUME NEW s, IsNames(s), NEW h, IsHome(s, h), \A i \in DOMAIN h : i > 1 /\ i < s.next_inode
  PROVE  /\ IsFiniteSet(NS!Live(s)) /\ NS!Root \notin NS!Live(s) /\ IsFiniteSet(DOMAIN s.buffer)
         /\ \A i \in NS!Live(s) : i \in Nat /\ i > 1
<1>1. IsFiniteSet(0 .. s.next_inode)
  <2>1. s.next_inode \in Int /\ 0 \in Int
    BY DEF IsNames
  <2> QED
    BY <2>1, FS_Interval
<1>2. DOMAIN h \in SUBSET (0 .. s.next_inode) /\ NS!Root \notin DOMAIN h
  BY DEF IsHome, IsNames, NS!Root
<1>3. NS!Live(s) \in SUBSET DOMAIN h /\ DOMAIN s.buffer \in SUBSET DOMAIN h
  BY DEF IsHome
<1>4. NS!Live(s) \in SUBSET (0 .. s.next_inode) /\ DOMAIN s.buffer \in SUBSET (0 .. s.next_inode)
  BY <1>2, <1>3
<1>5. IsFiniteSet(NS!Live(s)) /\ IsFiniteSet(DOMAIN s.buffer)
  BY <1>1, <1>4, FS_Subset
<1>6. \A i \in NS!Live(s) : i \in Nat /\ i > 1
  BY <1>3 DEF IsHome
<1> QED
  BY <1>2, <1>3, <1>5, <1>6

\* The same files are reached where index and files are the same.
LEMMA StaysReached ==
  ASSUME NEW s, NEW t, IsFiniteSet(NS!Live(s)), NS!Root \notin NS!Live(s), t.index = s.index,
         NS!Live(t) = NS!Live(s), \A i \in NS!Live(s) : SameFile(t.files[i], s.files[i])
  PROVE  NS!Reached(s) \subseteq NS!Reached(t)
<1> DEFINE R == NS!Reached(t)
<1>1. IsPath(t, R)
  BY ReachedIs
<1> HIDE DEF R
<1>2. ASSUME NEW i \in NS!Live(s), s.files[i].parent \in R, Followed(s, i) PROVE i \in R
  <2>1. t.files[i].parent = s.files[i].parent /\ t.files[i].name = s.files[i].name
    BY DEF SameFile
  <2>2. Followed(t, i)
    BY <1>2, <2>1 DEF Followed, NS!IsDir, NS!lookup, SameFile
  <2> QED
    BY <1>1, <1>2, <2>1, <2>2 DEF IsPath
<1>3. IsPath(s, R)
  BY <1>1, <1>2 DEF IsPath
<1> QED
  BY <1>3, ReachedIs DEF R

\* Storing leaves a mount one.
LEMMA StaysMount ==
  ASSUME NEW s, NEW t, NEW h, NEW H, IsMount(s, h, H), Stays(s, t, h)
  PROVE  IsMount(t, h, H) /\ NameSlots(t) = NameSlots(s)
<1>1. IsNames(s) /\ IsHome(s, h) /\ IsNames(t) /\ IsHome(t, h)
  BY DEF IsMount, Stays
<1>2. NS!Live(t) = NS!Live(s) /\ t.index = s.index /\ \A i \in NS!Live(s) : SameFile(t.files[i], s.files[i])
  BY DEF Stays, NS!Live
<1>3. Homes(t, h, H)
  <2>1. Homes(s, h, H) /\ t.next_inode = s.next_inode
    BY DEF IsMount, Stays
  <2>2. \A k \in Slot : /\ t.inode[k] = s.inode[k] \/ Placed(t.inode[k], k, h)
                        /\ t.logged[k] \in {s.logged[k], NS!NoInode} \/ Placed(t.logged[k], k, h)
    BY DEF Stays
  <2> QED
    BY <2>1, <2>2 DEF Homes
<1>4. NamesApart(t)
  BY <1>2 DEF IsMount, NamesApart, SameFile
<1>5. Agree(t)
  BY <1>2 DEF IsMount, Agree, IsEntry, SameFile
<1>6. NS!Reached(s) \subseteq NS!Reached(t)
  <2>1. IsFiniteSet(NS!Live(s)) /\ NS!Root \notin NS!Live(s)
    BY <1>1, MountFinite DEF IsMount, Homes
  <2> QED
    BY <1>2, <2>1, StaysReached
<1>7. Found(t)
  BY <1>2, <1>6 DEF IsMount, Found, Stays
<1>8. NameSlots(t) = NameSlots(s)
  BY <1>2 DEF NameSlots, SameFile
<1> QED
  BY <1>1, <1>3, <1>4, <1>5, <1>7, <1>8 DEF IsMount

\* An order of a finite set has its places.
LEMMA OrderIs ==
  ASSUME NEW S, IsFiniteSet(S), NEW order \in NS!SetToSeqs(S)
  PROVE  \E n \in Nat : DOMAIN order = 1 .. n
<1>1. Cardinality(S) \in Nat
  BY FS_CardinalityType
<1>2. DOMAIN order = 1 .. Cardinality(S)
  BY SameCardinality DEF NS!SetToSeqs
<1> QED
  BY <1>1, <1>2

\* A flush, with what it makes the write buffer store.
LEMMA FlushFileStays ==
  ASSUME NameSetting, NEW s, IsNames(s), NEW h, IsHome(s, h), NEW i \in NS!Live(s),
         \A j \in DOMAIN h : j > 1 /\ j < s.next_inode, NEW t \in NS!flush_file(s, i)
  PROVE  Stays(s, t, h)
<1> DEFINE c == NS!Clean(s, i)
           v == [name |-> s.files[i].name, slot |-> s.files[i].slot]
           b == NS!With(c.buffer, i, v)
           u == [c EXCEPT !.buffer = b]
<1>1. Stays(s, c, h)
  BY CleanStays
<1>2. IsNames(c) /\ IsHome(c, h) /\ c.next_inode = s.next_inode
  BY <1>1 DEF Stays
<1>3. u = [NS!Clean(s, i) EXCEPT !.buffer = NS!With(@, i, [name |-> s.files[i].name, slot |-> s.files[i].slot])]
  OBVIOUS
<1>4. t = c \/ \E S \in SUBSET DOMAIN u.buffer : \E order \in NS!SetToSeqs(S) : t = NS!PersistAll(u, order)
  BY DEF NS!flush_file
<1>5. i \in Nat /\ v \in Buffered /\ i \in DOMAIN h /\ h[i] = v.slot
  BY DEF IsNames, IsMap, FileRecords, Buffered, IsHome, NS!Live
<1> HIDE DEF c, v
<1>6. /\ DOMAIN b = DOMAIN c.buffer \cup {i} /\ b[i] = v
      /\ \A y \in DOMAIN c.buffer : y # i => b[y] = c.buffer[y]
      /\ \A D, V : IsMap(c.buffer, D, V) /\ i \in D /\ v \in V => IsMap(b, D, V)
  BY WithIs, Zenon
<1> HIDE DEF b
<1>7. IsMap(b, Nat, Buffered)
  BY <1>2, <1>5, <1>6 DEF IsNames
<1>8. \A y \in DOMAIN b : y \in DOMAIN h /\ h[y] = b[y].slot
  BY <1>2, <1>5, <1>6 DEF IsHome
<1>9. Stays(c, u, h)
  BY <1>2, <1>7, <1>8, BufferStays
<1>10. Stays(s, u, h) /\ IsNames(u) /\ IsHome(u, h) /\ u.next_inode = s.next_inode
  BY <1>1, <1>2, <1>9, StaysOn DEF Stays
<1> HIDE DEF u
<1>11. IsFiniteSet(DOMAIN u.buffer)
  BY <1>10, MountFinite
<1>12. ASSUME NEW S \in SUBSET DOMAIN u.buffer, NEW order \in NS!SetToSeqs(S),
              t = NS!PersistAll(u, order)
       PROVE  Stays(s, t, h)
  <2>1. IsFiniteSet(S)
    BY <1>11, FS_Subset
  <2>2. PICK n \in Nat : DOMAIN order = 1 .. n
    BY <2>1, OrderIs
  <2>3. Stays(u, t, h)
    BY <1>10, <1>12, <2>2, PersistAllStays
  <2> QED
    BY <1>10, <2>3, StaysOn
<1> QED
  BY <1>1, <1>4, <1>12

-----------------------------------------------------------------------------
(***************************************************************************)
(* The requests of a mount.                                                *)
(***************************************************************************)
\* A mount between requests: every file's slot is recorded.
IsIn(s, h) == IsMount(s, h, NameSlots(s))

\* A mount between requests stays one.
LEMMA StaysIn ==
  ASSUME NEW s, NEW t, NEW h, IsIn(s, h), Stays(s, t, h)
  PROVE  IsIn(t, h)
BY StaysMount DEF IsIn

\* And when the journal is cleared after it.
LEMMA JournaledIn ==
  ASSUME NEW s, NEW h, IsIn(s, h), NS!Journaled(s)
  PROVE  IsIn(ns', h) /\ mode' = mode
<1>1. ns' \in {s, Unlogged(s)} /\ mode' = mode
  BY DEF NS!Journaled, NS!Request, Unlogged
<1>2. Stays(s, Unlogged(s), h)
  BY UnloggedStays DEF IsIn, IsMount
<1> QED
  BY <1>1, <1>2, StaysIn

\* The entry of a file that is followed.
LEMMA FollowedIs ==
  ASSUME NEW s, NEW j, Followed(s, j), j # 0
  PROVE  LET k == <<s.files[j].parent, s.files[j].name>>
         IN  k \in DOMAIN s.index /\ s.index[k].ino = j /\ NS!IsDir(s, k[1])
BY DEF Followed, NS!lookup

\* What an entry leads to can be followed, if no virtual file hides it.
LEMMA EntryFollowed ==
  ASSUME NEW s, NEW k, k \in DOMAIN s.index, IsEntry(s, k), ~(k[1] = NS!Root /\ k[2] \in Virtual),
         NS!IsDir(s, k[1])
  PROVE  Followed(s, s.index[k].ino)
<1> DEFINE f == s.files[s.index[k].ino]
<1>1. <<f.parent, f.name>> = k
  BY DEF IsEntry
<1>2. f.parent = k[1] /\ f.name = k[2] /\ <<k[1], k[2]>> = k
  BY <1>1
<1> HIDE DEF f
<1>3. NS!lookup(s, k[1], k[2]) = s.index[k].ino
  BY <1>2 DEF NS!lookup
<1>4. NS!IsDir(s, f.parent) /\ NS!lookup(s, f.parent, f.name) = s.index[k].ino
  BY <1>2, <1>3
<1> QED
  BY <1>4 DEF Followed, f

\* File i freed, and its entry k removed.
UnenteredIs(s, t, i, k) ==
  /\ IsNames(t) /\ DOMAIN t.index = DOMAIN s.index \ {k} /\ NS!Live(t) = NS!Live(s) \ {i}
  /\ \A m \in DOMAIN t.index : t.index[m] = s.index[m]
  /\ \A j \in NS!Live(t) : t.files[j] = s.files[j]
  /\ t.next_inode = s.next_inode /\ t.buffer = s.buffer /\ t.logged = s.logged
  /\ t.doubled = s.doubled /\ s.excused \subseteq t.excused
  /\ ~t.inode[s.files[i].slot].used
  /\ \A m \in Slot : m # s.files[i].slot => t.inode[m] = s.inode[m]

\* A file removed: entry and inode are gone, and its slot is free.
LEMMA RemovedIs ==
  ASSUME NEW s, IsNames(s), NEW d, NEW n, NEW i \in NS!Live(s)
  PROVE  UnenteredIs(s, NS!Removed(s, d, n, i), i, <<d, n>>)
<1> DEFINE k == <<d, n>>
           slot == s.files[i].slot
           x == NS!Without(s.index, k)
           f == NS!Without(s.files, i)
           p == [s.inode EXCEPT ![slot].used = FALSE]
           a == [s EXCEPT !.index = x, !.files = f]
           b == [a EXCEPT !.inode = p]
           S == IF s.logged[slot] = NS!NoInode THEN {} ELSE {s.logged[slot].ino}
           t == NS!Excused(b, "deleted", S)
<1>1. slot \in Slot
  BY DEF IsNames, IsMap, FileRecords, NS!Live
<1> HIDE DEF slot
<1>2. /\ DOMAIN x = DOMAIN s.index \ {k} /\ (\A y \in DOMAIN x : x[y] = s.index[y])
      /\ \A D, V : IsMap(s.index, D, V) => IsMap(x, D, V)
  BY WithoutIs, Zenon
<1>3. /\ DOMAIN f = DOMAIN s.files \ {i} /\ (\A y \in DOMAIN f : f[y] = s.files[y])
      /\ \A D, V : IsMap(s.files, D, V) => IsMap(f, D, V)
  BY WithoutIs, Zenon
<1>4. IsMap(x, Keys, Entries) /\ IsMap(f, Nat, FileRecords)
  <2> HIDE DEF x, f
  <2> QED
    BY <1>2, <1>3 DEF IsNames
<1>5. p \in [Slot -> Records] /\ ~p[slot].used /\ \A m \in Slot : m # slot => p[m] = s.inode[m]
  <2>1. s.inode \in [Slot -> Records]
    BY DEF IsNames
  <2>2. [s.inode[slot] EXCEPT !.used = FALSE] \in Records /\ ~[s.inode[slot] EXCEPT !.used = FALSE].used
    BY <1>1, <2>1 DEF Records
  <2> DEFINE r == [s.inode[slot] EXCEPT !.used = FALSE]
  <2>3. p = [s.inode EXCEPT ![slot] = r]
    OBVIOUS
  <2> HIDE DEF p, r
  <2>4. r \in Records /\ ~r.used
    BY <2>2 DEF r
  <2> QED
    BY <1>1, <2>1, <2>3, <2>4
<1>6. S \in SUBSET Nat
  BY <1>1 DEF IsNames, Records
<1>7. NS!Removed(s, d, n, i) = t
  <2>1. NS!Removed(s, d, n, i) = NS!free_inode(a, slot)
    BY DEF NS!Removed, slot
  <2>2. a.inode = s.inode /\ a.logged = s.logged
    BY DEF IsNames, HasNames
  <2>3. NS!free_inode(a, slot)
          = NS!Excused([a EXCEPT !.inode[slot].used = FALSE], "deleted",
                      IF a.logged[slot] = NS!NoInode THEN {} ELSE {a.logged[slot].ino})
    BY DEF NS!free_inode
  <2> HIDE DEF a
  <2>4. [a EXCEPT !.inode[slot].used = FALSE] = b
    BY <2>2
  <2> QED
    BY <2>1, <2>2, <2>3, <2>4
<1> HIDE DEF x, f, p, S
<1>8. /\ IsNames(b) /\ b.index = x /\ b.files = f /\ b.inode = p /\ b.logged = s.logged
      /\ b.next_inode = s.next_inode /\ b.buffer = s.buffer /\ b.doubled = s.doubled
      /\ b.excused = s.excused
  BY <1>4, <1>5 DEF IsNames, HasNames
<1> HIDE DEF b
<1>9. t = [b EXCEPT !.excused = t.excused] /\ IsNames(t) /\ b.excused \subseteq t.excused
  BY <1>6, <1>8, ExcusedIs DEF IsNames
<1> HIDE DEF t
<1>10. /\ t.index = x /\ t.files = f /\ t.inode = p /\ t.logged = s.logged
       /\ t.next_inode = s.next_inode /\ t.buffer = s.buffer /\ t.doubled = s.doubled
       /\ s.excused \subseteq t.excused
  BY <1>8, <1>9 DEF IsNames, HasNames
<1> QED
  BY <1>2, <1>3, <1>5, <1>7, <1>9, <1>10 DEF UnenteredIs, NS!Live, slot

\* What is left is a mount, if nothing is kept in what was removed.
LEMMA FreedIn ==
  ASSUME NEW s, NEW h, IsIn(s, h), NEW k, k \in DOMAIN s.index, NEW t,
         UnenteredIs(s, t, s.index[k].ino, k),
         \A j \in NS!Live(s) : s.files[j].parent = s.index[k].ino => ~Followed(s, j)
  PROVE  IsIn(t, h)
<1> DEFINE i == s.index[k].ino
           slot == s.files[i].slot
<1>1. IsNames(s) /\ IsHome(s, h) /\ Homes(s, h, NameSlots(s)) /\ NamesApart(s) /\ Agree(s) /\ Found(s)
  BY DEF IsIn, IsMount
<1>2. i \in NS!Live(s) /\ IsEntry(s, k)
  BY <1>1 DEF Agree, IsEntry
<1> HIDE DEF i, slot
<1>3. /\ IsNames(t) /\ DOMAIN t.index = DOMAIN s.index \ {k} /\ NS!Live(t) = NS!Live(s) \ {i}
      /\ \A m \in DOMAIN t.index : t.index[m] = s.index[m]
      /\ \A j \in NS!Live(t) : t.files[j] = s.files[j]
      /\ t.next_inode = s.next_inode /\ t.buffer = s.buffer /\ t.logged = s.logged
      /\ t.doubled = s.doubled /\ s.excused \subseteq t.excused
      /\ ~t.inode[slot].used /\ \A m \in Slot : m # slot => t.inode[m] = s.inode[m]
  BY DEF UnenteredIs, i, slot
<1>4. IsHome(t, h)
  BY <1>1, <1>3 DEF IsHome
<1>5. NameSlots(t) \subseteq NameSlots(s) \ {slot}
  BY <1>1, <1>2, <1>3 DEF NameSlots, NamesApart, slot
<1>6. Homes(t, h, NameSlots(t))
  BY <1>1, <1>3, <1>5 DEF Homes, Good, NS!is_valid
<1>7. NamesApart(t)
  BY <1>1, <1>3 DEF NamesApart
<1>8. ASSUME NEW m \in DOMAIN t.index PROVE IsEntry(t, m)
  <2>1. m \in DOMAIN s.index /\ m # k /\ IsEntry(s, m) /\ t.index[m] = s.index[m]
    BY <1>1, <1>3 DEF Agree
  <2>2. s.index[m].ino # i
    BY <1>2, <2>1 DEF IsEntry, i
  <2> QED
    BY <1>3, <2>1, <2>2 DEF IsEntry
<1>9. NS!Reached(s) \subseteq NS!Reached(t) \cup {i}
  <2> DEFINE R == NS!Reached(t)
  <2>1. /\ IsFiniteSet(NS!Live(t)) /\ NS!Root \notin NS!Live(t) /\ IsFiniteSet(NS!Live(s))
        /\ NS!Root \notin NS!Live(s) /\ \A j \in NS!Live(s) : j > 1 /\ j \in Nat
    BY <1>1, <1>3, <1>4, MountFinite DEF Homes
  <2>2. IsPath(t, R)
    BY <2>1, ReachedIs
  <2> HIDE DEF R
  <2>3. ASSUME NEW j \in NS!Live(s), s.files[j].parent \in R \cup {i}, Followed(s, j), j # i
        PROVE  j \in R
    <3>1. s.files[j].parent # i /\ s.files[j].parent \in R
      BY <2>3 DEF i
    <3>2. j \in NS!Live(t) /\ t.files[j] = s.files[j]
      BY <1>3, <2>3
    <3> DEFINE m == <<s.files[j].parent, s.files[j].name>>
    <3>3. m \in DOMAIN s.index /\ s.index[m].ino = j /\ NS!IsDir(s, s.files[j].parent)
      BY <2>1, <2>3, FollowedIs
    <3>4. m # k
      BY <2>3, <3>3 DEF i
    <3>5. m \in DOMAIN t.index /\ t.index[m] = s.index[m]
      BY <1>3, <3>3, <3>4
    <3>6. NS!IsDir(t, t.files[j].parent)
      BY <1>3, <3>1, <3>2, <3>3 DEF NS!IsDir
    <3>7. NS!lookup(t, t.files[j].parent, t.files[j].name) = NS!lookup(s, s.files[j].parent, s.files[j].name)
      BY <3>2, <3>3, <3>5 DEF NS!lookup
    <3>8. Followed(t, j)
      BY <2>3, <3>6, <3>7 DEF Followed
    <3> QED
      BY <2>2, <3>1, <3>2, <3>8 DEF IsPath
  <2>4. IsPath(s, R \cup {i})
    BY <2>2, <2>3 DEF IsPath
  <2> QED
    BY <2>1, <2>4, ReachedIs DEF R
<1>10. Found(t)
  BY <1>1, <1>3, <1>9 DEF Found
<1> QED
  BY <1>3, <1>4, <1>6, <1>7, <1>8, <1>10 DEF IsIn, IsMount, Agree

\* unlink: what is removed is no directory.
LEMMA UnlinkIn ==
  ASSUME NameSetting, NEW h, IsIn(ns, h), NEW d, NEW n, NS!Unlink(d, n)
  PROVE  IsIn(ns', h) /\ mode' = mode
<1> DEFINE k == <<d, n>>
           i == ns.index[k].ino
           t == NS!Removed(ns, d, n, i)
<1>1. k \in DOMAIN ns.index /\ ~ns.index[k].dir /\ ns' = NS!unlink(ns, d, n) /\ mode' = mode
  BY DEF NS!Unlink, NS!Entry, NS!Request
<1>2. IsNames(ns) /\ IsEntry(ns, k) /\ i \in NS!Live(ns) /\ i \in Nat /\ i > 1
  <2>1. IsEntry(ns, k)
    BY <1>1 DEF IsIn, IsMount, Agree
  <2>2. i \in NS!Live(ns)
    BY <2>1 DEF IsEntry
  <2> QED
    BY <2>1, <2>2, MountFinite DEF IsIn, IsMount, Homes
<1>3. UnenteredIs(ns, t, i, k)
  BY <1>2, RemovedIs
<1>4. ASSUME NEW j \in NS!Live(ns), ns.files[j].parent = i PROVE ~Followed(ns, j)
  BY <1>1, <1>2, <1>4 DEF Followed, NS!IsDir, IsEntry, NS!Root
<1>5. ns' = [t EXCEPT !.cached = @ \ {i}]
  BY <1>1 DEF NS!unlink
<1> HIDE DEF t
<1>6. IsIn(t, h)
  BY <1>1, <1>3, <1>4, FreedIn
<1>7. IsNames(t) /\ IsHome(t, h) /\ t.cached \ {i} \in SUBSET Nat
  BY <1>6 DEF IsIn, IsMount, IsNames
<1>8. Stays(t, ns', h)
  BY <1>5, <1>7, CachedStays
<1> QED
  BY <1>1, <1>6, <1>8, StaysIn

\* rmdir: what is removed is a directory that has nothing.
LEMMA RmdirIn ==
  ASSUME NameSetting, NEW h, IsIn(ns, h), NEW d, NEW n, NS!Rmdir(d, n)
  PROVE  IsIn(ns', h) /\ mode' = mode
<1> DEFINE k == <<d, n>>
           i == ns.index[k].ino
           t == NS!Removed(ns, d, n, i)
<1>1. k \in DOMAIN ns.index /\ NS!EmptyDir(ns, i) /\ ns' = t /\ mode' = mode
  BY DEF NS!Rmdir, NS!Entry, NS!Request, NS!rmdir
<1>2. IsNames(ns) /\ i \in NS!Live(ns) /\ \A j \in NS!Live(ns) : j \in Nat /\ j > 1
  <2>1. i \in NS!Live(ns)
    BY <1>1 DEF IsIn, IsMount, Agree, IsEntry
  <2> QED
    BY <2>1, MountFinite DEF IsIn, IsMount, Homes
<1>3. UnenteredIs(ns, t, i, k)
  BY <1>2, RemovedIs
<1>4. ASSUME NEW j \in NS!Live(ns), ns.files[j].parent = i PROVE ~Followed(ns, j)
  <2> DEFINE m == <<ns.files[j].parent, ns.files[j].name>>
  <2>1. Followed(ns, j) => m \in DOMAIN ns.index
    BY <1>2, FollowedIs, SMTT(30)
  <2>2. m \in DOMAIN ns.index => m \in NS!list_dir(ns, i)
    BY <1>4 DEF NS!list_dir
  <2> QED
    BY <1>1, <2>1, <2>2 DEF NS!EmptyDir
<1> HIDE DEF t
<1> QED
  BY <1>1, <1>3, <1>4, FreedIn

\* The slot found is a free one.
LEMMA SlotAlloc ==
  ASSUME NameSetting, NEW s, NS!FreeSlots(s) # {}
  PROVE  NS!alloc_inode(s) \in NS!FreeSlots(s)
<1>1. NS!FreeSlots(s) \in SUBSET Nat
  BY DEF NameSetting, NS!FreeSlots
<1>2. \E m \in NS!FreeSlots(s) : \A k \in NS!FreeSlots(s) : m <= k
  BY <1>1, Least
<1> QED
  BY <1>2 DEF NS!alloc_inode

\* A file entered, but not recorded yet: it is a mount, but for the new file's slot.
EnteredIs(s, t, i, k, slot) ==
  /\ IsNames(t) /\ DOMAIN t.index = DOMAIN s.index \cup {k} /\ NS!Live(t) = NS!Live(s) \cup {i}
  /\ \A m \in DOMAIN s.index : m # k => t.index[m] = s.index[m]
  /\ \A j \in NS!Live(s) : j # i => t.files[j] = s.files[j]
  /\ t.index[k].ino = i /\ t.index[k].slot = slot /\ t.files[i].dir = t.index[k].dir
  /\ t.files[i].slot = slot /\ t.files[i].parent = k[1] /\ t.files[i].name = k[2]
  /\ t.next_inode = i + 1 /\ t.buffer = s.buffer /\ t.inode = s.inode /\ t.logged = s.logged
  /\ t.doubled = s.doubled /\ t.excused = s.excused

\* A file entered by create or mkdir.
LEMMA EnteredAre ==
  ASSUME NameSetting, NEW s, IsNames(s), NS!FreeSlots(s) # {}, NEW d \in Nat, NEW n \in NS!Name,
         NEW dir \in BOOLEAN
  PROVE  EnteredIs(s, NS!Entered(s, d, n, dir), s.next_inode, <<d, n>>, NS!alloc_inode(s))
<1> DEFINE k == <<d, n>>
           slot == NS!alloc_inode(s)
           i == s.next_inode
           e == [ino |-> i, dir |-> dir, slot |-> slot]
           v == [name |-> n, parent |-> d, dir |-> dir, slot |-> slot, dirty |-> ~dir]
           x == NS!With(s.index, k, e)
           f == NS!With(s.files, i, v)
           t == [s EXCEPT !.next_inode = i + 1, !.index = x, !.files = f]
<1>1. slot \in Slot /\ i \in Nat /\ k \in Keys
  BY SlotAlloc DEF NS!FreeSlots, IsNames, Keys
<1>2. NS!Entered(s, d, n, dir) = t
  BY DEF NS!Entered
<1> HIDE DEF slot, k
<1>3. e \in Entries /\ v \in FileRecords
  BY <1>1 DEF Entries, FileRecords
<1>4. e.ino = i /\ e.slot = slot /\ v.dir = e.dir /\ v.slot = slot /\ v.parent = k[1] /\ v.name = k[2]
  BY DEF k
<1> HIDE DEF e, v
<1>5. /\ DOMAIN x = DOMAIN s.index \cup {k} /\ x[k] = e
      /\ \A y \in DOMAIN s.index : y # k => x[y] = s.index[y]
      /\ \A D, V : IsMap(s.index, D, V) /\ k \in D /\ e \in V => IsMap(x, D, V)
  BY WithIs, Zenon
<1>6. /\ DOMAIN f = DOMAIN s.files \cup {i} /\ f[i] = v
      /\ \A y \in DOMAIN s.files : y # i => f[y] = s.files[y]
      /\ \A D, V : IsMap(s.files, D, V) /\ i \in D /\ v \in V => IsMap(f, D, V)
  BY WithIs, Zenon
<1> HIDE DEF x, f
<1>7. IsMap(x, Keys, Entries) /\ IsMap(f, Nat, FileRecords) /\ i + 1 \in Nat
  BY <1>1, <1>3, <1>5, <1>6 DEF IsNames
<1>8. /\ IsNames(t) /\ t.index = x /\ t.files = f /\ t.inode = s.inode /\ t.logged = s.logged
      /\ t.next_inode = i + 1 /\ t.buffer = s.buffer /\ t.doubled = s.doubled
      /\ t.excused = s.excused
  BY <1>7 DEF IsNames, HasNames
<1> HIDE DEF t
<1> QED
  BY <1>2, <1>4, <1>5, <1>6, <1>8 DEF EnteredIs, NS!Live, slot, k

\* Then all is as in a mount, but that the new file's slot is not recorded yet.
LEMMA EnteredIn ==
  ASSUME NEW s, NEW h, IsIn(s, h), s.next_inode > 1, NEW k, k \notin DOMAIN s.index,
         ~(k[1] = NS!Root /\ k[2] \in Virtual), k[1] \in NS!Dirs(s), k = <<k[1], k[2]>>,
         NEW slot \in NS!FreeSlots(s), NEW t, EnteredIs(s, t, s.next_inode, k, slot)
  PROVE  LET g == NS!With(h, s.next_inode, slot)
         IN  IsMount(t, g, NameSlots(s)) /\ NameSlots(t) = NameSlots(s) \cup {slot}
<1> DEFINE i == s.next_inode
           g == NS!With(h, i, slot)
<1>1. IsNames(s) /\ IsHome(s, h) /\ Homes(s, h, NameSlots(s)) /\ NamesApart(s) /\ Agree(s) /\ Found(s)
  BY DEF IsIn, IsMount
<1>2. i \in Nat /\ i > 1 /\ slot \in Slot /\ i \notin DOMAIN h
  BY <1>1 DEF IsNames, NS!FreeSlots, Homes
<1>17. g = [y \in DOMAIN h \cup {i} |-> IF y = i THEN slot ELSE h[y]]
  BY DEF NS!With
<1> HIDE DEF g, i
<1>3. /\ DOMAIN g = DOMAIN h \cup {i} /\ g[i] = slot /\ \A y \in DOMAIN h : g[y] = h[y]
      /\ g = [y \in DOMAIN g |-> g[y]]
  BY <1>2, <1>17
<1>4. i \notin NS!Live(s) /\ slot \notin NameSlots(s)
  <2>1. i \notin NS!Live(s)
    BY <1>1, <1>2 DEF IsHome
  <2>2. ~s.inode[slot].used
    BY DEF NS!FreeSlots
  <2> QED
    BY <1>1, <1>2, <2>1, <2>2 DEF Homes, Placed
<1>5. /\ IsNames(t) /\ DOMAIN t.index = DOMAIN s.index \cup {k} /\ NS!Live(t) = NS!Live(s) \cup {i}
      /\ \A m \in DOMAIN s.index : t.index[m] = s.index[m]
      /\ \A j \in NS!Live(s) : t.files[j] = s.files[j]
      /\ t.index[k].ino = i /\ t.index[k].slot = slot /\ t.files[i].dir = t.index[k].dir
      /\ t.files[i].slot = slot /\ t.files[i].parent = k[1] /\ t.files[i].name = k[2]
      /\ t.next_inode = i + 1 /\ t.buffer = s.buffer /\ t.inode = s.inode /\ t.logged = s.logged
      /\ t.doubled = s.doubled /\ t.excused = s.excused
  BY <1>4 DEF EnteredIs, i
<1>6. IsHome(t, g)
  BY <1>1, <1>2, <1>3, <1>5 DEF IsHome
<1>7. \A r, m : Placed(r, m, h) => Placed(r, m, g)
  BY <1>3 DEF Placed
<1>8. Homes(t, g, NameSlots(s))
  <2>1. \A j \in DOMAIN g : j > 1 /\ j < t.next_inode
    <3>1. \A j \in DOMAIN h : j \in Nat /\ j > 1 /\ j < i
      BY <1>1 DEF Homes, IsHome, i
    <3> QED
      BY <1>2, <1>3, <1>5, <3>1
  <2> QED
    BY <1>1, <1>5, <1>7, <2>1 DEF Homes
<1>9. NamesApart(t)
  <2>1. \A j \in NS!Live(s) : s.files[j].slot # slot
    BY <1>4 DEF NameSlots
  <2> QED
    BY <1>1, <1>5, <2>1 DEF NamesApart
<1>10. ASSUME NEW m \in DOMAIN t.index PROVE IsEntry(t, m)
  <2>1. CASE m = k
    BY <1>5, <2>1 DEF IsEntry
  <2>2. CASE m # k
    <3>1. m \in DOMAIN s.index /\ IsEntry(s, m)
      BY <1>1, <1>5, <2>2 DEF Agree
    <3> QED
      BY <1>5, <3>1 DEF IsEntry
  <2> QED
    BY <2>1, <2>2
<1>11. NameSlots(t) = NameSlots(s) \cup {slot}
  BY <1>5 DEF NameSlots
<1> DEFINE R == NS!Reached(t)
<1>12. /\ IsFiniteSet(NS!Live(t)) /\ NS!Root \notin NS!Live(t) /\ IsFiniteSet(NS!Live(s))
       /\ NS!Root \notin NS!Live(s) /\ \A j \in NS!Live(t) : j > 1 /\ j \in Nat
  BY <1>1, <1>5, <1>6, <1>8, MountFinite DEF Homes
<1>13. IsPath(t, R)
  BY <1>12, ReachedIs
<1> HIDE DEF R
<1>14. NS!Reached(s) \subseteq R
  <2>1. ASSUME NEW j \in NS!Live(s), s.files[j].parent \in R, Followed(s, j) PROVE j \in R
    <3> DEFINE m == <<s.files[j].parent, s.files[j].name>>
    <3>1. m \in DOMAIN s.index /\ s.index[m].ino = j /\ NS!IsDir(s, s.files[j].parent)
      BY <1>12, <1>5, <2>1, FollowedIs
    <3>2. j \in NS!Live(t) /\ t.files[j] = s.files[j] /\ m \in DOMAIN t.index /\ t.index[m] = s.index[m]
      BY <1>5, <3>1
    <3>3. NS!IsDir(t, t.files[j].parent)
      BY <1>5, <3>1, <3>2 DEF NS!IsDir
    <3>4. Followed(t, j)
      BY <2>1, <3>1, <3>2, <3>3 DEF Followed, NS!lookup
    <3> QED
      BY <1>13, <2>1, <3>2, <3>4 DEF IsPath
  <2>2. IsPath(s, R)
    BY <1>13, <2>1 DEF IsPath
  <2> QED
    BY <1>12, <2>2, ReachedIs
<1>15. i \in R
  <2>1. k[1] \in R /\ NS!IsDir(t, k[1])
    <3>1. k[1] \in NS!Reached(s) /\ NS!IsDir(s, k[1])
      BY DEF NS!Dirs
    <3> QED
      BY <1>5, <1>14, <3>1 DEF NS!IsDir
  <2>2. IsEntry(t, k) /\ k \in DOMAIN t.index
    BY <1>5, <1>10
  <2>3. Followed(t, i)
    BY <1>5, <2>1, <2>2, EntryFollowed
  <2> QED
    BY <1>5, <1>13, <2>1, <2>3 DEF IsPath
<1>16. Found(t)
  BY <1>1, <1>5, <1>14, <1>15 DEF Found, R
<1> QED
  BY <1>5, <1>6, <1>8, <1>9, <1>10, <1>11, <1>16 DEF IsMount, Agree, g, i

\* The record of the new file written, its slot is taken.
LEMMA RecordedIn ==
  ASSUME NameSetting, NEW s, NEW h, NEW H, IsMount(s, h, H), NEW i \in NS!Live(s),
         NameSlots(s) = H \cup {s.files[i].slot}
  PROVE  IsIn(NS!Recorded(s, i), h)
<1> DEFINE f == s.files[i]
           r == NS!Record(i, f.parent, f.name, f.dir)
           t == NS!write_inode(s, h[i], r)
<1>1. IsNames(s) /\ IsHome(s, h)
  BY DEF IsMount
<1>2. i \in Nat /\ f \in FileRecords /\ i \in DOMAIN h /\ h[i] = f.slot /\ h[i] \in Slot
  BY <1>1 DEF IsNames, IsMap, IsHome, NS!Live
<1>3. NS!Recorded(s, i) = t
  BY <1>2 DEF NS!Recorded
<1> HIDE DEF f
<1>4. r \in Records /\ r.used /\ r.ino = i
  BY <1>2, RecordIs DEF FileRecords
<1> HIDE DEF r
<1>5. Stays(s, t, h)
  BY <1>1, <1>2, <1>4, WriteStays
<1>6. IsWritten(s, t, h[i], r)
  BY <1>1, <1>2, <1>4, WrittenIs
<1> HIDE DEF t
<1>7. IsMount(t, h, H) /\ NameSlots(t) = H \cup {h[i]}
  BY <1>2, <1>5, StaysMount DEF f
<1>8. Placed(t.inode[h[i]], h[i], h) /\ Placed(t.logged[h[i]], h[i], h)
  BY <1>2, <1>4, <1>6 DEF IsWritten, Placed
<1>9. Homes(t, h, NameSlots(t))
  BY <1>2, <1>7, <1>8 DEF IsMount, Homes
<1> QED
  BY <1>3, <1>7, <1>9 DEF IsIn, IsMount

\* A directory has a number.
LEMMA DirIs ==
  ASSUME NEW s, NEW h, IsIn(s, h), NEW d \in NS!Dirs(s)
  PROVE  d \in Nat
BY DEF NS!Dirs, NS!IsDir, NS!Root, IsIn, IsMount, IsNames, IsMap, NS!Live

\* create.
LEMMA CreateIn ==
  ASSUME NameSetting, NEW h, IsIn(ns, h), NEW d \in NS!Dirs(ns), NEW n \in ns.names, NS!Create(d, n)
  PROVE  \E g : IsIn(ns', g) /\ mode' = mode
<1> DEFINE i == ns.next_inode
           k == <<d, n>>
           slot == NS!alloc_inode(ns)
           e == NS!Entered(ns, d, n, FALSE)
           g == NS!With(h, i, slot)
<1>1. PICK t \in NS!cache_insert(e, i) : NS!Journaled(NS!Recorded(t, i))
  BY DEF NS!Create
<1>2. k \notin DOMAIN ns.index /\ ~(d = NS!Root /\ n \in Virtual) /\ NS!FreeSlots(ns) # {}
      /\ i \in NameIno
  BY DEF NS!Create, NS!Vacant, NS!Entry, NS!Room
<1>3. IsNames(ns) /\ i \in Nat /\ i > 1 /\ d \in Nat /\ n \in NS!Name
  BY <1>2, DirIs DEF IsIn, IsMount, IsNames, NameSetting
<1>4. EnteredIs(ns, e, i, k, slot) /\ slot \in NS!FreeSlots(ns)
  BY <1>2, <1>3, EnteredAre, SlotAlloc
<1>5. k[1] = d /\ k[2] = n
  OBVIOUS
<1> HIDE DEF e, k, slot
<1>6. IsMount(e, g, NameSlots(ns)) /\ NameSlots(e) = NameSlots(ns) \cup {slot} /\ i \in NS!Live(e) /\ e.files[i].slot = slot
  <2>1. k[1] \in NS!Dirs(ns) /\ k = <<k[1], k[2]>>
    BY <1>5 DEF k
  <2>2. IsMount(e, g, NameSlots(ns)) /\ NameSlots(e) = NameSlots(ns) \cup {slot}
    BY <1>2, <1>3, <1>4, <1>5, <2>1, EnteredIn
  <2> QED
    BY <1>4, <2>2 DEF EnteredIs
<1> HIDE DEF g
<1>7. Stays(e, t, g)
  BY <1>1, <1>3, <1>6, InsertStays DEF IsMount
<1>8. IsMount(t, g, NameSlots(ns)) /\ NameSlots(t) = NameSlots(e)
  BY <1>6, <1>7, StaysMount
<1>9. i \in NS!Live(t) /\ t.files[i].slot = slot
  BY <1>6, <1>7 DEF Stays, SameFile, NS!Live
<1>10. IsIn(NS!Recorded(t, i), g)
  BY <1>6, <1>8, <1>9, RecordedIn
<1> QED
  BY <1>1, <1>10, JournaledIn

\* mkdir.
LEMMA MkdirIn ==
  ASSUME NameSetting, NEW h, IsIn(ns, h), NEW d \in NS!Dirs(ns), NEW n \in ns.names, NS!Mkdir(d, n)
  PROVE  \E g : IsIn(ns', g) /\ mode' = mode
<1> DEFINE i == ns.next_inode
           k == <<d, n>>
           slot == NS!alloc_inode(ns)
           e == NS!Entered(ns, d, n, TRUE)
           g == NS!With(h, i, slot)
<1>1. NS!Journaled(NS!Recorded(e, i))
  BY DEF NS!Mkdir
<1>2. k \notin DOMAIN ns.index /\ ~(d = NS!Root /\ n \in Virtual) /\ NS!FreeSlots(ns) # {}
      /\ i \in NameIno
  BY DEF NS!Mkdir, NS!Vacant, NS!Entry, NS!Room
<1>3. IsNames(ns) /\ i \in Nat /\ i > 1 /\ d \in Nat /\ n \in NS!Name
  BY <1>2, DirIs DEF IsIn, IsMount, IsNames, NameSetting
<1>4. EnteredIs(ns, e, i, k, slot) /\ slot \in NS!FreeSlots(ns)
  BY <1>2, <1>3, EnteredAre, SlotAlloc
<1>5. k[1] = d /\ k[2] = n
  OBVIOUS
<1> HIDE DEF e, k, slot
<1>6. IsMount(e, g, NameSlots(ns)) /\ NameSlots(e) = NameSlots(ns) \cup {slot} /\ i \in NS!Live(e) /\ e.files[i].slot = slot
  <2>1. k[1] \in NS!Dirs(ns) /\ k = <<k[1], k[2]>>
    BY <1>5 DEF k
  <2>2. IsMount(e, g, NameSlots(ns)) /\ NameSlots(e) = NameSlots(ns) \cup {slot}
    BY <1>2, <1>3, <1>4, <1>5, <2>1, EnteredIn
  <2> QED
    BY <1>4, <2>2 DEF EnteredIs
<1> HIDE DEF g
<1>10. IsIn(NS!Recorded(e, i), g)
  BY <1>6, RecordedIn
<1> QED
  BY <1>1, <1>10, JournaledIn

-----------------------------------------------------------------------------
\* A file renamed in the table of files.
FileAt(f, i, n, d) == [f EXCEPT ![i].name = n, ![i].parent = d, ![i].dirty = TRUE]
\* A file with another name and parent is the same otherwise.
LEMMA FileRenamed ==
  ASSUME NEW f, IsMap(f, Nat, FileRecords), NEW i \in DOMAIN f, NEW n \in NS!Name, NEW d \in Nat
  PROVE  LET g == FileAt(f, i, n, d)
         IN  /\ IsMap(g, Nat, FileRecords) /\ DOMAIN g = DOMAIN f
             /\ \A j \in DOMAIN f : j # i => g[j] = f[j]
             /\ g[i].name = n /\ g[i].parent = d /\ g[i].dir = f[i].dir /\ g[i].slot = f[i].slot
<1> DEFINE v == [f[i] EXCEPT !.name = n, !.parent = d, !.dirty = TRUE]
           g == [f EXCEPT ![i] = v]
           q == FileAt(f, i, n, d)
<1>1. v \in FileRecords /\ v.name = n /\ v.parent = d /\ v.dir = f[i].dir /\ v.slot = f[i].slot
  BY DEF IsMap, FileRecords
<1>2. q = g
  BY DEF IsMap, FileAt
<1> HIDE DEF v, q
<1>3. DOMAIN g = DOMAIN f /\ g = [j \in DOMAIN g |-> g[j]]
      /\ \A j \in DOMAIN f : g[j] = IF j = i THEN v ELSE f[j]
  BY DEF IsMap
<1> HIDE DEF g
<1>4. IsMap(g, Nat, FileRecords)
  BY <1>1, <1>3 DEF IsMap
<1>5. /\ IsMap(q, Nat, FileRecords) /\ DOMAIN q = DOMAIN f
      /\ \A j \in DOMAIN f : j # i => q[j] = f[j]
      /\ q[i].name = n /\ q[i].parent = d /\ q[i].dir = f[i].dir /\ q[i].slot = f[i].slot
  BY <1>1, <1>2, <1>3, <1>4
<1> QED
  BY <1>5 DEF q

\* A file renamed, from k to q.
Replaced(s, q) == IF q \in DOMAIN s.index THEN NS!Below(s, s.index[q].ino) ELSE {}
RenamedIs(s, t, i, k, q, slot) ==
  /\ IsNames(t) /\ DOMAIN t.index = (DOMAIN s.index \ {k}) \cup {q} /\ t.index[q] = s.index[k]
  /\ \A m \in DOMAIN s.index : m \notin {k, q} => t.index[m] = s.index[m]
  /\ NS!Live(t) = NS!Live(s) /\ \A j \in NS!Live(s) : j # i => t.files[j] = s.files[j]
  /\ t.files[i].parent = q[1] /\ t.files[i].name = q[2] /\ t.files[i].dir = s.files[i].dir
  /\ t.files[i].slot = s.files[i].slot
  /\ t.next_inode = s.next_inode /\ t.buffer = s.buffer /\ t.doubled = s.doubled
  /\ t.inode[slot].used = s.inode[slot].used /\ t.inode[slot].ino = s.inode[slot].ino
  /\ t.logged[slot] = t.inode[slot]
  /\ \A m \in Slot : m # slot => t.inode[m] = s.inode[m] /\ t.logged[m] = s.logged[m]
  /\ s.excused \subseteq t.excused /\ Replaced(s, q) \subseteq t.excused
  /\ (q[1] = NS!Root /\ q[2] \in Virtual => i \in t.excused)

\* What rename does to entries, files and slots.
LEMMA RenamedAre ==
  ASSUME NameSetting, {"replaced", "shadowed"} \subseteq Lost,
         NEW s, IsNames(s), IsFiniteSet(NS!Live(s)), Agree(s), NEW d, NEW n, NEW e \in Nat,
         NEW m \in NS!Name, <<d, n>> \in DOMAIN s.index
  PROVE  LET x == s.index[<<d, n>>]
         IN  RenamedIs(s, NS!rename(s, d, n, e, m), x.ino, <<d, n>>, <<e, m>>, x.slot)
<1> DEFINE k == <<d, n>>
           q == <<e, m>>
           x == s.index[k]
           i == x.ino
           slot == x.slot
           w == NS!Without(s.index, k)
           z == NS!With(w, q, x)
           moved == [s EXCEPT !.index = z]
           lost == Replaced(s, q)
           shade == IF e = NS!Root /\ m \in Virtual THEN {i} ELSE {}
           one == NS!Excused(moved, "replaced", lost)
           two == NS!Excused(one, "shadowed", shade)
           f == FileAt(s.files, i, m, e)
           three == [two EXCEPT !.files = f]
           r == [s.inode[slot] EXCEPT !.parent = e, !.name = NameKept[m]]
           t == NS!write_inode(three, slot, r)
<1>1. x \in Entries /\ i \in NS!Live(s) /\ i \in Nat /\ slot \in Slot /\ q \in Keys
  BY DEF IsNames, IsMap, Entries, Agree, IsEntry, Keys, NS!Live
<1>2. lost \in SUBSET Nat
  <2>1. CASE q \in DOMAIN s.index
    <3>1. s.index[q].ino \in Nat
      BY <2>1 DEF IsNames, IsMap, Entries
    <3>2. NS!Live(s) \in SUBSET Nat
      BY DEF IsNames, IsMap, NS!Live
    <3>3. NS!Below(s, s.index[q].ino) \subseteq NS!Live(s) \cup {s.index[q].ino}
      BY BelowIs
    <3> QED
      BY <2>1, <3>1, <3>2, <3>3 DEF Replaced
  <2>2. CASE q \notin DOMAIN s.index
    BY <2>2 DEF Replaced
  <2> QED
    BY <2>1, <2>2
<1>3. shade \in SUBSET Nat
  BY <1>1
<1>4. NS!rename(s, d, n, e, m) = NS!write_inode(NS!RenamedInMemory(two, i, e, m), slot, r)
  BY DEF NS!rename, Replaced
<1>5. /\ IsMap(f, Nat, FileRecords) /\ DOMAIN f = DOMAIN s.files
      /\ \A j \in DOMAIN s.files : j # i => f[j] = s.files[j]
      /\ f[i].name = m /\ f[i].parent = e /\ f[i].dir = s.files[i].dir /\ f[i].slot = s.files[i].slot
  <2>1. IsMap(s.files, Nat, FileRecords) /\ i \in DOMAIN s.files
    BY <1>1 DEF IsNames, NS!Live
  <2> HIDE DEF i
  <2> QED
    BY <2>1, FileRenamed
<1>6. r \in Records /\ r.used = s.inode[slot].used /\ r.ino = s.inode[slot].ino
  <2> DEFINE p == s.inode[slot]
  <2>1. p \in Records /\ NameKept[m] \in Words
    BY <1>1 DEF IsNames, NameSetting
  <2>2. r = [p EXCEPT !.parent = e, !.name = NameKept[m]]
    OBVIOUS
  <2> HIDE DEF p, r
  <2>3. r \in Records /\ r.used = p.used /\ r.ino = p.ino
    BY <2>1, <2>2 DEF Records
  <2> QED
    BY <2>3 DEF p
<1>7. e = q[1] /\ m = q[2]
  OBVIOUS
<1> HIDE DEF lost, r, x, k, q
<1>8. /\ DOMAIN w = DOMAIN s.index \ {k} /\ (\A y \in DOMAIN w : w[y] = s.index[y])
      /\ \A D, V : IsMap(s.index, D, V) => IsMap(w, D, V)
  BY WithoutIs, Zenon
<1> HIDE DEF w
<1>9. /\ DOMAIN z = DOMAIN w \cup {q} /\ z[q] = x
      /\ \A y \in DOMAIN w : y # q => z[y] = w[y]
      /\ \A D, V : IsMap(w, D, V) /\ q \in D /\ x \in V => IsMap(z, D, V)
  BY WithIs, Zenon
<1> HIDE DEF z
<1>10. IsMap(z, Keys, Entries)
  BY <1>1, <1>8, <1>9 DEF IsNames
<1>11. /\ IsNames(moved) /\ moved.index = z /\ moved.files = s.files /\ moved.inode = s.inode
       /\ moved.logged = s.logged /\ moved.next_inode = s.next_inode /\ moved.buffer = s.buffer
       /\ moved.doubled = s.doubled /\ moved.excused = s.excused
  BY <1>10 DEF IsNames, HasNames
<1> HIDE DEF moved, shade
<1>12. one = [moved EXCEPT !.excused = one.excused] /\ IsNames(one)
       /\ moved.excused \subseteq one.excused /\ lost \subseteq one.excused
  BY <1>2, <1>11, ExcusedIs DEF IsNames
<1>13. two = [one EXCEPT !.excused = two.excused] /\ IsNames(two)
       /\ one.excused \subseteq two.excused /\ shade \subseteq two.excused
  <2> HIDE DEF one
  <2> QED
    BY <1>3, <1>12, ExcusedIs DEF IsNames
<1> HIDE DEF one, two
<1>14. /\ IsNames(two) /\ two.index = z /\ two.files = s.files /\ two.inode = s.inode
       /\ two.logged = s.logged /\ two.next_inode = s.next_inode /\ two.buffer = s.buffer
       /\ two.doubled = s.doubled /\ s.excused \subseteq two.excused /\ lost \subseteq two.excused
       /\ shade \subseteq two.excused
  <2>1. /\ one.index = z /\ one.files = s.files /\ one.inode = s.inode
        /\ one.logged = s.logged /\ one.next_inode = s.next_inode /\ one.buffer = s.buffer
        /\ one.doubled = s.doubled
    BY <1>11, <1>12 DEF IsNames, HasNames
  <2> QED
    BY <1>11, <1>12, <1>13, <2>1 DEF IsNames, HasNames
<1>15. NS!RenamedInMemory(two, i, e, m) = three
  BY <1>14 DEF NS!RenamedInMemory, FileAt
<1> HIDE DEF f
<1>16. /\ IsNames(three) /\ three.index = z /\ three.files = f /\ three.inode = s.inode
       /\ three.logged = s.logged /\ three.next_inode = s.next_inode /\ three.buffer = s.buffer
       /\ three.doubled = s.doubled /\ three.excused = two.excused
  BY <1>5, <1>14 DEF IsNames, HasNames
<1> HIDE DEF three
<1>17. IsWritten(three, t, slot, r)
  BY <1>1, <1>6, <1>16, WrittenIs
<1> HIDE DEF t
<1>18. /\ IsNames(t) /\ t.index = z /\ t.files = f /\ t.next_inode = s.next_inode
       /\ t.buffer = s.buffer /\ t.doubled = s.doubled /\ t.excused = two.excused
       /\ t.inode[slot] = r /\ t.logged[slot] = r
       /\ \A y \in Slot : y # slot => t.inode[y] = s.inode[y] /\ t.logged[y] = s.logged[y]
  BY <1>16, <1>17, ZenonT(40) DEF IsWritten, IsNames, HasNames
<1>19. q[1] = NS!Root /\ q[2] \in Virtual => i \in two.excused
  BY <1>7, <1>14 DEF shade
<1>20. RenamedIs(s, t, i, k, q, slot)
  BY <1>1, <1>5, <1>6, <1>7, <1>8, <1>9, <1>14, <1>18, <1>19 DEF RenamedIs, NS!Live, lost, x
<1>21. t = NS!rename(s, d, n, e, m)
  BY <1>4, <1>15 DEF t
<1> QED
  BY <1>20, <1>21 DEF x, k, q

\* What is below i is i, or in a directory that is.
LEMMA BelowParents ==
  ASSUME NEW s, IsFiniteSet(NS!Live(s)), NEW i, NEW j \in NS!Below(s, i), j # i
  PROVE  s.files[j].parent \in NS!Below(s, i)
<1> DEFINE B == NS!Below(s, i)
           T == {i} \cup {y \in B : y \in NS!Live(s) /\ s.files[y].parent \in B}
<1>1. IsTree(s, i, B)
  BY BelowIs
<1> HIDE DEF B
<1>2. IsTree(s, i, T)
  BY <1>1 DEF IsTree
<1> HIDE DEF T
<1>3. B \subseteq T
  BY <1>2, BelowIs DEF B
<1>4. j \in T
  BY <1>3 DEF B
<1> QED
  BY <1>4 DEF T, B

\* What is reached is not below what it holds.
LEMMA NotBelowOwn ==
  ASSUME NEW s, IsFiniteSet(NS!Live(s)), NS!Root \notin NS!Live(s), NEW u \in NS!Live(s),
         s.files[u].parent \in NS!Reached(s)
  PROVE  s.files[u].parent \notin NS!Below(s, u)
<1> DEFINE B == NS!Below(s, u)
           R == NS!Reached(s)
           C == R \ B
<1>1. IsPath(s, R)
  BY ReachedIs
<1>2. B \subseteq NS!Live(s) \cup {u}
  BY BelowIs
<1>3. \A j \in B : j # u => s.files[j].parent \in B
  BY BelowParents
<1> HIDE DEF B, R
<1>4. SUFFICES ASSUME s.files[u].parent \in B PROVE FALSE
  BY DEF B
<1>5. IsPath(s, C)
  BY <1>1, <1>2, <1>3, <1>4 DEF IsPath
<1> HIDE DEF C
<1>6. R \subseteq C
  BY <1>5, ReachedIs DEF R
<1> QED
  BY <1>4, <1>6 DEF C, R

\* What was reached still is, through the new entry if it was through the old one.
LEMMA RenamedFound ==
  ASSUME NEW s, NEW h, IsIn(s, h), NEW k \in DOMAIN s.index, NEW q, q # k, q = <<q[1], q[2]>>, NEW t,
         RenamedIs(s, t, s.index[k].ino, k, q, s.index[k].slot), q[1] \in NS!Dirs(s),
         q[1] \notin NS!Below(s, s.index[k].ino), IsEntry(t, q),
         q[1] = NS!Root /\ q[2] \in Virtual => ~s.index[k].dir
  PROVE  Found(t)
<1> DEFINE i == s.index[k].ino
           R == NS!Reached(t)
           L == Replaced(s, q)
           B == NS!Below(s, i)
           Hidden == q[1] = NS!Root /\ q[2] \in Virtual
<1>1. IsNames(s) /\ IsHome(s, h) /\ Homes(s, h, NameSlots(s)) /\ Agree(s) /\ Found(s)
  BY DEF IsIn, IsMount
<1>2. /\ IsFiniteSet(NS!Live(s)) /\ NS!Root \notin NS!Live(s)
      /\ \A j \in NS!Live(s) : j \in Nat /\ j > 1
  BY <1>1, MountFinite DEF Homes
<1>3. IsEntry(s, k) /\ i \in NS!Live(s)
  BY <1>1 DEF Agree, IsEntry
<1>4. /\ DOMAIN t.index = (DOMAIN s.index \ {k}) \cup {q} /\ t.index[q] = s.index[k]
      /\ \A m \in DOMAIN s.index : m \notin {k, q} => t.index[m] = s.index[m]
      /\ NS!Live(t) = NS!Live(s) /\ \A j \in NS!Live(s) : j # i => t.files[j] = s.files[j]
      /\ t.files[i].parent = q[1] /\ t.files[i].name = q[2] /\ t.files[i].dir = s.files[i].dir
      /\ s.excused \subseteq t.excused /\ L \subseteq t.excused
      /\ (Hidden => i \in t.excused)
  BY DEF RenamedIs
<1>5. IsPath(t, R)
  BY <1>2, <1>4, ReachedIs
<1>6. IsTree(s, i, B)
  BY <1>2, BelowIs
<1>7. \A j \in NS!Live(s) : s.files[j].parent \in L => j \in L
  BY <1>2, BelowIs DEF Replaced, IsTree
<1>8. q \in DOMAIN s.index => s.index[q].ino \in L
  BY <1>2, BelowIs DEF Replaced, IsTree
<1>9. \A p : NS!IsDir(s, p) => NS!IsDir(t, p)
  BY <1>3, <1>4 DEF NS!IsDir
<1>10. i = s.index[k].ino
  OBVIOUS
<1> HIDE DEF R, L, B, i
<1>11. ASSUME NEW j \in NS!Live(s), j # i, s.files[j].parent \in R, Followed(s, j), j \notin L
       PROVE  j \in R
  <2> DEFINE m == <<s.files[j].parent, s.files[j].name>>
  <2>1. m \in DOMAIN s.index /\ s.index[m].ino = j /\ NS!IsDir(s, s.files[j].parent)
    BY <1>2, <1>11, FollowedIs
  <2>2. m # k /\ m # q
    BY <1>8, <1>10, <1>11, <2>1
  <2>3. m \in DOMAIN t.index /\ t.index[m] = s.index[m] /\ t.files[j] = s.files[j]
        /\ NS!IsDir(t, t.files[j].parent)
    BY <1>4, <1>9, <1>11, <2>1, <2>2
  <2>4. Followed(t, j)
    BY <1>11, <2>1, <2>3 DEF Followed, NS!lookup
  <2> QED
    BY <1>4, <1>5, <1>11, <2>3, <2>4 DEF IsPath
<1>12. NS!Reached(s) \subseteq (R \cup L) \cup B
  <2>1. \A j \in NS!Live(s) : s.files[j].parent \in B => j \in B
    BY <1>6 DEF IsTree
  <2>2. i \in B
    BY <1>6 DEF IsTree
  <2>3. IsPath(s, (R \cup L) \cup B)
    BY <1>5, <1>7, <1>11, <2>1, <2>2 DEF IsPath
  <2> QED
    BY <1>2, <2>3, ReachedIs
<1>13. q[1] \notin L
  <2>1. CASE q \in DOMAIN s.index
    <3> DEFINE u == s.index[q].ino
    <3>1. u \in NS!Live(s) /\ s.files[u].parent = q[1]
      <4>1. IsEntry(s, q)
        BY <1>1, <2>1 DEF Agree
      <4>2. u \in NS!Live(s) /\ <<s.files[u].parent, s.files[u].name>> = q
        BY <4>1 DEF IsEntry
      <4> QED
        BY <4>2
    <3>2. q[1] \in NS!Reached(s)
      BY DEF NS!Dirs
    <3> HIDE DEF u
    <3>3. q[1] \notin NS!Below(s, u)
      BY <1>2, <3>1, <3>2, NotBelowOwn
    <3> QED
      BY <2>1, <3>3 DEF L, Replaced, u
  <2>2. CASE q \notin DOMAIN s.index
    BY <2>2 DEF L, Replaced
  <2> QED
    BY <2>1, <2>2
<1>14. q[1] \in R /\ NS!IsDir(t, q[1])
  <2>1. q[1] \in NS!Reached(s) /\ NS!IsDir(s, q[1])
    BY DEF NS!Dirs
  <2>2. q[1] \notin B
    BY DEF B, i
  <2> QED
    BY <1>9, <1>12, <1>13, <2>1, <2>2
<1>15. CASE ~Hidden
  <2>1. t.index[q].ino = i /\ q \in DOMAIN t.index
    BY <1>4, <1>10
  <2>2. Followed(t, i)
    BY <1>14, <1>15, <2>1, EntryFollowed
  <2>3. i \in R
    BY <1>3, <1>4, <1>5, <1>14, <2>2 DEF IsPath, i
  <2>4. IsPath(s, R \cup L)
    BY <1>5, <1>7, <1>11, <2>3 DEF IsPath
  <2>5. NS!Reached(s) \subseteq R \cup L
    BY <1>2, <2>4, ReachedIs
  <2> QED
    BY <1>1, <1>4, <2>5 DEF Found, R
<1>16. CASE Hidden
  <2>1. ~NS!IsDir(s, i)
    BY <1>2, <1>3, <1>16 DEF NS!IsDir, IsEntry, i
  <2>2. \A j \in NS!Live(s) : s.files[j].parent = i => ~Followed(s, j)
    BY <2>1 DEF Followed
  <2>3. IsPath(s, (R \cup L) \cup {i})
    BY <1>5, <1>7, <1>11, <2>2 DEF IsPath
  <2>4. NS!Reached(s) \subseteq (R \cup L) \cup {i}
    BY <1>2, <2>3, ReachedIs
  <2> QED
    BY <1>1, <1>4, <1>16, <2>4 DEF Found, R
<1> QED
  BY <1>15, <1>16

\* The renamed file makes a mount again.
LEMMA RenamedIn ==
  ASSUME NEW s, NEW h, IsIn(s, h), NEW k \in DOMAIN s.index, NEW q, q # k, q = <<q[1], q[2]>>, NEW t,
         RenamedIs(s, t, s.index[k].ino, k, q, s.index[k].slot), q[1] \in NS!Dirs(s),
         q[1] \notin NS!Below(s, s.index[k].ino),
         q[1] = NS!Root /\ q[2] \in Virtual => ~s.index[k].dir
  PROVE  IsIn(t, h)
<1> DEFINE i == s.index[k].ino
           slot == s.index[k].slot
<1>1. IsNames(s) /\ IsHome(s, h) /\ Homes(s, h, NameSlots(s)) /\ NamesApart(s) /\ Agree(s) /\ Found(s)
  BY DEF IsIn, IsMount
<1>2. IsEntry(s, k) /\ i \in NS!Live(s) /\ s.files[i].slot = slot /\ slot \in NameSlots(s) /\ slot \in Slot
      /\ s.files[i].dir = s.index[k].dir
  BY <1>1 DEF Agree, IsEntry, NameSlots, IsNames, IsMap, Entries
<1>10. i = s.index[k].ino /\ slot = s.index[k].slot
  OBVIOUS
<1> HIDE DEF i, slot
<1>3. /\ IsNames(t) /\ DOMAIN t.index = (DOMAIN s.index \ {k}) \cup {q} /\ t.index[q] = s.index[k]
      /\ \A m \in DOMAIN s.index : m \notin {k, q} => t.index[m] = s.index[m]
      /\ NS!Live(t) = NS!Live(s) /\ \A j \in NS!Live(s) : j # i => t.files[j] = s.files[j]
      /\ t.files[i].parent = q[1] /\ t.files[i].name = q[2] /\ t.files[i].dir = s.files[i].dir
      /\ t.files[i].slot = s.files[i].slot
      /\ t.next_inode = s.next_inode /\ t.buffer = s.buffer
      /\ t.inode[slot].used = s.inode[slot].used /\ t.inode[slot].ino = s.inode[slot].ino
      /\ t.logged[slot] = t.inode[slot]
      /\ \A m \in Slot : m # slot => t.inode[m] = s.inode[m] /\ t.logged[m] = s.logged[m]
  BY <1>10 DEF RenamedIs
<1>4. \A j \in NS!Live(s) : t.files[j].slot = s.files[j].slot
  BY <1>3
<1>5. IsHome(t, h) /\ NameSlots(t) = NameSlots(s) /\ NamesApart(t)
  BY <1>1, <1>3, <1>4 DEF IsHome, NameSlots, NamesApart
<1>6. Homes(t, h, NameSlots(t))
  <2>1. Placed(t.inode[slot], slot, h) /\ Placed(t.logged[slot], slot, h)
    BY <1>1, <1>2, <1>3 DEF Homes, Placed
  <2> QED
    BY <1>1, <1>3, <1>5, <2>1 DEF Homes
<1>7. IsEntry(t, q)
  <2>1. <<t.files[i].parent, t.files[i].name>> = q
    BY <1>3
  <2> QED
    BY <1>2, <1>3, <1>10, <2>1, ZenonT(30) DEF IsEntry
<1>8. Agree(t)
  <2>1. ASSUME NEW m \in DOMAIN t.index, m # q PROVE IsEntry(t, m)
    <3>1. m \in DOMAIN s.index /\ m # k /\ t.index[m] = s.index[m] /\ IsEntry(s, m)
      BY <1>1, <1>3, <2>1 DEF Agree
    <3>2. s.index[m].ino # i
      BY <1>2, <1>10, <3>1 DEF IsEntry
    <3> QED
      BY <1>3, <3>1, <3>2 DEF IsEntry
  <2> QED
    BY <1>7, <2>1 DEF Agree
<1>9. Found(t)
  BY <1>7, RenamedFound
<1> QED
  BY <1>3, <1>5, <1>6, <1>8, <1>9 DEF IsIn, IsMount

\* rename: a directory is never moved below itself.
LEMMA RenameIn ==
  ASSUME NameSetting, {"replaced", "shadowed"} \subseteq Lost, NEW h, IsIn(ns, h),
         NEW d, NEW n, NEW e \in NS!Dirs(ns), NEW m \in ns.names, NS!Rename(d, n, e, m)
  PROVE  IsIn(ns', h) /\ mode' = mode
<1> DEFINE k == <<d, n>>
           q == <<e, m>>
           x == ns.index[k]
           t == NS!rename(ns, d, n, e, m)
<1>1. /\ k \in DOMAIN ns.index /\ k # q /\ e \notin NS!Below(ns, x.ino)
      /\ (e = NS!Root /\ m \in Virtual => ~x.dir) /\ NS!Journaled(t)
  BY DEF NS!Rename, NS!Entry
<1>2. IsNames(ns) /\ Agree(ns) /\ IsFiniteSet(NS!Live(ns)) /\ e \in Nat /\ m \in NS!Name
  BY MountFinite, DirIs DEF IsIn, IsMount, Homes, IsNames
<1>3. RenamedIs(ns, t, x.ino, k, q, x.slot)
  BY <1>1, <1>2, RenamedAre
<1>4. q[1] = e /\ q[2] = m /\ q = <<q[1], q[2]>>
  OBVIOUS
<1> HIDE DEF k, q, t
<1>5. IsIn(t, h)
  BY <1>1, <1>3, <1>4, RenamedIn
<1> QED
  BY <1>1, <1>5, JournaledIn

\* write.
LEMMA WriteIn ==
  ASSUME NameSetting, NEW h, IsIn(ns, h), NEW i, NS!Write(i)
  PROVE  IsIn(ns', h) /\ mode' = mode
<1> DEFINE s == [ns EXCEPT !.files[i].dirty = TRUE]
<1>1. PICK t \in NS!cache_insert(s, i) : NS!Journaled(t)
  BY DEF NS!Write
<1>2. i \in NS!Live(ns) /\ IsNames(ns) /\ IsHome(ns, h) /\ i \in Nat
  BY DEF NS!Write, NS!IsFile, IsIn, IsMount, IsNames, IsMap, NS!Live
<1>3. Stays(ns, s, h)
  BY <1>2, DirtyStays
<1> HIDE DEF s
<1>4. IsNames(s) /\ IsHome(s, h)
  BY <1>3 DEF Stays
<1>5. Stays(s, t, h)
  BY <1>1, <1>2, <1>4, InsertStays
<1>6. IsIn(t, h)
  BY <1>3, <1>5, StaysOn, StaysIn
<1> QED
  BY <1>1, <1>6, JournaledIn

\* read, which may evict and so store.
LEMMA ReadIn ==
  ASSUME NameSetting, NEW h, IsIn(ns, h), NEW i, NS!Read(i)
  PROVE  IsIn(ns', h) /\ mode' = mode
<1>1. PICK t \in NS!cache_insert(ns, i) : NS!Journaled(t)
  BY DEF NS!Read
<1>2. i \in NS!Live(ns) /\ IsNames(ns) /\ IsHome(ns, h) /\ i \in Nat
  BY DEF NS!Read, NS!IsFile, IsIn, IsMount, IsNames, IsMap, NS!Live
<1>3. Stays(ns, t, h)
  BY <1>1, <1>2, InsertStays
<1> QED
  BY <1>1, <1>3, StaysIn, JournaledIn

\* flush.
LEMMA FlushIn ==
  ASSUME NameSetting, NEW h, IsIn(ns, h), NEW i, NS!Flush(i)
  PROVE  IsIn(ns', h) /\ mode' = mode
<1>1. PICK t \in NS!flush_file(ns, i) : NS!Journaled(t)
  BY DEF NS!Flush
<1>2. i \in NS!Live(ns) /\ IsNames(ns) /\ IsHome(ns, h) /\ \A j \in DOMAIN h : j > 1 /\ j < ns.next_inode
  BY DEF NS!Flush, NS!IsFile, IsIn, IsMount, Homes
<1>3. Stays(ns, t, h)
  BY <1>1, <1>2, FlushFileStays
<1> QED
  BY <1>1, <1>3, StaysIn, JournaledIn

-----------------------------------------------------------------------------
(***************************************************************************)
(* An image between mounts: no two records that a mount may take up have   *)
(* one number, but those that tag gave twice.                              *)
(***************************************************************************)
\* What the next mount finds in the slot.
Final(s, k) == IF s.logged[k] = NS!NoInode THEN s.inode[k] ELSE s.logged[k]
IsImage(s) ==
  /\ IsNames(s) /\ s.index = <<>> /\ s.files = <<>> /\ s.buffer = <<>> /\ s.next_inode = 2
  /\ \A k \in Slot : Good(Final(s, k)) => Final(s, k).ino > 1
  /\ \A j, k \in Slot :
       Good(Final(s, j)) /\ Good(Final(s, k)) /\ j # k /\ Final(s, j).ino = Final(s, k).ino
         => Final(s, j).ino \in s.doubled

\* The empty map is one of any kind.
LEMMA EmptyMap == \A D, V : IsMap(<<>>, D, V) /\ DOMAIN <<>> = {}
BY DEF IsMap

\* A mount that ends at any time leaves an image: whatever an inode is, it is home.
LEMMA PoweredIs ==
  ASSUME NEW s, NEW h, IsIn(s, h)
  PROVE  IsImage(NS!PoweredDown(s))
<1> DEFINE a == [s EXCEPT !.index = <<>>, !.files = <<>>, !.next_inode = 2, !.cached = {},
                          !.buffer = <<>>, !.truth = s.index]
           S == UNION {NS!Below(s, i) : i \in NS!Mangled(s)}
           t == NS!Excused(a, "mangled", S)
<1>1. IsNames(s) /\ IsHome(s, h) /\ Homes(s, h, NameSlots(s)) /\ IsFiniteSet(NS!Live(s))
  BY MountFinite DEF IsIn, IsMount, Homes
<1>2. S \in SUBSET Nat
  <2>1. NS!Live(s) \in SUBSET Nat
    BY <1>1 DEF IsNames, IsMap, NS!Live
  <2>2. \A i : NS!Below(s, i) \subseteq NS!Live(s) \cup {i}
    BY <1>1, BelowIs
  <2>3. \A i \in NS!Mangled(s) : i \in NS!Live(s)
    BY DEF NS!Mangled
  <2> QED
    BY <2>1, <2>2, <2>3
<1>3. NS!PoweredDown(s) = t
  BY DEF NS!PoweredDown
<1> HIDE DEF S
<1>4. /\ IsNames(a) /\ a.index = <<>> /\ a.files = <<>> /\ a.buffer = <<>> /\ a.next_inode = 2
      /\ a.inode = s.inode /\ a.logged = s.logged /\ a.doubled = s.doubled
  BY <1>1, EmptyMap DEF IsNames, HasNames
<1> HIDE DEF a
<1>5. t = [a EXCEPT !.excused = t.excused] /\ IsNames(t)
  BY <1>2, <1>4, ExcusedIs DEF IsNames
<1> HIDE DEF t
<1>6. /\ t.index = <<>> /\ t.files = <<>> /\ t.buffer = <<>> /\ t.next_inode = 2
      /\ t.inode = s.inode /\ t.logged = s.logged
  BY <1>4, <1>5 DEF IsNames, HasNames
<1>7. \A k \in Slot : Good(Final(t, k)) => Placed(Final(t, k), k, h)
  BY <1>1, <1>6 DEF Final, Homes
<1>8. \A k \in Slot : Good(Final(t, k)) => Final(t, k).ino > 1
  BY <1>1, <1>7 DEF Homes, Placed
<1>9. \A j, k \in Slot : Good(Final(t, j)) /\ Good(Final(t, k)) /\ Final(t, j).ino = Final(t, k).ino
                           => j = k
  BY <1>7 DEF Placed
<1>10. IsImage(t)
  <2>1. ASSUME NEW j \in Slot, NEW k \in Slot, Good(Final(t, j)), Good(Final(t, k)), j # k,
               Final(t, j).ino = Final(t, k).ino
        PROVE  FALSE
    BY <1>9, <2>1
  <2> QED
    BY <1>5, <1>6, <1>8, <2>1 DEF IsImage
<1> QED
  BY <1>3, <1>10

\* An unmount.
LEMMA DestroyIs ==
  ASSUME NameSetting, NEW h, IsIn(ns, h), NS!Destroy
  PROVE  IsImage(ns') /\ mode' = "unmounted"
<1>1. PICK order \in NS!SetToSeqs(DOMAIN ns.buffer) : ns' = NS!PoweredDown(NS!PersistAll(ns, order))
  BY DEF NS!Destroy
<1>2. mode' = "unmounted" /\ IsNames(ns) /\ IsHome(ns, h) /\ IsFiniteSet(DOMAIN ns.buffer)
  BY MountFinite DEF NS!Destroy, IsIn, IsMount, Homes
<1>3. PICK n \in Nat : DOMAIN order = 1 .. n
  BY <1>2, OrderIs
<1>4. Stays(ns, NS!PersistAll(ns, order), h)
  BY <1>2, <1>3, PersistAllStays
<1> QED
  BY <1>1, <1>2, <1>4, StaysIn, PoweredIs

\* A kill.
LEMMA CrashIs ==
  ASSUME NEW h, IsIn(ns, h), NS!Crash
  PROVE  IsImage(ns') /\ mode' = "crashed"
BY PoweredIs DEF NS!Crash

-----------------------------------------------------------------------------
\* The journal replayed and cleared changes nothing that is read of an image.
LEMMA OpenIs ==
  ASSUME NEW s, IsImage(s)
  PROVE  LET o == NS!open(s)
         IN  /\ IsImage(o) /\ o.doubled = s.doubled /\ o.names = s.names /\ o.excused = s.excused
             /\ \A k \in Slot : /\ o.inode[k] = Final(s, k) /\ o.logged[k] = NS!NoInode
                                /\ Final(o, k) = Final(s, k)
<1> DEFINE p == [k \in Slot |-> IF s.logged[k] = NS!NoInode THEN s.inode[k] ELSE s.logged[k]]
           l == [k \in Slot |-> NS!NoInode]
           o == NS!open(s)
<1>1. o = [s EXCEPT !.inode = p, !.logged = l]
  BY DEF NS!open
<1>2. IsNames(s)
  BY DEF IsImage
<1>3. p \in [Slot -> Records] /\ l \in [Slot -> Records]
      /\ \A k \in Slot : p[k] = Final(s, k) /\ l[k] = NS!NoInode
  BY <1>2, NoInodeIs DEF Final, IsNames
<1> HIDE DEF p, l, o
<1>4. /\ IsNames(o) /\ o.index = s.index /\ o.files = s.files /\ o.buffer = s.buffer
      /\ o.next_inode = s.next_inode /\ o.doubled = s.doubled /\ o.names = s.names
      /\ o.excused = s.excused /\ o.inode = p /\ o.logged = l
  BY <1>1, <1>2, <1>3 DEF IsNames, HasNames
<1>5. \A k \in Slot : Final(o, k) = Final(s, k)
  BY <1>3, <1>4 DEF Final
<1>6. IsImage(o)
  BY <1>4, <1>5 DEF IsImage
<1> QED
  BY <1>3, <1>4, <1>5, <1>6 DEF o

\* Tags, written between mounts.
LEMMA TagIs ==
  ASSUME NameSetting, NEW s, IsImage(s), NEW n \in NS!Name \cap Sidecar
  PROVE  IsImage(NS!cmd_tag(s, n))
<1> DEFINE o == NS!open(s)
           slot == NS!SidecarSlot(o, n)
           i == TagBase + slot
           InRoot(k) == o.inode[k].parent = NS!Root
           taken == {k \in NS!Named(o, n) : IF k = slot THEN ~InRoot(k) \/ o.inode[k].dir ELSE InRoot(k)}
           twice == \E k \in Slot \ {slot} : o.inode[k].used /\ o.inode[k].ino = i
           lost == {o.inode[k].ino : k \in taken} \cup (IF twice THEN {i} ELSE {})
           e == [ino |-> i, dir |-> FALSE, slot |-> slot]
           a == NS!Excused(o, "tagged", lost)
           x == NS!With(a.truth, <<NS!Root, n>>, e)
           D == a.doubled \cup (IF twice THEN {i} ELSE {})
           known == [a EXCEPT !.truth = x, !.doubled = D]
           r == NS!Record(i, NS!Root, n, FALSE)
           t == NS!write_inode(known, slot, r)
<1>1. /\ IsImage(o) /\ \A k \in Slot : Final(o, k) = o.inode[k]
  BY OpenIs
<1>2. NS!cmd_tag(s, n) = IF NS!Named(o, n) \cup NS!FreeSlots(o) = {} THEN o ELSE t
  BY DEF NS!cmd_tag
<1>3. SUFFICES ASSUME NS!Named(o, n) \cup NS!FreeSlots(o) # {} PROVE IsImage(t)
  BY <1>1, <1>2
<1>4. slot \in Slot
  <2>1. CASE NS!Named(o, n) = {}
    BY <1>3, <2>1, SlotAlloc DEF NS!SidecarSlot, NS!FreeSlots
  <2>2. CASE NS!Named(o, n) # {}
    <3>1. NS!Named(o, n) \in SUBSET Nat /\ NS!Named(o, n) \subseteq Slot
      BY DEF NS!Named, NameSetting
    <3>2. \E k \in NS!Named(o, n) : \A m \in NS!Named(o, n) : k <= m
      BY <2>2, <3>1, Least
    <3>3. (CHOOSE k \in NS!Named(o, n) : \A m \in NS!Named(o, n) : k <= m) \in NS!Named(o, n)
      BY <3>2
    <3> QED
      BY <2>2, <3>1, <3>3 DEF NS!SidecarSlot
  <2> QED
    BY <2>1, <2>2
<1>5. i \in Nat /\ i > 1
  <2>1. slot \in Nat /\ TagBase \in Nat \ {0, 1}
    BY <1>4 DEF NameSetting
  <2> HIDE DEF slot
  <2> QED
    BY <2>1
<1>6. IsNames(o)
  BY <1>1 DEF IsImage
<1>7. lost \in SUBSET Nat
  <2>1. \A k \in taken : k \in Slot
    BY DEF NS!Named
  <2>2. \A k \in Slot : o.inode[k].ino \in Nat
    BY <1>6 DEF IsNames, Records
  <2> QED
    BY <1>5, <2>1, <2>2
<1>8. r \in Records /\ r.used /\ r.ino = i
  <2>1. i \in Nat /\ NameKept[n] \in Words
    BY <1>5 DEF NameSetting
  <2> HIDE DEF i
  <2> QED
    BY <2>1 DEF NS!Record, NS!Root, Records
<1>13. twice \in BOOLEAN /\ (\A k \in Slot \ {slot} : o.inode[k].used /\ o.inode[k].ino = i => twice)
  OBVIOUS
<1>14. e \in Entries /\ <<NS!Root, n>> \in Keys
  BY <1>4, <1>5 DEF Entries, Keys, NS!Root
<1> HIDE DEF lost, r, o, slot, i, e, twice
<1>9. a = [o EXCEPT !.excused = a.excused] /\ IsNames(a)
  BY <1>6, <1>7, ExcusedIs DEF IsNames
<1> HIDE DEF a
<1>10. /\ a.index = o.index /\ a.files = o.files /\ a.buffer = o.buffer /\ a.inode = o.inode
       /\ a.logged = o.logged /\ a.next_inode = o.next_inode /\ a.doubled = o.doubled
  BY <1>6, <1>9 DEF IsNames, HasNames
<1>15. \A A, B : IsMap(a.truth, A, B) /\ <<NS!Root, n>> \in A /\ e \in B => IsMap(x, A, B)
  BY WithIs, Zenon
<1>16. IsMap(x, Keys, Entries)
  BY <1>9, <1>14, <1>15 DEF IsNames
<1>17. D \in SUBSET Nat /\ a.doubled \subseteq D /\ (twice => i \in D)
  BY <1>5, <1>9, <1>13 DEF IsNames
<1> HIDE DEF x, D
<1>11. /\ IsNames(known) /\ known.index = o.index /\ known.files = o.files /\ known.buffer = o.buffer
       /\ known.inode = o.inode /\ known.logged = o.logged /\ known.next_inode = o.next_inode
       /\ known.doubled = D
  BY <1>9, <1>10, <1>16, <1>17 DEF IsNames, HasNames
<1> HIDE DEF known
<1>12. IsWritten(known, t, slot, r)
  BY <1>4, <1>8, <1>11, WrittenIs
<1> HIDE DEF t
<1>18. /\ IsNames(t) /\ t.index = o.index /\ t.files = o.files /\ t.buffer = o.buffer
       /\ t.next_inode = o.next_inode /\ t.doubled = D /\ t.inode[slot] = r /\ t.logged[slot] = r
       /\ \A k \in Slot : k # slot => t.inode[k] = o.inode[k] /\ t.logged[k] = o.logged[k]
  BY <1>11, <1>12 DEF IsWritten, IsNames, HasNames
<1>19. Final(t, slot) = r /\ \A k \in Slot : k # slot => Final(t, k) = o.inode[k]
  BY <1>1, <1>18 DEF Final
<1>20. \A k \in Slot : Good(Final(t, k)) => Final(t, k).ino > 1
  BY <1>1, <1>5, <1>8, <1>19 DEF IsImage
<1>21. ASSUME NEW j \in Slot, NEW k \in Slot, Good(Final(t, j)), Good(Final(t, k)), j # k,
              Final(t, j).ino = Final(t, k).ino
       PROVE  Final(t, j).ino \in t.doubled
  <2>1. CASE j # slot /\ k # slot
    <3>1. Final(t, j).ino \in o.doubled
      BY <1>1, <1>19, <1>21, <2>1 DEF IsImage
    <3> QED
      BY <1>10, <1>17, <1>18, <3>1
  <2>2. ASSUME NEW m \in Slot, m # slot, Good(Final(t, m)), Final(t, m).ino = i PROVE twice
    <3>1. o.inode[m].used /\ o.inode[m].ino = i
      BY <1>19, <2>2 DEF Good, NS!is_valid
    <3> QED
      BY <1>13, <2>2, <3>1
  <2>3. CASE j = slot
    <3>1. Final(t, k).ino = i /\ k # slot /\ Final(t, j).ino = i
      BY <1>8, <1>19, <1>21, <2>3
    <3> QED
      BY <1>17, <1>18, <1>21, <2>2, <3>1
  <2>4. CASE k = slot
    <3>1. Final(t, j).ino = i /\ j # slot
      BY <1>8, <1>19, <1>21, <2>4
    <3> QED
      BY <1>17, <1>18, <1>21, <2>2, <3>1
  <2> QED
    BY <2>1, <2>3, <2>4
<1> QED
  BY <1>1, <1>18, <1>20, <1>21 DEF IsImage

-----------------------------------------------------------------------------
(***************************************************************************)
(* The load of an image, slot by slot.                                     *)
(***************************************************************************)
\* Numbers in their order, none left out.
LEMMA InOrderHas ==
  ASSUME NEW S \in SUBSET Nat, IsFiniteSet(S)
  PROVE  /\ Cardinality(S) \in Nat /\ NS!InOrder(S) \in [1 .. Cardinality(S) -> S]
         /\ \A k \in S : \E n \in 1 .. Cardinality(S) : NS!InOrder(S)[n] = k
<1> DEFINE R == {p \in Nat \X Nat : p[1] <= p[2]}
           Nth(n) == CHOOSE k \in S : NS!Cardinality({m \in S : m <= k}) = n
<1>1. Orders(R, S)
  BY DEF Orders
<1>2. \A k \in S : Place(R, S, k) = Cardinality({m \in S : m <= k})
  <2>1. \A k \in S : {m \in S : <<m, k>> \in R} = {m \in S : m <= k}
    OBVIOUS
  <2> HIDE DEF R
  <2> QED
    BY <2>1 DEF Place
<1> HIDE DEF R
<1>3. /\ Cardinality(S) \in Nat
      /\ \A x \in S : Place(R, S, x) \in 1 .. Cardinality(S)
      /\ \A x, y \in S : Place(R, S, x) = Place(R, S, y) => x = y
      /\ \A n \in 1 .. Cardinality(S) : \E x \in S : Place(R, S, x) = n
  <2>1. Cardinality(S) \in Nat
    BY <1>1, PlacesAre
  <2>2. \A x \in S : Place(R, S, x) \in 1 .. Cardinality(S)
    BY <1>1, PlacesAre
  <2>3. \A x, y \in S : Place(R, S, x) = Place(R, S, y) => x = y
    BY <1>1, PlacesAre
  <2>4. /\ Cardinality(S) \in Nat
        /\ \A n \in 1 .. Cardinality(S) : \E k \in S : Place(R, S, k) = n
    BY <1>1, PlacesAre
  <2> QED
    BY <2>1, <2>2, <2>3, <2>4
<1>4. \A n \in 1 .. Cardinality(S) : \E k \in S : NS!Cardinality({m \in S : m <= k}) = n
  BY <1>2, <1>3, SameCardinality
<1>5. \A n \in 1 .. Cardinality(S) : Nth(n) \in S /\ NS!Cardinality({m \in S : m <= Nth(n)}) = n
  BY <1>4, Zenon
<1>6. NS!InOrder(S) = [n \in 1 .. Cardinality(S) |-> Nth(n)]
  <2>1. NS!InOrder(S) = [n \in 1 .. NS!Cardinality(S) |-> Nth(n)]
    BY DEF NS!InOrder
  <2> HIDE DEF Nth
  <2> QED
    BY <2>1, SameCardinality
<1> HIDE DEF Nth
<1>7. NS!InOrder(S) \in [1 .. Cardinality(S) -> S]
  BY <1>5, <1>6
<1>8. ASSUME NEW k \in S PROVE \E n \in 1 .. Cardinality(S) : NS!InOrder(S)[n] = k
  <2> DEFINE n == Place(R, S, k)
  <2>1. n \in 1 .. Cardinality(S)
    BY <1>3
  <2>2. Place(R, S, Nth(n)) = n /\ Nth(n) \in S
    BY <1>2, <1>5, <2>1, SameCardinality
  <2>3. Nth(n) = k
    BY <1>3, <2>2
  <2> HIDE DEF n
  <2> QED
    BY <1>6, <2>1, <2>3
<1> QED
  BY <1>3, <1>7, <1>8

\* The key, the entry and the file that an inode becomes.
KeyOf(r) == <<r.parent, r.name>>
EntryOf(r, k) == [ino |-> r.ino, dir |-> r.dir, slot |-> k]
IsFileOf(f, r, k) == f.name = r.name /\ f.parent = r.parent /\ f.dir = r.dir /\ f.slot = k

\* A record taken up.
SameDisk(s, t) ==
  /\ t.inode = s.inode /\ t.logged = s.logged /\ t.buffer = s.buffer /\ t.excused = s.excused
  /\ t.doubled = s.doubled /\ t.names = s.names
TookUp(s, t, k) ==
  LET r == s.inode[k]
  IN  /\ IsNames(t) /\ SameDisk(s, t)
      /\ DOMAIN t.index = DOMAIN s.index \cup {KeyOf(r)} /\ t.index[KeyOf(r)] = EntryOf(r, k)
      /\ \A m \in DOMAIN s.index : m # KeyOf(r) => t.index[m] = s.index[m]
      /\ NS!Live(t) = NS!Live(s) \cup {r.ino} /\ IsFileOf(t.files[r.ino], r, k)
      /\ \A i \in NS!Live(s) : i # r.ino => t.files[i] = s.files[i]
      /\ t.next_inode >= s.next_inode /\ t.next_inode > r.ino

\* A record taken up is an entry and a file.
LEMMA TakeUpIs ==
  ASSUME NEW s, IsNames(s), NEW k \in Slot, Good(s.inode[k])
  PROVE  TookUp(s, NS!TakeUp(s, k), k)
<1> DEFINE r == s.inode[k]
           e == EntryOf(r, k)
           v == [name |-> r.name, parent |-> r.parent, dir |-> r.dir, slot |-> k, dirty |-> FALSE]
           x == NS!With(s.index, KeyOf(r), e)
           f == NS!With(s.files, r.ino, v)
           c == s.cached \cup {r.ino}
           n == IF r.ino >= s.next_inode THEN r.ino + 1 ELSE s.next_inode
           t == [s EXCEPT !.index = x, !.files = f, !.cached = c, !.next_inode = n]
<1>1. r \in Records /\ r.name \in NS!Name
  BY DEF IsNames, Good, Records, Words
<1>2. NS!TakeUp(s, k) = t
  BY DEF NS!TakeUp, Good, EntryOf, KeyOf
<1>3. e \in Entries /\ v \in FileRecords /\ KeyOf(r) \in Keys /\ c \in SUBSET Nat
  BY <1>1 DEF EntryOf, Entries, FileRecords, KeyOf, Keys, Records, IsNames
<1>4. n \in Nat /\ n >= s.next_inode /\ n > r.ino
  BY <1>1 DEF Records, IsNames
<1>5. IsFileOf(v, r, k)
  BY DEF IsFileOf
<1>6. r.ino \in Nat
  BY <1>1 DEF Records
<1> HIDE DEF r, e, v, c, n
<1>7. /\ DOMAIN x = DOMAIN s.index \cup {KeyOf(r)} /\ x[KeyOf(r)] = e
      /\ \A y \in DOMAIN s.index : y # KeyOf(r) => x[y] = s.index[y]
      /\ \A D, V : IsMap(s.index, D, V) /\ KeyOf(r) \in D /\ e \in V => IsMap(x, D, V)
  BY WithIs, Zenon
<1>8. /\ DOMAIN f = DOMAIN s.files \cup {r.ino} /\ f[r.ino] = v
      /\ \A y \in DOMAIN s.files : y # r.ino => f[y] = s.files[y]
      /\ \A D, V : IsMap(s.files, D, V) /\ r.ino \in D /\ v \in V => IsMap(f, D, V)
  BY WithIs, Zenon
<1> HIDE DEF x, f
<1>9. IsMap(x, Keys, Entries) /\ IsMap(f, Nat, FileRecords)
  BY <1>3, <1>6, <1>7, <1>8 DEF IsNames
<1>10. /\ IsNames(t) /\ t.index = x /\ t.files = f /\ t.next_inode = n /\ t.inode = s.inode
       /\ t.logged = s.logged /\ t.buffer = s.buffer /\ t.excused = s.excused
       /\ t.doubled = s.doubled /\ t.names = s.names
  BY <1>3, <1>4, <1>9 DEF IsNames, HasNames
<1> HIDE DEF t
<1> QED
  BY <1>2, <1>4, <1>5, <1>7, <1>8, <1>10 DEF TookUp, SameDisk, NS!Live, r, e

\* What a load has taken up of the slots D of image o.
FilesFrom(o, s, D) ==
  \A i \in NS!Live(s) : \E k \in D :
    Good(o.inode[k]) /\ o.inode[k].ino = i /\ IsFileOf(s.files[i], o.inode[k], k)
IndexFrom(o, s, D) ==
  \A m \in DOMAIN s.index : \E k \in D :
    Good(o.inode[k]) /\ m = KeyOf(o.inode[k]) /\ s.index[m] = EntryOf(o.inode[k], k)
AllTaken(o, s, D) ==
  \A k \in D : Good(o.inode[k]) =>
    o.inode[k].ino \in NS!Live(s) /\ KeyOf(o.inode[k]) \in DOMAIN s.index
Loaded(o, s, D) ==
  /\ IsNames(s) /\ SameDisk(o, s)
  /\ s.next_inode > 1 /\ \A i \in NS!Live(s) : i < s.next_inode
  /\ FilesFrom(o, s, D) /\ IndexFrom(o, s, D) /\ AllTaken(o, s, D)

\* One more slot.
LEMMA LoadStep ==
  ASSUME NEW o, NEW s, NEW D, Loaded(o, s, D), NEW k \in Slot
  PROVE  Loaded(o, NS!TakeUp(s, k), D \cup {k})
<1> DEFINE r == o.inode[k]
           t == NS!TakeUp(s, k)
<1>1. IsNames(s) /\ SameDisk(o, s) /\ s.inode[k] = r
  BY DEF Loaded, SameDisk
<1>2. CASE ~Good(r)
  <2>1. t = s
    BY <1>1, <1>2 DEF NS!TakeUp, Good
  <2> QED
    BY <1>2, <2>1 DEF Loaded, FilesFrom, IndexFrom, AllTaken, r
<1>3. CASE Good(r)
  <2> HIDE DEF t
  <2>1. TookUp(s, t, k)
    BY <1>1, <1>3, TakeUpIs DEF t
  <2>2. /\ IsNames(t) /\ SameDisk(s, t)
        /\ DOMAIN t.index = DOMAIN s.index \cup {KeyOf(r)} /\ t.index[KeyOf(r)] = EntryOf(r, k)
        /\ \A m \in DOMAIN s.index : m # KeyOf(r) => t.index[m] = s.index[m]
        /\ NS!Live(t) = NS!Live(s) \cup {r.ino} /\ IsFileOf(t.files[r.ino], r, k)
        /\ \A i \in NS!Live(s) : i # r.ino => t.files[i] = s.files[i]
        /\ t.next_inode >= s.next_inode /\ t.next_inode > r.ino
    BY <1>1, <2>1 DEF TookUp
  <2> HIDE DEF r
  <2>3. SameDisk(o, t)
    BY <1>1, <2>2 DEF SameDisk
  <2>4. t.next_inode > 1 /\ \A i \in NS!Live(t) : i < t.next_inode
    <3>1. s.next_inode \in Nat /\ t.next_inode \in Nat /\ \A i \in NS!Live(s) : i \in Nat
      BY <1>1, <2>2 DEF IsNames, IsMap, NS!Live
    <3>2. \A i \in NS!Live(t) : i \in Nat
      BY <2>2 DEF IsNames, IsMap, NS!Live
    <3>3. s.next_inode > 1 /\ \A i \in NS!Live(s) : i < s.next_inode
      BY DEF Loaded
    <3> QED
      BY <2>2, <3>1, <3>2, <3>3
  <2>5. FilesFrom(o, t, D \cup {k})
    <3> SUFFICES ASSUME NEW i \in NS!Live(t)
                 PROVE  \E j \in D \cup {k} : /\ Good(o.inode[j]) /\ o.inode[j].ino = i
                                             /\ IsFileOf(t.files[i], o.inode[j], j)
      BY DEF FilesFrom
    <3>1. CASE i = r.ino
      BY <1>3, <2>2, <3>1 DEF r
    <3>2. CASE i # r.ino
      <4>1. i \in NS!Live(s) /\ t.files[i] = s.files[i]
        BY <2>2, <3>2
      <4> QED
        BY <4>1 DEF Loaded, FilesFrom
    <3> QED
      BY <3>1, <3>2
  <2>6. IndexFrom(o, t, D \cup {k})
    <3> SUFFICES ASSUME NEW m \in DOMAIN t.index
                 PROVE  \E j \in D \cup {k} : /\ Good(o.inode[j]) /\ m = KeyOf(o.inode[j])
                                             /\ t.index[m] = EntryOf(o.inode[j], j)
      BY DEF IndexFrom
    <3>1. CASE m = KeyOf(r)
      BY <1>3, <2>2, <3>1 DEF r
    <3>2. CASE m # KeyOf(r)
      <4>1. m \in DOMAIN s.index /\ t.index[m] = s.index[m]
        BY <2>2, <3>2
      <4> QED
        BY <4>1 DEF Loaded, IndexFrom
    <3> QED
      BY <3>1, <3>2
  <2>7. AllTaken(o, t, D \cup {k})
    <3>1. AllTaken(o, s, D)
      BY DEF Loaded
    <3> QED
      BY <2>2, <3>1 DEF AllTaken, r
  <2>8. Loaded(o, t, D \cup {k})
    BY <2>2, <2>3, <2>4, <2>5, <2>6, <2>7 DEF Loaded
  <2> QED
    BY <2>8 DEF t
<1> QED
  BY <1>2, <1>3 DEF t

\* All of them.
LEMMA LoadedIs ==
  ASSUME NameSetting, NEW s, IsImage(s)
  PROVE  Loaded(NS!open(s), NS!load(s), Slot)
<1> DEFINE o == NS!open(s)
           n == Cardinality(Slot)
           seq == NS!InOrder(Slot)
           D(c) == {seq[x] : x \in 1 .. c}
<1>1. IsImage(o)
  BY OpenIs
<1>2. /\ n \in Nat /\ seq \in [1 .. n -> Slot] /\ DOMAIN seq = 1 .. n
      /\ \A k \in Slot : \E x \in 1 .. n : seq[x] = k
  BY InOrderHas DEF NameSetting
<1>3. NS!load(s) = LoopedNames("load", o, seq)
  BY NameLoops
<1> HIDE DEF o, seq, n
<1>4. o \in NameStates
  BY <1>1, NameStatesAre DEF IsImage
<1>5. ASSUME NEW u \in NameStates, NEW c \in 1 .. n PROVE DoName("load", u, seq[c]) \in NameStates
  <2>1. IsNames(u) /\ seq[c] \in Slot
    BY <1>2, NameStatesAre
  <2>2. DoName("load", u, seq[c]) = NS!TakeUp(u, seq[c])
    BY DEF DoName
  <2>3. CASE Good(u.inode[seq[c]])
    <3>1. IsNames(NS!TakeUp(u, seq[c]))
      BY <2>1, <2>3, TakeUpIs DEF TookUp
    <3> QED
      BY <2>2, <3>1, NameStatesAre
  <2>4. CASE ~Good(u.inode[seq[c]])
    BY <2>2, <2>4 DEF NS!TakeUp, Good
  <2> QED
    BY <2>3, <2>4
<1>6. PICK m \in [0 .. n -> NameStates] : IsNameLoop(m, n, "load", o, seq)
  BY <1>2, <1>4, <1>5, NameLoopIs
<1> DEFINE T == {c \in 0 .. n : Loaded(o, m[c], D(c))}
<1>7. 0 \in T
  <2>1. m[0] = o /\ 0 \in 0 .. n
    BY <1>2, <1>6 DEF IsNameLoop
  <2>2. D(0) = {}
    OBVIOUS
  <2>3. /\ IsNames(o) /\ o.index = <<>> /\ o.files = <<>> /\ o.next_inode = 2
    BY <1>1 DEF IsImage
  <2>4. DOMAIN o.index = {} /\ NS!Live(o) = {}
    BY <2>3, EmptyMap DEF NS!Live
  <2> HIDE DEF D
  <2>5. Loaded(o, o, D(0))
    BY <2>2, <2>3, <2>4 DEF Loaded, SameDisk, FilesFrom, IndexFrom, AllTaken
  <2> QED
    BY <2>1, <2>5
<1>8. ASSUME NEW c \in 0 .. (n - 1), c \in T PROVE c + 1 \in T
  <2>1. c + 1 \in 1 .. n /\ c + 1 \in 0 .. n /\ (c + 1) - 1 = c
    BY <1>2
  <2>2. m[c + 1] = NS!TakeUp(m[c], seq[c + 1])
    <3>1. m[c + 1] = DoName("load", m[(c + 1) - 1], seq[c + 1])
      BY <1>6, <2>1 DEF IsNameLoop
    <3> QED
      BY <2>1, <3>1 DEF DoName
  <2>3. D(c + 1) = D(c) \cup {seq[c + 1]}
    <3>1. 1 .. (c + 1) = (1 .. c) \cup {c + 1}
      OBVIOUS
    <3> QED
      BY <3>1
  <2>4. seq[c + 1] \in Slot
    BY <1>2, <2>1
  <2> HIDE DEF D
  <2>5. Loaded(o, m[c], D(c))
    BY <1>8
  <2>6. Loaded(o, m[c + 1], D(c + 1))
    BY <2>2, <2>3, <2>4, <2>5, LoadStep
  <2> QED
    BY <2>1, <2>6
<1> HIDE DEF T
<1>9. n \in T
  <2>1. 0 .. n \subseteq T
    BY <1>2, <1>7, <1>8, UpTo
  <2> QED
    BY <1>2, <2>1
<1>10. D(n) = Slot
  BY <1>2
<1> HIDE DEF D
<1>11. Loaded(o, m[n], Slot)
  BY <1>9, <1>10 DEF T
<1> QED
  BY <1>3, <1>6, <1>11 DEF IsNameLoop, o

-----------------------------------------------------------------------------
(***************************************************************************)
(* The mount that a load makes of an image.                                *)
(***************************************************************************)
\* The loaded files are finitely many, of numbers that one record has or tag gave twice.
LEMMA LoadedFrom ==
  ASSUME NameSetting, NEW s, IsImage(s)
  PROVE  LET o == NS!open(s)
             t == NS!load(s)
         IN  /\ Loaded(o, t, Slot) /\ IsFiniteSet(NS!Live(t)) /\ \A i \in NS!Live(t) : i \in Nat /\ i > 1
             /\ \A j, k \in Slot : Good(o.inode[j]) /\ Good(o.inode[k]) /\ o.inode[j].ino = o.inode[k].ino
                  => j = k \/ o.inode[j].ino \in s.doubled
<1> DEFINE o == NS!open(s)
           t == NS!load(s)
<1>1. IsImage(o) /\ o.doubled = s.doubled /\ \A k \in Slot : Final(o, k) = o.inode[k]
  BY OpenIs
<1>2. Loaded(o, t, Slot)
  BY LoadedIs
<1> HIDE DEF o, t
<1>3. \A i \in NS!Live(t) : i \in Nat /\ i > 1 /\ i < t.next_inode
  <2>1. \A i \in NS!Live(t) : i \in Nat /\ i < t.next_inode
    BY <1>2 DEF Loaded, IsNames, IsMap, NS!Live
  <2>2. ASSUME NEW i \in NS!Live(t) PROVE i > 1
    <3>1. PICK k \in Slot : Good(o.inode[k]) /\ o.inode[k].ino = i
      BY <1>2 DEF Loaded, FilesFrom
    <3> QED
      BY <1>1, <3>1 DEF IsImage
  <2> QED
    BY <2>1, <2>2
<1>4. IsFiniteSet(NS!Live(t))
  <2>1. t.next_inode \in Nat
    BY <1>2 DEF Loaded, IsNames
  <2>2. NS!Live(t) \in SUBSET (0 .. t.next_inode)
    BY <1>3, <2>1
  <2>3. IsFiniteSet(0 .. t.next_inode)
    BY <2>1, FS_Interval
  <2> QED
    BY <2>2, <2>3, FS_Subset
<1>5. \A j, k \in Slot : Good(o.inode[j]) /\ Good(o.inode[k]) /\ o.inode[j].ino = o.inode[k].ino
        => j = k \/ o.inode[j].ino \in s.doubled
  BY <1>1 DEF IsImage
<1> QED
  BY <1>2, <1>3, <1>4, <1>5 DEF o, t

\* An entry of a number that was given once is its file's.
LEMMA LoadedEntry ==
  ASSUME NameSetting, NEW s, IsImage(s), NEW m \in DOMAIN NS!load(s).index,
         NS!load(s).index[m].ino \notin s.doubled
  PROVE  IsEntry(NS!load(s), m)
<1> DEFINE o == NS!open(s)
           t == NS!load(s)
<1>1. /\ Loaded(o, t, Slot)
      /\ \A j, k \in Slot : Good(o.inode[j]) /\ Good(o.inode[k]) /\ o.inode[j].ino = o.inode[k].ino
           => j = k \/ o.inode[j].ino \in s.doubled
  BY LoadedFrom
<1>2. m \in DOMAIN t.index /\ t.index[m].ino \notin s.doubled
  OBVIOUS
<1> HIDE DEF o, t
<1>3. PICK k \in Slot : Good(o.inode[k]) /\ m = KeyOf(o.inode[k]) /\ t.index[m] = EntryOf(o.inode[k], k)
  BY <1>1, <1>2 DEF Loaded, IndexFrom
<1> DEFINE i == o.inode[k].ino
<1>4. i \in NS!Live(t) /\ t.index[m].ino = i /\ t.index[m].dir = o.inode[k].dir /\ t.index[m].slot = k
  BY <1>1, <1>3 DEF Loaded, AllTaken, EntryOf
<1>5. PICK j \in Slot : Good(o.inode[j]) /\ o.inode[j].ino = i /\ IsFileOf(t.files[i], o.inode[j], j)
  BY <1>1, <1>4 DEF Loaded, FilesFrom
<1>6. j = k
  BY <1>1, <1>2, <1>3, <1>4, <1>5
<1> HIDE DEF i
<1>7. IsEntry(t, m)
  BY <1>3, <1>4, <1>5, <1>6 DEF IsEntry, IsFileOf, KeyOf
<1> QED
  BY <1>7 DEF t

\* The homes after a load: where the files are.
HomesOf(s) == [i \in NS!Live(s) |-> s.files[i].slot]
\* Where no number was given twice, homes, entries and files are those of a mount.
LEMMA LoadedMount ==
  ASSUME NameSetting, NEW s, IsImage(s), s.doubled = {}
  PROVE  LET t == NS!load(s)
             h == HomesOf(t)
         IN  IsNames(t) /\ IsHome(t, h) /\ Homes(t, h, NameSlots(t)) /\ NamesApart(t) /\ Agree(t)
<1> DEFINE o == NS!open(s)
           t == NS!load(s)
           h == HomesOf(t)
<1>1. /\ Loaded(o, t, Slot) /\ \A i \in NS!Live(t) : i \in Nat /\ i > 1
      /\ \A j, k \in Slot : Good(o.inode[j]) /\ Good(o.inode[k]) /\ o.inode[j].ino = o.inode[k].ino
           => j = k \/ o.inode[j].ino \in s.doubled
  BY LoadedFrom
<1>2. \A m \in DOMAIN t.index : IsEntry(t, m)
  BY LoadedEntry
<1>3. o.buffer = <<>> /\ \A k \in Slot : o.logged[k] = NS!NoInode
  BY OpenIs DEF IsImage
<1> HIDE DEF o, t
<1>4. DOMAIN h = NS!Live(t) /\ (\A i \in NS!Live(t) : h[i] = t.files[i].slot)
      /\ h = [i \in DOMAIN h |-> h[i]]
  BY DEF HomesOf
<1> HIDE DEF h
<1>5. IsNames(t) /\ t.inode = o.inode /\ t.logged = o.logged /\ t.buffer = <<>>
      /\ \A i \in NS!Live(t) : i < t.next_inode
  BY <1>1, <1>3 DEF Loaded, SameDisk
<1>6. IsHome(t, h)
  <2>1. DOMAIN t.buffer = {}
    BY <1>5, EmptyMap
  <2>2. \A i \in NS!Live(t) : t.files[i].slot \in Slot
    BY <1>5 DEF IsNames, IsMap, FileRecords, NS!Live
  <2> QED
    BY <1>1, <1>4, <2>1, <2>2 DEF IsHome
<1>7. \A j, k \in Slot : Good(o.inode[j]) /\ Good(o.inode[k]) /\ o.inode[j].ino = o.inode[k].ino
        => j = k
  BY <1>1
<1>8. ASSUME NEW i \in NS!Live(t)
      PROVE  LET k == t.files[i].slot
             IN  k \in Slot /\ Good(o.inode[k]) /\ o.inode[k].ino = i
  BY <1>1 DEF Loaded, FilesFrom, IsFileOf
<1>9. ASSUME NEW k \in Slot, Good(o.inode[k]) PROVE Placed(o.inode[k], k, h)
  <2> DEFINE i == o.inode[k].ino
  <2>1. i \in NS!Live(t)
    BY <1>1, <1>9 DEF Loaded, AllTaken
  <2>2. t.files[i].slot = k
    BY <1>7, <1>8, <1>9, <2>1
  <2> QED
    BY <1>4, <1>9, <2>1, <2>2 DEF Placed, Good, NS!is_valid
<1>10. \A k \in NameSlots(t) : Good(o.inode[k])
  BY <1>8 DEF NameSlots
<1>11. Homes(t, h, NameSlots(t))
  BY <1>1, <1>3, <1>4, <1>5, <1>9, <1>10 DEF Homes
<1>12. NamesApart(t)
  BY <1>8 DEF NamesApart
<1> QED
  BY <1>2, <1>5, <1>6, <1>11, <1>12 DEF Agree, h, t

\* The properties asked for, and the invariant: where tag gave a number twice,
\* nothing happens after the mount.
ListedMatch(s) ==
  /\ \A k \in DOMAIN s.index : s.index[k].ino \notin s.doubled => IsEntry(s, k)
  /\ Found(s)
IsMounted(s) == (\E h : IsIn(s, h)) \/ (s.doubled # {} /\ ListedMatch(s))
NamesInv == IF mode = "mounted" THEN IsMounted(ns) ELSE IsImage(ns)

\* A mount is as the property asks.
LEMMA MountedAgrees == ASSUME NEW s, IsMounted(s) PROVE ListedMatch(s)
BY DEF IsMounted, ListedMatch, IsIn, IsMount, Agree

\* A mount of an image.
LEMMA LoadMounts ==
  ASSUME NameSetting, IsImage(ns), NS!Load
  PROVE  IsMounted(ns') /\ mode' = "mounted"
<1> DEFINE s == NS!load(ns)
           X == NS!Live(s) \ NS!Reached(s)
           t == [s EXCEPT !.truth = <<>>, !.excused = X]
<1>1. ns' = t /\ mode' = "mounted"
  BY DEF NS!Load
<1>2. /\ IsNames(s) /\ IsFiniteSet(NS!Live(s)) /\ NS!Root \notin NS!Live(s) /\ X \in SUBSET Nat
      /\ s.doubled = ns.doubled
  <2>1. /\ Loaded(NS!open(ns), s, Slot) /\ IsFiniteSet(NS!Live(s))
        /\ \A i \in NS!Live(s) : i \in Nat /\ i > 1
    BY LoadedFrom
  <2>2. NS!open(ns).doubled = ns.doubled
    BY OpenIs
  <2> HIDE DEF s
  <2> QED
    BY <2>1, <2>2 DEF Loaded, SameDisk, NS!Root
<1>3. \A m \in DOMAIN s.index : s.index[m].ino \notin ns.doubled => IsEntry(s, m)
  BY LoadedEntry
<1>4. ns.doubled = {} => IsHome(s, HomesOf(s)) /\ Homes(s, HomesOf(s), NameSlots(s)) /\ NamesApart(s) /\ Agree(s)
  BY LoadedMount
<1>10. NS!Live(s) \ X \subseteq NS!Reached(s)
  OBVIOUS
<1> HIDE DEF s, X
<1>5. /\ IsNames(t) /\ t.index = s.index /\ t.files = s.files /\ t.buffer = s.buffer /\ t.inode = s.inode
      /\ t.logged = s.logged /\ t.next_inode = s.next_inode /\ t.doubled = s.doubled /\ t.excused = X
  BY <1>2, EmptyMap DEF IsNames, HasNames
<1> HIDE DEF t
<1>6. NS!Live(t) = NS!Live(s) /\ NameSlots(t) = NameSlots(s)
  BY <1>5 DEF NS!Live, NameSlots
<1>7. NS!Reached(s) \subseteq NS!Reached(t)
  <2>1. \A i \in NS!Live(s) : SameFile(t.files[i], s.files[i])
    BY <1>5 DEF SameFile
  <2> QED
    BY <1>2, <1>5, <1>6, <2>1, StaysReached
<1>8. Found(t)
  BY <1>5, <1>6, <1>7, <1>10 DEF Found
<1>9. CASE ns.doubled = {}
  <2>1. IsHome(t, HomesOf(s)) /\ Homes(t, HomesOf(s), NameSlots(t)) /\ NamesApart(t) /\ Agree(t)
    BY <1>4, <1>5, <1>6, <1>9 DEF IsHome, Homes, NamesApart, Agree, IsEntry
  <2> QED
    BY <1>1, <1>5, <1>8, <2>1 DEF IsMounted, IsIn, IsMount
<1>11. CASE ns.doubled # {}
  <2>1. ListedMatch(t)
    BY <1>2, <1>3, <1>5, <1>6, <1>8 DEF ListedMatch, IsEntry
  <2> QED
    BY <1>1, <1>2, <1>5, <1>11, <2>1 DEF IsMounted
<1> QED
  BY <1>9, <1>11

-----------------------------------------------------------------------------
(***************************************************************************)
(* The start, and every step.                                              *)
(***************************************************************************)
\* An empty image is one, and its mount too.
LEMMA ImageIs ==
  ASSUME NEW names \in NS!Names
  PROVE  IsImage(NS!Image(names)) /\ IsIn(NS!Image(names), <<>>)
<1> DEFINE s == NS!Image(names)
           p == [k \in Slot |-> NS!NoInode]
<1>1. p \in [Slot -> Records] /\ \A k \in Slot : p[k] = NS!NoInode
  BY NoInodeIs
<1>2. s = [index |-> <<>>, files |-> <<>>, next_inode |-> 2, cached |-> {}, buffer |-> <<>>,
           inode |-> p, logged |-> p, truth |-> <<>>, excused |-> {}, doubled |-> {}, names |-> names]
  BY DEF NS!Image
<1>3. names \subseteq NS!Name
  BY DEF NS!Name
<1> HIDE DEF s, p
<1>4. /\ IsNames(s) /\ s.index = <<>> /\ s.files = <<>> /\ s.next_inode = 2 /\ s.buffer = <<>>
      /\ s.inode = p /\ s.logged = p
  BY <1>1, <1>2, <1>3, EmptyMap DEF IsNames, HasNames
<1>5. \A k \in Slot : ~Good(s.inode[k]) /\ s.logged[k] = NS!NoInode /\ ~Good(Final(s, k))
  BY <1>1, <1>4, NoInodeIs DEF Good, NS!is_valid, Final
<1>6. IsImage(s)
  BY <1>4, <1>5 DEF IsImage
<1>7. DOMAIN s.index = {} /\ NS!Live(s) = {} /\ DOMAIN s.buffer = {} /\ NameSlots(s) = {} /\ DOMAIN <<>> = {}
  BY <1>4, EmptyMap DEF NS!Live, NameSlots
<1>8. <<>> = [i \in DOMAIN <<>> |-> <<>>[i]]
  BY EmptyMap DEF IsMap
<1>9. IsHome(s, <<>>) /\ Homes(s, <<>>, NameSlots(s)) /\ NamesApart(s) /\ Agree(s) /\ Found(s)
  BY <1>5, <1>7, <1>8 DEF IsHome, Homes, NamesApart, Agree, Found
<1> QED
  BY <1>4, <1>6, <1>9 DEF IsIn, IsMount, s

\* The mount of an image that has nothing but a file's tags.
LEMMA TaggedIs ==
  ASSUME NameSetting, NEW names \in NS!Names, NEW k \in Slot, NEW n \in names \cap Sidecar
  PROVE  IsMounted(NS!load(NS!Tagged(names, k, n)))
<1> DEFINE b == NS!Image(names)
           r == NS!Record(TagBase + k, NS!Root, n, FALSE)
           p == [b.inode EXCEPT ![k] = r]
           s == [b EXCEPT !.inode = p]
           o == NS!open(s)
           t == NS!load(s)
           i == TagBase + k
           m == <<NS!Root, n>>
<1>1. NS!Tagged(names, k, n) = s
  BY DEF NS!Tagged
<1>2. i \in Nat /\ i > 1 /\ n \in NS!Name /\ n \notin Virtual /\ NameKept[n] = n
  <2>1. k \in Nat /\ TagBase \in Nat \ {0, 1} /\ n \in NS!Name
    BY DEF NameSetting, NS!Name
  <2>2. n \notin Virtual /\ NameKept[n] = n
    BY <2>1 DEF NameSetting
  <2> QED
    BY <2>1, <2>2
<1> HIDE DEF i
<1>3. r = [ino |-> i, parent |-> NS!Root, name |-> n, dir |-> FALSE, used |-> TRUE]
  BY <1>2 DEF NS!Record, i
<1> HIDE DEF r
<1>4. r \in Records /\ r.used /\ r.ino = i /\ r.parent = NS!Root /\ r.name = n
  BY <1>2, <1>3 DEF Records, Words, NS!Root
<1>5. IsImage(b) /\ b.excused = {} /\ b.doubled = {} /\ \A j \in Slot : b.inode[j] = NS!NoInode /\ b.logged[j] = NS!NoInode
  BY ImageIs DEF NS!Image
<1> HIDE DEF b
<1>6. p \in [Slot -> Records] /\ p[k] = r /\ \A j \in Slot : j # k => p[j] = NS!NoInode
  BY <1>4, <1>5 DEF IsImage, IsNames
<1> HIDE DEF p
<1>7. /\ IsNames(s) /\ s.index = <<>> /\ s.files = <<>> /\ s.next_inode = 2 /\ s.buffer = <<>>
      /\ s.inode = p /\ s.logged = b.logged /\ s.excused = {} /\ s.doubled = {}
  BY <1>5, <1>6 DEF IsImage, IsNames, HasNames
<1> HIDE DEF s
<1>8. \A j \in Slot : Final(s, j) = p[j] /\ (Good(p[j]) => j = k)
  BY <1>5, <1>6, <1>7, NoInodeIs DEF Final, Good, NS!is_valid
<1>9. IsImage(s)
  BY <1>2, <1>4, <1>6, <1>7, <1>8 DEF IsImage
<1>10. \A j \in Slot : o.inode[j] = p[j]
  BY <1>8, <1>9, OpenIs
<1>11. o.excused = {}
  BY <1>7, <1>9, OpenIs
<1>12. IsNames(t) /\ IsHome(t, HomesOf(t)) /\ Homes(t, HomesOf(t), NameSlots(t)) /\ NamesApart(t) /\ Agree(t)
  BY <1>7, <1>9, LoadedMount
<1>13. Loaded(o, t, Slot) /\ IsFiniteSet(NS!Live(t)) /\ NS!Root \notin NS!Live(t)
  BY <1>9, LoadedFrom DEF NS!Root
<1> HIDE DEF o, t
<1>14. ASSUME NEW j \in NS!Live(t) PROVE j \in NS!Reached(t)
  <2>1. PICK x \in Slot : Good(o.inode[x]) /\ o.inode[x].ino = j /\ IsFileOf(t.files[j], o.inode[x], x)
    BY <1>13 DEF Loaded, FilesFrom
  <2>2. x = k /\ o.inode[x] = r /\ Good(o.inode[k])
    BY <1>6, <1>8, <1>10, <2>1
  <2>3. j = i /\ t.files[j].parent = NS!Root
    BY <1>4, <2>1, <2>2 DEF IsFileOf
  <2>4. KeyOf(r) = m
    BY <1>4 DEF KeyOf
  <2>5. m \in DOMAIN t.index
    BY <1>13, <2>2, <2>4 DEF Loaded, AllTaken
  <2>6. PICK y \in Slot : Good(o.inode[y]) /\ t.index[m] = EntryOf(o.inode[y], y)
    BY <1>13, <2>5 DEF Loaded, IndexFrom
  <2>7. t.index[m].ino = i
    BY <1>4, <1>6, <1>8, <1>10, <2>6 DEF EntryOf
  <2>8. IsEntry(t, m)
    BY <1>12, <2>5 DEF Agree
  <2>9. m[1] = NS!Root /\ m[2] = n
    OBVIOUS
  <2> HIDE DEF m
  <2>10. Followed(t, j)
    BY <1>2, <2>3, <2>5, <2>7, <2>8, <2>9, EntryFollowed DEF NS!IsDir
  <2>11. IsPath(t, NS!Reached(t))
    BY <1>13, ReachedIs
  <2> QED
    BY <2>3, <2>10, <2>11 DEF IsPath
<1>15. IsIn(t, HomesOf(t))
  BY <1>12, <1>14 DEF IsIn, IsMount, Found
<1> QED
  BY <1>1, <1>15 DEF IsMounted, t

\* The start.
LEMMA NamesInit == ASSUME NameSetting, NS!Init PROVE NamesInv
<1>1. PICK names \in NS!Names :
        \/ ns = NS!Image(names)
        \/ \E n \in names \cap Sidecar, k \in Slot \ {0} : ns = NS!load(NS!Tagged(names, k, n))
  BY DEF NS!Init
<1>2. mode = "mounted"
  BY DEF NS!Init
<1> QED
  BY <1>1, <1>2, ImageIs, TaggedIs DEF NamesInv, IsMounted

\* Every step.
LEMMA NamesStep ==
  ASSUME NameSetting, {"replaced", "shadowed"} \subseteq Lost, NamesInv, [NS!Next]_(NS!vars)
  PROVE  NamesInv'
<1>1. CASE UNCHANGED NS!vars
  <2>1. ns' = ns /\ mode' = mode
    BY <1>1 DEF NS!vars
  <2> QED
    BY <2>1 DEF NamesInv
<1>2. CASE NS!Load
  <2>1. IsImage(ns)
    BY <1>2 DEF NS!Load, NamesInv
  <2> QED
    BY <1>2, <2>1, LoadMounts DEF NamesInv
<1>3. ASSUME NEW n \in ns.names \cap Sidecar, NS!Tag(n) PROVE NamesInv'
  <2>1. mode # "mounted" /\ mode' = mode /\ ns' = NS!cmd_tag(ns, n) /\ IsImage(ns)
    BY <1>3 DEF NS!Tag, NS!Request, NamesInv
  <2>2. n \in NS!Name \cap Sidecar
    BY <2>1 DEF IsImage, IsNames
  <2> QED
    BY <2>1, <2>2, TagIs DEF NamesInv
<1>4. ASSUME mode = "mounted", NS!More,
             \/ \E d \in NS!Dirs(ns), n \in ns.names :
                  \/ NS!Create(d, n) \/ NS!Mkdir(d, n) \/ NS!Unlink(d, n) \/ NS!Rmdir(d, n)
                  \/ \E e \in NS!Dirs(ns), m \in ns.names : NS!Rename(d, n, e, m)
             \/ \E i \in NameIno : NS!Write(i) \/ NS!Read(i) \/ NS!Flush(i)
             \/ NS!Destroy \/ NS!Crash
      PROVE  NamesInv'
  <2>1. PICK h : IsIn(ns, h)
    BY <1>4 DEF NamesInv, IsMounted, NS!More
  <2>2. ASSUME \E g : IsIn(ns', g) /\ mode' = mode PROVE NamesInv'
    BY <1>4, <2>2 DEF NamesInv, IsMounted
  <2>3. ASSUME NEW d \in NS!Dirs(ns), NEW n \in ns.names,
               \/ NS!Create(d, n) \/ NS!Mkdir(d, n) \/ NS!Unlink(d, n) \/ NS!Rmdir(d, n)
               \/ \E e \in NS!Dirs(ns), m \in ns.names : NS!Rename(d, n, e, m)
        PROVE  \E g : IsIn(ns', g) /\ mode' = mode
    <3>1. CASE NS!Create(d, n)
      BY <2>1, <3>1, CreateIn
    <3>2. CASE NS!Mkdir(d, n)
      BY <2>1, <3>2, MkdirIn
    <3>3. CASE NS!Unlink(d, n)
      BY <2>1, <3>3, UnlinkIn
    <3>4. CASE NS!Rmdir(d, n)
      BY <2>1, <3>4, RmdirIn
    <3>5. ASSUME NEW e \in NS!Dirs(ns), NEW m \in ns.names, NS!Rename(d, n, e, m)
          PROVE  \E g : IsIn(ns', g) /\ mode' = mode
      BY <2>1, <3>5, RenameIn
    <3> QED
      BY <2>3, <3>1, <3>2, <3>3, <3>4, <3>5
  <2>4. ASSUME NEW i \in NameIno, NS!Write(i) \/ NS!Read(i) \/ NS!Flush(i)
        PROVE  \E g : IsIn(ns', g) /\ mode' = mode
    BY <2>1, <2>4, WriteIn, ReadIn, FlushIn
  <2>5. CASE NS!Destroy
    BY <2>1, <2>5, DestroyIs DEF NamesInv
  <2>6. CASE NS!Crash
    BY <2>1, <2>6, CrashIs DEF NamesInv
  <2> QED
    BY <1>4, <2>2, <2>3, <2>4, <2>5, <2>6
<1> QED
  BY <1>1, <1>2, <1>3, <1>4 DEF NS!Next

\* The index and the table of files describe one tree, whatever is requested, stored,
\* evicted, killed, tagged and mounted again, for all numbers of slots, inodes, names and
\* requests, of all files but those that a rename has replaced or hidden
\* (fuse/mod.rs:1067, 1091, 1141, 156).
THEOREM OneTree ==
  ASSUME {"replaced", "shadowed"} \subseteq Lost
  PROVE  NS!Spec => []NamesAgree
<1>1. NS!Init => NamesInv
  BY SettingIs, NamesInit
<1>2. NamesInv /\ [NS!Next]_(NS!vars) => NamesInv'
  BY SettingIs, NamesStep
<1>3. NamesInv => NamesAgree
  <2>1. SUFFICES ASSUME NamesInv, mode = "mounted" PROVE NS!NamesAgree
    BY DEF NamesAgree, NS!NamesAgree
  <2>2. ListedMatch(ns)
    BY <2>1, MountedAgrees DEF NamesInv
  <2> QED
    BY <2>2 DEF ListedMatch, IsEntry, Found, NS!NamesAgree
<1> QED
  BY <1>1, <1>2, <1>3, PTL DEF NS!Spec
=============================================================================
