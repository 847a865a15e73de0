---------------------------- MODULE VexFSProofs ----------------------------
(***************************************************************************)
(* What becomes of a file's data, for every number of files, slots and     *)
(* blocks, and caches, buffers and disks of any size: the types, that a    *)
(* live file's slot and record are its own, and that no contents are lost  *)
(* but in the five known ways: what was last written to a file is in the   *)
(* cache, in the write buffer or on disk, wherever a request looks for it, *)
(* and survives an unmount, a crash and a mount.                           *)
(***************************************************************************)
EXTENDS VexFS, FoldLemmas

-----------------------------------------------------------------------------
(***************************************************************************)
(* What is proved of the cache and of the free list.  An instance has its  *)
(* own copies of the operators.                                            *)
(***************************************************************************)
AP == INSTANCE ArcCacheProofs WITH Key <- Ino, NoKey <- NoIno, MaxBytes <- CacheBlocks,
        Sizes <- Nat, MaxQueue <- 0, MaxReport <- 0, cache <- fs.cache
FP == INSTANCE FreeListProofs WITH Holder <- Ino, Sizes <- 1 .. MaxBlocks, Sector <- 1,
        extents <- fs.list, next_data_offset <- fs.next, held <- <<>>

\* The constants are as the cache and the list ask for.
LEMMA Assumptions == FP!ExtentsAssumption /\ AP!ArcAssumption /\ AP!ArcCacheAssumption
BY VexFSAssumption DEF FP!ExtentsAssumption, AP!ArcAssumption, AP!ArcCacheAssumption

\* The operators of the ordered sets.
LEMMA SameSets ==
  /\ \A o, k : Arc!push_back(o, k) = AP!push_back(o, k) /\ Arc!remove(o, k) = AP!remove(o, k)
  /\ \A o : Arc!front(o) = AP!front(o) /\ Arc!pop_front(o) = AP!pop_front(o)
  /\ \A o, m : Arc!truncate_to(o, m) = AP!truncate_to(o, m)
<1>1. \A o, k : /\ Arc!push_back(o, k) = AP!push_back(o, k)
               /\ Arc!remove(o, k) = AP!remove(o, k)
  BY DEF Arc!push_back, AP!push_back, Arc!remove, AP!remove
<1>2. \A o : Arc!front(o) = AP!front(o) /\ Arc!pop_front(o) = AP!pop_front(o)
  BY DEF Arc!front, AP!front, Arc!pop_front, AP!pop_front, Arc!Min, AP!Min
<1>3. \A o, m : Arc!truncate_to(o, m) = AP!truncate_to(o, m)
  BY DEF Arc!truncate_to, AP!truncate_to, Arc!FoldLeft, AP!FoldLeft,
         Arc!MapThenFoldSet, AP!MapThenFoldSet, Arc!Max, AP!Max,
         Arc!Cardinality, AP!Cardinality, Arc!pop_front, AP!pop_front,
         Arc!Min, AP!Min
<1> QED
  BY <1>1, <1>2, <1>3

\* Which entry goes.
LEMMA SameVictim == \A c : Arc!FromT1(c) = AP!FromT1(c) /\ Arc!Victim(c) = AP!Victim(c)
<1>1. \A c : Arc!FromT1(c) = AP!FromT1(c)
  BY DEF Arc!FromT1, AP!FromT1, Arc!Cardinality, AP!Cardinality
<1> QED
  BY <1>1, SameSets DEF Arc!Victim, AP!Victim

\* evict_one as an operator of what it is made of.
Gone(c, k, from, p1, p2, b1, b2) ==
  LET cut == [c EXCEPT !.data = [x \in DOMAIN c.data \ {k} |-> c.data[x]],
                       !.used = @ - (IF k \in DOMAIN c.data THEN c.data[k] ELSE 0),
                       !.evicted = Append(c.evicted, k)]
  IN  IF k = NoIno THEN c
      ELSE IF from THEN [cut EXCEPT !.t1 = p1, !.b1 = b1] ELSE [cut EXCEPT !.t2 = p2, !.b2 = b2]

\* One eviction.
LEMMA SameEvict == \A c : Arc!evict_one(c) = AP!evict_one(c)
<1> TAKE c
<1> DEFINE k == Arc!Victim(c)
           v == AP!Victim(c)
<1>1. Arc!evict_one(c) =
        Gone(c, k, Arc!FromT1(c), Arc!pop_front(c.t1), Arc!pop_front(c.t2),
             Arc!truncate_to(Arc!push_back(c.b1, k), MaxGhosts),
             Arc!truncate_to(Arc!push_back(c.b2, k), MaxGhosts))
  BY DEF Gone, Arc!evict_one, Arc!Without, Arc!Reported, Arc!Cached
<1>2. AP!evict_one(c) =
        Gone(c, v, AP!FromT1(c), AP!pop_front(c.t1), AP!pop_front(c.t2),
             AP!truncate_to(AP!push_back(c.b1, v), MaxGhosts),
             AP!truncate_to(AP!push_back(c.b2, v), MaxGhosts))
  BY DEF Gone, AP!evict_one, AP!Without, AP!Reported, AP!Cached
<1> QED
  BY <1>1, <1>2, SameSets, SameVictim

\* The eviction loop.
LEMMA SameRoom == \A c, n : Arc!MakeRoom(c, n) = AP!MakeRoom(c, n)
<1> TAKE c, n
<1> DEFINE S == DOMAIN [i \in 1 .. Cardinality(DOMAIN c.data) |-> i]
           Crowd(x) == DOMAIN x.data # {} /\ x.used + n > CacheBlocks
           A(g) == g = [s \in SUBSET S |->
                          IF s = {} THEN c
                          ELSE IF Crowd(g[s \ {Max(s)}])
                               THEN Arc!evict_one(g[s \ {Max(s)}]) ELSE g[s \ {Max(s)}]]
           P(g) == g = [s \in SUBSET S |->
                          IF s = {} THEN c
                          ELSE IF Crowd(g[s \ {Max(s)}])
                               THEN AP!evict_one(g[s \ {Max(s)}]) ELSE g[s \ {Max(s)}]]
<1>1. Arc!MakeRoom(c, n) = (CHOOSE g : A(g))[S]
  BY DEF Arc!MakeRoom, Arc!FoldLeft, Arc!MapThenFoldSet, Arc!Cached, Arc!Crowded, Arc!Max,
         Max, Arc!Cardinality, Cardinality
<1>2. AP!MakeRoom(c, n) = (CHOOSE g : P(g))[S]
  BY DEF AP!MakeRoom, AP!FoldLeft, AP!MapThenFoldSet, AP!Cached, AP!Crowded, AP!Max,
         Max, AP!Cardinality, Cardinality
<1>3. \A g : A(g) <=> P(g)
  BY SameEvict
<1> HIDE DEF A, P
<1> QED
  BY <1>1, <1>2, <1>3

\* An insertion.
LEMMA SameInsert == \A c, k, n : Arc!insert(c, k, n) = AP!insert(c, k, n)
<1> TAKE c, k, n
<1>1. CASE k \in DOMAIN c.data
  BY <1>1, SameSets
     DEF Arc!insert, AP!insert, Arc!Cached, AP!Cached, Arc!promote,
         AP!promote, Arc!Replaced, AP!Replaced, Arc!Minus, AP!Minus, Arc!With,
         AP!With, Arc!push_back, AP!push_back, Arc!remove, AP!remove
<1>2. CASE k \notin DOMAIN c.data
  <2> DEFINE r == Arc!MakeRoom(c, n)
             q == AP!MakeRoom(c, n)
             Set(x) == [x EXCEPT !.used = @ + n,
                                 !.data = [y \in DOMAIN x.data \cup {k} |->
                                             IF y = k THEN n ELSE x.data[y]]]
             Put(x) == IF k \in x.t1.set \cup x.t2.set THEN Set(x)
                       ELSE [Set(x) EXCEPT !.t1 =
                               IF k \in Set(x).t1.set THEN @
                               ELSE [order |-> Append(Set(x).t1.order, k),
                                     set |-> Set(x).t1.set \cup {k}]]
  <2>1. Arc!insert(c, k, n) = Put(r)
    BY <1>2 DEF Arc!insert, Arc!Cached, Arc!With, Arc!push_back
  <2>2. AP!insert(c, k, n) = Put(q)
    BY <1>2 DEF AP!insert, AP!Cached, AP!With, AP!push_back
  <2> HIDE DEF r, q
  <2>3. r = q
    BY SameRoom DEF r, q
  <2> QED
    BY <2>1, <2>2, <2>3
<1> QED
  BY <1>1, <1>2

\* The other operations.
LEMMA SameCalls ==
  /\ \A c, k : Arc!get(c, k) = AP!get(c, k) /\ Arc!remove_key(c, k) = AP!remove_key(c, k)
  /\ \A c : Arc!drain_evicted(c) = AP!drain_evicted(c)
  /\ \A c : Arc!peek_eviction_candidate(c) = AP!peek_eviction_candidate(c)
  /\ Arc!EmptyCache = AP!EmptyCache
<1>1. \A c, k : Arc!get(c, k) = AP!get(c, k)
  BY DEF Arc!get, AP!get, Arc!promote, AP!promote, Arc!push_back, AP!push_back,
       Arc!Cached, AP!Cached, Arc!Minus, AP!Minus, Arc!remove, AP!remove
<1>2. \A c, k : Arc!remove_key(c, k) = AP!remove_key(c, k)
  BY DEF Arc!remove_key, AP!remove_key, Arc!Cached, AP!Cached, Arc!Minus,
       AP!Minus, Arc!Without, AP!Without, Arc!remove, AP!remove
<1>3. \A c : Arc!drain_evicted(c) = AP!drain_evicted(c)
  BY DEF Arc!drain_evicted, AP!drain_evicted
<1>4. \A c : Arc!peek_eviction_candidate(c) = AP!peek_eviction_candidate(c)
  BY SameVictim DEF Arc!peek_eviction_candidate, AP!peek_eviction_candidate
<1>5. Arc!EmptyCache = AP!EmptyCache
  BY DEF Arc!EmptyCache, AP!EmptyCache, Arc!EmptySet, AP!EmptySet
<1> QED
  BY <1>1, <1>2, <1>3, <1>4, <1>5

\* A hit or a miss changes nothing that is cached.
LEMMA CacheGet ==
  ASSUME NEW c \in AP!Good, NEW i \in Ino
  PROVE  Arc!get(c, i) \in AP!Good /\ Arc!get(c, i).data = c.data
BY Assumptions, SameCalls, AP!GetIs

\* An insertion caches the file with its size; it reports what has gone.
LEMMA CacheInsert ==
  ASSUME NEW c \in AP!Good, NEW i \in Ino, NEW n \in Nat
  PROVE  LET r == Arc!insert(c, i, n)
         IN  /\ r \in AP!Good /\ r.evicted \in Seq(Ino)
             /\ i \in DOMAIN r.data /\ DOMAIN r.data \subseteq DOMAIN c.data \cup {i}
             /\ r.data[i] = n
             /\ \A x \in DOMAIN r.data \ {i} : r.data[x] = c.data[x]
             /\ \A x \in DOMAIN c.data \ DOMAIN r.data :
                  \E j \in DOMAIN r.evicted : r.evicted[j] = x
<1> DEFINE r == Arc!insert(c, i, n)
           room == AP!MakeRoom(c, n)
<1>1. /\ r \in AP!Good
      /\ IF i \in AP!Cached(c)
         THEN AP!Cached(r) = AP!Cached(c) /\ r.evicted = c.evicted
         ELSE /\ AP!Cached(r) = AP!Cached(room) \cup {i}
              /\ r.evicted = room.evicted
      /\ r.data = AP!With(IF i \in AP!Cached(c) THEN c.data ELSE room.data, i, n)
  BY Assumptions, SameInsert, AP!InsertIs
<1>2. room \in AP!Good /\ AP!Shed(c, room)
  BY Assumptions, AP!MakeRoomIs
<1>3. r.evicted \in Seq(Ino) /\ room.evicted \in Seq(Ino) /\ c.evicted \in Seq(Ino)
  BY <1>1, <1>2, Assumptions, AP!GoodIs
<1> HIDE DEF r, room
<1>4. CASE i \in AP!Cached(c)
  BY <1>1, <1>3, <1>4 DEF AP!Cached, AP!With, r
<1>5. CASE i \notin AP!Cached(c)
  <2>1. /\ AP!Cached(room) \subseteq AP!Cached(c)
        /\ \A x \in AP!Cached(room) : room.data[x] = c.data[x]
        /\ \A x \in AP!Cached(c) \ AP!Cached(room) : \E j \in DOMAIN room.evicted : room.evicted[j] = x
    BY <1>2, <1>3 DEF AP!Shed
  <2> QED
    BY <1>1, <1>3, <1>5, <2>1 DEF AP!Cached, AP!With, r
<1> QED
  BY <1>4, <1>5

\* What is left by a removal, by a drain, and in a new cache.
LEMMA CacheRemove ==
  ASSUME NEW c \in AP!Good, NEW i \in Ino
  PROVE  /\ Arc!remove_key(c, i) \in AP!Good
         /\ DOMAIN Arc!remove_key(c, i).data = DOMAIN c.data \ {i}
         /\ \A x \in DOMAIN c.data \ {i} : Arc!remove_key(c, i).data[x] = c.data[x]
BY Assumptions, SameCalls, AP!RemoveKeyIs DEF AP!Cached

\* A drain empties the report.
LEMMA CacheDrain ==
  ASSUME NEW c \in AP!Good
  PROVE  /\ Arc!drain_evicted(c) \in AP!Good /\ Arc!drain_evicted(c).data = c.data
         /\ c.evicted \in Seq(Ino)
BY Assumptions, SameCalls, AP!DrainIs, AP!GoodIs

\* A new cache has nothing.
LEMMA CacheEmpty == Arc!EmptyCache \in AP!Good /\ DOMAIN Arc!EmptyCache.data = {}
BY Assumptions, SameCalls, AP!EmptyIsGood DEF Arc!EmptyCache

\* The candidate is cached.
LEMMA CachePeek ==
  ASSUME NEW c \in AP!Good
  PROVE  Arc!peek_eviction_candidate(c) \in DOMAIN c.data \cup {NoIno}
<1>1. /\ c.t1 \in AP!Queue /\ c.t2 \in AP!Queue
      /\ DOMAIN c.data = c.t1.set \cup c.t2.set
  BY Assumptions, AP!GoodIs DEF AP!Cached
<1>2. CASE DOMAIN c.data = {}
  <2>1. AP!front(c.t1) = NoIno /\ AP!front(c.t2) = NoIno
    BY <1>1, <1>2, Assumptions, AP!PopIs
  <2> QED
    BY <2>1, SameCalls DEF AP!peek_eviction_candidate, AP!Victim
<1>3. CASE DOMAIN c.data # {}
  <2>1. AP!Victim(c) \in DOMAIN c.data
    BY <1>3, Assumptions, AP!EvictIs DEF AP!Cached
  <2> QED
    BY <2>1, SameCalls DEF AP!peek_eviction_candidate
<1> QED
  BY <1>2, <1>3

\* The list stays a vector of extents.
LEMMA ListFreed ==
  ASSUME NEW l \in Seq(List!Extent), NEW offset \in Nat, NEW size \in Nat
  PROVE  List!Freed(l, [offset |-> offset, length |-> size]) \in Seq(List!Extent)
<1>1. List!Extent = FP!Extent
  BY DEF List!Extent, FP!Extent
<1>2. \A s, e : List!Freed(s, e) = FP!Freed(s, e)
  BY DEF List!Freed, FP!Freed, List!Capped, FP!Capped, List!merge_adjacent,
       FP!merge_adjacent, List!FoldLeft, FP!FoldLeft, List!MapThenFoldSet,
       FP!MapThenFoldSet, List!Max, FP!Max, List!ByOffset, FP!ByOffset,
       List!Rank, FP!Rank, List!Cardinality, FP!Cardinality, List!Absorb,
       FP!Absorb, List!Touches, FP!Touches, List!Joined, FP!Joined, List!End,
       FP!End, List!Last, FP!Last, List!Front, FP!Front
<1>3. CASE offset = 0 \/ size = 0
  BY <1>3 DEF List!Freed
<1>4. CASE offset # 0 /\ size # 0
  <2>1. [offset |-> offset, length |-> size] \in FP!Extent
    BY <1>4 DEF FP!Extent
  <2> QED
    BY <1>1, <1>2, <2>1, Assumptions, FP!FreedIs
<1> QED
  BY <1>3, <1>4

\* alloc takes an extent of the list, and leaves a vector of extents.
LEMMA ListTaken ==
  ASSUME NEW l \in Seq(List!Extent), NEW j \in DOMAIN l, NEW size \in Nat \ {0},
         List!IsBestFit(l, j, size)
  PROVE  List!Taken(l, j, size) \in Seq(List!Extent) /\ l[j].offset \in Nat
<1>1. l[j].offset \in Nat \ {0} /\ l[j].length \in Nat \ {0} /\ l[j].length >= size
  <2>1. l[j] \in List!Extent
    OBVIOUS
  <2> QED
    BY <2>1 DEF List!IsBestFit, List!Extent
<1>2. List!RemoveAt(l, j) \in Seq(List!Extent)
  BY DEF List!RemoveAt
<1>3. CASE List!WorthKeeping(l[j].length - size)
  <2>1. List!Kept(l[j], size) \in List!Extent
    <3>1. l[j].length - size >= 1
      BY <1>3 DEF List!WorthKeeping
    <3>2. \A o, m \in Nat \ {0} : m - size >= 1 => o + size \in Nat \ {0} /\ m - size \in Nat \ {0}
      OBVIOUS
    <3>3. l[j].offset + size \in Nat \ {0} /\ l[j].length - size \in Nat \ {0}
      BY <1>1, <3>1, <3>2
    <3> QED
      BY <3>3 DEF List!Kept, List!Extent
  <2>2. Append(List!RemoveAt(l, j), List!Kept(l[j], size)) \in Seq(List!Extent)
    BY <1>2, <2>1
  <2>3. List!Taken(l, j, size) = Append(List!RemoveAt(l, j), List!Kept(l[j], size))
    BY <1>3 DEF List!Taken
  <2> QED
    BY <1>1, <2>2, <2>3
<1>4. CASE ~List!WorthKeeping(l[j].length - size)
  BY <1>1, <1>2, <1>4 DEF List!Taken
<1> QED
  BY <1>3, <1>4
-----------------------------------------------------------------------------
(***************************************************************************)
(* The types.                                                              *)
(***************************************************************************)
Content == {d \in Seq(Block) : Len(d) <= MaxBlocks}
Cell == [val : Block, run : 1 .. MaxBlocks]
File == [size : 0 .. MaxBlocks, offset : Nat, slot : Slot, dirty : BOOLEAN]
Inode == {n \in [ino : Ino \cup {0}, size : 0 .. MaxBlocks, offset : Nat, used : BOOLEAN] :
            n.used => n.ino \in Ino}
Pending == [data : Content, slot : Slot]
Maps(S, V) == UNION {[D -> V] : D \in SUBSET S}

Shape ==
  [files : Maps(Ino, File), next_inode : Nat,
   cache : AP!Good, blocks : Maps(Ino, Content), buffer : Maps(Ino, Pending),
   list : Seq(List!Extent), next : Nat,
   inode : [Slot -> Inode], logged : [Slot -> Inode], data : Maps(Nat, Cell),
   saved_list : Seq(List!Extent), saved_next : Nat, room : Nat,
   truth : Maps(Ino, Content), excused : SUBSET Ino]

\* FS is a set, so that the rounds of a loop can be a function into it.
FS == {s \in Shape : DOMAIN s.blocks = Cached(s)}

\* A partial function.
LEMMA MapsIs ==
  ASSUME NEW S, NEW V, NEW f
  PROVE  f \in Maps(S, V) <=> DOMAIN f \subseteq S /\ f \in [DOMAIN f -> V]
BY DEF Maps

\* What decompression makes of cells: a run, if the first is one.
LEMMA UnpackedIs ==
  ASSUME NEW raw \in Seq(Cell), Len(raw) <= MaxBlocks
  PROVE  /\ Unpacked(raw) \in Content
         /\ Len(Unpacked(raw)) =
              IF raw # <<>> /\ raw[1].run > 1 THEN raw[1].run ELSE Len(raw)
<1>1. \A k \in DOMAIN raw : raw[k].val \in Block /\ raw[k].run \in 1 .. MaxBlocks
  <2>1. \A k \in DOMAIN raw : raw[k] \in Cell
    OBVIOUS
  <2> QED
    BY <2>1 DEF Cell
<1>2. CASE raw # <<>> /\ raw[1].run > 1
  <2> DEFINE n == raw[1].run
             v == raw[1].val
  <2>1. 1 \in DOMAIN raw
    BY <1>2
  <2>2. n \in 1 .. MaxBlocks /\ v \in Block
    BY <1>1, <2>1
  <2>3. Unpacked(raw) = [k \in 1 .. n |-> v]
    BY <1>2 DEF Unpacked
  <2>4. n \in Nat /\ n <= MaxBlocks
    BY <2>2, VexFSAssumption
  <2> HIDE DEF n, v
  <2>5. [k \in 1 .. n |-> v] \in Seq(Block) /\ Len([k \in 1 .. n |-> v]) = n
    BY <2>2, <2>4
  <2> QED
    BY <1>2, <2>3, <2>4, <2>5 DEF Content, n
<1>3. CASE ~(raw # <<>> /\ raw[1].run > 1)
  <2> DEFINE v(k) == IF raw[k].run = 1 THEN raw[k].val ELSE Junk
             d == [k \in 1 .. Len(raw) |-> v(k)]
  <2>1. Unpacked(raw) = d
    BY <1>3 DEF Unpacked
  <2>2. \A k \in 1 .. Len(raw) : v(k) \in Block
    BY <1>1 DEF Block
  <2> HIDE DEF v
  <2>3. d \in Seq(Block) /\ Len(d) = Len(raw)
    BY <2>2
  <2> QED
    BY <1>3, <2>1, <2>3 DEF Content
<1> QED
  BY <1>2, <1>3

\* The cells of an extent on disk.
Cells(s, o, n) == [k \in 1 .. n |-> CellAt(s, o + k - 1)]

\* They are cells.
LEMMA CellsIs ==
  ASSUME NEW s, s.data \in Maps(Nat, Cell), NEW o \in Nat, NEW n \in Nat
  PROVE  /\ Cells(s, o, n) \in Seq(Cell) /\ Len(Cells(s, o, n)) = n
         /\ \A k \in 1 .. n : Cells(s, o, n)[k] = CellAt(s, o + k - 1)
         /\ n > 0 => Cells(s, o, n)[1] = CellAt(s, o)
<1>1. ASSUME NEW a PROVE CellAt(s, a) \in Cell
  <2>1. s.data \in [DOMAIN s.data -> Cell]
    BY MapsIs
  <2>2. Plain(Junk) \in Cell
    BY VexFSAssumption DEF Plain, Cell, Block
  <2> QED
    BY <2>1, <2>2 DEF CellAt
<1> DEFINE c(k) == CellAt(s, o + k - 1)
<1>2. \A k \in 1 .. n : c(k) \in Cell
  BY <1>1
<1>4. Cells(s, o, n) = [k \in 1 .. n |-> c(k)]
  BY DEF Cells
<1>5. c(1) = CellAt(s, o)
  <2>1. o + 1 - 1 = o
    OBVIOUS
  <2> QED
    BY <2>1
<1> SUFFICES /\ [k \in 1 .. n |-> c(k)] \in Seq(Cell) /\ Len([k \in 1 .. n |-> c(k)]) = n
             /\ \A k \in 1 .. n : [m \in 1 .. n |-> c(m)][k] = c(k)
             /\ n > 0 => [m \in 1 .. n |-> c(m)][1] = c(1)
  BY <1>4, <1>5
<1> HIDE DEF c
<1> QED
  BY <1>2

\* What is read is contents; of the length that was read, it depends on
\* nothing else whether it is a run.
LEMMA ReadIs ==
  ASSUME NEW s, s.data \in Maps(Nat, Cell), NEW o \in Nat, NEW n \in 0 .. MaxBlocks
  PROVE  /\ ReadData(s, o, n) \in Content
         /\ \A m \in 0 .. MaxBlocks : Len(ReadData(s, o, n)) = m => ReadData(s, o, m) = ReadData(s, o, n)
<1> DEFINE c(m) == Cells(s, o, m)
<1>1. \A m \in 0 .. MaxBlocks :
        /\ c(m) \in Seq(Cell) /\ Len(c(m)) = m /\ Len(c(m)) <= MaxBlocks /\ m \in Nat
        /\ ReadData(s, o, m) = Unpacked(c(m))
        /\ m > 0 => c(m)[1] = CellAt(s, o)
  <2>1. \A m \in 0 .. MaxBlocks : m \in Nat /\ m <= MaxBlocks
    BY VexFSAssumption
  <2>2. \A m : ReadData(s, o, m) = Unpacked(Cells(s, o, m))
    BY DEF ReadData, Cells
  <2> QED
    BY <2>1, <2>2, CellsIs
<1> HIDE DEF c
<1>2. ReadData(s, o, n) \in Content
  BY <1>1, UnpackedIs
<1>3. ASSUME NEW m \in 0 .. MaxBlocks, Len(ReadData(s, o, n)) = m
      PROVE  ReadData(s, o, m) = ReadData(s, o, n)
  <2>1. /\ c(n) \in Seq(Cell) /\ Len(c(n)) = n /\ c(m) \in Seq(Cell) /\ Len(c(m)) = m
        /\ n \in Nat /\ m \in Nat
        /\ m > 0 => c(m)[1] = CellAt(s, o)
        /\ n > 0 => c(n)[1] = CellAt(s, o)
        /\ ReadData(s, o, m) = Unpacked(c(m)) /\ ReadData(s, o, n) = Unpacked(c(n))
    BY <1>1
  <2>2. m = IF c(n) # <<>> /\ c(n)[1].run > 1 THEN c(n)[1].run ELSE n
    BY <1>1, <1>3, <2>1, UnpackedIs
  <2>3. CASE c(n) # <<>> /\ c(n)[1].run > 1
    <3>1. n > 0 /\ m > 0
      BY <2>1, <2>2, <2>3
    <3>2. c(m) # <<>> /\ c(m)[1] = c(n)[1]
      BY <2>1, <3>1
    <3>3. Unpacked(c(m)) = Unpacked(c(n))
      BY <2>3, <3>2 DEF Unpacked
    <3> QED
      BY <2>1, <3>3
  <2>4. CASE ~(c(n) # <<>> /\ c(n)[1].run > 1)
    BY <2>2, <2>4
  <2> QED
    BY <2>3, <2>4
<1> QED
  BY <1>2, <1>3


\* What the fields of a file system are.
LEMMA ShapeIs ==
  ASSUME NEW s \in FS
  PROVE  /\ s \in Shape /\ DOMAIN s.blocks = Cached(s)
         /\ Live(s) \subseteq Ino /\ Cached(s) \subseteq Ino
         /\ DOMAIN s.buffer \subseteq Ino /\ DOMAIN s.truth \subseteq Ino
         /\ s.excused \subseteq Ino
         /\ s.files \in [Live(s) -> File] /\ s.blocks \in [Cached(s) -> Content]
         /\ s.buffer \in [DOMAIN s.buffer -> Pending] /\ s.truth \in [DOMAIN s.truth -> Content]
         /\ s.cache \in AP!Good /\ s.list \in Seq(List!Extent) /\ s.next \in Nat
         /\ s.inode \in [Slot -> Inode] /\ s.logged \in [Slot -> Inode]
         /\ s.data \in Maps(Nat, Cell) /\ s.next_inode \in Nat
         /\ s.saved_list \in Seq(List!Extent) /\ s.saved_next \in Nat /\ s.room \in Nat
<1>1. s \in Shape /\ DOMAIN s.blocks = Cached(s)
  BY DEF FS
<1>2. /\ s.files \in Maps(Ino, File) /\ s.blocks \in Maps(Ino, Content)
      /\ s.buffer \in Maps(Ino, Pending) /\ s.truth \in Maps(Ino, Content)
      /\ s.cache \in AP!Good /\ s.list \in Seq(List!Extent) /\ s.next \in Nat
      /\ s.inode \in [Slot -> Inode] /\ s.logged \in [Slot -> Inode]
      /\ s.data \in Maps(Nat, Cell) /\ s.next_inode \in Nat /\ s.excused \subseteq Ino
      /\ s.saved_list \in Seq(List!Extent) /\ s.saved_next \in Nat /\ s.room \in Nat
  BY <1>1 DEF Shape
<1> QED
  BY <1>1, <1>2, MapsIs DEF Live

\* And of its files, its inodes and its buffered data.
LEMMA FieldsAre ==
  ASSUME NEW s \in FS
  PROVE  /\ \A i \in Live(s) :
              /\ s.files[i] \in File
              /\ s.files[i].size \in 0 .. MaxBlocks /\ s.files[i].size \in Nat
              /\ s.files[i].offset \in Nat
              /\ s.files[i].slot \in Slot /\ s.files[i].dirty \in BOOLEAN
         /\ \A i \in Cached(s) : s.blocks[i] \in Content
         /\ \A i \in DOMAIN s.buffer : s.buffer[i].data \in Content /\ s.buffer[i].slot \in Slot
         /\ \A i \in DOMAIN s.truth : s.truth[i] \in Content
         /\ \A k \in Slot : s.inode[k] \in Inode /\ s.logged[k] \in Inode
<1>1. \A i \in Live(s) : s.files[i] \in File
  BY ShapeIs
<1>2. \A i \in DOMAIN s.buffer : s.buffer[i] \in Pending
  BY ShapeIs
<1>3. /\ \A i \in Cached(s) : s.blocks[i] \in Content
      /\ \A i \in DOMAIN s.truth : s.truth[i] \in Content
      /\ \A k \in Slot : s.inode[k] \in Inode /\ s.logged[k] \in Inode
  BY ShapeIs
<1>4. \A n \in 0 .. MaxBlocks : n \in Nat
  BY VexFSAssumption
<1> QED
  BY <1>1, <1>2, <1>3, <1>4 DEF File, Pending

\* Changing a partial function in one place.
LEMMA WithoutIs ==
  /\ \A f, i : /\ DOMAIN Without(f, i) = DOMAIN f \ {i}
               /\ \A x \in DOMAIN f \ {i} : Without(f, i)[x] = f[x]
  /\ \A S, V : \A f \in Maps(S, V) : \A i : Without(f, i) \in Maps(S, V)
<1>1. ASSUME NEW S, NEW V, NEW f \in Maps(S, V), NEW i PROVE Without(f, i) \in Maps(S, V)
  <2>1. f \in [DOMAIN f -> V] /\ DOMAIN f \subseteq S
    BY MapsIs
  <2>2. Without(f, i) \in [DOMAIN f \ {i} -> V] /\ DOMAIN f \ {i} \subseteq S
    BY <2>1 DEF Without
  <2> QED
    BY <2>2 DEF Maps
<1> QED
  BY <1>1 DEF Without

\* And adding or replacing what it has for i.
LEMMA WithIs ==
  /\ \A f, i, v : /\ DOMAIN With(f, i, v) = DOMAIN f \cup {i} /\ With(f, i, v)[i] = v
                  /\ \A x \in DOMAIN f \ {i} : With(f, i, v)[x] = f[x]
  /\ \A S, V : \A f \in Maps(S, V) : \A i \in S : \A v \in V : With(f, i, v) \in Maps(S, V)
<1>1. ASSUME NEW S, NEW V, NEW f \in Maps(S, V), NEW i \in S, NEW v \in V
      PROVE  With(f, i, v) \in Maps(S, V)
  <2>1. f \in [DOMAIN f -> V] /\ DOMAIN f \subseteq S
    BY MapsIs
  <2>2. With(f, i, v) \in [DOMAIN f \cup {i} -> V] /\ DOMAIN f \cup {i} \subseteq S
    BY <2>1 DEF With
  <2> QED
    BY <2>2 DEF Maps
<1> QED
  BY <1>1 DEF With

\* What of a file system the storing of a file leaves alone.
Core(s, t) ==
  /\ t.next_inode = s.next_inode /\ t.cache = s.cache /\ t.blocks = s.blocks
  /\ t.buffer = s.buffer /\ t.truth = s.truth /\ t.room = s.room
Disk(s, t) == t.inode = s.inode /\ t.logged = s.logged /\ t.data = s.data
Saved(s, t) == t.saved_list = s.saved_list /\ t.saved_next = s.saved_next
Space(s, t) == t.list = s.list /\ t.next = s.next

\* What OnDisk depends on.
LEMMA OnDiskSame ==
  ASSUME NEW s, NEW t, Disk(s, t)
  PROVE  \A i : OnDisk(t, i) = OnDisk(s, i)
<1>1. Replayed(t) = Replayed(s)
  BY DEF Disk, Replayed
<1>2. \A o, n : ReadData(t, o, n) = ReadData(s, o, n)
  BY DEF Disk, ReadData, CellAt
<1> QED
  BY <1>1, <1>2 DEF OnDisk

\* Letting a loss pass changes nothing else.
LEMMA ExcusedIs ==
  ASSUME NEW s \in FS, NEW cause, NEW S \in SUBSET Ino
  PROVE  LET t == Excused(s, cause, S)
         IN  /\ t \in FS /\ Core(s, t) /\ Disk(s, t) /\ Saved(s, t) /\ Space(s, t)
             /\ t.files = s.files
             /\ s.excused \subseteq t.excused
             /\ cause \in Excuse => S \subseteq t.excused
<1> DEFINE e == s.excused \cup (IF cause \in Excuse THEN S ELSE {})
           t == Excused(s, cause, S)
<1>1. e \in SUBSET Ino /\ s.excused \subseteq e /\ (cause \in Excuse => S \subseteq e)
  BY ShapeIs
<1>2. s \in Shape /\ DOMAIN s.blocks = DOMAIN s.cache.data
  BY ShapeIs DEF Cached
<1>3. t = [s EXCEPT !.excused = e]
  BY DEF Excused
<1> HIDE DEF e, t
<1>4. t \in Shape /\ t.excused = e /\ t.files = s.files
  BY <1>1, <1>2, <1>3 DEF Shape
<1>5. Core(s, t) /\ Disk(s, t) /\ Saved(s, t) /\ Space(s, t)
  BY <1>2, <1>3 DEF Shape, Core, Disk, Saved, Space
<1>6. t \in FS
  BY <1>2, <1>4, <1>5 DEF FS, Cached, Core
<1> QED
  BY <1>1, <1>4, <1>5, <1>6 DEF t

\* Freeing an extent changes the free list.
LEMMA FreeDataIs ==
  ASSUME NEW s \in FS, NEW o \in Nat, NEW n \in Nat
  PROVE  LET t == free_data(s, o, n)
         IN  /\ t \in FS /\ Core(s, t) /\ Disk(s, t) /\ Saved(s, t)
             /\ t.files = s.files /\ t.excused = s.excused /\ t.next = s.next
<1> DEFINE l == List!Freed(s.list, [offset |-> o, length |-> n])
           t == free_data(s, o, n)
<1>1. l \in Seq(List!Extent)
  BY ShapeIs, ListFreed
<1>2. s \in Shape /\ DOMAIN s.blocks = DOMAIN s.cache.data
  BY ShapeIs DEF Cached
<1>3. t = [s EXCEPT !.list = l]
  BY DEF free_data
<1> HIDE DEF l, t
<1>4. t \in Shape /\ t.excused = s.excused /\ t.files = s.files /\ t.next = s.next
  BY <1>1, <1>2, <1>3 DEF Shape
<1>5. Core(s, t) /\ Disk(s, t) /\ Saved(s, t)
  BY <1>2, <1>3 DEF Shape, Core, Disk, Saved
<1>6. t \in FS
  BY <1>2, <1>4, <1>5 DEF FS, Cached, Core
<1> QED
  BY <1>4, <1>5, <1>6 DEF t

\* Allocating one changes it, or moves the end of the data.
LEMMA AllocDataIs ==
  ASSUME NEW s \in FS, NEW n \in Nat \ {0}
  PROVE  LET t == alloc_data(s, n)
         IN  /\ t \in FS /\ Core(s, t) /\ Disk(s, t) /\ Saved(s, t)
             /\ t.files = s.files /\ t.excused = s.excused /\ s.next <= t.next
             /\ AllocatedAt(s, n) \in Nat
<1> DEFINE t == alloc_data(s, n)
<1>1. s \in Shape /\ DOMAIN s.blocks = DOMAIN s.cache.data /\ s.next \in Nat
  BY ShapeIs DEF Cached
<1>2. CASE Fitting(s, n) # {}
  <2> DEFINE j == CHOOSE m \in Fitting(s, n) : TRUE
             l == List!Taken(s.list, j, n)
  <2>1. j \in Fitting(s, n)
    BY <1>2
  <2> HIDE DEF j
  <2>2. j \in DOMAIN s.list /\ List!IsBestFit(s.list, j, n)
    BY <2>1 DEF Fitting
  <2>3. l \in Seq(List!Extent) /\ s.list[j].offset \in Nat
    BY <2>2, ShapeIs, ListTaken
  <2>4. t = [s EXCEPT !.list = l]
    BY <1>2 DEF alloc_data, j
  <2>5. AllocatedAt(s, n) \in Nat
    BY <1>2, <2>3 DEF AllocatedAt, j
  <2> HIDE DEF l, t
  <2>6. t \in Shape /\ t.excused = s.excused /\ t.files = s.files /\ t.next = s.next
    BY <1>1, <2>3, <2>4 DEF Shape
  <2>7. Core(s, t) /\ Disk(s, t) /\ Saved(s, t)
    BY <1>1, <2>4 DEF Shape, Core, Disk, Saved
  <2>8. t \in FS
    BY <1>1, <2>6, <2>7 DEF FS, Cached, Core
  <2> QED
    BY <1>1, <2>5, <2>6, <2>7, <2>8 DEF t
<1>3. CASE Fitting(s, n) = {}
  <2> DEFINE e == s.next + n
  <2>1. t = [s EXCEPT !.next = e] /\ AllocatedAt(s, n) = s.next
    BY <1>3 DEF alloc_data, AllocatedAt
  <2>5. e \in Nat /\ s.next <= e
    BY <1>1
  <2> HIDE DEF e, t
  <2>2. t \in Shape /\ t.excused = s.excused /\ t.files = s.files /\ t.next = e
    BY <2>5, <1>1, <2>1 DEF Shape
  <2>3. Core(s, t) /\ Disk(s, t) /\ Saved(s, t)
    BY <1>1, <2>1 DEF Shape, Core, Disk, Saved
  <2>4. t \in FS
    BY <1>1, <2>2, <2>3 DEF FS, Cached, Core
  <2> QED
    BY <1>1, <2>1, <2>2, <2>3, <2>4, <2>5 DEF t
<1> QED
  BY <1>2, <1>3

\* Writing an inode, in place and in the journal.
LEMMA WriteInodeIs ==
  ASSUME NEW s \in FS, NEW slot \in Slot, NEW n \in Inode
  PROVE  LET t == write_inode(s, slot, n)
         IN  /\ t \in FS /\ Core(s, t) /\ Saved(s, t) /\ Space(s, t)
             /\ t.files = s.files /\ t.excused = s.excused /\ t.data = s.data
             /\ t.inode = [s.inode EXCEPT ![slot] = n]
             /\ t.logged = [s.logged EXCEPT ![slot] = n]
<1> DEFINE a == [s.inode EXCEPT ![slot] = n]
           b == [s.logged EXCEPT ![slot] = n]
           t == write_inode(s, slot, n)
<1>1. a \in [Slot -> Inode] /\ b \in [Slot -> Inode]
  BY ShapeIs
<1>2. s \in Shape /\ DOMAIN s.blocks = DOMAIN s.cache.data
  BY ShapeIs DEF Cached
<1>3. t = [s EXCEPT !.inode = a, !.logged = b]
  BY <1>2 DEF write_inode, Shape
<1> HIDE DEF a, b, t
<1>4. /\ t \in Shape /\ t.excused = s.excused /\ t.files = s.files /\ t.data = s.data
      /\ t.inode = a /\ t.logged = b
  BY <1>1, <1>2, <1>3 DEF Shape
<1>5. Core(s, t) /\ Saved(s, t) /\ Space(s, t)
  BY <1>2, <1>3 DEF Shape, Core, Saved, Space
<1>6. t \in FS
  BY <1>2, <1>4, <1>5 DEF FS, Cached, Core
<1> QED
  BY <1>4, <1>5, <1>6 DEF a, b, t

\* Freeing one, which the journal does not see.
LEMMA FreeInodeIs ==
  ASSUME NEW s \in FS, NEW slot \in Slot
  PROVE  LET t == free_inode(s, slot)
         IN  /\ t \in FS /\ Core(s, t) /\ Saved(s, t) /\ Space(s, t)
             /\ t.files = s.files /\ t.excused = s.excused /\ t.data = s.data
             /\ t.inode = [s.inode EXCEPT ![slot].used = FALSE] /\ t.logged = s.logged
<1> DEFINE a == [s.inode EXCEPT ![slot].used = FALSE]
           t == free_inode(s, slot)
<1>1. a \in [Slot -> Inode]
  <2>1. s.inode \in [Slot -> Inode] /\ s.inode[slot] \in Inode
    BY ShapeIs
  <2>2. [s.inode[slot] EXCEPT !.used = FALSE] \in Inode
    BY <2>1 DEF Inode
  <2> QED
    BY <2>1, <2>2
<1>2. s \in Shape /\ DOMAIN s.blocks = DOMAIN s.cache.data
  BY ShapeIs DEF Cached
<1>3. t = [s EXCEPT !.inode = a]
  BY <1>2 DEF free_inode, Shape
<1> HIDE DEF a, t
<1>4. /\ t \in Shape /\ t.excused = s.excused /\ t.files = s.files /\ t.data = s.data
      /\ t.inode = a /\ t.logged = s.logged
  BY <1>1, <1>2, <1>3 DEF Shape
<1>5. Core(s, t) /\ Saved(s, t) /\ Space(s, t)
  BY <1>2, <1>3 DEF Shape, Core, Saved, Space
<1>6. t \in FS
  BY <1>2, <1>4, <1>5 DEF FS, Cached, Core
<1> QED
  BY <1>4, <1>5, <1>6 DEF a, t

\* Writing the free list and the superblock.
LEMMA FlushDiskIs ==
  ASSUME NEW s \in FS
  PROVE  LET t == flush_disk(s)
         IN  /\ t \in FS /\ Core(s, t) /\ Disk(s, t) /\ Space(s, t)
             /\ t.files = s.files /\ t.excused = s.excused /\ t.saved_next = s.next
<1> DEFINE t == flush_disk(s)
<1>1. s.list \in Seq(List!Extent) /\ s.next \in Nat
  BY ShapeIs
<1>2. s \in Shape /\ DOMAIN s.blocks = DOMAIN s.cache.data
  BY ShapeIs DEF Cached
<1>3. t = [s EXCEPT !.saved_list = s.list, !.saved_next = s.next]
  BY DEF flush_disk
<1> HIDE DEF t
<1>4. t \in Shape /\ t.excused = s.excused /\ t.files = s.files /\ t.saved_next = s.next
  BY <1>1, <1>2, <1>3 DEF Shape
<1>5. Core(s, t) /\ Disk(s, t) /\ Space(s, t)
  BY <1>2, <1>3 DEF Shape, Core, Disk, Space
<1>6. t \in FS
  BY <1>2, <1>4, <1>5 DEF FS, Cached, Core
<1> QED
  BY <1>4, <1>5, <1>6 DEF t

\* Writing to the data region: raw is there then, unless the journal refuses it.
LEMMA WriteFileDataIs ==
  ASSUME NEW s \in FS, NEW o \in Nat, NEW raw \in Seq(Cell)
  PROVE  LET t == write_file_data(s, o, raw)
         IN  /\ t \in FS /\ Core(s, t) /\ Saved(s, t) /\ Space(s, t)
             /\ t.files = s.files /\ t.excused = s.excused
             /\ t.inode = s.inode /\ t.logged = s.logged
             /\ Refused(s, raw) \/ \A k \in DOMAIN raw : CellAt(t, o + k - 1) = raw[k]
<1> DEFINE S == Sectors(o, Len(raw))
           f == s.data
           g == [a \in DOMAIN f \cup S |-> IF a \in S THEN raw[a - o + 1] ELSE f[a]]
           t == write_file_data(s, o, raw)
<1>1. f \in Maps(Nat, Cell) /\ s \in Shape /\ DOMAIN s.blocks = DOMAIN s.cache.data
  BY ShapeIs DEF Cached
<1>2. CASE Refused(s, raw)
  <2>1. t = s
    BY <1>2 DEF write_file_data
  <2>2. s \in FS /\ Core(s, s) /\ Saved(s, s) /\ Space(s, s)
    BY DEF Core, Saved, Space
  <2> HIDE DEF t
  <2> QED
    BY <1>2, <2>1, <2>2 DEF t
<1>3. CASE ~Refused(s, raw)
  <2>1. \A a : a \in S <=> a \in Int /\ o <= a /\ a < o + Len(raw)
    BY DEF Sectors
  <2>2. \A a \in S : a \in Nat /\ a - o + 1 \in DOMAIN raw /\ raw[a - o + 1] \in Cell
    BY <2>1
  <2>3. g \in Maps(Nat, Cell)
    <3>1. f \in [DOMAIN f -> Cell] /\ DOMAIN f \subseteq Nat
      BY <1>1, MapsIs
    <3>2. g \in [DOMAIN f \cup S -> Cell] /\ DOMAIN f \cup S \subseteq Nat
      <4> HIDE DEF S
      <4> QED
        BY <2>2, <3>1
    <3> QED
      BY <3>2 DEF Maps
  <2>4. \A k \in DOMAIN raw : o + k - 1 \in DOMAIN g /\ g[o + k - 1] = raw[k]
    <3> SUFFICES ASSUME NEW k \in DOMAIN raw
                 PROVE  o + k - 1 \in DOMAIN g /\ g[o + k - 1] = raw[k]
      OBVIOUS
    <3>1. o + k - 1 \in S /\ (o + k - 1) - o + 1 = k
      BY <2>1
    <3> QED
      BY <3>1
  <2>5. t = [s EXCEPT !.data = g]
    BY <1>1, <1>3 DEF write_file_data, WriteData, Shape
  <2> HIDE DEF g, t
  <2>6. /\ t \in Shape /\ t.excused = s.excused /\ t.files = s.files /\ t.data = g
        /\ t.inode = s.inode /\ t.logged = s.logged
    BY <1>1, <2>3, <2>5 DEF Shape
  <2>7. Core(s, t) /\ Saved(s, t) /\ Space(s, t)
    BY <1>1, <2>5 DEF Shape, Core, Saved, Space
  <2>8. t \in FS
    BY <1>1, <2>6, <2>7 DEF FS, Cached, Core
  <2>9. \A k \in DOMAIN raw : CellAt(t, o + k - 1) = raw[k]
    BY <2>4, <2>6 DEF CellAt
  <2> QED
    BY <2>6, <2>7, <2>8, <2>9 DEF t
<1> QED
  BY <1>2, <1>3

-----------------------------------------------------------------------------
(***************************************************************************)
(* Storing a file.                                                         *)
(***************************************************************************)
\* A set of one element.
LEMMA OneElement ==
  ASSUME NEW d \in Content, Cardinality(Range(d)) = 1
  PROVE  \A j, k \in DOMAIN d : d[j] = d[k]
<1>1. IsFiniteSet(Range(d))
  <2>1. Len(d) \in Nat /\ DOMAIN d = 1 .. Len(d)
    BY DEF Content
  <2>2. IsFiniteSet(1 .. Len(d))
    BY <2>1, FS_Interval
  <2>3. Range(d) = {d[k] : k \in 1 .. Len(d)}
    BY <2>1 DEF Range
  <2>4. d \in Surjection(1 .. Len(d), Range(d))
    <3>1. d \in [1 .. Len(d) -> Range(d)]
      <4>1. d \in Seq(Block)
        BY DEF Content
      <4> QED
        BY <2>1, <2>3, <4>1
    <3> QED
      BY <2>3, <3>1 DEF Surjection
  <2> QED
    BY <2>2, <2>4, FS_Surjection
<1>2. PICK x : Range(d) = {x}
  BY <1>1, FS_Singleton
<1>3. \A k \in DOMAIN d : d[k] \in Range(d)
  BY DEF Range
<1> QED
  BY <1>2, <1>3

\* What is stored of a file's contents reads as these contents.
LEMMA PackedIs ==
  ASSUME NEW i, NEW d \in Content
  PROVE  /\ Packed(i, d) \in Seq(Cell)
         /\ Packed(i, d) = <<>> <=> d = <<>>
         /\ \A s, o : /\ s.data \in Maps(Nat, Cell) /\ o \in Nat
                      /\ \A k \in DOMAIN Packed(i, d) : CellAt(s, o + k - 1) = Packed(i, d)[k]
                      => ReadData(s, o, Len(d)) = d
<1> DEFINE raw == Packed(i, d)
           n == Len(d)
<1>1. /\ n \in Nat /\ DOMAIN d = 1 .. n /\ n <= MaxBlocks /\ d \in Seq(Block)
      /\ \A k \in 1 .. n : d[k] \in Block
  BY DEF Content
<1>2. \A s, o : ReadData(s, o, n) = Unpacked(Cells(s, o, n))
  BY DEF ReadData, Cells
<1>3. CASE i \in Cold /\ n > 1 /\ Cardinality(Range(d)) = 1
  <2>1. raw = <<[val |-> d[1], run |-> n]>>
    BY <1>3 DEF Packed
  <2>2. [val |-> d[1], run |-> n] \in Cell
    BY <1>1, <1>3 DEF Cell
  <2>3. ASSUME NEW s, NEW o, s.data \in Maps(Nat, Cell), o \in Nat,
               \A k \in DOMAIN raw : CellAt(s, o + k - 1) = raw[k]
        PROVE  ReadData(s, o, n) = d
    <3> DEFINE c == Cells(s, o, n)
    <3>7. n \in Nat /\ n > 0
      BY <1>1, <1>3
    <3>1. c \in Seq(Cell) /\ Len(c) = n /\ c[1] = CellAt(s, o)
      <4> HIDE DEF n, raw
      <4> QED
        BY <2>3, <3>7, CellsIs
    <3>2. o + 1 - 1 = o /\ 1 \in DOMAIN raw
      BY <2>1, <2>3
    <3>3. CellAt(s, o) = raw[1]
      BY <2>3, <3>2
    <3> HIDE DEF c
    <3>4. c # <<>> /\ c[1].run = n /\ c[1].val = d[1]
      BY <1>3, <2>1, <3>1, <3>3
    <3>5. Unpacked(c) = [k \in 1 .. n |-> d[1]]
      BY <1>3, <3>4 DEF Unpacked
    <3>6. d = [k \in 1 .. n |-> d[1]]
      BY <1>1, <1>3, OneElement
    <3> QED
      BY <1>2, <3>5, <3>6 DEF c
  <2>4. raw \in Seq(Cell) /\ raw # <<>> /\ d # <<>>
    BY <1>3, <2>1, <2>2
  <2> QED
    BY <2>3, <2>4
<1>4. CASE ~(i \in Cold /\ n > 1 /\ Cardinality(Range(d)) = 1)
  <2>1. raw = [k \in 1 .. n |-> Plain(d[k])]
    BY <1>1, <1>4 DEF Packed
  <2>2. \A k \in 1 .. n : Plain(d[k]) \in Cell
    BY <1>1, VexFSAssumption DEF Plain, Cell
  <2>3. raw \in Seq(Cell) /\ Len(raw) = n
    BY <1>1, <2>1, <2>2
  <2>4. ASSUME NEW s, NEW o, s.data \in Maps(Nat, Cell), o \in Nat,
               \A k \in DOMAIN raw : CellAt(s, o + k - 1) = raw[k]
        PROVE  ReadData(s, o, n) = d
    <3> DEFINE c == Cells(s, o, n)
    <3>1. c \in Seq(Cell) /\ Len(c) = n /\ \A k \in 1 .. n : c[k] = CellAt(s, o + k - 1)
      BY <1>1, <2>4, CellsIs
    <3> HIDE DEF c
    <3>2. \A k \in 1 .. n : c[k] = Plain(d[k])
      BY <2>1, <2>4, <3>1
    <3>3. \A k \in 1 .. n : c[k].run = 1 /\ c[k].val = d[k]
      <4>1. \A v : Plain(v).run = 1 /\ Plain(v).val = v
        BY DEF Plain
      <4> QED
        BY <3>2, <4>1
    <3>4. ~(c # <<>> /\ c[1].run > 1)
      BY <1>1, <3>1, <3>3
    <3>5. Unpacked(c) = [k \in DOMAIN c |-> IF c[k].run = 1 THEN c[k].val ELSE Junk]
      BY <3>4 DEF Unpacked
    <3>6. DOMAIN c = 1 .. n
      BY <3>1
    <3>7. Unpacked(c) = [k \in 1 .. n |-> d[k]]
      BY <3>3, <3>5, <3>6
    <3>8. d = [k \in 1 .. n |-> d[k]]
      BY <1>1
    <3> QED
      BY <1>2, <3>7, <3>8 DEF c
  <2>5. raw = <<>> <=> d = <<>>
    BY <1>1, <2>3
  <2> QED
    BY <2>3, <2>4, <2>5
<1> QED
  BY <1>3, <1>4

\* The causes of a loss that the theorems let pass.
LetPass == {"shared", "deleted", "stale", "miss", "full"} \subseteq Excuse

\* The record the next mount finds in a slot.
Record(s, k) == Replayed(s)[k]

\* It depends on what the table and the journal have of the slot.
LEMMA RecordIs ==
  \A s : \A k \in Slot :
    Record(s, k) = IF s.logged[k] = NoInode THEN s.inode[k] ELSE s.logged[k]
BY DEF Record, Replayed

\* The inode that goes with stored contents.
Stored(i, d, o) == [ino |-> i, size |-> Len(d), offset |-> o, used |-> TRUE]

\* From s to t contents d of file i are stored at o.
Persisted(s, t, i, d, slot, o) ==
  /\ t.inode = [s.inode EXCEPT ![slot] = Stored(i, d, o)]
  /\ t.logged = [s.logged EXCEPT ![slot] = Stored(i, d, o)]
  /\ t.files = IF i \in Live(s) THEN [s.files EXCEPT ![i].offset = o] ELSE s.files
  /\ LetPass => i \in t.excused \/ ReadData(t, o, Len(d)) = d

\* What persist_to_disk leaves: the inode of what was stored, in its slot and,
\* if the file is live, in memory.
LEMMA PersistIs ==
  ASSUME NEW s \in FS, NEW i \in Ino, NEW d \in Content, NEW slot \in Slot
  PROVE  LET t == persist_to_disk(s, i, d, slot)
         IN  /\ t \in FS /\ Core(s, t)
             /\ s.excused \subseteq t.excused /\ s.next <= t.next /\ t.saved_next = t.next
             /\ \E o \in Nat : Persisted(s, t, i, d, slot, o)
             /\ LetPass => \A j \in Live(s) \ {i} : j \in t.excused \/ OnDisk(t, j) = OnDisk(s, j)
<1> DEFINE raw    == Packed(i, d)
           freed  == IF i \in Live(s) /\ s.files[i].offset > 0 /\ s.files[i].size > 0
                     THEN free_data(s, s.files[i].offset, s.files[i].size) ELSE s
           offset == IF raw = <<>> THEN DataStart ELSE AllocatedAt(freed, Len(raw))
           room   == IF raw = <<>> THEN freed ELSE alloc_data(freed, Len(raw))
           there  == write_file_data(room, offset, raw)
           kept   == write_inode(there, slot, Stored(i, d, offset))
           stored == flush_disk(kept)
           moved  == IF i \in Live(s) THEN [stored EXCEPT !.files[i].offset = offset] ELSE stored
           full   == IF Refused(s, raw) THEN {i} ELSE {}
           placed == Excused(moved, "full", full)
           hit    == {j \in Live(s) \ {i} : OnDisk(placed, j) # OnDisk(s, j)}
           cause  == IF i \in Live(s) THEN "shared" ELSE "deleted"
           t      == persist_to_disk(s, i, d, slot)
<1>1. t = Excused(placed, cause, hit)
  BY DEF persist_to_disk, Stored
<1>2. Len(d) \in 0 .. MaxBlocks
  BY DEF Content
<1>3. /\ raw \in Seq(Cell) /\ Len(raw) \in Nat /\ (raw # <<>> => Len(raw) # 0)
      /\ \A u, o : /\ u.data \in Maps(Nat, Cell) /\ o \in Nat
                   /\ \A k \in DOMAIN raw : CellAt(u, o + k - 1) = raw[k]
                   => ReadData(u, o, Len(d)) = d
  BY PackedIs
<1> HIDE DEF raw, t
<1>4. /\ freed \in FS /\ Core(s, freed) /\ Disk(s, freed)
      /\ freed.files = s.files /\ freed.excused = s.excused /\ freed.next = s.next
  <2>1. Core(s, s) /\ Disk(s, s)
    BY DEF Core, Disk
  <2> QED
    BY <2>1, FieldsAre, FreeDataIs
<1> HIDE DEF freed
<1>5. /\ room \in FS /\ Core(freed, room) /\ Disk(freed, room) /\ offset \in Nat
      /\ room.files = freed.files /\ room.excused = freed.excused /\ freed.next <= room.next
  <2>1. Core(freed, freed) /\ Disk(freed, freed) /\ freed.next <= freed.next
    BY <1>4, ShapeIs DEF Core, Disk
  <2> QED
    BY <1>3, <1>4, <2>1, AllocDataIs, VexFSAssumption
<1> HIDE DEF room, offset
<1>6. /\ there \in FS /\ Core(room, there) /\ Space(room, there)
      /\ there.files = room.files /\ there.excused = room.excused
      /\ there.inode = room.inode /\ there.logged = room.logged
      /\ Refused(room, raw) \/ \A k \in DOMAIN raw : CellAt(there, offset + k - 1) = raw[k]
  BY <1>3, <1>5, WriteFileDataIs
<1> HIDE DEF there
<1>7. /\ kept \in FS /\ Core(there, kept) /\ Space(there, kept)
      /\ kept.files = there.files /\ kept.excused = there.excused /\ kept.data = there.data
      /\ kept.inode = [there.inode EXCEPT ![slot] = Stored(i, d, offset)]
      /\ kept.logged = [there.logged EXCEPT ![slot] = Stored(i, d, offset)]
  <2>1. Stored(i, d, offset) \in Inode
    BY <1>2, <1>5 DEF Stored, Inode
  <2> QED
    BY <1>6, <2>1, WriteInodeIs
<1> HIDE DEF kept
<1>8. /\ stored \in FS /\ Core(kept, stored) /\ Disk(kept, stored) /\ Space(kept, stored)
      /\ stored.files = kept.files /\ stored.excused = kept.excused
      /\ stored.saved_next = kept.next
  BY <1>7, FlushDiskIs
<1> HIDE DEF stored
<1>9. stored.files = s.files
  BY <1>4, <1>5, <1>6, <1>7, <1>8
<1>10. /\ moved \in FS /\ Core(stored, moved) /\ Disk(stored, moved) /\ Space(stored, moved)
       /\ moved.excused = stored.excused /\ moved.saved_next = stored.saved_next
       /\ moved.files = IF i \in Live(s) THEN [s.files EXCEPT ![i].offset = offset] ELSE s.files
  <2>1. CASE i \notin Live(s)
    BY <1>8, <1>9, <2>1 DEF Core, Disk, Space
  <2>2. CASE i \in Live(s)
    <3> DEFINE f == [s.files EXCEPT ![i].offset = offset]
    <3>1. s.files \in [Live(s) -> File] /\ Live(s) \subseteq Ino /\ s.files[i] \in File
      BY <2>2, ShapeIs
    <3>2. [s.files[i] EXCEPT !.offset = offset] \in File
      BY <1>5, <3>1 DEF File
    <3>3. f \in Maps(Ino, File)
      <4>1. f \in [Live(s) -> File]
        BY <3>1, <3>2
      <4> QED
        BY <3>1, <4>1 DEF Maps
    <3>4. stored \in Shape /\ DOMAIN stored.blocks = DOMAIN stored.cache.data
      BY <1>8, ShapeIs DEF Cached
    <3>5. moved = [stored EXCEPT !.files = f]
      BY <1>9, <2>2, <3>4 DEF Shape
    <3> HIDE DEF f, moved
    <3>6. /\ moved \in Shape /\ moved.excused = stored.excused /\ moved.files = f
          /\ moved.saved_next = stored.saved_next
      BY <3>3, <3>4, <3>5 DEF Shape
    <3>7. Core(stored, moved) /\ Disk(stored, moved) /\ Space(stored, moved)
      BY <3>4, <3>5 DEF Shape, Core, Disk, Space
    <3>8. moved \in FS
      BY <3>4, <3>6, <3>7 DEF FS, Cached, Core
    <3> QED
      BY <2>2, <3>6, <3>7, <3>8 DEF f
  <2> QED
    BY <2>1, <2>2
<1> HIDE DEF moved
<1>11. /\ placed \in FS /\ Core(moved, placed) /\ Disk(moved, placed) /\ Space(moved, placed)
       /\ placed.files = moved.files /\ placed.saved_next = moved.saved_next
       /\ moved.excused \subseteq placed.excused
       /\ "full" \in Excuse => full \subseteq placed.excused
  <2>1. full \in SUBSET Ino
    OBVIOUS
  <2> HIDE DEF full
  <2> QED
    BY <1>10, <2>1, ExcusedIs DEF Saved
<1> HIDE DEF placed
<1>12. /\ t \in FS /\ Core(placed, t) /\ Disk(placed, t) /\ Space(placed, t)
       /\ t.files = placed.files /\ t.saved_next = placed.saved_next
       /\ placed.excused \subseteq t.excused
       /\ cause \in Excuse => hit \subseteq t.excused
  <2>1. hit \in SUBSET Ino
    BY ShapeIs
  <2> HIDE DEF hit, cause
  <2> QED
    BY <1>1, <1>11, <2>1, ExcusedIs DEF Saved
<1>13. Core(s, t)
  BY <1>4, <1>5, <1>6, <1>7, <1>8, <1>10, <1>11, <1>12 DEF Core
<1>14. s.excused \subseteq t.excused /\ placed.excused \subseteq t.excused
  BY <1>4, <1>5, <1>6, <1>7, <1>8, <1>10, <1>11, <1>12
<1>15. s.next <= t.next /\ t.saved_next = t.next
  BY <1>4, <1>5, <1>6, <1>7, <1>8, <1>10, <1>11, <1>12 DEF Space
<1>16. /\ t.inode = [s.inode EXCEPT ![slot] = Stored(i, d, offset)]
       /\ t.logged = [s.logged EXCEPT ![slot] = Stored(i, d, offset)]
       /\ t.data = there.data
  BY <1>4, <1>5, <1>6, <1>7, <1>8, <1>10, <1>11, <1>12 DEF Disk
<1>17. t.files = IF i \in Live(s) THEN [s.files EXCEPT ![i].offset = offset] ELSE s.files
  BY <1>10, <1>11, <1>12
<1>18. ASSUME LetPass PROVE i \in t.excused \/ ReadData(t, offset, Len(d)) = d
  <2>1. CASE Refused(s, raw)
    <3>1. "full" \in Excuse /\ i \in full
      BY <1>18, <2>1 DEF LetPass
    <3> QED
      BY <1>11, <1>14, <3>1
  <2>2. CASE ~Refused(s, raw)
    <3>1. ~Refused(room, raw)
      BY <1>4, <1>5, <2>2 DEF Refused, Core
    <3>2. \A k \in DOMAIN raw : CellAt(t, offset + k - 1) = raw[k]
      BY <1>6, <1>16, <3>1 DEF CellAt
    <3>3. t.data \in Maps(Nat, Cell)
      BY <1>12, ShapeIs
    <3> QED
      BY <1>3, <1>5, <3>2, <3>3
  <2> QED
    BY <2>1, <2>2
<1>19. ASSUME LetPass, NEW j \in Live(s) \ {i}
       PROVE  j \in t.excused \/ OnDisk(t, j) = OnDisk(s, j)
  <2>1. cause \in Excuse
    BY <1>19 DEF LetPass
  <2>2. OnDisk(t, j) = OnDisk(placed, j)
    BY <1>12, OnDiskSame
  <2> QED
    BY <1>12, <2>1, <2>2
<1>20. Persisted(s, t, i, d, slot, offset)
  BY <1>16, <1>17, <1>18 DEF Persisted
<1> QED
  BY <1>5, <1>12, <1>13, <1>14, <1>15, <1>19, <1>20 DEF t

\* No file comes or goes with that.
LEMMA PersistLive ==
  ASSUME NEW s \in FS, NEW i \in Ino, NEW d \in Content, NEW slot \in Slot
  PROVE  LET t == persist_to_disk(s, i, d, slot) IN t \in FS /\ Live(t) = Live(s)
<1> DEFINE t == persist_to_disk(s, i, d, slot)
<1>1. t \in FS /\ \E o \in Nat : Persisted(s, t, i, d, slot, o)
  BY PersistIs
<1> HIDE DEF t
<1>2. Live(t) = Live(s)
  BY <1>1 DEF Persisted, Live
<1> QED
  BY <1>1, <1>2 DEF t

-----------------------------------------------------------------------------
(***************************************************************************)
(* The invariant of the tables.  new is the file a creation is about to    *)
(* write the inode of, if any: its slot is still free on disk.             *)
(***************************************************************************)
OwnSlots(s) == \A i, j \in Live(s) : s.files[i].slot = s.files[j].slot => i = j
Numbered(s) == \A i \in Live(s) \cup DOMAIN s.buffer : i < s.next_inode

\* A live file's slot is in use, and the journal does not disagree.
InUse(s, new) ==
  \A i \in Live(s) \ new :
    /\ s.inode[s.files[i].slot].used
    /\ s.logged[s.files[i].slot] \in {NoInode, s.inode[s.files[i].slot]}

\* A file has one record at most, a live one in its slot, and what is buffered
\* will be stored there.
OneRecord(s) ==
  \A k, m \in Slot :
    Record(s, k).used /\ Record(s, m).used /\ Record(s, k).ino = Record(s, m).ino => k = m
LiveRecord(s, i, k) ==
  /\ k = s.files[i].slot
  /\ Record(s, k).offset = s.files[i].offset \/ Record(s, k).size = 0
RecordFits(s, i, k) ==
  /\ i < s.next_inode
  /\ i \in Live(s) => LiveRecord(s, i, k)
  /\ i \in DOMAIN s.buffer => k = s.buffer[i].slot
RecordsFit(s) == \A k \in Slot : Record(s, k).used => RecordFits(s, Record(s, k).ino, k)
BufferFits(s) == \A i \in DOMAIN s.buffer \cap Live(s) : s.buffer[i].slot = s.files[i].slot

CacheFits(s) ==
  /\ Cached(s) \subseteq Live(s)
  /\ \A i \in Cached(s) : s.cache.data[i] = Len(s.blocks[i])
NextFits(s) == DataStart <= s.saved_next /\ s.saved_next <= s.next

Sound(s, new) ==
  /\ OwnSlots(s) /\ Numbered(s) /\ InUse(s, new) /\ OneRecord(s) /\ RecordsFit(s)
  /\ BufferFits(s) /\ CacheFits(s) /\ NextFits(s) /\ DOMAIN s.truth = Live(s)

\* t differs from s in nothing that this is about.
Alike(s, t) ==
  /\ Live(t) = Live(s)
  /\ \A i \in Live(s) : /\ t.files[i].slot = s.files[i].slot
                        /\ t.files[i].offset = s.files[i].offset
  /\ DOMAIN t.buffer \subseteq DOMAIN s.buffer
  /\ \A i \in DOMAIN t.buffer : t.buffer[i] = s.buffer[i]
  /\ t.inode = s.inode /\ t.logged = s.logged /\ t.next_inode = s.next_inode
  /\ t.cache.data = s.cache.data /\ t.blocks = s.blocks
  /\ DOMAIN t.truth = DOMAIN s.truth /\ t.next = s.next /\ t.saved_next = s.saved_next

\* Then it is as sound.
LEMMA AlikeSound ==
  ASSUME NEW s, NEW t, NEW new, Alike(s, t), Sound(s, new)
  PROVE  Sound(t, new)
<1>1. \A k : Record(t, k) = Record(s, k)
  BY DEF Alike, Record, Replayed
<1>2. OwnSlots(t) /\ Numbered(t)
  BY DEF Sound, OwnSlots, Numbered, Alike
<1>3. InUse(t, new)
  BY DEF Sound, InUse, Alike
<1>4. OneRecord(t)
  BY <1>1 DEF Sound, OneRecord
<1>5. RecordsFit(t)
  BY <1>1 DEF Sound, RecordsFit, RecordFits, LiveRecord, Alike
<1>6. BufferFits(t)
  BY DEF Sound, BufferFits, Alike
<1>7. CacheFits(t) /\ NextFits(t) /\ DOMAIN t.truth = Live(t)
  BY DEF Sound, CacheFits, NextFits, Alike, Cached
<1> QED
  BY <1>2, <1>3, <1>4, <1>5, <1>6, <1>7 DEF Sound

\* What storing files never changes.
SameFiles(s, t) ==
  /\ Live(t) = Live(s)
  /\ \A i \in Live(s) : /\ t.files[i].slot = s.files[i].slot
                        /\ t.files[i].size = s.files[i].size
  /\ t.next_inode = s.next_inode /\ t.truth = s.truth /\ t.room = s.room
  /\ DOMAIN t.buffer \subseteq DOMAIN s.buffer
  /\ s.excused \subseteq t.excused
Frame(s, t) == SameFiles(s, t) /\ t.cache.data = s.cache.data /\ t.blocks = s.blocks

\* Nor do several such steps.
LEMMA FrameTwice ==
  /\ \A s : Frame(s, s)
  /\ \A s, t, u : Frame(s, t) /\ Frame(t, u) => Frame(s, u)
  /\ \A s, t, u : SameFiles(s, t) /\ SameFiles(t, u) => SameFiles(s, u)
BY DEF Frame, SameFiles

\* Storing file i, under its own number and in its own slot, keeps the tables
\* sound: a dead file's slot may be another's by now, whose record goes.
LEMMA PersistSound ==
  ASSUME NEW s \in FS, NEW new, Sound(s, new),
         NEW i \in Ino, NEW d \in Content, NEW slot \in Slot,
         i \notin DOMAIN s.buffer, i < s.next_inode, i \in Live(s) => slot = s.files[i].slot,
         \A k \in Slot : Record(s, k).used /\ Record(s, k).ino = i => k = slot
  PROVE  LET t == persist_to_disk(s, i, d, slot)
         IN  Sound(t, new) /\ Frame(s, t)
<1> DEFINE t == persist_to_disk(s, i, d, slot)
<1>1. /\ t \in FS /\ Core(s, t)
      /\ s.excused \subseteq t.excused /\ s.next <= t.next /\ t.saved_next = t.next
  BY PersistIs
<1>2. PICK o \in Nat : Persisted(s, t, i, d, slot, o)
  BY PersistIs
<1> HIDE DEF t
<1> DEFINE n == Stored(i, d, o)
<1>3. n.used /\ n.ino = i /\ n.offset = o /\ n # NoInode
  BY DEF Stored, NoInode
<1> HIDE DEF n
<1>4. /\ Live(t) = Live(s)
      /\ \A j \in Live(s) : /\ t.files[j].slot = s.files[j].slot
                            /\ t.files[j].size = s.files[j].size
                            /\ t.files[j].offset = IF j = i THEN o ELSE s.files[j].offset
  <2>1. \A j \in Live(s) : s.files[j] \in File
    BY FieldsAre
  <2> QED
    BY <1>2, <2>1 DEF Live, File, Persisted
<1>5. /\ \A k \in Slot : t.inode[k] = IF k = slot THEN n ELSE s.inode[k]
      /\ \A k \in Slot : t.logged[k] = IF k = slot THEN n ELSE s.logged[k]
  BY <1>2, ShapeIs DEF n, Persisted
<1>6. \A k \in Slot : Record(t, k) = IF k = slot THEN n ELSE Record(s, k)
  BY <1>3, <1>5, RecordIs
<1>7. Frame(s, t)
  BY <1>1, <1>4 DEF Core, Frame, SameFiles
<1>8. OwnSlots(t) /\ Numbered(t)
  BY <1>1, <1>4 DEF Sound, OwnSlots, Numbered, Core
<1>9. InUse(t, new)
  <2> SUFFICES ASSUME NEW j \in Live(s) \ new
               PROVE  LET k == t.files[j].slot
                      IN  t.inode[k].used /\ t.logged[k] \in {NoInode, t.inode[k]}
    BY <1>4 DEF InUse
  <2> DEFINE k == s.files[j].slot
  <2>1. k \in Slot /\ t.files[j].slot = k
    BY <1>4, FieldsAre
  <2>2. s.inode[k].used /\ s.logged[k] \in {NoInode, s.inode[k]}
    BY DEF Sound, InUse
  <2> HIDE DEF k
  <2> QED
    BY <1>3, <1>5, <2>1, <2>2
<1>10. OneRecord(t)
  BY <1>3, <1>6 DEF Sound, OneRecord
<1>11. RecordsFit(t)
  <2> SUFFICES ASSUME NEW k \in Slot, Record(t, k).used
               PROVE  RecordFits(t, Record(t, k).ino, k)
    BY DEF RecordsFit
  <2>1. CASE k = slot
    BY <1>1, <1>3, <1>4, <1>6, <2>1 DEF RecordFits, LiveRecord, Core
  <2>2. CASE k # slot
    <3>1. Record(t, k) = Record(s, k) /\ RecordFits(s, Record(s, k).ino, k) /\ Record(s, k).ino # i
      BY <1>6, <2>2 DEF Sound, RecordsFit
    <3> QED
      BY <1>1, <1>4, <3>1 DEF RecordFits, LiveRecord, Core
  <2> QED
    BY <2>1, <2>2
<1>12. BufferFits(t)
  BY <1>1, <1>4 DEF Sound, BufferFits, Core
<1>13. CacheFits(t) /\ DOMAIN t.truth = Live(t)
  BY <1>1, <1>4 DEF Sound, CacheFits, Core, Cached
<1>14. NextFits(t)
  <2>1. s.next \in Nat /\ s.saved_next \in Nat /\ t.next \in Nat
    BY <1>1, ShapeIs
  <2> QED
    BY <1>1, <2>1, VexFSAssumption DEF Sound, NextFits
<1> QED
  BY <1>7, <1>8, <1>9, <1>10, <1>11, <1>12, <1>13, <1>14 DEF Sound, t

-----------------------------------------------------------------------------
(***************************************************************************)
(* The steps of a flush and of an eviction.                                *)
(***************************************************************************)
Unbuffered(s, i) == [s EXCEPT !.buffer = Without(@, i)]

\* Taking a file out of the write buffer.
LEMMA UnbufferedIs ==
  ASSUME NEW s \in FS, NEW i
  PROVE  LET t == Unbuffered(s, i)
         IN  /\ t \in FS /\ Disk(s, t) /\ t.files = s.files /\ t.excused = s.excused
             /\ DOMAIN t.buffer = DOMAIN s.buffer \ {i}
             /\ \A j \in DOMAIN t.buffer : t.buffer[j] = s.buffer[j]
             /\ t.cache = s.cache /\ t.blocks = s.blocks /\ t.truth = s.truth
             /\ Alike(s, t) /\ Frame(s, t)
<1> DEFINE b == Without(s.buffer, i)
           t == Unbuffered(s, i)
<1>1. s \in Shape /\ DOMAIN s.blocks = DOMAIN s.cache.data
  BY ShapeIs DEF Cached
<1>2. /\ b \in Maps(Ino, Pending) /\ DOMAIN b = DOMAIN s.buffer \ {i}
      /\ \A j \in DOMAIN b : b[j] = s.buffer[j]
  <2>1. s.buffer \in Maps(Ino, Pending)
    BY <1>1 DEF Shape
  <2> HIDE DEF b
  <2>2. b \in Maps(Ino, Pending)
    BY <2>1, WithoutIs DEF b
  <2>3. DOMAIN b = DOMAIN s.buffer \ {i} /\ \A x \in DOMAIN s.buffer \ {i} : b[x] = s.buffer[x]
    BY WithoutIs DEF b
  <2> QED
    BY <2>2, <2>3
<1>3. t = [s EXCEPT !.buffer = b]
  BY DEF Unbuffered
<1> HIDE DEF b, t
<1>4. /\ t \in Shape /\ t.files = s.files /\ t.excused = s.excused /\ t.buffer = b
      /\ t.cache = s.cache /\ t.blocks = s.blocks /\ t.truth = s.truth /\ t.room = s.room
      /\ t.next_inode = s.next_inode /\ t.next = s.next /\ t.saved_next = s.saved_next
  BY <1>1, <1>2, <1>3 DEF Shape
<1>5. Disk(s, t)
  BY <1>1, <1>3 DEF Shape, Disk
<1>6. t \in FS
  BY <1>1, <1>4 DEF FS, Cached
<1>7. Alike(s, t) /\ Frame(s, t)
  BY <1>2, <1>4, <1>5 DEF Alike, Frame, SameFiles, Live, Disk
<1> QED
  BY <1>2, <1>4, <1>5, <1>6, <1>7 DEF t

\* t differs from s in the order of the cache only.
Quiet(s, t) ==
  /\ t.files = s.files /\ t.excused = s.excused /\ t.buffer = s.buffer
  /\ t.cache.data = s.cache.data /\ t.blocks = s.blocks /\ t.truth = s.truth
  /\ t.room = s.room /\ t.next_inode = s.next_inode
  /\ Disk(s, t) /\ Saved(s, t) /\ Space(s, t)

\* Then all of the above hold of it.
LEMMA QuietIs == \A s, t : Quiet(s, t) => Alike(s, t) /\ Frame(s, t)
BY DEF Quiet, Alike, Frame, SameFiles, Disk, Saved, Space, Live

\* Which is what a lookup and a drain leave.
LEMMA GetIs ==
  ASSUME NEW s \in FS, NEW i \in Ino
  PROVE  get(s, i) \in FS /\ Quiet(s, get(s, i))
<1> DEFINE c == Arc!get(s.cache, i)
           t == get(s, i)
<1>1. s \in Shape /\ DOMAIN s.blocks = DOMAIN s.cache.data
  BY ShapeIs DEF Cached
<1>2. c \in AP!Good /\ c.data = s.cache.data
  BY ShapeIs, CacheGet
<1>3. t = [s EXCEPT !.cache = c]
  BY DEF get
<1> HIDE DEF c, t
<1>4. /\ t \in Shape /\ t.files = s.files /\ t.excused = s.excused /\ t.cache = c
      /\ t.buffer = s.buffer /\ t.blocks = s.blocks /\ t.truth = s.truth /\ t.room = s.room
      /\ t.next_inode = s.next_inode
  BY <1>1, <1>2, <1>3 DEF Shape
<1>5. Disk(s, t) /\ Saved(s, t) /\ Space(s, t)
  BY <1>1, <1>3 DEF Shape, Disk, Saved, Space
<1>6. t \in FS
  BY <1>1, <1>2, <1>4 DEF FS, Cached
<1> QED
  BY <1>2, <1>4, <1>5, <1>6 DEF Quiet, t

\* The latter also empties the report.
LEMMA DrainedIs ==
  ASSUME NEW s \in FS
  PROVE  LET t == [s EXCEPT !.cache = Arc!drain_evicted(@)]
         IN  t \in FS /\ Quiet(s, t) /\ s.cache.evicted \in Seq(Ino)
<1> DEFINE c == Arc!drain_evicted(s.cache)
           t == [s EXCEPT !.cache = Arc!drain_evicted(@)]
<1>1. s \in Shape /\ DOMAIN s.blocks = DOMAIN s.cache.data
  BY ShapeIs DEF Cached
<1>2. c \in AP!Good /\ c.data = s.cache.data /\ s.cache.evicted \in Seq(Ino)
  BY ShapeIs, CacheDrain
<1>3. t = [s EXCEPT !.cache = c]
  OBVIOUS
<1> HIDE DEF c, t
<1>4. /\ t \in Shape /\ t.files = s.files /\ t.excused = s.excused /\ t.cache = c
      /\ t.buffer = s.buffer /\ t.blocks = s.blocks /\ t.truth = s.truth /\ t.room = s.room
      /\ t.next_inode = s.next_inode
  BY <1>1, <1>2, <1>3 DEF Shape
<1>5. Disk(s, t) /\ Saved(s, t) /\ Space(s, t)
  BY <1>1, <1>3 DEF Shape, Disk, Saved, Space
<1>6. t \in FS
  BY <1>1, <1>2, <1>4 DEF FS, Cached
<1> QED
  BY <1>2, <1>4, <1>5, <1>6 DEF Quiet, t

\* t has file i as clean.
Cleaned(s, t, i) ==
  /\ Live(t) = Live(s)
  /\ \A j \in Live(s) : /\ t.files[j].slot = s.files[j].slot
                        /\ t.files[j].size = s.files[j].size
                        /\ t.files[j].offset = s.files[j].offset
                        /\ t.files[j].dirty = IF j = i THEN FALSE ELSE s.files[j].dirty

\* Clearing the dirty flag of a file with d stored for it.
LEMMA CleanIs ==
  ASSUME NEW s \in FS, NEW i \in Live(s), NEW d
  PROVE  LET t == Clean(s, i, d)
         IN  /\ t \in FS /\ Core(s, t) /\ Disk(s, t) /\ Cleaned(s, t, i)
             /\ s.excused \subseteq t.excused
             /\ LetPass => i \in t.excused \/ d = s.truth[i]
             /\ Alike(s, t) /\ Frame(s, t)
<1> DEFINE f == [s.files EXCEPT ![i].dirty = FALSE]
           u == [s EXCEPT !.files = f]
           S == IF d # s.truth[i] THEN {i} ELSE {}
           t == Clean(s, i, d)
<1>1. s \in Shape /\ DOMAIN s.blocks = DOMAIN s.cache.data
  BY ShapeIs DEF Cached
<1>2. s.files \in [Live(s) -> File] /\ Live(s) \subseteq Ino /\ s.files[i] \in File
  BY ShapeIs
<1>3. f \in Maps(Ino, File)
  <2>1. [s.files[i] EXCEPT !.dirty = FALSE] \in File
    BY <1>2 DEF File
  <2>2. f \in [Live(s) -> File]
    BY <1>2, <2>1
  <2> QED
    BY <1>2, <2>2 DEF Maps
<1>4. t = Excused(u, "stale", S)
  BY <1>1 DEF Clean, Shape
<1>5. /\ DOMAIN f = Live(s)
      /\ \A j \in Live(s) : /\ f[j].slot = s.files[j].slot /\ f[j].size = s.files[j].size
                            /\ f[j].offset = s.files[j].offset
                            /\ f[j].dirty = IF j = i THEN FALSE ELSE s.files[j].dirty
  <2>1. \A j \in Live(s) : s.files[j] \in File
    BY <1>2
  <2> QED
    BY <1>2, <2>1 DEF File
<1> HIDE DEF f, t
<1>6. /\ u \in Shape /\ u.files = f /\ u.excused = s.excused /\ u.cache = s.cache
      /\ u.blocks = s.blocks
  BY <1>1, <1>3 DEF Shape
<1>7. Core(s, u) /\ Disk(s, u) /\ Saved(s, u) /\ Space(s, u)
  BY <1>1 DEF Shape, Core, Disk, Saved, Space
<1>8. u \in FS
  BY <1>1, <1>6 DEF FS, Cached
<1>9. S \in SUBSET Ino
  BY <1>2
<1> HIDE DEF u
<1>10. /\ t \in FS /\ Core(u, t) /\ Disk(u, t) /\ Saved(u, t) /\ Space(u, t)
       /\ t.files = u.files /\ u.excused \subseteq t.excused
       /\ "stale" \in Excuse => S \subseteq t.excused
  <2> HIDE DEF S
  <2> QED
    BY <1>4, <1>8, <1>9, ExcusedIs
<1>11. Core(s, t) /\ Disk(s, t) /\ Saved(s, t) /\ Space(s, t)
  BY <1>7, <1>10 DEF Core, Disk, Saved, Space
<1>12. Cleaned(s, t, i)
  BY <1>5, <1>6, <1>10 DEF Cleaned, Live
<1>13. LetPass => i \in t.excused \/ d = s.truth[i]
  BY <1>10 DEF LetPass
<1>14. s.excused \subseteq t.excused
  BY <1>6, <1>10
<1>15. Alike(s, t) /\ Frame(s, t)
  BY <1>11, <1>12, <1>14 DEF Cleaned, Alike, Frame, SameFiles, Core, Disk, Saved, Space
<1> QED
  BY <1>10, <1>11, <1>12, <1>13, <1>14, <1>15 DEF t

\* Storing what is buffered.
LEMMA PersistBufferedIs ==
  ASSUME NEW s \in FS, NEW i \in Ino
  PROVE  PersistBuffered(s, i) \in FS
<1>1. CASE i \notin DOMAIN s.buffer
  BY <1>1 DEF PersistBuffered
<1>2. CASE i \in DOMAIN s.buffer
  <2>1. s.buffer[i].data \in Content /\ s.buffer[i].slot \in Slot
    BY <1>2, FieldsAre
  <2>2. PersistBuffered(s, i) =
          persist_to_disk(Unbuffered(s, i), i, s.buffer[i].data, s.buffer[i].slot)
    BY <1>2 DEF PersistBuffered, Unbuffered
  <2> QED
    BY <2>1, <2>2, UnbufferedIs, PersistIs
<1> QED
  BY <1>1, <1>2

\* Its file keeps the one record it has, if any.
LEMMA PersistBufferedSound ==
  ASSUME NEW s \in FS, NEW new, Sound(s, new), NEW i \in Ino
  PROVE  Sound(PersistBuffered(s, i), new) /\ Frame(s, PersistBuffered(s, i))
<1>1. CASE i \notin DOMAIN s.buffer
  BY <1>1, FrameTwice DEF PersistBuffered
<1>2. CASE i \in DOMAIN s.buffer
  <2> DEFINE u == Unbuffered(s, i)
             d == s.buffer[i].data
             slot == s.buffer[i].slot
             t == PersistBuffered(s, i)
  <2>1. d \in Content /\ slot \in Slot
    BY <1>2, FieldsAre
  <2>2. t = persist_to_disk(u, i, d, slot)
    BY <1>2 DEF PersistBuffered, Unbuffered
  <2>3. /\ u \in FS /\ Alike(s, u) /\ Frame(s, u) /\ Disk(s, u) /\ u.files = s.files
        /\ i \notin DOMAIN u.buffer
    BY UnbufferedIs
  <2>4. i < s.next_inode /\ (i \in Live(s) => slot = s.files[i].slot)
    BY <1>2 DEF Sound, Numbered, BufferFits
  <2>5. \A k \in Slot : Record(s, k).used /\ Record(s, k).ino = i => k = slot
    BY <1>2 DEF Sound, RecordsFit, RecordFits
  <2>6. \A k : Record(u, k) = Record(s, k)
    BY <2>3 DEF Record, Replayed, Disk
  <2> HIDE DEF u, d, slot, t
  <2>7. u.next_inode = s.next_inode /\ Live(u) = Live(s)
    BY <2>3 DEF Alike
  <2>8. Sound(u, new)
    BY <2>3, AlikeSound
  <2>9. Sound(t, new) /\ Frame(u, t)
    BY <2>1, <2>2, <2>3, <2>4, <2>5, <2>6, <2>7, <2>8, PersistSound
  <2> QED
    BY <2>3, <2>9, FrameTwice DEF t
<1> QED
  BY <1>1, <1>2

\* What an eviction stores of a file that is not buffered.
LEMMA EvictStoreSound ==
  ASSUME NEW s \in FS, NEW new, Sound(s, new), NEW i \in Live(s), NEW d \in Content,
         i \notin DOMAIN s.buffer
  PROVE  LET t == persist_to_disk(s, i, d, s.files[i].slot)
         IN  Sound(t, new) /\ Frame(s, t)
<1> DEFINE slot == s.files[i].slot
<1>1. i \in Ino /\ slot \in Slot
  BY ShapeIs, FieldsAre
<1>2. i < s.next_inode
  BY DEF Sound, Numbered
<1>3. \A k \in Slot : Record(s, k).used /\ Record(s, k).ino = i => k = slot
  BY DEF Sound, RecordsFit, RecordFits, LiveRecord
<1> HIDE DEF slot
<1> QED
  BY <1>1, <1>2, <1>3, PersistSound DEF slot

\* One evicted file. What is stored of it may be an older copy.
LEMMA FlushEvictedIs ==
  ASSUME NEW s \in FS, NEW i \in Ino
  PROVE  /\ FlushEvicted(s, i) \in FS
         /\ \A new : Sound(s, new) => Sound(FlushEvicted(s, i), new) /\ Frame(s, FlushEvicted(s, i))
<1> DEFINE f == s.files[i]
           d == ReadData(s, f.offset, f.size)
           t == FlushEvicted(s, i)
<1>1. CASE i \notin Live(s) \/ ~f.dirty
  <2>1. t = s
    BY <1>1 DEF FlushEvicted
  <2> HIDE DEF t
  <2> QED
    BY <2>1, FrameTwice DEF t
<1>2. CASE i \in Live(s) /\ f.dirty
  <2>1. f.size \in 0 .. MaxBlocks /\ f.offset \in Nat /\ f.slot \in Slot /\ s.data \in Maps(Nat, Cell)
    BY <1>2, FieldsAre, ShapeIs
  <2>2. CASE i \in DOMAIN s.buffer
    <3> DEFINE u == PersistBuffered(s, i)
    <3>1. t = Clean(u, i, s.buffer[i].data)
      BY <1>2, <2>2 DEF FlushEvicted
    <3>2. u \in FS
      BY PersistBufferedIs
    <3>3. Live(u) = Live(s)
      <4>1. Live(Unbuffered(s, i)) = Live(s) /\ Unbuffered(s, i) \in FS
        BY UnbufferedIs DEF Alike
      <4>2. s.buffer[i].data \in Content /\ s.buffer[i].slot \in Slot
        BY <2>2, FieldsAre
      <4>3. u = persist_to_disk(Unbuffered(s, i), i, s.buffer[i].data, s.buffer[i].slot)
        BY <2>2 DEF PersistBuffered, Unbuffered
      <4> QED
        BY <4>1, <4>2, <4>3, PersistLive
    <3> HIDE DEF t, u
    <3>4. t \in FS /\ Alike(u, t) /\ Frame(u, t)
      BY <1>2, <3>1, <3>2, <3>3, CleanIs
    <3>5. ASSUME NEW new, Sound(s, new) PROVE Sound(t, new) /\ Frame(s, t)
      <4>1. Sound(u, new) /\ Frame(s, u)
        BY <3>5, PersistBufferedSound DEF u
      <4> QED
        BY <3>4, <4>1, AlikeSound, FrameTwice
    <3> QED
      BY <3>4, <3>5 DEF t
  <2>3. CASE i \notin DOMAIN s.buffer /\ f.offset > 0 /\ f.size > 0
    <3> DEFINE u == persist_to_disk(s, i, d, f.slot)
    <3>1. t = Clean(u, i, d)
      BY <1>2, <2>3 DEF FlushEvicted
    <3>2. d \in Content
      BY <2>1, ReadIs
    <3> HIDE DEF d
    <3>3. u \in FS /\ Live(u) = Live(s)
      BY <2>1, <3>2, PersistLive
    <3> HIDE DEF t
    <3>4. t \in FS /\ Alike(u, t) /\ Frame(u, t)
      <4> HIDE DEF u
      <4> QED
        BY <1>2, <3>1, <3>3, CleanIs
    <3>5. ASSUME NEW new, Sound(s, new) PROVE Sound(t, new) /\ Frame(s, t)
      <4>1. Sound(u, new) /\ Frame(s, u)
        BY <1>2, <2>3, <3>2, <3>5, EvictStoreSound
      <4> HIDE DEF u
      <4> QED
        BY <3>4, <4>1, AlikeSound, FrameTwice
    <3> QED
      BY <3>4, <3>5 DEF t
  <2>4. CASE i \notin DOMAIN s.buffer /\ ~(f.offset > 0 /\ f.size > 0)
    <3>1. t = Clean(s, i, OnDisk(s, i))
      BY <1>2, <2>4 DEF FlushEvicted
    <3> HIDE DEF t
    <3>2. t \in FS /\ Alike(s, t) /\ Frame(s, t)
      BY <1>2, <3>1, CleanIs
    <3> QED
      BY <3>2, AlikeSound DEF t
  <2> QED
    BY <2>2, <2>3, <2>4
<1> QED
  BY <1>1, <1>2

\* The candidate, stored while its contents are cached.
LEMMA PreEvictionIs ==
  ASSUME NEW s \in FS
  PROVE  LET t == pre_eviction_flush(s)
         IN  t \in FS /\ \A new : Sound(s, new) => Sound(t, new) /\ Frame(s, t)
<1> DEFINE i == Arc!peek_eviction_candidate(s.cache)
           t == pre_eviction_flush(s)
<1>1. i \in Cached(s) \cup {NoIno}
  BY ShapeIs, CachePeek DEF Cached
<1> HIDE DEF i
<1>2. CASE i = NoIno \/ i \notin Live(s) \/ ~s.files[i].dirty
  <2>1. t = s
    BY <1>2 DEF pre_eviction_flush, i
  <2> HIDE DEF t
  <2> QED
    BY <2>1, FrameTwice DEF t
<1>3. CASE i # NoIno /\ i \in Live(s) /\ s.files[i].dirty
  <2>1. i \in Ino /\ i \in Cached(s) /\ s.blocks[i] \in Content /\ s.files[i].slot \in Slot
    BY <1>1, <1>3, ShapeIs, FieldsAre
  <2>2. CASE i \in DOMAIN s.buffer
    <3>1. t = FlushEvicted(s, i)
      BY <1>3, <2>2 DEF pre_eviction_flush, FlushEvicted, i
    <3> QED
      BY <2>1, <3>1, FlushEvictedIs
  <2>3. CASE i \notin DOMAIN s.buffer
    <3> DEFINE g == get(s, i)
               d == s.blocks[i]
               u == persist_to_disk(g, i, d, s.files[i].slot)
    <3>1. t = Clean(u, i, d)
      BY <1>3, <2>3 DEF pre_eviction_flush, i
    <3>2. g \in FS /\ Quiet(s, g) /\ Alike(s, g) /\ Frame(s, g)
      BY <2>1, GetIs, QuietIs
    <3> HIDE DEF g, d, t
    <3>3. Live(g) = Live(s) /\ g.files = s.files /\ g.buffer = s.buffer
      BY <3>2 DEF Quiet, Live
    <3>4. u \in FS /\ Live(u) = Live(s)
      BY <2>1, <3>2, <3>3, PersistLive DEF d
    <3>5. t \in FS /\ Alike(u, t) /\ Frame(u, t)
      <4> HIDE DEF u
      <4> QED
        BY <1>3, <3>1, <3>4, CleanIs
    <3>6. ASSUME NEW new, Sound(s, new) PROVE Sound(t, new) /\ Frame(s, t)
      <4>1. Sound(g, new)
        BY <3>2, <3>6, AlikeSound
      <4>2. u = persist_to_disk(g, i, d, g.files[i].slot) /\ d \in Content
        BY <2>1, <3>3 DEF d
      <4> HIDE DEF u
      <4>3. Sound(u, new) /\ Frame(g, u)
        BY <1>3, <2>3, <3>2, <3>3, <4>1, <4>2, EvictStoreSound
      <4> QED
        BY <3>2, <3>5, <4>3, AlikeSound, FrameTwice
    <3> QED
      BY <3>5, <3>6 DEF t
  <2> QED
    BY <2>2, <2>3
<1> QED
  BY <1>2, <1>3

-----------------------------------------------------------------------------
(***************************************************************************)
(* The three loops, as rounds.                                             *)
(***************************************************************************)
Do(loop, s, x) ==
  IF loop = "evicted" THEN FlushEvicted(s, x)
  ELSE IF loop = "buffered" THEN PersistBuffered(s, x) ELSE TakeUp(s, x)
Looped(loop, s, seq) == FoldLeft(LAMBDA x, y : Do(loop, x, y), s, seq)

\* They are loops.
LEMMA LoopsAre ==
  \A s, seq : /\ FoldLeft(FlushEvicted, s, seq) = Looped("evicted", s, seq)
              /\ PersistAll(s, seq) = Looped("buffered", s, seq)
              /\ FoldLeft(TakeUp, s, seq) = Looped("taken up", s, seq)
<1> TAKE s, seq
<1>1. \A x, y : /\ Do("evicted", x, y) = FlushEvicted(x, y)
                /\ Do("buffered", x, y) = PersistBuffered(x, y)
                /\ Do("taken up", x, y) = TakeUp(x, y)
  BY DEF Do
<1>2. FoldLeft(FlushEvicted, s, seq) = Looped("evicted", s, seq)
  <2> DEFINE A(g) == g = [t \in SUBSET DOMAIN seq |->
                       IF t = {} THEN s ELSE FlushEvicted(g[t \ {Max(t)}], seq[Max(t)])]
             B(g) == g = [t \in SUBSET DOMAIN seq |->
                       IF t = {} THEN s ELSE Do("evicted", g[t \ {Max(t)}], seq[Max(t)])]
  <2>1. FoldLeft(FlushEvicted, s, seq) = (CHOOSE g : A(g))[DOMAIN seq]
    BY DEF FoldLeft, MapThenFoldSet
  <2>2. Looped("evicted", s, seq) = (CHOOSE g : B(g))[DOMAIN seq]
    BY DEF Looped, FoldLeft, MapThenFoldSet
  <2>3. \A g : A(g) <=> B(g)
    BY <1>1
  <2> HIDE DEF A, B
  <2> QED
    BY <2>1, <2>2, <2>3
<1>3. PersistAll(s, seq) = Looped("buffered", s, seq)
  <2> DEFINE A(g) == g = [t \in SUBSET DOMAIN seq |->
                       IF t = {} THEN s ELSE PersistBuffered(g[t \ {Max(t)}], seq[Max(t)])]
             B(g) == g = [t \in SUBSET DOMAIN seq |->
                       IF t = {} THEN s ELSE Do("buffered", g[t \ {Max(t)}], seq[Max(t)])]
  <2>1. PersistAll(s, seq) = (CHOOSE g : A(g))[DOMAIN seq]
    BY DEF PersistAll, FoldLeft, MapThenFoldSet
  <2>2. Looped("buffered", s, seq) = (CHOOSE g : B(g))[DOMAIN seq]
    BY DEF Looped, FoldLeft, MapThenFoldSet
  <2>3. \A g : A(g) <=> B(g)
    BY <1>1
  <2> HIDE DEF A, B
  <2> QED
    BY <2>1, <2>2, <2>3
<1>4. FoldLeft(TakeUp, s, seq) = Looped("taken up", s, seq)
  <2> DEFINE A(g) == g = [t \in SUBSET DOMAIN seq |->
                       IF t = {} THEN s ELSE TakeUp(g[t \ {Max(t)}], seq[Max(t)])]
             B(g) == g = [t \in SUBSET DOMAIN seq |->
                       IF t = {} THEN s ELSE Do("taken up", g[t \ {Max(t)}], seq[Max(t)])]
  <2>1. FoldLeft(TakeUp, s, seq) = (CHOOSE g : A(g))[DOMAIN seq]
    BY DEF FoldLeft, MapThenFoldSet
  <2>2. Looped("taken up", s, seq) = (CHOOSE g : B(g))[DOMAIN seq]
    BY DEF Looped, FoldLeft, MapThenFoldSet
  <2>3. \A g : A(g) <=> B(g)
    BY <1>1
  <2> HIDE DEF A, B
  <2> QED
    BY <2>1, <2>2, <2>3
<1> QED
  BY <1>2, <1>3, <1>4

\* m is the state after each round.
IsLoop(m, loop, s, seq, n) ==
  /\ m[0] = s /\ Looped(loop, s, seq) = m[n]
  /\ \A k \in 1 .. n : m[k] = Do(loop, m[k - 1], seq[k])

\* A loop whose rounds keep the types has such states.
LEMMA LoopRounds ==
  ASSUME NEW loop, NEW n \in Nat, NEW seq, DOMAIN seq = 1 .. n, NEW s \in FS,
         \A u \in FS : \A k \in 1 .. n : Do(loop, u, seq[k]) \in FS
  PROVE  \E m \in [0 .. n -> FS] : IsLoop(m, loop, s, seq, n)
<1> DEFINE D == [q \in FS \X (1 .. n) |-> Do(loop, q[1], seq[q[2]])]
           Rec(h) == h = [t \in SUBSET (1 .. n) |->
                            IF t = {} THEN s ELSE Do(loop, h[t \ {Max(t)}], seq[Max(t)])]
           h == CHOOSE g : Rec(g)
<1>1. D \in [FS \X (1 .. n) -> FS]
  OBVIOUS
<1>2. PICK g \in [SUBSET (1 .. n) -> FS] : IsFold(g, n, s, D)
  <2> HIDE DEF D
  <2> QED
    BY <1>1, FoldDefined, Zenon
<1>3. Rec(g)
  <2>1. ASSUME NEW t \in SUBSET (1 .. n), t # {}
        PROVE  D[<<g[t \ {Max(t)}], Max(t)>>] = Do(loop, g[t \ {Max(t)}], seq[Max(t)])
    <3>1. Max(t) \in 1 .. n /\ g[t \ {Max(t)}] \in FS
      BY <2>1, MaxIn
    <3> QED
      BY <3>1
  <2> HIDE DEF D
  <2> QED
    BY <1>2, <2>1 DEF IsFold
<1>4. Rec(h)
  BY <1>3, Zenon
<1>5. Looped(loop, s, seq) = h[1 .. n]
  BY DEF Looped, FoldLeft, MapThenFoldSet
<1>6. h[{}] = s
  BY <1>4
<1>7. ASSUME NEW t \in SUBSET (1 .. n), t # {}, h[t \ {Max(t)}] \in FS
      PROVE  h[t] = D[<<h[t \ {Max(t)}], Max(t)>>]
  <2>1. Max(t) \in 1 .. n
    BY <1>7, MaxIn
  <2>2. D[<<h[t \ {Max(t)}], Max(t)>>] = Do(loop, h[t \ {Max(t)}], seq[Max(t)])
    <3> HIDE DEF h
    <3> QED
      BY <1>7, <2>1
  <2> HIDE DEF h, D
  <2> QED
    BY <1>4, <1>7, <2>2
<1> HIDE DEF h
<1>8. PICK m \in [0 .. n -> FS] : IsRounds(m, h, n, s, D)
  <2>1. IsFoldIn(h, n, FS, s, D)
    BY <1>6, <1>7 DEF IsFoldIn
  <2> HIDE DEF D
  <2> QED
    BY <1>1, <2>1, FoldRounds, Zenon
<1>9. ASSUME NEW k \in 1 .. n PROVE m[k] = Do(loop, m[k - 1], seq[k])
  <2>1. k - 1 \in 0 .. n
    OBVIOUS
  <2>2. m[k - 1] \in FS
    BY <2>1
  <2>3. D[<<m[k - 1], k>>] = Do(loop, m[k - 1], seq[k])
    BY <2>2
  <2> QED
    BY <1>8, <2>3 DEF IsRounds
<1>10. m[0] = s /\ h[1 .. n] = m[n]
  BY <1>8 DEF IsRounds
<1> HIDE DEF D, Rec
<1> QED
  BY <1>5, <1>8, <1>9, <1>10 DEF IsLoop

\* The rounds of the first two keep the tables sound, and so does the loop.
LEMMA LoopSound ==
  ASSUME NEW loop \in {"evicted", "buffered"}, NEW seq \in Seq(Ino), NEW s \in FS
  PROVE  LET t == Looped(loop, s, seq)
         IN  t \in FS /\ \A new : Sound(s, new) => Sound(t, new) /\ Frame(s, t)
<1> DEFINE n == Len(seq)
<1>1. n \in Nat /\ DOMAIN seq = 1 .. n /\ \A k \in 1 .. n : seq[k] \in Ino
  OBVIOUS
<1>2. \A u \in FS : \A i \in Ino :
        /\ Do(loop, u, i) \in FS
        /\ \A new : Sound(u, new) => Sound(Do(loop, u, i), new) /\ Frame(u, Do(loop, u, i))
  BY FlushEvictedIs, PersistBufferedIs, PersistBufferedSound DEF Do
<1>3. PICK m \in [0 .. n -> FS] : IsLoop(m, loop, s, seq, n)
  <2> HIDE DEF n
  <2> QED
    BY <1>1, <1>2, LoopRounds
<1> HIDE DEF n
<1>4. n \in 0 .. n
  BY <1>1
<1>5. ASSUME NEW new, Sound(s, new)
      PROVE  Sound(m[n], new) /\ Frame(s, m[n])
  <2> DEFINE T == {k \in 0 .. n : Sound(m[k], new) /\ Frame(s, m[k])}
  <2>1. 0 \in T
    BY <1>1, <1>3, <1>5, FrameTwice DEF IsLoop
  <2>2. ASSUME NEW k \in 0 .. (n - 1), k \in T PROVE k + 1 \in T
    <3>1. k \in 0 .. n /\ k + 1 \in 0 .. n /\ k + 1 \in 1 .. n /\ (k + 1) - 1 = k
      BY <1>1
    <3>2. m[k + 1] = Do(loop, m[k], seq[k + 1])
      BY <1>3, <3>1 DEF IsLoop
    <3>3. Sound(m[k], new) /\ Frame(s, m[k]) /\ m[k] \in FS /\ seq[k + 1] \in Ino
      BY <1>1, <2>2, <3>1
    <3>4. Sound(m[k + 1], new) /\ Frame(m[k], m[k + 1])
      BY <1>2, <3>2, <3>3
    <3> QED
      BY <3>1, <3>3, <3>4, FrameTwice
  <2> HIDE DEF T
  <2>3. 0 .. n \subseteq T
    BY <1>1, <2>1, <2>2, UpTo
  <2> QED
    BY <1>4, <2>3 DEF T
<1>6. Looped(loop, s, seq) = m[n] /\ m[n] \in FS
  BY <1>3, <1>4 DEF IsLoop
<1> QED
  BY <1>5, <1>6

-----------------------------------------------------------------------------
(***************************************************************************)
(* Caching a file's contents.                                              *)
(***************************************************************************)
\* t has contents d of file i cached, and has dropped some of what s had.
Inserted(s, t, i, d) ==
  /\ Cached(t) \subseteq Cached(s) \cup {i} /\ i \in Cached(t)
  /\ t.blocks[i] = d /\ t.cache.data[i] = Len(d)
  /\ \A x \in Cached(t) \ {i} : t.blocks[x] = s.blocks[x] /\ t.cache.data[x] = s.cache.data[x]
  /\ \A x \in Cached(s) \ Cached(t) : \E j \in DOMAIN t.cache.evicted : t.cache.evicted[j] = x
  /\ t.files = s.files /\ t.excused = s.excused /\ t.buffer = s.buffer
  /\ t.truth = s.truth /\ t.room = s.room /\ t.next_inode = s.next_inode
  /\ Disk(s, t) /\ Saved(s, t) /\ Space(s, t)

\* The insertion itself.
LEMMA InsertIs ==
  ASSUME NEW s \in FS, NEW i \in Ino, NEW d \in Content
  PROVE  LET t == Insert(s, i, d)
         IN  t \in FS /\ Inserted(s, t, i, d) /\ t.cache.evicted \in Seq(Ino)
<1> DEFINE c == Arc!insert(s.cache, i, Len(d))
           b == [x \in DOMAIN c.data |-> Held(s, i, d, x)]
           t == Insert(s, i, d)
<1>1. s \in Shape /\ DOMAIN s.blocks = DOMAIN s.cache.data
  BY ShapeIs DEF Cached
<1>2. /\ c \in AP!Good /\ c.evicted \in Seq(Ino)
      /\ i \in DOMAIN c.data /\ DOMAIN c.data \subseteq DOMAIN s.cache.data \cup {i}
      /\ c.data[i] = Len(d)
      /\ \A x \in DOMAIN c.data \ {i} : c.data[x] = s.cache.data[x]
      /\ \A x \in DOMAIN s.cache.data \ DOMAIN c.data :
           \E j \in DOMAIN c.evicted : c.evicted[j] = x
  <2>1. s.cache \in AP!Good /\ Len(d) \in Nat
    BY ShapeIs DEF Content
  <2>2. /\ c \in AP!Good /\ c.evicted \in Seq(Ino)
        /\ i \in DOMAIN c.data /\ DOMAIN c.data \subseteq DOMAIN s.cache.data \cup {i}
        /\ c.data[i] = Len(d)
    BY <2>1, CacheInsert
  <2>3. \A x \in DOMAIN c.data \ {i} : c.data[x] = s.cache.data[x]
    BY <2>1, CacheInsert
  <2>4. \A x \in DOMAIN s.cache.data \ DOMAIN c.data :
          \E j \in DOMAIN c.evicted : c.evicted[j] = x
    BY <2>1, CacheInsert
  <2> HIDE DEF c
  <2> QED
    BY <2>2, <2>3, <2>4
<1>3. t = [s EXCEPT !.cache = c, !.blocks = b]
  BY DEF Insert
<1> HIDE DEF c, t
<1>4. /\ b \in Maps(Ino, Content) /\ DOMAIN b = DOMAIN c.data /\ b[i] = d
      /\ \A x \in DOMAIN c.data \ {i} : b[x] = s.blocks[x]
  <2>1. \A x \in DOMAIN c.data : x \in Ino /\ Held(s, i, d, x) \in Content
    BY <1>1, <1>2, ShapeIs DEF Held
  <2>2. b \in [DOMAIN c.data -> Content]
    BY <2>1
  <2>3. b[i] = d /\ \A x \in DOMAIN c.data \ {i} : b[x] = s.blocks[x]
    BY <1>2 DEF Held
  <2> HIDE DEF b
  <2> QED
    BY <2>1, <2>2, <2>3 DEF Maps
<1> HIDE DEF b
<1>5. /\ t \in Shape /\ t.files = s.files /\ t.excused = s.excused /\ t.cache = c
      /\ t.buffer = s.buffer /\ t.blocks = b /\ t.truth = s.truth /\ t.room = s.room
      /\ t.next_inode = s.next_inode
  BY <1>1, <1>2, <1>3, <1>4 DEF Shape
<1>6. Disk(s, t) /\ Saved(s, t) /\ Space(s, t)
  BY <1>1, <1>3 DEF Shape, Disk, Saved, Space
<1>7. t \in FS
  BY <1>4, <1>5 DEF FS, Cached
<1>8. Inserted(s, t, i, d)
  BY <1>2, <1>4, <1>5, <1>6 DEF Inserted, Cached
<1> QED
  BY <1>2, <1>5, <1>7, <1>8 DEF t

\* What is cached of a live file fits.
LEMMA InsertSound ==
  ASSUME NEW s, NEW t, NEW i \in Live(s), NEW d, Inserted(s, t, i, d), NEW new, Sound(s, new)
  PROVE  Sound(t, new) /\ SameFiles(s, t)
<1>1. /\ t.files = s.files /\ t.buffer = s.buffer /\ t.next_inode = s.next_inode
      /\ t.inode = s.inode /\ t.logged = s.logged /\ t.truth = s.truth
      /\ t.next = s.next /\ t.saved_next = s.saved_next
  BY DEF Inserted, Disk, Saved, Space
<1>2. \A k : Record(t, k) = Record(s, k)
  BY <1>1 DEF Record, Replayed
<1>3. OwnSlots(t) /\ Numbered(t) /\ InUse(t, new) /\ BufferFits(t)
  BY <1>1 DEF Sound, OwnSlots, Numbered, InUse, BufferFits, Live
<1>4. OneRecord(t) /\ RecordsFit(t)
  BY <1>1, <1>2 DEF Sound, OneRecord, RecordsFit, RecordFits, LiveRecord, Live
<1>5. CacheFits(t)
  BY <1>1 DEF Sound, CacheFits, Inserted, Live
<1>6. NextFits(t) /\ DOMAIN t.truth = Live(t)
  BY <1>1 DEF Sound, NextFits, Live
<1>7. SameFiles(s, t)
  BY <1>1 DEF SameFiles, Inserted, Live
<1> QED
  BY <1>3, <1>4, <1>5, <1>6, <1>7 DEF Sound

\* cache_insert, with what it stores before and after.
LEMMA CacheInsertIs ==
  ASSUME NEW s \in FS, NEW i \in Ino, NEW d \in Content
  PROVE  LET t == cache_insert(s, i, d)
         IN  /\ t \in FS
             /\ \A new : Sound(s, new) /\ i \in Live(s) => Sound(t, new) /\ SameFiles(s, t)
<1> DEFINE u == pre_eviction_flush(s)
           v == Insert(u, i, d)
           w == [v EXCEPT !.cache = Arc!drain_evicted(@)]
           e == v.cache.evicted
           t == cache_insert(s, i, d)
<1>1. t = Looped("evicted", w, e)
  BY LoopsAre DEF cache_insert, flush_cache_evictions
<1>2. u \in FS
  BY PreEvictionIs
<1>3. v \in FS /\ Inserted(u, v, i, d) /\ e \in Seq(Ino)
  <2> HIDE DEF u
  <2> QED
    BY <1>2, InsertIs
<1>4. w \in FS /\ Quiet(v, w)
  <2> HIDE DEF v
  <2> QED
    BY <1>3, DrainedIs
<1>5. t \in FS
  <2> HIDE DEF w, e, t
  <2> QED
    BY <1>1, <1>3, <1>4, LoopSound
<1>6. ASSUME NEW new, Sound(s, new), i \in Live(s) PROVE Sound(t, new) /\ SameFiles(s, t)
  <2>1. Sound(u, new) /\ SameFiles(s, u)
    BY <1>6, PreEvictionIs DEF Frame
  <2> HIDE DEF u
  <2>2. i \in Live(u)
    BY <1>6, <2>1 DEF SameFiles
  <2> HIDE DEF v
  <2>3. Sound(v, new) /\ SameFiles(u, v)
    BY <1>3, <2>1, <2>2, InsertSound
  <2> HIDE DEF w
  <2>4. Sound(w, new) /\ SameFiles(v, w)
    BY <1>4, <2>3, QuietIs, AlikeSound DEF Frame
  <2> HIDE DEF e, t
  <2>5. Sound(t, new) /\ SameFiles(w, t)
    BY <1>1, <1>3, <1>4, <2>4, LoopSound DEF Frame
  <2> QED
    BY <2>1, <2>3, <2>4, <2>5, FrameTwice
<1> HIDE DEF t
<1> QED
  BY <1>5, <1>6 DEF t

-----------------------------------------------------------------------------
(***************************************************************************)
(* The requests.                                                           *)
(***************************************************************************)
\* What a write and a truncation make of contents.
LEMMA WrittenIs ==
  ASSUME NEW d \in Content, NEW off \in 0 .. (MaxBlocks - 1), NEW v \in Val
  PROVE  Written(d, off, v) \in Content
<1> DEFINE n == IF off < Len(d) THEN Len(d) ELSE off + 1
           b(k) == IF k = off + 1 THEN v ELSE IF k <= Len(d) THEN d[k] ELSE Zero
<1>1. n \in Nat /\ n <= MaxBlocks /\ Len(d) \in Nat /\ d \in Seq(Block)
  BY VexFSAssumption DEF Content
<1>2. \A k \in 1 .. n : b(k) \in Block
  BY <1>1 DEF Block
<1>3. Written(d, off, v) = [k \in 1 .. n |-> b(k)]
  BY DEF Written
<1> HIDE DEF n, b
<1>4. [k \in 1 .. n |-> b(k)] \in Seq(Block) /\ Len([k \in 1 .. n |-> b(k)]) = n
  BY <1>1, <1>2
<1> QED
  BY <1>1, <1>3, <1>4 DEF Content

\* The other one.
LEMMA ResizedIs ==
  ASSUME NEW d \in Content, NEW n \in 0 .. MaxBlocks
  PROVE  Resized(d, n) \in Content /\ Len(Resized(d, n)) = n
<1> DEFINE b(k) == IF k <= Len(d) THEN d[k] ELSE Zero
<1>1. n \in Nat /\ n <= MaxBlocks /\ Len(d) \in Nat /\ d \in Seq(Block)
  BY VexFSAssumption DEF Content
<1>2. \A k \in 1 .. n : b(k) \in Block
  BY <1>1 DEF Block
<1>3. Resized(d, n) = [k \in 1 .. n |-> b(k)]
  BY DEF Resized
<1> HIDE DEF b
<1>4. [k \in 1 .. n |-> b(k)] \in Seq(Block) /\ Len([k \in 1 .. n |-> b(k)]) = n
  BY <1>1, <1>2
<1> QED
  BY <1>1, <1>3, <1>4 DEF Content

\* Contents d of n blocks become file i's, and it is dirty.
Changed(s, i, n, d) ==
  [s EXCEPT !.files[i].size = n, !.files[i].dirty = TRUE, !.truth[i] = d]

\* That touches nothing else.
LEMMA ChangedIs ==
  ASSUME NEW s \in FS, NEW i \in Live(s), DOMAIN s.truth = Live(s),
         NEW n \in 0 .. MaxBlocks, NEW d \in Content
  PROVE  LET t == Changed(s, i, n, d)
         IN  /\ t \in FS /\ Live(t) = Live(s)
             /\ t.files[i].size = n /\ t.files[i].dirty
             /\ \A j \in Live(s) \ {i} : t.files[j] = s.files[j]
             /\ t.truth = [s.truth EXCEPT ![i] = d]
             /\ t.cache = s.cache /\ t.blocks = s.blocks /\ t.buffer = s.buffer
             /\ t.excused = s.excused /\ Disk(s, t) /\ Alike(s, t)
<1> DEFINE f == [s.files EXCEPT ![i] = [@ EXCEPT !.size = n, !.dirty = TRUE]]
           h == [s.truth EXCEPT ![i] = d]
           t == Changed(s, i, n, d)
<1>1. s \in Shape /\ DOMAIN s.blocks = DOMAIN s.cache.data
  BY ShapeIs DEF Cached
<1>2. s.files \in [Live(s) -> File] /\ Live(s) \subseteq Ino /\ s.files[i] \in File
  BY ShapeIs
<1>3. f \in Maps(Ino, File) /\ h \in Maps(Ino, Content)
  <2>1. [s.files[i] EXCEPT !.size = n, !.dirty = TRUE] \in File
    BY <1>2 DEF File
  <2>2. f \in [Live(s) -> File]
    BY <1>2, <2>1
  <2>3. h \in [Live(s) -> Content]
    BY ShapeIs
  <2> QED
    BY <1>2, <2>2, <2>3 DEF Maps
<1>4. t = [s EXCEPT !.files = f, !.truth = h]
  BY <1>1, <1>2 DEF Changed, Shape, File
<1>5. /\ DOMAIN f = Live(s) /\ f[i].size = n /\ f[i].dirty
      /\ f[i].slot = s.files[i].slot /\ f[i].offset = s.files[i].offset
      /\ \A j \in Live(s) \ {i} : f[j] = s.files[j]
  BY <1>2 DEF File
<1>6. DOMAIN h = DOMAIN s.truth
  OBVIOUS
<1> HIDE DEF f, h, t
<1>7. /\ t \in Shape /\ t.files = f /\ t.truth = h /\ t.excused = s.excused
      /\ t.cache = s.cache /\ t.blocks = s.blocks /\ t.buffer = s.buffer
      /\ t.next_inode = s.next_inode /\ t.next = s.next /\ t.saved_next = s.saved_next
  BY <1>1, <1>3, <1>4 DEF Shape
<1>8. Disk(s, t)
  BY <1>1, <1>4 DEF Shape, Disk
<1>9. t \in FS
  BY <1>1, <1>7 DEF FS, Cached
<1>10. Alike(s, t)
  BY <1>5, <1>6, <1>7, <1>8 DEF Alike, Live, Disk
<1> QED
  BY <1>5, <1>7, <1>8, <1>9, <1>10 DEF Live, h, t

\* Letting a loss pass.
LEMMA ExcusedAlike ==
  ASSUME NEW s \in FS, NEW cause, NEW S \in SUBSET Ino
  PROVE  LET t == Excused(s, cause, S) IN t \in FS /\ Alike(s, t) /\ Frame(s, t)
<1> DEFINE t == Excused(s, cause, S)
<1>1. /\ t \in FS /\ Core(s, t) /\ Disk(s, t) /\ Saved(s, t) /\ Space(s, t)
      /\ t.files = s.files /\ s.excused \subseteq t.excused
  BY ExcusedIs
<1> HIDE DEF t
<1> QED
  BY <1>1 DEF Alike, Frame, SameFiles, Core, Disk, Saved, Space, Live, t

\* The state a write or a truncation starts from.
Begun(s, i) == StartOver(get(s, i), i)

\* Its files are those of s.
LEMMA BegunIs ==
  ASSUME NEW s \in FS, NEW i \in Ino
  PROVE  LET t == Begun(s, i)
         IN  /\ t \in FS /\ Alike(s, t) /\ t.files = s.files /\ t.truth = s.truth
             /\ t.buffer = s.buffer /\ t.blocks = s.blocks /\ t.cache.data = s.cache.data
             /\ Disk(s, t) /\ s.excused \subseteq t.excused
             /\ LetPass => i \in t.excused \/ i \in Cached(s) \/ s.truth[i] = <<>>
<1> DEFINE g == get(s, i)
           S == IF i \notin Cached(g) /\ g.truth[i] # <<>> THEN {i} ELSE {}
           t == Begun(s, i)
<1>1. g \in FS /\ Quiet(s, g) /\ Alike(s, g)
  BY GetIs, QuietIs
<1> HIDE DEF g
<1>2. t = Excused(g, "miss", S) /\ S \in SUBSET Ino
  BY DEF Begun, StartOver, g
<1> HIDE DEF t
<1>3. /\ t \in FS /\ Core(g, t) /\ Disk(g, t) /\ Saved(g, t) /\ Space(g, t)
      /\ t.files = g.files /\ g.excused \subseteq t.excused
      /\ "miss" \in Excuse => S \subseteq t.excused
  <2> HIDE DEF S
  <2> QED
    BY <1>1, <1>2, ExcusedIs
<1>4. /\ t.files = s.files /\ t.truth = s.truth /\ t.buffer = s.buffer /\ t.blocks = s.blocks
      /\ t.cache.data = s.cache.data /\ s.excused \subseteq t.excused
  BY <1>1, <1>3 DEF Quiet, Core
<1>5. Alike(s, t) /\ Disk(s, t)
  BY <1>1, <1>3 DEF Alike, Core, Disk, Saved, Space, Live, Quiet
<1>6. ASSUME LetPass PROVE i \in t.excused \/ i \in Cached(s) \/ s.truth[i] = <<>>
  <2>1. "miss" \in Excuse
    BY <1>6 DEF LetPass
  <2> QED
    BY <1>1, <1>3, <2>1 DEF Quiet, Cached
<1> QED
  BY <1>3, <1>4, <1>5, <1>6 DEF t

\* What is changed of a file's contents is cached.
LEMMA ChangeSound ==
  ASSUME NEW s \in FS, Sound(s, {}), NEW i \in Live(s),
         NEW n \in 0 .. MaxBlocks, NEW h \in Content, NEW d \in Content
  PROVE  LET t == cache_insert(Changed(Begun(s, i), i, n, h), i, d)
         IN  t \in FS /\ Sound(t, {})
<1> DEFINE b == Begun(s, i)
           c == Changed(b, i, n, h)
<1>1. i \in Ino
  BY ShapeIs
<1>2. b \in FS /\ Alike(s, b)
  BY <1>1, BegunIs
<1> HIDE DEF b
<1>3. Sound(b, {})
  BY <1>2, AlikeSound
<1>4. Live(b) = Live(s) /\ DOMAIN b.truth = Live(b)
  BY <1>2, <1>3 DEF Alike, Sound
<1>5. c \in FS /\ Alike(b, c)
  BY <1>2, <1>4, ChangedIs
<1> HIDE DEF c
<1>6. Sound(c, {}) /\ i \in Live(c)
  BY <1>3, <1>4, <1>5, AlikeSound DEF Alike
<1>7. /\ cache_insert(c, i, d) \in FS
      /\ Sound(cache_insert(c, i, d), {})
  BY <1>1, <1>5, <1>6, CacheInsertIs
<1> QED
  BY <1>7 DEF c, b

\* What a write or a truncation starts from is contents.
LEMMA ContentsIs ==
  ASSUME NEW s \in FS, NEW i
  PROVE  Contents(s, i) \in Content
<1>1. <<>> \in Seq(Block) /\ Len(<<>>) <= MaxBlocks
  BY VexFSAssumption
<1> QED
  BY <1>1, FieldsAre DEF Contents, Content

\* A write.
LEMMA WriteIs ==
  ASSUME NEW s \in FS, Sound(s, {}), NEW i \in Live(s),
         NEW off \in 0 .. (MaxBlocks - 1), NEW v \in Val
  PROVE  write(s, i, off, v) \in FS /\ Sound(write(s, i, off, v), {})
<1> DEFINE d == Written(Contents(s, i), off, v)
           h == Written(s.truth[i], off, v)
<1>1. d \in Content /\ h \in Content
  <2>1. s.truth[i] \in Content
    BY FieldsAre DEF Sound
  <2> QED
    BY <2>1, ContentsIs, WrittenIs
<1>2. Len(d) \in 0 .. MaxBlocks
  BY <1>1 DEF Content
<1>3. write(s, i, off, v) = cache_insert(Changed(Begun(s, i), i, Len(d), h), i, d)
  <2>1. Begun(s, i).truth = s.truth
    BY ShapeIs, BegunIs
  <2> QED
    BY <2>1 DEF write, Changed, Begun
<1> HIDE DEF d, h
<1> QED
  BY <1>1, <1>2, <1>3, ChangeSound

\* A truncation, or an extension.
LEMMA SetattrIs ==
  ASSUME NEW s \in FS, Sound(s, {}), NEW i \in Live(s), NEW n \in 0 .. MaxBlocks
  PROVE  setattr(s, i, n) \in FS /\ Sound(setattr(s, i, n), {})
<1> DEFINE d == Resized(Contents(s, i), n)
           h == Resized(s.truth[i], n)
<1>1. CASE n = s.files[i].size
  BY <1>1 DEF setattr
<1>2. CASE n # s.files[i].size
  <2>1. d \in Content /\ h \in Content
    <3>1. s.truth[i] \in Content
      BY FieldsAre DEF Sound
    <3> QED
      BY <3>1, ContentsIs, ResizedIs
  <2>2. setattr(s, i, n) = cache_insert(Changed(Begun(s, i), i, n, h), i, d)
    <3>1. Begun(s, i).truth = s.truth
      BY ShapeIs, BegunIs
    <3> QED
      BY <1>2, <3>1 DEF setattr, Changed, Begun
  <2> HIDE DEF d, h
  <2> QED
    BY <2>1, <2>2, ChangeSound
<1> QED
  BY <1>1, <1>2

\* A read.
LEMMA ReadRequestIs ==
  ASSUME NEW s \in FS, Sound(s, {}), NEW i \in Live(s)
  PROVE  read(s, i) \in FS /\ Sound(read(s, i), {})
<1> DEFINE g == get(s, i)
           S == {i} \cap DOMAIN s.buffer
           e == Excused(g, "miss", S)
           d == ReadData(s, s.files[i].offset, s.files[i].size)
<1>1. i \in Ino /\ S \in SUBSET Ino
  BY ShapeIs
<1>2. g \in FS /\ Alike(s, g)
  BY <1>1, GetIs, QuietIs
<1>3. Sound(g, {})
  <2> HIDE DEF g
  <2> QED
    BY <1>2, AlikeSound
<1>4. CASE i \in Cached(s)
  BY <1>2, <1>3, <1>4 DEF read
<1>5. CASE i \notin Cached(s)
  <2>1. read(s, i) = cache_insert(e, i, d)
    BY <1>5 DEF read
  <2>2. d \in Content
    BY FieldsAre, ShapeIs, ReadIs
  <2>3. e \in FS /\ Alike(g, e)
    <3> HIDE DEF g, S
    <3> QED
      BY <1>1, <1>2, ExcusedAlike
  <2> HIDE DEF g, e, d
  <2>4. Sound(e, {}) /\ i \in Live(e)
    BY <1>2, <1>3, <2>3, AlikeSound DEF Alike
  <2> QED
    BY <1>1, <2>1, <2>2, <2>3, <2>4, CacheInsertIs
<1> QED
  BY <1>4, <1>5

\* The state create makes before it caches the new file.
NewFile(s, i, slot) ==
  [s EXCEPT !.next_inode = @ + 1,
            !.files = With(@, i, [size |-> 0, offset |-> DataStart, slot |-> slot,
                                  dirty |-> TRUE]),
            !.truth = With(@, i, <<>>),
            !.excused = @ \ {i}]

\* What there is then.
Added(s, t, i, slot) ==
  /\ t \in FS /\ Sound(t, {i}) /\ i \notin Live(s) /\ Live(t) = Live(s) \cup {i}
  /\ t.files[i].slot = slot /\ t.files[i].size = 0 /\ t.files[i].dirty
  /\ \A j \in Live(s) : t.files[j] = s.files[j]
  /\ t.truth[i] = <<>> /\ \A j \in Live(s) : t.truth[j] = s.truth[j]
  /\ t.cache = s.cache /\ t.blocks = s.blocks /\ t.buffer = s.buffer
  /\ Disk(s, t) /\ t.excused = s.excused \ {i}
  /\ i \notin DOMAIN s.buffer

\* A file that was not there before, in a slot that is free on disk.
LEMMA NewFileIs ==
  ASSUME NEW s \in FS, Sound(s, {}), NEW i \in Ino, i = s.next_inode,
         NEW slot \in FreeSlots(s)
  PROVE  Added(s, NewFile(s, i, slot), i, slot)
<1> DEFINE r == [size |-> 0, offset |-> DataStart, slot |-> slot, dirty |-> TRUE]
           f == With(s.files, i, r)
           h == With(s.truth, i, <<>>)
           n == s.next_inode + 1
           e == s.excused \ {i}
           t == NewFile(s, i, slot)
<1>1. s \in Shape /\ DOMAIN s.blocks = DOMAIN s.cache.data
  BY ShapeIs DEF Cached
<1>2. slot \in Slot /\ ~s.inode[slot].used
  BY DEF FreeSlots
<1>3. r \in File /\ r.slot = slot /\ r.size = 0 /\ r.dirty /\ <<>> \in Content
  <2>1. 0 \in 0 .. MaxBlocks /\ <<>> \in Seq(Block) /\ Len(<<>>) = 0
    BY VexFSAssumption
  <2> QED
    BY <1>2, <2>1, VexFSAssumption DEF File, Content
<1>4. s.files \in Maps(Ino, File) /\ s.truth \in Maps(Ino, Content)
  BY <1>1 DEF Shape
<1> HIDE DEF r
<1>5. f \in Maps(Ino, File) /\ h \in Maps(Ino, Content)
  BY <1>3, <1>4, WithIs
<1>6. /\ DOMAIN f = Live(s) \cup {i} /\ f[i] = r /\ \A j \in Live(s) \ {i} : f[j] = s.files[j]
      /\ DOMAIN h = DOMAIN s.truth \cup {i} /\ h[i] = <<>>
      /\ \A j \in DOMAIN s.truth \ {i} : h[j] = s.truth[j]
  BY DEF With, Live
<1>7. n \in Nat /\ e \in SUBSET Ino /\ n = i + 1 /\ i \in Nat
  BY ShapeIs
<1>8. t = [s EXCEPT !.next_inode = n, !.files = f, !.truth = h, !.excused = e]
  BY DEF NewFile, r
<1> HIDE DEF f, h, n, e, t
<1>9. /\ t \in Shape /\ t.files = f /\ t.truth = h /\ t.excused = e /\ t.next_inode = n
      /\ t.cache = s.cache /\ t.blocks = s.blocks /\ t.buffer = s.buffer
      /\ t.next = s.next /\ t.saved_next = s.saved_next
  BY <1>1, <1>5, <1>7, <1>8 DEF Shape
<1>10. Disk(s, t)
  BY <1>1, <1>8 DEF Shape, Disk
<1>11. t \in FS
  BY <1>1, <1>9 DEF FS, Cached
<1>12. i \notin Live(s) /\ i \notin DOMAIN s.buffer
  BY <1>7 DEF Sound, Numbered
<1>13. /\ Live(t) = Live(s) \cup {i} /\ t.files[i] = r
       /\ \A j \in Live(s) : t.files[j] = s.files[j]
  BY <1>6, <1>9, <1>12 DEF Live
<1>14. /\ \A k : Record(t, k) = Record(s, k)
       /\ t.inode = s.inode /\ t.logged = s.logged
  BY <1>10 DEF Record, Replayed, Disk
<1>15. \A j \in Live(s) : s.files[j].slot # slot
  BY <1>2 DEF Sound, InUse
<1>16. OwnSlots(t)
  BY <1>3, <1>13, <1>15 DEF Sound, OwnSlots
<1>17. Numbered(t)
  <2>1. \A j \in Live(s) \cup DOMAIN s.buffer : j \in Nat
    BY ShapeIs, VexFSAssumption
  <2> QED
    BY <1>7, <1>9, <1>13, <2>1 DEF Sound, Numbered
<1>18. InUse(t, {i})
  BY <1>13, <1>14 DEF Sound, InUse
<1>19. OneRecord(t)
  BY <1>14 DEF Sound, OneRecord
<1>20. RecordsFit(t)
  <2> SUFFICES ASSUME NEW k \in Slot, Record(t, k).used
               PROVE  RecordFits(t, Record(t, k).ino, k)
    BY DEF RecordsFit
  <2> DEFINE j == Record(s, k).ino
  <2>1. Record(t, k) = Record(s, k) /\ RecordFits(s, j, k) /\ j < s.next_inode
    BY <1>14 DEF Sound, RecordsFit, RecordFits
  <2>2. j \in Nat
    <3>1. Record(s, k) \in Inode
      BY RecordIs, FieldsAre
    <3> QED
      BY <1>14, <2>1, <3>1, VexFSAssumption DEF Inode
  <2> HIDE DEF j
  <2>3. j < t.next_inode /\ j # i
    BY <1>7, <1>9, <2>1, <2>2
  <2>4. RecordFits(t, j, k)
    BY <1>9, <1>13, <2>1, <2>3 DEF RecordFits, LiveRecord
  <2> QED
    BY <2>1, <2>4 DEF j
<1>21. BufferFits(t)
  BY <1>9, <1>12, <1>13 DEF Sound, BufferFits
<1>22. CacheFits(t) /\ NextFits(t) /\ DOMAIN t.truth = Live(t)
  BY <1>6, <1>9, <1>13 DEF Sound, CacheFits, NextFits, Cached
<1>23. Sound(t, {i})
  BY <1>16, <1>17, <1>18, <1>19, <1>20, <1>21, <1>22 DEF Sound
<1>24. t.truth[i] = <<>> /\ \A j \in Live(s) : t.truth[j] = s.truth[j]
  BY <1>6, <1>9, <1>12 DEF Sound
<1> QED
  BY <1>3, <1>9, <1>10, <1>11, <1>12, <1>13, <1>23, <1>24 DEF t, e, Added

\* Its inode is written last.
LEMMA NewInodeIs ==
  ASSUME NEW s \in FS, NEW i \in Live(s), Sound(s, {i}), NEW slot, slot = s.files[i].slot,
         NEW n \in Inode, n.ino = i, n.size = 0, n.used
  PROVE  LET t == write_inode(s, slot, n) IN t \in FS /\ Sound(t, {}) /\ t.files = s.files
<1> DEFINE t == write_inode(s, slot, n)
<1>1. slot \in Slot /\ n # NoInode
  BY FieldsAre DEF NoInode
<1>2. /\ t \in FS /\ Core(s, t) /\ Saved(s, t) /\ Space(s, t) /\ t.files = s.files
      /\ t.inode = [s.inode EXCEPT ![slot] = n]
      /\ t.logged = [s.logged EXCEPT ![slot] = n]
  BY <1>1, WriteInodeIs
<1> HIDE DEF t
<1>3. /\ t.buffer = s.buffer /\ t.cache = s.cache /\ t.blocks = s.blocks /\ t.truth = s.truth
      /\ t.next_inode = s.next_inode /\ t.next = s.next /\ t.saved_next = s.saved_next
      /\ Live(t) = Live(s)
  BY <1>2 DEF Core, Saved, Space, Live
<1>4. /\ \A k \in Slot : t.inode[k] = IF k = slot THEN n ELSE s.inode[k]
      /\ \A k \in Slot : t.logged[k] = IF k = slot THEN n ELSE s.logged[k]
  BY <1>2, ShapeIs
<1>5. \A k \in Slot : Record(t, k) = IF k = slot THEN n ELSE Record(s, k)
  BY <1>1, <1>4, RecordIs
<1>6. OwnSlots(t) /\ Numbered(t) /\ BufferFits(t)
  BY <1>2, <1>3 DEF Sound, OwnSlots, Numbered, BufferFits
<1>7. InUse(t, {})
  <2> SUFFICES ASSUME NEW j \in Live(s)
               PROVE  LET k == t.files[j].slot
                      IN  t.inode[k].used /\ t.logged[k] \in {NoInode, t.inode[k]}
    BY <1>3 DEF InUse
  <2> DEFINE k == s.files[j].slot
  <2>1. k \in Slot /\ t.files[j].slot = k
    BY <1>2, FieldsAre
  <2>2. k # slot => s.inode[k].used /\ s.logged[k] \in {NoInode, s.inode[k]}
    BY DEF Sound, InUse
  <2> HIDE DEF k
  <2> QED
    BY <1>4, <2>1, <2>2
<1>8. \A k \in Slot : Record(s, k).used /\ Record(s, k).ino = i => k = slot
  BY DEF Sound, RecordsFit, RecordFits, LiveRecord
<1>9. OneRecord(t)
  BY <1>5, <1>8 DEF Sound, OneRecord
<1>10. RecordsFit(t)
  <2> SUFFICES ASSUME NEW k \in Slot, Record(t, k).used
               PROVE  RecordFits(t, Record(t, k).ino, k)
    BY DEF RecordsFit
  <2>1. CASE k = slot
    <3>1. Record(t, k) = n /\ i < s.next_inode /\ (i \in DOMAIN s.buffer => slot = s.buffer[i].slot)
      BY <1>1, <1>5, <2>1 DEF Sound, Numbered, BufferFits
    <3> QED
      BY <1>2, <1>3, <2>1, <3>1 DEF RecordFits, LiveRecord
  <2>2. CASE k # slot
    <3>1. Record(t, k) = Record(s, k) /\ RecordFits(s, Record(s, k).ino, k)
      BY <1>5, <2>2 DEF Sound, RecordsFit
    <3> QED
      BY <1>2, <1>3, <3>1 DEF RecordFits, LiveRecord
  <2> QED
    BY <2>1, <2>2
<1>11. CacheFits(t) /\ NextFits(t) /\ DOMAIN t.truth = Live(t)
  BY <1>3 DEF Sound, CacheFits, NextFits, Cached
<1> QED
  BY <1>2, <1>6, <1>7, <1>9, <1>10, <1>11 DEF Sound, t

\* The slot create takes.
FirstFree(s) == CHOOSE k \in FreeSlots(s) : \A m \in FreeSlots(s) : k <= m

\* It is free.
LEMMA FirstFreeIs ==
  ASSUME NEW s, FreeSlots(s) # {}
  PROVE  FirstFree(s) \in FreeSlots(s)
<1>1. FreeSlots(s) \in SUBSET Nat
  BY VexFSAssumption, FS_CardinalityType DEF FreeSlots
<1>2. \E k \in FreeSlots(s) : \A m \in FreeSlots(s) : k <= m
  BY <1>1, Least
<1> QED
  BY <1>2, Zenon DEF FirstFree

\* A creation.
LEMMA CreateIs ==
  ASSUME NEW s \in FS, Sound(s, {}), FreeSlots(s) # {}, s.next_inode \in Ino
  PROVE  create(s) \in FS /\ Sound(create(s), {})
<1> DEFINE i == s.next_inode
           slot == FirstFree(s)
           n == [ino |-> i, size |-> 0, offset |-> 0, used |-> TRUE]
           a == NewFile(s, i, slot)
           b == cache_insert(a, i, <<>>)
<1>1. slot \in FreeSlots(s)
  BY FirstFreeIs
<1>2. create(s) = write_inode(b, slot, n)
  BY DEF create, NewFile, FirstFree
<1>3. n \in Inode /\ n.ino = i /\ n.size = 0 /\ n.used /\ <<>> \in Content
  <2>1. 0 \in 0 .. MaxBlocks /\ <<>> \in Seq(Block) /\ Len(<<>>) = 0
    BY VexFSAssumption
  <2> QED
    BY <2>1, VexFSAssumption DEF Inode, Content
<1>7. i \in Ino /\ i = s.next_inode
  OBVIOUS
<1> HIDE DEF i, slot, n
<1>4. a \in FS /\ Sound(a, {i}) /\ i \in Live(a) /\ a.files[i].slot = slot
  <2>1. Added(s, NewFile(s, i, slot), i, slot)
    BY <1>1, <1>7, NewFileIs
  <2> QED
    BY <2>1 DEF Added
<1> HIDE DEF a
<1>5. b \in FS /\ Sound(b, {i}) /\ SameFiles(a, b)
  BY <1>3, <1>4, <1>7, CacheInsertIs
<1> HIDE DEF b
<1>6. i \in Live(b) /\ slot = b.files[i].slot
  BY <1>4, <1>5 DEF SameFiles
<1> QED
  BY <1>2, <1>3, <1>5, <1>6, NewInodeIs

\* Setting or clearing the dirty flag.
Marked(s, i, flag) == [s EXCEPT !.files[i].dirty = flag]

\* That touches nothing else.
MarkedAs(s, t, i, flag) ==
  /\ t \in FS /\ Live(t) = Live(s) /\ t.files[i].dirty = flag
  /\ t.files[i].slot = s.files[i].slot /\ t.files[i].size = s.files[i].size
  /\ t.files[i].offset = s.files[i].offset
  /\ \A j \in Live(s) \ {i} : t.files[j] = s.files[j]
  /\ Core(s, t) /\ t.excused = s.excused
  /\ Disk(s, t) /\ Saved(s, t) /\ Space(s, t) /\ Alike(s, t)
LEMMA MarkedIs ==
  ASSUME NEW s \in FS, NEW i \in Live(s), NEW flag \in BOOLEAN
  PROVE  MarkedAs(s, Marked(s, i, flag), i, flag)
<1> DEFINE f == [s.files EXCEPT ![i].dirty = flag]
           t == Marked(s, i, flag)
<1>1. s \in Shape /\ DOMAIN s.blocks = DOMAIN s.cache.data
  BY ShapeIs DEF Cached
<1>2. s.files \in [Live(s) -> File] /\ Live(s) \subseteq Ino /\ s.files[i] \in File
  BY ShapeIs
<1>3. f \in Maps(Ino, File)
  <2>1. [s.files[i] EXCEPT !.dirty = flag] \in File
    BY <1>2 DEF File
  <2>2. f \in [Live(s) -> File]
    BY <1>2, <2>1
  <2> QED
    BY <1>2, <2>2 DEF Maps
<1>4. t = [s EXCEPT !.files = f]
  BY <1>1 DEF Marked, Shape
<1>5. /\ DOMAIN f = Live(s) /\ f[i].dirty = flag /\ f[i].slot = s.files[i].slot
      /\ f[i].size = s.files[i].size /\ f[i].offset = s.files[i].offset
      /\ \A j \in Live(s) \ {i} : f[j] = s.files[j]
  BY <1>2 DEF File
<1> HIDE DEF f, t
<1>6. t \in Shape /\ t.files = f /\ t.excused = s.excused
  BY <1>1, <1>3, <1>4 DEF Shape
<1>7. Core(s, t) /\ Disk(s, t) /\ Saved(s, t) /\ Space(s, t)
  BY <1>1, <1>4 DEF Shape, Core, Disk, Saved, Space
<1>8. t \in FS
  BY <1>1, <1>6, <1>7 DEF FS, Cached, Core
<1>9. Alike(s, t)
  BY <1>5, <1>6, <1>7 DEF Alike, Live, Core, Disk, Saved, Space
<1> QED
  BY <1>5, <1>6, <1>7, <1>8, <1>9 DEF Live, t, MarkedAs

\* Putting a cached file into the write buffer.
LEMMA BufferedIs ==
  ASSUME NEW s \in FS, NEW i \in Live(s) \cap Cached(s)
  PROVE  LET t == Buffered(s, i)
         IN  /\ t \in FS /\ t.files = s.files /\ t.excused = s.excused /\ Disk(s, t)
             /\ t.cache = s.cache /\ t.blocks = s.blocks /\ t.truth = s.truth
             /\ DOMAIN t.buffer = DOMAIN s.buffer \cup {i}
             /\ t.buffer[i].data = s.blocks[i]
             /\ \A j \in DOMAIN s.buffer \ {i} : t.buffer[j] = s.buffer[j]
             /\ Sound(s, {}) => Sound(t, {})
<1> DEFINE p == [data |-> s.blocks[i], slot |-> s.files[i].slot]
           b == With(s.buffer, i, p)
           t == Buffered(s, i)
<1>1. s \in Shape /\ DOMAIN s.blocks = DOMAIN s.cache.data
  BY ShapeIs DEF Cached
<1>2. p \in Pending /\ i \in Ino /\ p.data = s.blocks[i] /\ p.slot = s.files[i].slot
  BY FieldsAre, ShapeIs DEF Pending
<1> HIDE DEF p
<1>3. b \in Maps(Ino, Pending)
  <2>1. s.buffer \in Maps(Ino, Pending)
    BY <1>1 DEF Shape
  <2> QED
    BY <1>2, <2>1, WithIs
<1>4. /\ DOMAIN b = DOMAIN s.buffer \cup {i} /\ b[i] = p
      /\ \A j \in DOMAIN s.buffer \ {i} : b[j] = s.buffer[j]
  BY DEF With
<1>5. t = [s EXCEPT !.buffer = b]
  BY DEF Buffered, p
<1> HIDE DEF b, t
<1>6. /\ t \in Shape /\ t.files = s.files /\ t.excused = s.excused /\ t.cache = s.cache
      /\ t.buffer = b /\ t.blocks = s.blocks /\ t.truth = s.truth
      /\ t.next_inode = s.next_inode /\ t.next = s.next /\ t.saved_next = s.saved_next
  BY <1>1, <1>3, <1>5 DEF Shape
<1>7. Disk(s, t)
  BY <1>1, <1>5 DEF Shape, Disk
<1>8. t \in FS
  BY <1>1, <1>6 DEF FS, Cached
<1>9. ASSUME Sound(s, {}) PROVE Sound(t, {})
  <2>1. /\ \A k : Record(t, k) = Record(s, k)
        /\ t.inode = s.inode /\ t.logged = s.logged
    BY <1>7 DEF Record, Replayed, Disk
  <2>2. OwnSlots(t) /\ Numbered(t) /\ InUse(t, {})
    BY <1>4, <1>6, <1>9, <2>1 DEF Sound, OwnSlots, Numbered, InUse, Live
  <2>3. OneRecord(t)
    BY <1>9, <2>1 DEF Sound, OneRecord
  <2>4. RecordsFit(t)
    BY <1>2, <1>4, <1>6, <1>9, <2>1 DEF Sound, RecordsFit, RecordFits, LiveRecord, Live
  <2>5. BufferFits(t)
    BY <1>2, <1>4, <1>6, <1>9 DEF Sound, BufferFits, Live
  <2>6. CacheFits(t) /\ NextFits(t) /\ DOMAIN t.truth = Live(t)
    BY <1>6, <1>9 DEF Sound, CacheFits, NextFits, Cached, Live
  <2> QED
    BY <2>2, <2>3, <2>4, <2>5, <2>6 DEF Sound
<1> QED
  BY <1>2, <1>4, <1>6, <1>7, <1>8, <1>9 DEF t

\* A close or an fsync, before the buffer is looked at.
LEMMA FlushFileIs ==
  ASSUME NEW s \in FS, Sound(s, {}), NEW i \in Live(s)
  PROVE  flush_file(s, i) \in FS /\ Sound(flush_file(s, i), {})
<1> DEFINE a == Marked(s, i, FALSE)
           g == get(a, i)
<1>1. CASE ~s.files[i].dirty
  BY <1>1 DEF flush_file
<1>2. CASE s.files[i].dirty
  <2>1. flush_file(s, i) = IF i \in Cached(s) THEN Buffered(g, i) ELSE g
    BY <1>2 DEF flush_file, Marked
  <2>2. a \in FS /\ Alike(s, a) /\ Live(a) = Live(s) /\ i \in Ino
    <3>1. a \in FS /\ Alike(s, a) /\ Live(a) = Live(s)
      <4>1. FALSE \in BOOLEAN
        OBVIOUS
      <4>2. MarkedAs(s, Marked(s, i, FALSE), i, FALSE)
        BY <4>1, MarkedIs
      <4> QED
        BY <4>2 DEF MarkedAs
    <3>2. i \in Ino
      BY ShapeIs
    <3> QED
      BY <3>1, <3>2
  <2> HIDE DEF a
  <2>3. g \in FS /\ Alike(a, g)
    BY <2>2, GetIs, QuietIs
  <2> HIDE DEF g
  <2>4. Sound(g, {})
    BY <2>2, <2>3, AlikeSound
  <2>5. i \in Live(g) /\ (i \in Cached(s) => i \in Cached(g))
    BY <2>2, <2>3 DEF Alike, Cached
  <2>6. CASE i \in Cached(s)
    BY <2>1, <2>3, <2>4, <2>5, <2>6, BufferedIs
  <2>7. CASE i \notin Cached(s)
    BY <2>1, <2>3, <2>4, <2>7
  <2> QED
    BY <2>6, <2>7
<1> QED
  BY <1>1, <1>2

\* An order of a set of files is a sequence of them that has them all.
LEMMA OrderIs ==
  ASSUME NEW S \in SUBSET Ino, NEW order \in SetToSeqs(S)
  PROVE  order \in Seq(Ino) /\ \A x \in S : \E k \in DOMAIN order : order[k] = x
<1> DEFINE n == Cardinality(S)
<1>1. n \in Nat /\ IsFiniteSet(S)
  BY VexFSAssumption, FS_Subset, FS_CardinalityType
<1>2. order \in [1 .. n -> S] /\ \A j, k \in 1 .. n : j # k => order[j] # order[k]
  BY DEF SetToSeqs
<1>3. Cardinality(1 .. n) = n
  BY <1>1, FS_Interval
<1> HIDE DEF n
<1>4. order \in Injection(1 .. n, S)
  BY <1>2 DEF Injection, IsInjective
<1>5. order \in Surjection(1 .. n, S)
  <2>1. Cardinality(S) = n
    BY DEF n
  <2> QED
    BY <1>1, <1>3, <1>4, <2>1, FS_Injection
<1>6. \A x \in S : \E k \in 1 .. n : order[k] = x
  BY <1>5 DEF Surjection
<1>7. order \in Seq(Ino) /\ DOMAIN order = 1 .. n
  BY <1>1, <1>2
<1> QED
  BY <1>6, <1>7

\* What is due is files.
LEMMA DueIs ==
  ASSUME NEW s \in FS, NEW i, NEW order \in DueForFlush(s, i)
  PROVE  order \in Seq(Ino)
<1>1. \E S \in SUBSET (DOMAIN s.buffer) : order \in SetToSeqs(S)
  BY DEF DueForFlush
<1>2. PICK S \in SUBSET (DOMAIN s.buffer) : order \in SetToSeqs(S)
  BY <1>1
<1>3. S \in SUBSET Ino
  BY ShapeIs
<1> QED
  BY <1>2, <1>3, OrderIs

\* Storing a sequence of buffered files.
LEMMA PersistAllIs ==
  ASSUME NEW s \in FS, Sound(s, {}), NEW order \in Seq(Ino)
  PROVE  /\ PersistAll(s, order) \in FS /\ Sound(PersistAll(s, order), {})
         /\ Frame(s, PersistAll(s, order))
BY LoopsAre, LoopSound

\* What a deleted file leaves.
LEMMA UncachedIs ==
  ASSUME NEW s \in FS, NEW i \in Ino
  PROVE  LET t == Uncached(s, i)
         IN  /\ t \in FS /\ t.files = s.files /\ t.excused = s.excused /\ t.buffer = s.buffer
             /\ t.truth = s.truth /\ t.next_inode = s.next_inode
             /\ Disk(s, t) /\ Saved(s, t) /\ Space(s, t)
             /\ Cached(t) = Cached(s) \ {i}
             /\ \A x \in Cached(t) : /\ t.blocks[x] = s.blocks[x]
                                     /\ t.cache.data[x] = s.cache.data[x]
<1> DEFINE c == Arc!remove_key(s.cache, i)
           b == [x \in Cached(s) \ {i} |-> s.blocks[x]]
           t == Uncached(s, i)
<1>1. s \in Shape /\ DOMAIN s.blocks = Cached(s) /\ s.cache \in AP!Good
  BY ShapeIs
<1>2. /\ c \in AP!Good /\ DOMAIN c.data = Cached(s) \ {i}
      /\ \A x \in Cached(s) \ {i} : c.data[x] = s.cache.data[x]
  BY <1>1, CacheRemove DEF Cached
<1>3. b \in Maps(Ino, Content) /\ DOMAIN b = Cached(s) \ {i} /\ \A x \in Cached(s) \ {i} : b[x] = s.blocks[x]
  <2>1. b \in [Cached(s) \ {i} -> Content] /\ Cached(s) \ {i} \subseteq Ino
    BY ShapeIs, FieldsAre
  <2> QED
    BY <2>1 DEF Maps
<1>4. t = [s EXCEPT !.cache = c, !.blocks = b]
  BY DEF Uncached
<1> HIDE DEF c, b, t
<1>5. /\ t \in Shape /\ t.files = s.files /\ t.excused = s.excused /\ t.cache = c
      /\ t.buffer = s.buffer /\ t.blocks = b /\ t.truth = s.truth
      /\ t.next_inode = s.next_inode
  BY <1>1, <1>2, <1>3, <1>4 DEF Shape
<1>6. Disk(s, t) /\ Saved(s, t) /\ Space(s, t)
  BY <1>1, <1>4 DEF Shape, Disk, Saved, Space
<1>7. t \in FS
  BY <1>2, <1>3, <1>5 DEF FS, Cached
<1> QED
  BY <1>2, <1>3, <1>5, <1>6, <1>7 DEF Cached, t

\* The state unlink leaves but for the cache: the file and its slot are gone,
\* the record the journal has and what is buffered are not.
Removed(s, i) ==
  [s EXCEPT !.files = Without(@, i), !.truth = Without(@, i), !.excused = @ \ {i}]

\* That touches nothing else.
LEMMA RemovedIs ==
  ASSUME NEW s \in FS, NEW i
  PROVE  LET t == Removed(s, i)
         IN  /\ t \in FS /\ Live(t) = Live(s) \ {i} /\ \A j \in Live(t) : t.files[j] = s.files[j]
             /\ DOMAIN t.truth = DOMAIN s.truth \ {i}
             /\ \A j \in DOMAIN t.truth : t.truth[j] = s.truth[j]
             /\ t.excused = s.excused \ {i} /\ t.buffer = s.buffer /\ t.blocks = s.blocks
             /\ t.cache = s.cache /\ t.next_inode = s.next_inode
             /\ Disk(s, t) /\ Saved(s, t) /\ Space(s, t)
<1> DEFINE f == Without(s.files, i)
           h == Without(s.truth, i)
           e == s.excused \ {i}
           t == Removed(s, i)
<1>1. s \in Shape /\ DOMAIN s.blocks = DOMAIN s.cache.data
  BY ShapeIs DEF Cached
<1>2. f \in Maps(Ino, File) /\ h \in Maps(Ino, Content) /\ e \in SUBSET Ino
  <2>1. s.files \in Maps(Ino, File) /\ s.truth \in Maps(Ino, Content) /\ s.excused \subseteq Ino
    BY <1>1 DEF Shape
  <2> QED
    BY <2>1, WithoutIs
<1>3. /\ DOMAIN f = Live(s) \ {i} /\ \A j \in DOMAIN f : f[j] = s.files[j]
      /\ DOMAIN h = DOMAIN s.truth \ {i} /\ \A j \in DOMAIN h : h[j] = s.truth[j]
  BY DEF Without, Live
<1>4. t = [s EXCEPT !.files = f, !.truth = h, !.excused = e]
  BY DEF Removed
<1> HIDE DEF f, h, e, t
<1>5. /\ t \in Shape /\ t.files = f /\ t.excused = e /\ t.truth = h /\ t.cache = s.cache
      /\ t.buffer = s.buffer /\ t.blocks = s.blocks /\ t.next_inode = s.next_inode
  BY <1>1, <1>2, <1>4 DEF Shape
<1>6. Disk(s, t) /\ Saved(s, t) /\ Space(s, t)
  BY <1>1, <1>4 DEF Shape, Disk, Saved, Space
<1>7. t \in FS
  BY <1>1, <1>5 DEF FS, Cached
<1> QED
  BY <1>3, <1>5, <1>6, <1>7 DEF Live, t, e

\* A deletion.
LEMMA UnlinkIs ==
  ASSUME NEW s \in FS, Sound(s, {}), NEW i \in Live(s)
  PROVE  LET t == unlink(s, i)
         IN  /\ t \in FS /\ Sound(t, {}) /\ Live(t) = Live(s) \ {i}
             /\ \A j \in Live(t) : /\ t.files[j] = s.files[j] /\ t.truth[j] = s.truth[j]
                                   /\ j \in Cached(s) <=> j \in Cached(t)
                                   /\ OnDisk(t, j) = OnDisk(s, j)
             /\ \A j \in Cached(t) : t.blocks[j] = s.blocks[j]
             /\ t.buffer = s.buffer /\ t.excused = s.excused \ {i}
<1> DEFINE f == s.files[i]
           a == IF f.offset > 0 /\ f.size > 0 THEN free_data(s, f.offset, f.size) ELSE s
           b == free_inode(a, f.slot)
           c == Removed(b, i)
           t == unlink(s, i)
<1>1. t = Uncached(c, i)
  BY DEF unlink, Removed
<1>2. i \in Ino /\ f.offset \in Nat /\ f.size \in Nat /\ f.slot \in Slot
  BY ShapeIs, FieldsAre
<1>3. /\ a \in FS /\ Core(s, a) /\ Disk(s, a) /\ Saved(s, a)
      /\ a.files = s.files /\ a.excused = s.excused /\ a.next = s.next
  <2>1. Core(s, s) /\ Disk(s, s) /\ Saved(s, s)
    BY DEF Core, Disk, Saved
  <2> QED
    BY <1>2, <2>1, FreeDataIs
<1> HIDE DEF a
<1>4. /\ b \in FS /\ Core(a, b) /\ Saved(a, b) /\ Space(a, b)
      /\ b.files = a.files /\ b.excused = a.excused /\ b.data = a.data
      /\ b.inode = [a.inode EXCEPT ![f.slot].used = FALSE] /\ b.logged = a.logged
  BY <1>2, <1>3, FreeInodeIs
<1> HIDE DEF b
<1>5. /\ c \in FS /\ Live(c) = Live(b) \ {i} /\ \A j \in Live(c) : c.files[j] = b.files[j]
      /\ DOMAIN c.truth = DOMAIN b.truth \ {i}
      /\ \A j \in DOMAIN c.truth : c.truth[j] = b.truth[j]
      /\ c.excused = b.excused \ {i} /\ c.buffer = b.buffer /\ c.blocks = b.blocks
      /\ c.cache = b.cache /\ c.next_inode = b.next_inode
      /\ Disk(b, c) /\ Saved(b, c) /\ Space(b, c)
  BY <1>4, RemovedIs
<1> HIDE DEF c
<1>6. /\ t \in FS /\ t.files = c.files /\ t.excused = c.excused /\ t.buffer = c.buffer
      /\ t.truth = c.truth /\ t.next_inode = c.next_inode
      /\ Disk(c, t) /\ Saved(c, t) /\ Space(c, t)
      /\ Cached(t) = Cached(c) \ {i}
      /\ \A x \in Cached(t) : t.blocks[x] = c.blocks[x] /\ t.cache.data[x] = c.cache.data[x]
  BY <1>1, <1>2, <1>5, UncachedIs
<1> HIDE DEF t
<1>7. /\ Live(t) = Live(s) \ {i} /\ \A j \in Live(t) : t.files[j] = s.files[j]
      /\ t.buffer = s.buffer /\ t.next_inode = s.next_inode /\ t.next = s.next
      /\ t.saved_next = s.saved_next /\ t.excused = s.excused \ {i}
      /\ t.data = s.data /\ t.logged = s.logged
      /\ DOMAIN t.truth = Live(t) /\ \A j \in Live(t) : t.truth[j] = s.truth[j]
  <2>1. /\ b.files = s.files /\ b.excused = s.excused /\ b.data = s.data
        /\ b.logged = s.logged /\ b.next_inode = s.next_inode /\ b.buffer = s.buffer
        /\ b.truth = s.truth /\ b.next = s.next /\ b.saved_next = s.saved_next
    BY <1>3, <1>4 DEF Core, Disk, Saved, Space
  <2>2. /\ t.buffer = b.buffer /\ t.next_inode = b.next_inode /\ t.next = b.next
        /\ t.saved_next = b.saved_next /\ t.excused = b.excused \ {i}
        /\ t.data = b.data /\ t.logged = b.logged
    BY <1>5, <1>6 DEF Disk, Saved, Space
  <2>3. Live(t) = Live(s) \ {i} /\ \A j \in Live(t) : t.files[j] = s.files[j]
    BY <1>5, <1>6, <2>1 DEF Live
  <2>4. DOMAIN t.truth = Live(t) /\ \A j \in Live(t) : t.truth[j] = s.truth[j]
    BY <1>5, <1>6, <2>1, <2>3 DEF Sound
  <2> QED
    BY <2>1, <2>2, <2>3, <2>4
<1>8. /\ Cached(t) = Cached(s) \ {i}
      /\ \A x \in Cached(t) : t.blocks[x] = s.blocks[x] /\ t.cache.data[x] = s.cache.data[x]
  BY <1>3, <1>4, <1>5, <1>6 DEF Cached, Core
<1> DEFINE slot == f.slot
<1>9. /\ \A k \in Slot \ {slot} : t.inode[k] = s.inode[k]
      /\ ~t.inode[slot].used
  <2>1. t.inode = [s.inode EXCEPT ![slot].used = FALSE]
    BY <1>3, <1>4, <1>5, <1>6 DEF Disk
  <2>2. s.inode[slot] \in Inode /\ s.inode \in [Slot -> Inode]
    BY <1>2, ShapeIs
  <2>3. [s.inode[slot] EXCEPT !.used = FALSE].used = FALSE
    BY <2>2 DEF Inode
  <2> HIDE DEF slot
  <2> QED
    BY <1>2, <2>1, <2>2, <2>3 DEF slot
<1>10. slot \in Slot /\ slot = s.files[i].slot
  BY <1>2
<1> HIDE DEF slot
<1>11. /\ \A k \in Slot \ {slot} : Record(t, k) = Record(s, k)
       /\ Record(t, slot).used => Record(t, slot) = Record(s, slot)
  <2>1. t.logged = s.logged
    BY <1>7
  <2>2. \A k \in Slot : Record(s, k) = IF s.logged[k] = NoInode THEN s.inode[k] ELSE s.logged[k]
    BY RecordIs
  <2>3. \A k \in Slot : Record(t, k) = IF s.logged[k] = NoInode THEN t.inode[k] ELSE s.logged[k]
    BY <2>1, RecordIs
  <2> QED
    BY <1>9, <1>10, <2>2, <2>3
<1>12. \A k \in Slot : Record(t, k).used => Record(t, k) = Record(s, k)
  BY <1>11
<1>13. \A j \in Live(t) : s.files[j].slot # slot /\ s.files[j].slot \in Slot
  BY <1>7, <1>10, FieldsAre DEF Sound, OwnSlots
<1>14. OwnSlots(t) /\ Numbered(t) /\ BufferFits(t)
  BY <1>7 DEF Sound, OwnSlots, Numbered, BufferFits
<1>15. InUse(t, {})
  BY <1>7, <1>9, <1>13 DEF Sound, InUse
<1>16. OneRecord(t) /\ RecordsFit(t)
  BY <1>7, <1>12 DEF Sound, OneRecord, RecordsFit, RecordFits, LiveRecord
<1>17. CacheFits(t) /\ NextFits(t)
  BY <1>7, <1>8 DEF Sound, CacheFits, NextFits
<1>18. Sound(t, {})
  BY <1>7, <1>14, <1>15, <1>16, <1>17 DEF Sound
<1>19. \A j \in Live(t) : OnDisk(t, j) = OnDisk(s, j)
  <2> SUFFICES ASSUME NEW j \in Live(t) PROVE OnDisk(t, j) = OnDisk(s, j)
    OBVIOUS
  <2>1. \A k \in Slot : Record(s, k).used /\ Record(s, k).ino = j => k # slot
    BY <1>7, <1>13 DEF Sound, RecordsFit, RecordFits, LiveRecord
  <2>2. \A k \in Slot : Record(t, k).used /\ Record(t, k).ino = j => k # slot
    BY <1>12, <2>1
  <2>3. {k \in Slot : Record(t, k).used /\ Record(t, k).ino = j}
          = {k \in Slot : Record(s, k).used /\ Record(s, k).ino = j}
    BY <1>11, <2>1, <2>2
  <2> DEFINE at == {k \in Slot : Record(s, k).used /\ Record(s, k).ino = j}
             m == CHOOSE k \in at : TRUE
             n == Record(s, m)
  <2>4. \A o, z : ReadData(t, o, z) = ReadData(s, o, z)
    BY <1>7 DEF ReadData, CellAt
  <2>5. CASE at = {}
    BY <2>3, <2>5 DEF OnDisk, Record
  <2>6. CASE at # {}
    <3>1. m \in at
      BY <2>6
    <3> HIDE DEF m
    <3>2. Record(t, m) = n
      BY <1>11, <2>1, <3>1
    <3>3. OnDisk(s, j) = ReadData(s, n.offset, n.size)
      BY <2>6 DEF OnDisk, Record, m
    <3>4. OnDisk(t, j) = ReadData(t, Record(t, m).offset, Record(t, m).size)
      BY <2>3, <2>6 DEF OnDisk, Record, m
    <3> QED
      BY <2>4, <3>2, <3>3, <3>4
  <2> QED
    BY <2>5, <2>6
<1> QED
  BY <1>6, <1>7, <1>8, <1>18, <1>19 DEF t

\* A rename writes the inode as it is.
LEMMA RenameIs ==
  ASSUME NEW s \in FS, Sound(s, {}), NEW i \in Live(s)
  PROVE  LET t == rename(s, i)
         IN  /\ t \in FS /\ Sound(t, {}) /\ Live(t) = Live(s)
             /\ t.files[i].dirty /\ t.files[i].size = s.files[i].size
             /\ \A j \in Live(s) \ {i} : t.files[j] = s.files[j]
             /\ t.truth = s.truth /\ t.cache = s.cache /\ t.blocks = s.blocks
             /\ t.buffer = s.buffer /\ t.excused = s.excused
             /\ \A j : OnDisk(t, j) = OnDisk(s, j)
<1> DEFINE slot == s.files[i].slot
           n == s.inode[slot]
           a == Marked(s, i, TRUE)
           b == write_inode(a, slot, n)
           t == rename(s, i)
<1>1. t = flush_disk(b)
  BY DEF rename, Marked
<1>2. slot \in Slot /\ n \in Inode
  BY FieldsAre
<1>3. /\ a \in FS /\ Alike(s, a) /\ Live(a) = Live(s) /\ a.files[i].dirty
      /\ a.files[i].slot = s.files[i].slot /\ a.files[i].size = s.files[i].size
      /\ a.files[i].offset = s.files[i].offset
      /\ \A j \in Live(s) \ {i} : a.files[j] = s.files[j]
      /\ Core(s, a) /\ Disk(s, a) /\ Saved(s, a) /\ Space(s, a) /\ a.excused = s.excused
  <2>1. MarkedAs(s, Marked(s, i, TRUE), i, TRUE)
    BY MarkedIs
  <2> QED
    BY <2>1 DEF MarkedAs
<1> HIDE DEF a, n
<1>4. /\ b \in FS /\ Core(a, b) /\ Saved(a, b) /\ Space(a, b)
      /\ b.files = a.files /\ b.excused = a.excused /\ b.data = a.data
      /\ b.inode = [a.inode EXCEPT ![slot] = n]
      /\ b.logged = [a.logged EXCEPT ![slot] = n]
  BY <1>2, <1>3, WriteInodeIs
<1> HIDE DEF b
<1>5. /\ t \in FS /\ Core(b, t) /\ Disk(b, t) /\ Space(b, t)
      /\ t.files = b.files /\ t.excused = b.excused /\ t.saved_next = b.next
  BY <1>1, <1>4, FlushDiskIs
<1> HIDE DEF t
<1>6. /\ t.truth = s.truth /\ t.cache = s.cache /\ t.blocks = s.blocks
      /\ t.buffer = s.buffer /\ t.excused = s.excused /\ t.next_inode = s.next_inode
      /\ t.next = s.next /\ t.saved_next = s.next /\ t.data = s.data
      /\ t.files = a.files /\ Live(t) = Live(s)
      /\ t.inode = [s.inode EXCEPT ![slot] = n] /\ t.logged = [s.logged EXCEPT ![slot] = n]
  BY <1>3, <1>4, <1>5 DEF Core, Disk, Space, Live
<1>7. /\ s.inode[slot].used /\ s.logged[slot] \in {NoInode, s.inode[slot]} /\ n = s.inode[slot]
      /\ n # NoInode
  <2>1. s.inode[slot].used /\ s.logged[slot] \in {NoInode, s.inode[slot]} /\ n = s.inode[slot]
    BY DEF Sound, InUse, n
  <2> QED
    BY <2>1 DEF NoInode
<1>8. /\ \A j \in Live(s) : t.files[j].slot = s.files[j].slot /\ t.files[j].offset = s.files[j].offset
      /\ \A k \in Slot : /\ t.inode[k] = s.inode[k]
                         /\ t.logged[k] = IF k = slot THEN n ELSE s.logged[k]
  <2>1. s.inode \in [Slot -> Inode] /\ s.logged \in [Slot -> Inode]
    BY ShapeIs
  <2> HIDE DEF slot
  <2> QED
    BY <1>3, <1>6, <1>7, <2>1 DEF slot
<1>9. \A k \in Slot : Record(t, k) = Record(s, k)
  BY <1>7, <1>8, RecordIs
<1>10. Replayed(t) = Replayed(s)
  BY <1>9 DEF Record, Replayed
<1>11. \A j : OnDisk(t, j) = OnDisk(s, j)
  <2>1. \A o, z : ReadData(t, o, z) = ReadData(s, o, z)
    BY <1>6 DEF ReadData, CellAt
  <2> QED
    BY <1>10, <2>1 DEF OnDisk
<1>12. OwnSlots(t) /\ Numbered(t) /\ BufferFits(t)
  BY <1>6, <1>8 DEF Sound, OwnSlots, Numbered, BufferFits
<1>13. InUse(t, {})
  <2> SUFFICES ASSUME NEW j \in Live(s)
               PROVE  LET k == t.files[j].slot
                      IN  t.inode[k].used /\ t.logged[k] \in {NoInode, t.inode[k]}
    BY <1>6 DEF InUse
  <2> DEFINE k == s.files[j].slot
  <2>1. k \in Slot /\ t.files[j].slot = k
    BY <1>8, FieldsAre
  <2>2. s.inode[k].used /\ s.logged[k] \in {NoInode, s.inode[k]}
    BY DEF Sound, InUse
  <2> HIDE DEF k, slot
  <2> QED
    BY <1>7, <1>8, <2>1, <2>2
<1>14. OneRecord(t) /\ RecordsFit(t)
  BY <1>6, <1>8, <1>9 DEF Sound, OneRecord, RecordsFit, RecordFits, LiveRecord
<1>15. CacheFits(t) /\ DOMAIN t.truth = Live(t)
  BY <1>6 DEF Sound, CacheFits, Cached
<1>16. NextFits(t)
  BY <1>6, ShapeIs, VexFSAssumption DEF Sound, NextFits
<1>17. Sound(t, {})
  BY <1>12, <1>13, <1>14, <1>15, <1>16 DEF Sound
<1> QED
  BY <1>3, <1>5, <1>6, <1>11, <1>17 DEF t

-----------------------------------------------------------------------------
(***************************************************************************)
(* Mounting and the end of a mount.                                        *)
(***************************************************************************)
\* A partial function of nothing.
LEMMA EmptyMap == DOMAIN <<>> = {} /\ \A S, V : <<>> \in Maps(S, V)
<1>1. DOMAIN <<>> = {}
  OBVIOUS
<1>2. ASSUME NEW V PROVE <<>> \in [{} -> V]
  <2>1. <<>> \in Seq(V) /\ Len(<<>>) = 0
    OBVIOUS
  <2>2. \A q \in Seq(V) : Len(q) = 0 => q \in [1 .. 0 -> V]
    OBVIOUS
  <2>3. 1 .. 0 = {}
    OBVIOUS
  <2>4. <<>> \in [1 .. 0 -> V]
    BY <2>1, <2>2
  <2> QED
    BY <2>3, <2>4
<1>3. \A S, V : <<>> \in Maps(S, V)
  <2> SUFFICES ASSUME NEW S, NEW V PROVE <<>> \in Maps(S, V)
    OBVIOUS
  <2>1. {} \in SUBSET S
    OBVIOUS
  <2> QED
    BY <1>2, <2>1 DEF Maps
<1> QED
  BY <1>1, <1>3

\* What is left without the process: nothing but the disk.
Off(s) == Live(s) = {} /\ Cached(s) = {} /\ DOMAIN s.buffer = {}

\* It is all that a crash and an unmount leave.
LEMMA PoweredDownIs ==
  ASSUME NEW s \in FS
  PROVE  LET t == PoweredDown(s)
         IN  /\ t \in FS /\ Off(t) /\ Disk(s, t) /\ Saved(s, t)
             /\ t.truth = s.truth /\ t.excused = s.excused /\ t.next = DataStart
<1> DEFINE c == Arc!EmptyCache
           e == <<>>
           t == PoweredDown(s)
<1>1. s \in Shape /\ DOMAIN s.blocks = DOMAIN s.cache.data
  BY ShapeIs DEF Cached
<1>2. c \in AP!Good /\ DOMAIN c.data = {}
  BY CacheEmpty
<1>3. /\ e \in Maps(Ino, File) /\ e \in Maps(Ino, Content) /\ e \in Maps(Ino, Pending)
      /\ DOMAIN e = {} /\ e \in Seq(List!Extent) /\ 2 \in Nat /\ DataStart \in Nat
  BY EmptyMap, VexFSAssumption
<1>4. t = [s EXCEPT !.files = e, !.next_inode = 2, !.cache = c, !.blocks = e,
                    !.buffer = e, !.list = e, !.next = DataStart]
  BY DEF PoweredDown
<1> HIDE DEF c, e, t
<1>5. /\ t \in Shape /\ t.files = e /\ t.cache = c /\ t.blocks = e /\ t.buffer = e
      /\ t.next = DataStart /\ t.truth = s.truth /\ t.excused = s.excused
  BY <1>1, <1>2, <1>3, <1>4 DEF Shape
<1>6. Disk(s, t) /\ Saved(s, t)
  BY <1>1, <1>4 DEF Shape, Disk, Saved
<1>7. t \in FS
  BY <1>2, <1>3, <1>5 DEF FS, Cached
<1> QED
  BY <1>2, <1>3, <1>5, <1>6, <1>7 DEF Off, Live, Cached, t

\* What load starts from.
Opened(s) == [open(s) EXCEPT !.truth = <<>>, !.excused = {}]

\* The replay is done, and the journal is empty.
LEMMA OpenedIs ==
  ASSUME NEW s \in FS
  PROVE  LET t == Opened(s)
         IN  /\ t \in FS /\ t.inode = Replayed(s) /\ t.logged = [k \in Slot |-> NoInode]
             /\ t.data = s.data /\ t.next = s.saved_next /\ t.saved_next = s.saved_next
             /\ t.files = s.files /\ t.cache = s.cache /\ t.blocks = s.blocks
             /\ t.buffer = s.buffer /\ DOMAIN t.truth = {}
<1> DEFINE r == Replayed(s)
           j == [k \in Slot |-> NoInode]
           e == <<>>
           t == Opened(s)
<1>1. s \in Shape /\ DOMAIN s.blocks = DOMAIN s.cache.data
  BY ShapeIs DEF Cached
<1>2. NoInode \in Inode
  <2>1. 0 \in 0 .. MaxBlocks
    BY VexFSAssumption
  <2> QED
    BY <2>1 DEF NoInode, Inode
<1>3. r \in [Slot -> Inode]
  BY FieldsAre DEF Replayed
<1>4. j \in [Slot -> Inode]
  BY <1>2
<1>5. e \in Maps(Ino, Content) /\ DOMAIN e = {} /\ {} \in SUBSET Ino
  BY EmptyMap
<1>6. t = [s EXCEPT !.inode = r, !.logged = j, !.list = s.saved_list, !.next = s.saved_next,
                    !.truth = e, !.excused = {}]
  BY <1>1 DEF Opened, open, Shape
<1> HIDE DEF r, j, e, t
<1>7. /\ t \in Shape /\ t.inode = r /\ t.logged = j /\ t.data = s.data
      /\ t.next = s.saved_next /\ t.saved_next = s.saved_next
      /\ t.files = s.files /\ t.cache = s.cache /\ t.blocks = s.blocks /\ t.buffer = s.buffer
      /\ t.truth = e
  BY <1>1, <1>3, <1>4, <1>5, <1>6 DEF Shape
<1>8. t \in FS
  BY <1>1, <1>7 DEF FS, Cached
<1> QED
  BY <1>5, <1>7, <1>8 DEF r, j, e, t

\* From s to t the file of inode n was taken up, with contents d.
TookUp(s, t, n, slot, d) ==
  /\ Live(t) = Live(s) \cup {n.ino}
  /\ t.files[n.ino] = [size |-> n.size, offset |-> n.offset, slot |-> slot, dirty |-> FALSE]
  /\ \A j \in Live(s) \ {n.ino} : t.files[j] = s.files[j]
  /\ DOMAIN t.truth = DOMAIN s.truth \cup {n.ino} /\ t.truth[n.ino] = d
  /\ \A j \in DOMAIN s.truth \ {n.ino} : t.truth[j] = s.truth[j]
  /\ t.next_inode = IF n.ino >= s.next_inode THEN n.ino + 1 ELSE s.next_inode
  /\ t.buffer = s.buffer /\ Disk(s, t) /\ t.next = s.next /\ t.saved_next = s.saved_next
  /\ Cached(t) \subseteq Cached(s) \cup {n.ino}
  /\ n.ino \in Cached(t) => t.blocks[n.ino] = d /\ t.cache.data[n.ino] = Len(d)
  /\ \A j \in Cached(t) \ {n.ino} : t.blocks[j] = s.blocks[j] /\ t.cache.data[j] = s.cache.data[j]
  /\ s.excused \subseteq t.excused
  /\ LetPass => n.ino \in t.excused \/ Len(d) = n.size

\* A used slot's file is.
LEMMA TakeUpIs ==
  ASSUME NEW s \in FS, NEW slot \in Slot
  PROVE  LET t == TakeUp(s, slot)
             n == s.inode[slot]
         IN  /\ t \in FS
             /\ IF n.used THEN TookUp(s, t, n, slot, ReadData(s, n.offset, n.size)) ELSE t = s
<1> DEFINE n == s.inode[slot]
           i == n.ino
           d == ReadData(s, n.offset, n.size)
           a == Insert(s, i, d)
           lost == IF Len(d) # n.size THEN {i} ELSE {}
           b == Excused(a, "shared", lost)
           r == [size |-> n.size, offset |-> n.offset, slot |-> slot, dirty |-> FALSE]
           f == With(b.files, i, r)
           h == With(b.truth, i, d)
           m == IF i >= b.next_inode THEN i + 1 ELSE b.next_inode
           t == TakeUp(s, slot)
<1>1. n \in Inode
  BY FieldsAre
<1>2. CASE ~n.used
  BY <1>2 DEF TakeUp
<1>3. CASE n.used
  <2>1. i \in Ino /\ n.size \in 0 .. MaxBlocks /\ n.offset \in Nat
    BY <1>1, <1>3 DEF Inode
  <2>2. d \in Content
    BY <2>1, ShapeIs, ReadIs
  <2>3. t = [b EXCEPT !.files = f, !.next_inode = m, !.truth = h]
    BY <1>3 DEF TakeUp
  <2>4. r \in File
    BY <2>1 DEF File
  <2> HIDE DEF d
  <2> DEFINE j == i
  <2>5. j \in Ino /\ lost \in SUBSET Ino /\ j = i
    BY <2>1
  <2> HIDE DEF j, t
  <2>6. a \in FS /\ Inserted(s, a, i, d)
    BY <2>1, <2>2, InsertIs
  <2> HIDE DEF a
  <2>7. /\ b \in FS /\ Core(a, b) /\ Disk(a, b) /\ Saved(a, b) /\ Space(a, b)
        /\ b.files = a.files /\ a.excused \subseteq b.excused
        /\ "shared" \in Excuse => lost \subseteq b.excused
    BY <2>5, <2>6, ExcusedIs
  <2> HIDE DEF b, r
  <2>8. b \in Shape /\ DOMAIN b.blocks = DOMAIN b.cache.data /\ b.next_inode \in Nat
    BY <2>7, ShapeIs DEF Cached
  <2>9. f \in Maps(Ino, File) /\ h \in Maps(Ino, Content)
    <3>1. b.files \in Maps(Ino, File) /\ b.truth \in Maps(Ino, Content)
      BY <2>8 DEF Shape
    <3> QED
      BY <2>1, <2>2, <2>4, <3>1, WithIs
  <2>10. m \in Nat
    <3>1. i \in Nat
      BY <2>1, VexFSAssumption
    <3> HIDE DEF n
    <3> QED
      BY <2>8, <3>1
  <2>11. /\ DOMAIN f = DOMAIN b.files \cup {i} /\ f[i] = r
         /\ \A x \in DOMAIN b.files \ {i} : f[x] = b.files[x]
         /\ DOMAIN h = DOMAIN b.truth \cup {i} /\ h[i] = d
         /\ \A x \in DOMAIN b.truth \ {i} : h[x] = b.truth[x]
    BY DEF With
  <2>12. m = IF i >= b.next_inode THEN i + 1 ELSE b.next_inode
    OBVIOUS
  <2>13. LetPass => i \in b.excused \/ Len(d) = n.size
    BY <2>7 DEF LetPass
  <2> HIDE DEF f, h, m, n
  <2>14. /\ t \in Shape /\ t.files = f /\ t.truth = h /\ t.next_inode = m
         /\ t.buffer = b.buffer /\ t.cache = b.cache /\ t.blocks = b.blocks
         /\ t.excused = b.excused
    BY <2>3, <2>8, <2>9, <2>10 DEF Shape
  <2>15. Disk(b, t) /\ Saved(b, t) /\ Space(b, t)
    BY <2>3, <2>8 DEF Shape, Disk, Saved, Space
  <2>16. t \in FS
    BY <2>8, <2>14 DEF FS, Cached
  <2>17. /\ b.files = s.files /\ b.truth = s.truth /\ b.next_inode = s.next_inode
         /\ b.buffer = s.buffer /\ Disk(s, b) /\ Saved(s, b) /\ Space(s, b)
         /\ s.excused \subseteq b.excused
    BY <2>6, <2>7 DEF Inserted, Core, Disk, Saved, Space
  <2>18. /\ Cached(t) \subseteq Cached(s) \cup {i} /\ t.blocks[i] = d /\ t.cache.data[i] = Len(d)
         /\ \A x \in Cached(t) \ {i} : /\ t.blocks[x] = s.blocks[x]
                                       /\ t.cache.data[x] = s.cache.data[x]
    BY <2>6, <2>7, <2>14 DEF Inserted, Core, Cached
  <2>19. Disk(s, t) /\ t.next = s.next /\ t.saved_next = s.saved_next
    BY <2>15, <2>17 DEF Disk, Saved, Space
  <2>20. /\ Live(t) = Live(s) \cup {i} /\ t.files[i] = r
         /\ \A x \in Live(s) \ {i} : t.files[x] = s.files[x]
    BY <2>11, <2>14, <2>17 DEF Live
  <2>21. TookUp(s, t, n, slot, d)
    BY <2>11, <2>12, <2>13, <2>14, <2>17, <2>18, <2>19, <2>20 DEF TookUp, r
  <2> QED
    BY <1>3, <2>16, <2>21 DEF n, t, d
<1> QED
  BY <1>2, <1>3

\* u is what load makes of the opened state a once the first m slots are taken
\* up: each used one is the slot of a live file.
Loaded(a, u, m) ==
  /\ Disk(a, u) /\ u.next = a.next /\ u.saved_next = a.saved_next
  /\ DOMAIN u.buffer = {} /\ DOMAIN u.truth = Live(u) /\ Cached(u) \subseteq Live(u)
  /\ \A i \in Live(u) :
       LET f == u.files[i]
           n == a.inode[f.slot]
       IN  /\ f.slot < m /\ n.used /\ n.ino = i
           /\ f.offset = n.offset /\ f.size = n.size /\ ~f.dirty
           /\ u.truth[i] = ReadData(a, n.offset, n.size)
           /\ i \in Cached(u) => /\ u.blocks[i] = u.truth[i]
                                 /\ u.cache.data[i] = Len(u.blocks[i])
           /\ LetPass => i \in u.excused \/ Len(u.truth[i]) = f.size
  /\ \A k \in Slot :
       k < m /\ a.inode[k].used => a.inode[k].ino \in Live(u) /\ a.inode[k].ino < u.next_inode

\* Two used slots have different files.
Distinct(a) ==
  \A k, m \in Slot : a.inode[k].used /\ a.inode[m].used /\ a.inode[k].ino = a.inode[m].ino => k = m

\* The next slot.
LEMMA LoadedNext ==
  ASSUME NEW a \in FS, Distinct(a), NEW u \in FS, NEW m \in Slot, Loaded(a, u, m)
  PROVE  Loaded(a, TakeUp(u, m), m + 1)
<1> DEFINE t == TakeUp(u, m)
           n == a.inode[m]
           d == ReadData(a, n.offset, n.size)
<1>1. /\ u.inode = a.inode /\ u.logged = a.logged /\ u.data = a.data
      /\ \A o, z : ReadData(u, o, z) = ReadData(a, o, z)
  BY DEF Loaded, Disk, ReadData, CellAt
<1>2. IF n.used THEN TookUp(u, t, n, m, d) ELSE t = u
  BY <1>1, TakeUpIs
<1>3. n \in Inode /\ n = a.inode[m] /\ d = ReadData(a, n.offset, n.size)
  BY FieldsAre
<1>4. \A k \in Slot : k \in Int /\ (k < m + 1 <=> k < m \/ k = m)
  <2>1. \A k \in Slot : k \in Int
    BY VexFSAssumption, FS_CardinalityType
  <2> QED
    BY <2>1
<1>5. \A i \in Live(u) : u.files[i].slot \in Slot /\ u.files[i].slot < m
  BY FieldsAre DEF Loaded
<1>6. \A i \in Live(u) : i \in Nat
  BY ShapeIs, VexFSAssumption
<1>7. u.next_inode \in Nat
  BY ShapeIs
<1> HIDE DEF t, n, d
<1>8. CASE ~n.used
  <2>1. t = u
    BY <1>2, <1>8
  <2>2. \A k \in Slot : k < m + 1 /\ a.inode[k].used => k < m
    BY <1>3, <1>4, <1>8
  <2>3. \A i \in Live(u) : u.files[i].slot < m + 1
    BY <1>4, <1>5
  <2> QED
    BY <2>1, <2>2, <2>3 DEF Loaded, t
<1>9. CASE n.used
  <2> DEFINE i == n.ino
  <2>1. i \in Ino /\ i \in Nat
    BY <1>3, <1>9, VexFSAssumption DEF Inode
  <2>2. TookUp(u, t, n, m, d)
    BY <1>2, <1>9
  <2>3. i \notin Live(u)
    <3> SUFFICES ASSUME i \in Live(u) PROVE FALSE
      OBVIOUS
    <3>1. a.inode[u.files[i].slot].used /\ a.inode[u.files[i].slot].ino = i
      BY DEF Loaded
    <3>2. u.files[i].slot = m
      BY <1>3, <1>5, <1>9, <3>1 DEF Distinct
    <3> QED
      BY <1>4, <1>5, <3>2
  <2>4. Disk(a, t) /\ t.next = a.next /\ t.saved_next = a.saved_next /\ DOMAIN t.buffer = {}
    BY <2>2 DEF Loaded, TookUp, Disk
  <2>5. DOMAIN t.truth = Live(t) /\ Cached(t) \subseteq Live(t) /\ Live(t) = Live(u) \cup {i}
    BY <2>2 DEF Loaded, TookUp
  <2>6. ASSUME NEW j \in Live(t)
        PROVE  LET f == t.files[j]
                   p == a.inode[f.slot]
               IN  /\ f.slot < m + 1 /\ p.used /\ p.ino = j
                   /\ f.offset = p.offset /\ f.size = p.size /\ ~f.dirty
                   /\ t.truth[j] = ReadData(a, p.offset, p.size)
                   /\ j \in Cached(t) => /\ t.blocks[j] = t.truth[j]
                                         /\ t.cache.data[j] = Len(t.blocks[j])
                   /\ LetPass => j \in t.excused \/ Len(t.truth[j]) = f.size
    <3>1. CASE j = i
      <4>1. /\ t.files[i].size = n.size /\ t.files[i].offset = n.offset
            /\ t.files[i].slot = m /\ ~t.files[i].dirty
        BY <2>2 DEF TookUp
      <4>2. t.truth[i] = d /\ (i \in Cached(t) => t.blocks[i] = d /\ t.cache.data[i] = Len(d))
        BY <2>2 DEF TookUp
      <4>3. LetPass => i \in t.excused \/ Len(d) = n.size
        BY <2>2 DEF TookUp
      <4>4. m < m + 1
        BY <1>4
      <4> QED
        BY <1>3, <1>9, <3>1, <4>1, <4>2, <4>3, <4>4
    <3>2. CASE j # i
      <4>1. j \in Live(u) /\ t.files[j] = u.files[j] /\ t.truth[j] = u.truth[j]
        BY <2>2, <2>5, <3>2 DEF TookUp, Loaded
      <4>2. j \in Cached(t) => /\ j \in Cached(u) /\ t.blocks[j] = u.blocks[j]
                               /\ t.cache.data[j] = u.cache.data[j]
        BY <2>2, <3>2 DEF TookUp
      <4>3. j \in u.excused => j \in t.excused
        BY <2>2 DEF TookUp
      <4>4. u.files[j].slot < m + 1
        BY <1>4, <1>5, <4>1
      <4> QED
        BY <4>1, <4>2, <4>3, <4>4 DEF Loaded
    <3> QED
      BY <3>1, <3>2
  <2>7. ASSUME NEW k \in Slot, k < m + 1, a.inode[k].used
        PROVE  a.inode[k].ino \in Live(t) /\ a.inode[k].ino < t.next_inode
    <3>1. t.next_inode = IF i >= u.next_inode THEN i + 1 ELSE u.next_inode
      BY <2>2 DEF TookUp
    <3>2. CASE k = m
      BY <1>3, <1>7, <2>1, <2>5, <3>1, <3>2
    <3>3. CASE k # m
      <4> DEFINE j == a.inode[k].ino
      <4>1. j \in Live(u) /\ j < u.next_inode
        BY <1>4, <2>7, <3>3 DEF Loaded
      <4>2. j \in Nat
        BY <1>6, <4>1
      <4> HIDE DEF j, i
      <4>3. j < t.next_inode
        BY <1>7, <2>1, <3>1, <4>1, <4>2
      <4> QED
        BY <2>5, <4>1, <4>3 DEF j
    <3> QED
      BY <3>2, <3>3
  <2> QED
    BY <2>4, <2>5, <2>6, <2>7 DEF Loaded, t
<1> QED
  BY <1>8, <1>9

\* A mount takes up all of them.
LEMMA LoadIs ==
  ASSUME NEW s \in FS, Off(s), OneRecord(s)
  PROVE  load(s) \in FS /\ Loaded(Opened(s), load(s), Cardinality(Slot))
<1> DEFINE a == Opened(s)
           n == Cardinality(Slot)
           seq == SlotsInOrder
<1>1. /\ a \in FS /\ a.inode = Replayed(s) /\ DOMAIN a.truth = {} /\ Off(a)
  BY OpenedIs DEF Off, Live, Cached
<1>2. Distinct(a)
  BY <1>1 DEF Distinct, OneRecord, Record
<1>3. load(s) = Looped("taken up", a, seq)
  BY LoopsAre DEF load, Opened
<1>4. n \in Nat /\ Slot = 0 .. (n - 1)
  BY VexFSAssumption, FS_CardinalityType
<1>5. DOMAIN seq = 1 .. n /\ \A k \in 1 .. n : seq[k] = k - 1
  BY DEF SlotsInOrder
<1> HIDE DEF a, n, seq
<1>6. \A k \in 1 .. n : seq[k] \in Slot
  BY <1>4, <1>5
<1>7. \A u \in FS : \A k \in 1 .. n : Do("taken up", u, seq[k]) \in FS
  BY <1>6, TakeUpIs DEF Do
<1>8. PICK r \in [0 .. n -> FS] : IsLoop(r, "taken up", a, seq, n)
  BY <1>1, <1>4, <1>5, <1>7, LoopRounds
<1> DEFINE T == {k \in 0 .. n : Loaded(a, r[k], k)}
<1>9. 0 \in T
  <2>1. Loaded(a, a, 0)
    <3>1. \A k \in Slot : ~(k < 0)
      BY <1>4
    <3> QED
      BY <1>1, <3>1 DEF Loaded, Off, Disk
  <2>2. r[0] = a
    BY <1>8 DEF IsLoop
  <2>3. 0 \in 0 .. n
    BY <1>4
  <2>4. Loaded(a, r[0], 0)
    BY <2>1, <2>2
  <2> QED
    BY <2>3, <2>4
<1>10. ASSUME NEW k \in 0 .. (n - 1), k \in T PROVE k + 1 \in T
  <2>1. k \in Slot /\ k \in 0 .. n /\ k + 1 \in 0 .. n /\ k + 1 \in 1 .. n /\ (k + 1) - 1 = k
    BY <1>4
  <2>2. r[k + 1] = TakeUp(r[k], k)
    BY <1>5, <1>8, <2>1 DEF IsLoop, Do
  <2>3. r[k] \in FS /\ Loaded(a, r[k], k)
    BY <1>10, <2>1
  <2> QED
    BY <1>1, <1>2, <2>1, <2>2, <2>3, LoadedNext
<1> HIDE DEF T
<1>11. 0 .. n \subseteq T
  BY <1>4, <1>9, <1>10, UpTo
<1>12. n \in 0 .. n
  BY <1>4
<1>13. Loaded(a, r[n], n) /\ r[n] \in FS
  BY <1>11, <1>12 DEF T
<1> QED
  BY <1>3, <1>8, <1>13 DEF IsLoop, a, n

\* What is mounted is sound.
LEMMA LoadSound ==
  ASSUME NEW s \in FS, Off(s), OneRecord(s), DataStart <= s.saved_next
  PROVE  load(s) \in FS /\ Sound(load(s), {}) /\ load(s).next = s.saved_next
<1> DEFINE a == Opened(s)
           n == Cardinality(Slot)
           t == load(s)
<1>1. /\ a \in FS /\ a.inode = Replayed(s) /\ a.logged = [k \in Slot |-> NoInode]
      /\ a.next = s.saved_next /\ a.saved_next = s.saved_next
  BY OpenedIs
<1>2. t \in FS /\ Loaded(a, t, n)
  BY LoadIs
<1>3. \A k \in Slot : k < n
  BY VexFSAssumption, FS_CardinalityType
<1> HIDE DEF a, n, t
<1>4. /\ t.inode = a.inode /\ t.logged = a.logged
      /\ \A k \in Slot : Record(t, k) = a.inode[k] /\ t.logged[k] = NoInode
  <2>1. t.inode = a.inode /\ t.logged = a.logged
    BY <1>2 DEF Loaded, Disk
  <2> QED
    BY <1>1, <2>1, RecordIs
<1>5. \A i \in Live(t) : t.files[i].slot \in Slot /\ i \in Nat
  BY <1>2, FieldsAre, ShapeIs, VexFSAssumption
<1>6. /\ DOMAIN t.buffer = {} /\ DOMAIN t.truth = Live(t) /\ Cached(t) \subseteq Live(t)
      /\ \A i \in Live(t) : /\ a.inode[t.files[i].slot].used
                            /\ a.inode[t.files[i].slot].ino = i
                            /\ t.files[i].offset = a.inode[t.files[i].slot].offset
                            /\ i \in Cached(t) => t.cache.data[i] = Len(t.blocks[i])
      /\ \A k \in Slot : a.inode[k].used =>
           a.inode[k].ino \in Live(t) /\ a.inode[k].ino < t.next_inode
  BY <1>2, <1>3 DEF Loaded
<1>7. \A k, m \in Slot :
        a.inode[k].used /\ a.inode[m].used /\ a.inode[k].ino = a.inode[m].ino => k = m
  BY <1>1 DEF OneRecord, Record
<1>8. OwnSlots(t)
  BY <1>6 DEF OwnSlots
<1>9. Numbered(t)
  BY <1>5, <1>6 DEF Numbered
<1>10. InUse(t, {})
  BY <1>4, <1>5, <1>6 DEF InUse
<1>11. OneRecord(t)
  BY <1>4, <1>7 DEF OneRecord
<1>12. RecordsFit(t)
  <2> SUFFICES ASSUME NEW k \in Slot, a.inode[k].used PROVE RecordFits(t, a.inode[k].ino, k)
    BY <1>4 DEF RecordsFit
  <2> DEFINE i == a.inode[k].ino
  <2>1. i \in Live(t) /\ i < t.next_inode
    BY <1>6
  <2>2. k = t.files[i].slot
    BY <1>5, <1>6, <1>7, <2>1
  <2>3. Record(t, k).offset = t.files[i].offset
    BY <1>4, <1>6, <2>1, <2>2
  <2> HIDE DEF i
  <2> QED
    BY <1>6, <2>1, <2>2, <2>3 DEF RecordFits, LiveRecord, i
<1>13. BufferFits(t) /\ CacheFits(t)
  BY <1>6 DEF BufferFits, CacheFits
<1>14. t.next = s.saved_next /\ t.saved_next = s.saved_next /\ s.saved_next \in Nat
  BY <1>1, <1>2, ShapeIs DEF Loaded
<1>15. NextFits(t)
  BY <1>14 DEF NextFits
<1> QED
  BY <1>2, <1>6, <1>8, <1>9, <1>10, <1>11, <1>12, <1>13, <1>14, <1>15 DEF Sound, t

-----------------------------------------------------------------------------
(***************************************************************************)
(* The invariant, and what follows from it.                                *)
(***************************************************************************)
\* While the process is gone, the records are what the next mount needs.
Kept(s) ==
  Off(s) /\ OneRecord(s) /\ DataStart <= s.saved_next /\ s.saved_next <= DiskEnd
  /\ s.next = DataStart

IInv ==
  /\ fs \in FS
  /\ IF mode = "mounted" THEN Sound(fs, {}) /\ fs.next <= DiskEnd ELSE Kept(fs)

\* A new disk.
LEMMA InitIs == Init => IInv
<1> SUFFICES ASSUME Init PROVE IInv
  OBVIOUS
<1>1. PICK room \in 1 .. MaxBlocks :
        fs = [files |-> <<>>, next_inode |-> 2, cache |-> Arc!EmptyCache, blocks |-> <<>>,
              buffer |-> <<>>, list |-> <<>>, next |-> DataStart,
              inode |-> [k \in Slot |-> NoInode], logged |-> [k \in Slot |-> NoInode],
              data |-> [o \in DataStart .. (DiskEnd + MaxBlocks) |-> Plain(Zero)],
              saved_list |-> <<>>, saved_next |-> DataStart, room |-> room,
              truth |-> <<>>, excused |-> {}]
  BY DEF Init
<1> DEFINE e == <<>>
           c == Arc!EmptyCache
           j == [k \in Slot |-> NoInode]
           D == DataStart .. (DiskEnd + MaxBlocks)
           g == [o \in D |-> Plain(Zero)]
<1>2. /\ e \in Maps(Ino, File) /\ e \in Maps(Ino, Content) /\ e \in Maps(Ino, Pending)
      /\ DOMAIN e = {} /\ e \in Seq(List!Extent) /\ 2 \in Nat /\ DataStart \in Nat
      /\ room \in Nat /\ {} \in SUBSET Ino
  BY EmptyMap, VexFSAssumption
<1>3. c \in AP!Good /\ DOMAIN c.data = {}
  BY CacheEmpty
<1>4. j \in [Slot -> Inode] /\ \A k \in Slot : ~j[k].used
  <2>1. NoInode \in Inode /\ ~NoInode.used
    <3>1. 0 \in 0 .. MaxBlocks
      BY VexFSAssumption
    <3> QED
      BY <3>1 DEF NoInode, Inode
  <2> QED
    BY <2>1
<1>5. g \in Maps(Nat, Cell)
  <2>1. D \in SUBSET Nat
    BY VexFSAssumption
  <2>2. Plain(Zero) \in Cell
    BY VexFSAssumption DEF Plain, Cell, Block
  <2>3. g \in [D -> Cell]
    BY <2>2
  <2> HIDE DEF g, D
  <2> QED
    BY <2>1, <2>3 DEF Maps
<1>6. fs = [files |-> e, next_inode |-> 2, cache |-> c, blocks |-> e, buffer |-> e,
            list |-> e, next |-> DataStart, inode |-> j, logged |-> j, data |-> g,
            saved_list |-> e, saved_next |-> DataStart, room |-> room, truth |-> e,
            excused |-> {}]
  BY <1>1
<1> HIDE DEF e, c, j, g
<1>7. fs \in Shape
  BY <1>2, <1>3, <1>4, <1>5, <1>6 DEF Shape
<1>8. /\ fs.files = e /\ fs.cache = c /\ fs.blocks = e /\ fs.buffer = e /\ fs.truth = e
      /\ fs.inode = j /\ fs.logged = j /\ fs.next = DataStart /\ fs.saved_next = DataStart
  BY <1>6
<1>9. fs \in FS
  BY <1>2, <1>3, <1>7, <1>8 DEF FS, Cached
<1>10. Live(fs) = {} /\ Cached(fs) = {} /\ DOMAIN fs.buffer = {} /\ DOMAIN fs.truth = {}
  BY <1>2, <1>3, <1>8 DEF Live, Cached
<1>11. \A k \in Slot : ~Record(fs, k).used
  BY <1>4, <1>8, RecordIs
<1>12. OwnSlots(fs) /\ Numbered(fs) /\ InUse(fs, {}) /\ BufferFits(fs) /\ CacheFits(fs)
  BY <1>10 DEF OwnSlots, Numbered, InUse, BufferFits, CacheFits
<1>13. OneRecord(fs) /\ RecordsFit(fs)
  BY <1>11 DEF OneRecord, RecordsFit
<1>14. NextFits(fs) /\ fs.next <= DiskEnd
  BY <1>8, VexFSAssumption DEF NextFits
<1>15. mode = "mounted"
  BY DEF Init
<1> QED
  BY <1>9, <1>10, <1>12, <1>13, <1>14, <1>15 DEF IInv, Sound

\* What the process leaves when it goes is enough for the next mount.
LEMMA DownIs ==
  ASSUME NEW s \in FS, Sound(s, {}), s.next <= DiskEnd
  PROVE  PoweredDown(s) \in FS /\ Kept(PoweredDown(s))
<1> DEFINE t == PoweredDown(s)
<1>1. t \in FS /\ Off(t) /\ Disk(s, t) /\ Saved(s, t) /\ t.next = DataStart
  BY PoweredDownIs
<1>2. s.saved_next \in Nat /\ s.next \in Nat
  BY ShapeIs
<1> HIDE DEF t
<1>3. \A k : Record(t, k) = Record(s, k)
  BY <1>1 DEF Record, Replayed, Disk
<1>4. OneRecord(t)
  BY <1>3 DEF Sound, OneRecord
<1>5. DataStart <= t.saved_next /\ t.saved_next <= DiskEnd
  BY <1>1, <1>2, VexFSAssumption DEF Sound, NextFits, Saved
<1> QED
  BY <1>1, <1>4, <1>5 DEF Kept, t

\* A flush.
LEMMA FlushIs ==
  ASSUME IInv, mode = "mounted", NEW i \in Live(fs), Flush(i)
  PROVE  fs' \in FS /\ Sound(fs', {})
<1> DEFINE s == flush_file(fs, i)
<1>1. fs \in FS /\ Sound(fs, {})
  BY DEF IInv
<1>2. s \in FS /\ Sound(s, {})
  BY <1>1, FlushFileIs
<1>3. fs' = s \/ \E order \in DueForFlush(s, i) : fs' = PersistAll(s, order)
  BY DEF Flush, Request
<1> HIDE DEF s
<1>4. ASSUME NEW order \in DueForFlush(s, i) PROVE PersistAll(s, order) \in FS /\ Sound(PersistAll(s, order), {})
  BY <1>2, DueIs, PersistAllIs
<1> QED
  BY <1>2, <1>3, <1>4

\* More files may be lost.
LEMMA LetGoIs ==
  ASSUME NEW s \in FS, NEW e \in SUBSET Ino
  PROVE  LET t == [s EXCEPT !.excused = e]
         IN  /\ t \in FS /\ Alike(s, t) /\ Disk(s, t) /\ t.excused = e
             /\ t.files = s.files /\ t.cache = s.cache /\ t.blocks = s.blocks
             /\ t.buffer = s.buffer /\ t.truth = s.truth
<1> DEFINE t == [s EXCEPT !.excused = e]
<1>1. s \in Shape /\ DOMAIN s.blocks = DOMAIN s.cache.data
  BY ShapeIs DEF Cached
<1>2. t = [s EXCEPT !.excused = e]
  OBVIOUS
<1> HIDE DEF t
<1>3. /\ t \in Shape /\ t.files = s.files /\ t.cache = s.cache /\ t.blocks = s.blocks
      /\ t.buffer = s.buffer /\ t.truth = s.truth /\ t.inode = s.inode
      /\ t.logged = s.logged /\ t.data = s.data /\ t.next_inode = s.next_inode
      /\ t.next = s.next /\ t.saved_next = s.saved_next /\ t.excused = e
  BY <1>1, <1>2 DEF Shape
<1>4. t \in FS
  BY <1>1, <1>3 DEF FS, Cached
<1> QED
  BY <1>3, <1>4 DEF Alike, Live, Disk, t

\* An unmount.
LEMMA DestroyIs ==
  ASSUME IInv, Destroy
  PROVE  fs' \in FS /\ Kept(fs')
<1> DEFINE s == [fs EXCEPT !.excused = @ \cup Unflushed(fs)]
<1>1. fs \in FS /\ Sound(fs, {})
  BY DEF IInv, Destroy
<1>2. s \in FS /\ Alike(fs, s)
  <2>1. fs.excused \cup Unflushed(fs) \in SUBSET Ino
    BY <1>1, ShapeIs DEF Unflushed
  <2> QED
    BY <1>1, <2>1, LetGoIs
<1>3. PICK order \in SetToSeqs(DOMAIN fs.buffer) :
        PersistAll(s, order).next <= DiskEnd /\ fs' = PoweredDown(PersistAll(s, order))
  BY DEF Destroy
<1> HIDE DEF s
<1>4. order \in Seq(Ino)
  BY <1>1, ShapeIs, OrderIs
<1>5. Sound(s, {})
  BY <1>1, <1>2, AlikeSound
<1> DEFINE t == PersistAll(s, order)
<1>6. t \in FS /\ Sound(t, {})
  BY <1>2, <1>4, <1>5, PersistAllIs
<1> HIDE DEF t
<1> QED
  BY <1>3, <1>6, DownIs DEF t

\* A crash.
LEMMA CrashIs ==
  ASSUME IInv, Crash
  PROVE  fs' \in FS /\ Kept(fs')
<1> DEFINE e == fs.excused \cup Unflushed(fs) \cup DOMAIN fs.buffer
           s == [fs EXCEPT !.excused = e]
<1>1. fs \in FS /\ Sound(fs, {}) /\ fs.next <= DiskEnd
  BY DEF IInv, Crash
<1>2. s \in FS /\ Alike(fs, s)
  <2>1. e \in SUBSET Ino
    BY <1>1, ShapeIs DEF Unflushed
  <2> HIDE DEF e
  <2> QED
    BY <1>1, <2>1, LetGoIs
<1>3. fs' = PoweredDown(s)
  BY DEF Crash
<1> HIDE DEF s
<1>4. Sound(s, {}) /\ s.next <= DiskEnd
  BY <1>1, <1>2, AlikeSound DEF Alike
<1> QED
  BY <1>2, <1>3, <1>4, DownIs

\* Every step keeps the invariant.
LEMMA StepIs == IInv /\ [Next]_vars => IInv'
<1> SUFFICES ASSUME IInv, [Next]_vars PROVE IInv'
  OBVIOUS
<1>1. ASSUME NEW s, s \in FS /\ Sound(s, {}), Request(s) PROVE IInv'
  BY <1>1 DEF Request, IInv
<1>2. ASSUME NEW s, Request(s) PROVE mode = "mounted" /\ fs \in FS /\ Sound(fs, {}) /\ fs' = s
  BY <1>2 DEF Request, IInv
<1>3. ASSUME NEW i \in Ino, Read(i) PROVE IInv'
  BY <1>1, <1>2, <1>3, ReadRequestIs DEF Read
<1>4. ASSUME NEW i \in Ino, Flush(i) PROVE IInv'
  <2>1. /\ i \in Live(fs) /\ mode = "mounted" /\ mode' = mode /\ fs'.next <= DiskEnd
    BY <1>4 DEF Flush, Request
  <2>2. fs' \in FS /\ Sound(fs', {})
    BY <1>4, <2>1, FlushIs
  <2> QED
    BY <2>1, <2>2 DEF IInv
<1>5. ASSUME NEW i \in Ino, Unlink(i) PROVE IInv'
  BY <1>1, <1>2, <1>5, UnlinkIs DEF Unlink
<1>6. ASSUME NEW i \in Ino, Rename(i) PROVE IInv'
  BY <1>1, <1>2, <1>6, RenameIs DEF Rename
<1>7. ASSUME NEW i \in Ino, NEW off \in 0 .. (MaxBlocks - 1), NEW v \in Val, Write(i, off, v)
      PROVE  IInv'
  BY <1>1, <1>2, <1>7, WriteIs DEF Write
<1>8. ASSUME NEW i \in Ino, NEW n \in 0 .. MaxBlocks, Setattr(i, n) PROVE IInv'
  BY <1>1, <1>2, <1>8, SetattrIs DEF Setattr
<1>9. ASSUME Create PROVE IInv'
  BY <1>1, <1>2, <1>9, CreateIs DEF Create
<1>10. ASSUME Destroy PROVE IInv'
  BY <1>10, DestroyIs DEF IInv, Destroy
<1>11. ASSUME Crash PROVE IInv'
  BY <1>11, CrashIs DEF IInv, Crash
<1>12. ASSUME Load PROVE IInv'
  <2>1. fs \in FS /\ Kept(fs) /\ fs' = load(fs) /\ mode' = "mounted"
    BY <1>12 DEF Load, IInv
  <2>2. fs' \in FS /\ Sound(fs', {}) /\ fs'.next = fs.saved_next
    BY <2>1, LoadSound DEF Kept
  <2> QED
    BY <2>1, <2>2 DEF IInv, Kept
<1>13. ASSUME UNCHANGED vars PROVE IInv'
  BY <1>13 DEF IInv, vars
<1> QED
  BY <1>3, <1>4, <1>5, <1>6, <1>7, <1>8, <1>9, <1>10, <1>11, <1>12, <1>13 DEF Next

\* So it always holds.
LEMMA Inv == Spec => []IInv
<1>1. IInv /\ [Next]_vars => IInv'
  BY StepIs
<1> QED
  BY <1>1, InitIs, PTL DEF Spec

\* Every reachable state of the file system is well typed (fuse/mod.rs).
THEOREM TypeCorrect == Spec => []TypeOK
<1>1. IInv => TypeOK
  <2> SUFFICES ASSUME IInv PROVE TypeOK
    OBVIOUS
  <2>1. fs \in FS
    BY DEF IInv
  <2>2. /\ \A i \in Live(fs) :
             /\ i \in Ino /\ fs.files[i].slot \in Slot /\ fs.files[i].dirty \in BOOLEAN
             /\ fs.files[i].size \in 0 .. MaxBlocks
        /\ DOMAIN fs.blocks = Cached(fs)
        /\ \A i \in Cached(fs) : fs.blocks[i] \in Seq(Block)
    BY <2>1, ShapeIs, FieldsAre DEF Content
  <2>3. \A k \in Slot : fs.inode[k].ino \in Ino \cup {0}
    BY <2>1, FieldsAre DEF Inode
  <2>4. fs.next \in Nat /\ fs.saved_next \in Nat
    BY <2>1, ShapeIs
  <2>5. Cached(fs) \subseteq Live(fs) /\ \A i \in Cached(fs) : fs.cache.data[i] = Len(fs.blocks[i])
    BY DEF IInv, Sound, CacheFits, Kept, Off
  <2>6. fs.next \in DataStart .. (DiskEnd + MaxBlocks)
    <3>1. DataStart <= fs.next /\ fs.next <= DiskEnd
      BY <2>4, VexFSAssumption DEF IInv, Sound, NextFits, Kept
    <3> QED
      BY <2>4, <3>1, VexFSAssumption
  <2>7. mode = "mounted" => DOMAIN fs.truth = Live(fs)
    BY DEF IInv, Sound
  <2> QED
    BY <2>2, <2>3, <2>5, <2>6, <2>7 DEF TypeOK
<1> QED
  BY <1>1, Inv, PTL

\* Every live file has a slot of its own, which is in use on disk: alloc_inode
\* gives it to no other (inode_table.rs:254).
THEOREM SlotsKept == Spec => []SlotsHeld
<1>1. IInv => SlotsHeld
  BY DEF IInv, SlotsHeld, Sound, OwnSlots, InUse, Kept, Off
<1> QED
  BY <1>1, Inv, PTL

-----------------------------------------------------------------------------
(***************************************************************************)
(* The invariant of the data.                                              *)
(***************************************************************************)
\* What there is of file i but for the cache.
Backup(s, i) == IF i \in DOMAIN s.buffer THEN s.buffer[i].data ELSE OnDisk(s, i)

\* X are files whose cached contents are about to be replaced, P dirty files
\* that are dropped from the cache but not yet stored.
SizeRight(s) == \A i \in Live(s) \ s.excused : s.files[i].size = Len(s.truth[i])
BlocksRight(s, X) == \A i \in Cached(s) \ (s.excused \cup X) : s.blocks[i] = s.truth[i]
BackupRight(s, P) ==
  \A i \in Live(s) \ s.excused :
    ~s.files[i].dirty \/ i \notin Cached(s) \cup P => Backup(s, i) = s.truth[i]
Right(s, X, P) == SizeRight(s) /\ BlocksRight(s, X) /\ BackupRight(s, P)

\* From s to t nothing is lost of file i.
Remains(s, t, i) ==
  t.files[i].dirty = s.files[i].dirty /\ (i \in t.excused \/ Backup(t, i) = Backup(s, i))

\* Then what was right stays so.
LEMMA RemainsRight ==
  ASSUME NEW s, NEW t, Frame(s, t), \A i \in Live(s) : Remains(s, t, i)
  PROVE  \A X, P : Right(s, X, P) => Right(t, X, P)
<1> SUFFICES ASSUME NEW X, NEW P, Right(s, X, P) PROVE Right(t, X, P)
  OBVIOUS
<1>1. /\ Live(t) = Live(s) /\ t.truth = s.truth /\ t.blocks = s.blocks /\ Cached(t) = Cached(s)
      /\ s.excused \subseteq t.excused
      /\ \A i \in Live(s) : t.files[i].size = s.files[i].size
  BY DEF Frame, SameFiles, Cached
<1>2. SizeRight(t) /\ BlocksRight(t, X)
  BY <1>1 DEF Right, SizeRight, BlocksRight
<1>3. BackupRight(t, P)
  BY <1>1 DEF Right, BackupRight, Remains
<1> QED
  BY <1>2, <1>3 DEF Right

\* Where a file's one record is.
LEMMA OnDiskIs ==
  ASSUME NEW s, OneRecord(s), NEW k \in Slot, Record(s, k).used
  PROVE  OnDisk(s, Record(s, k).ino) = ReadData(s, Record(s, k).offset, Record(s, k).size)
<1> DEFINE i == Record(s, k).ino
           at == {m \in Slot : Record(s, m).used /\ Record(s, m).ino = i}
<1>1. at = {k}
  BY DEF OneRecord
<1>2. (CHOOSE m \in at : TRUE) = k
  BY <1>1
<1>3. OnDisk(s, i) = LET n == Record(s, CHOOSE m \in at : TRUE)
                     IN  IF at = {} THEN <<NoIno>> ELSE ReadData(s, n.offset, n.size)
  BY DEF OnDisk, Record
<1> HIDE DEF at
<1> QED
  BY <1>1, <1>2, <1>3

\* Or that it has none.
LEMMA NotOnDisk ==
  ASSUME NEW s, NEW i, \A k \in Slot : ~(Record(s, k).used /\ Record(s, k).ino = i)
  PROVE  OnDisk(s, i) = <<NoIno>>
<1> DEFINE at == {m \in Slot : Record(s, m).used /\ Record(s, m).ino = i}
<1>1. at = {}
  OBVIOUS
<1>2. OnDisk(s, i) = LET n == Record(s, CHOOSE m \in at : TRUE)
                     IN  IF at = {} THEN <<NoIno>> ELSE ReadData(s, n.offset, n.size)
  BY DEF OnDisk, Record
<1> HIDE DEF at
<1> QED
  BY <1>1, <1>2

\* Which nobody wrote.
LEMMA AbsentIs == \A d \in Content : d # <<NoIno>>
<1> SUFFICES ASSUME NEW d \in Content, d = <<NoIno>> PROVE FALSE
  OBVIOUS
<1>1. d \in Seq(Block) /\ Len(d) = 1 /\ d[1] = NoIno
  BY DEF Content
<1>2. d[1] \in Block
  BY <1>1
<1> QED
  BY <1>1, <1>2, VexFSAssumption DEF Block

\* Reading nothing.
LEMMA ReadNothing == \A s, o : ReadData(s, o, 0) = <<>>
<1> SUFFICES ASSUME NEW s, NEW o PROVE ReadData(s, o, 0) = <<>>
  OBVIOUS
<1> DEFINE raw == [k \in 1 .. 0 |-> CellAt(s, o + k - 1)]
<1>1. ReadData(s, o, 0) = Unpacked(raw)
  BY DEF ReadData
<1>2. raw = <<>>
  <2>1. 1 .. 0 = {}
    OBVIOUS
  <2> QED
    BY <2>1
<1> HIDE DEF raw
<1>3. Unpacked(<<>>) = [k \in DOMAIN <<>> |-> IF <<>>[k].run = 1 THEN <<>>[k].val ELSE Junk]
  BY DEF Unpacked
<1>4. Unpacked(<<>>) = <<>>
  BY <1>3
<1> QED
  BY <1>1, <1>2, <1>4

\* What is on disk of a live file, if anything, is what a read reads, once the
\* sizes agree.
LEMMA ReadsDisk ==
  ASSUME NEW s \in FS, NEW new, Sound(s, new), NEW i \in Live(s), NEW d \in Content,
         OnDisk(s, i) = d, s.files[i].size = Len(d)
  PROVE  ReadData(s, s.files[i].offset, s.files[i].size) = d
<1>1. PICK k \in Slot : Record(s, k).used /\ Record(s, k).ino = i
  BY NotOnDisk, AbsentIs
<1> DEFINE n == Record(s, k)
           o == s.files[i].offset
<1>2. n \in Inode
  BY RecordIs, FieldsAre
<1>3. n.size \in 0 .. MaxBlocks /\ n.offset \in Nat /\ s.data \in Maps(Nat, Cell) /\ o \in Nat
  BY <1>2, ShapeIs, FieldsAre DEF Inode
<1>4. d = ReadData(s, n.offset, n.size)
  <2>1. OneRecord(s)
    BY DEF Sound
  <2> QED
    BY <1>1, <2>1, OnDiskIs
<1>5. n.offset = o \/ n.size = 0
  BY <1>1 DEF Sound, RecordsFit, RecordFits, LiveRecord
<1>6. Len(d) \in 0 .. MaxBlocks
  BY DEF Content
<1> HIDE DEF n, o
<1>7. CASE n.offset = o
  BY <1>3, <1>4, <1>6, <1>7, ReadIs DEF o
<1>8. CASE n.size = 0
  <2>1. d = <<>> /\ Len(d) = 0
    BY <1>4, <1>8, ReadNothing
  <2> QED
    BY <2>1, ReadNothing
<1> QED
  BY <1>5, <1>7, <1>8

\* So a file that is not cached is read from where it is.
LEMMA BackupReads ==
  ASSUME NEW s \in FS, Sound(s, {}), Right(s, {}, {}),
         NEW i \in Live(s) \ (Cached(s) \cup s.excused)
  PROVE  (IF i \in DOMAIN s.buffer THEN s.buffer[i].data
          ELSE ReadData(s, s.files[i].offset, s.files[i].size)) = s.truth[i]
<1>1. Backup(s, i) = s.truth[i] /\ s.files[i].size = Len(s.truth[i])
  BY DEF Right, BackupRight, SizeRight
<1>2. s.truth[i] \in Content
  BY FieldsAre DEF Sound
<1>3. CASE i \in DOMAIN s.buffer
  BY <1>1, <1>3 DEF Backup
<1>4. CASE i \notin DOMAIN s.buffer
  BY <1>1, <1>2, <1>4, ReadsDisk DEF Backup
<1> QED
  BY <1>3, <1>4

-----------------------------------------------------------------------------
(***************************************************************************)
(* Storing a file.                                                         *)
(***************************************************************************)
\* From s to t contents d of file i were stored.
Put(s, t, i, d) ==
  /\ \A j \in Live(s) : t.files[j].dirty = s.files[j].dirty
  /\ i \in t.excused \/ OnDisk(t, i) = d
  /\ \A j \in Live(s) \ {i} : j \in t.excused \/ OnDisk(t, j) = OnDisk(s, j)

\* They are on disk, and so is what was there of other files.
LEMMA PersistKeeps ==
  ASSUME NEW s \in FS, NEW new, Sound(s, new), LetPass,
         NEW i \in Ino, NEW d \in Content, NEW slot \in Slot,
         i \notin DOMAIN s.buffer, i < s.next_inode, i \in Live(s) => slot = s.files[i].slot,
         \A k \in Slot : Record(s, k).used /\ Record(s, k).ino = i => k = slot
  PROVE  Put(s, persist_to_disk(s, i, d, slot), i, d)
<1> DEFINE t == persist_to_disk(s, i, d, slot)
<1>1. t \in FS /\ \A j \in Live(s) \ {i} : j \in t.excused \/ OnDisk(t, j) = OnDisk(s, j)
  BY PersistIs
<1>2. PICK o \in Nat : Persisted(s, t, i, d, slot, o)
  BY PersistIs
<1>3. OneRecord(t)
  BY PersistSound DEF Sound
<1> HIDE DEF t
<1> DEFINE n == Stored(i, d, o)
<1>4. n.used /\ n.ino = i /\ n.offset = o /\ n.size = Len(d) /\ n # NoInode
  BY DEF Stored, NoInode
<1>5. t.inode[slot] = n /\ t.logged[slot] = n
  BY <1>2, ShapeIs DEF Persisted
<1> HIDE DEF n
<1>6. Record(t, slot) = n
  BY <1>4, <1>5, RecordIs
<1>7. OnDisk(t, i) = ReadData(t, o, Len(d))
  BY <1>3, <1>4, <1>6, OnDiskIs
<1>8. i \in t.excused \/ OnDisk(t, i) = d
  BY <1>2, <1>7 DEF Persisted
<1>9. \A j \in Live(s) : t.files[j].dirty = s.files[j].dirty
  <2>1. \A j \in Live(s) : s.files[j] \in File
    BY FieldsAre
  <2> QED
    BY <1>2, <2>1 DEF Live, File, Persisted
<1> QED
  BY <1>1, <1>8, <1>9 DEF Put, t

\* Storing what is buffered loses nothing.
LEMMA PersistBufferedKeeps ==
  ASSUME NEW s \in FS, NEW new, Sound(s, new), LetPass, NEW i \in Ino
  PROVE  LET t == PersistBuffered(s, i)
         IN  /\ \A j \in Live(s) : Remains(s, t, j)
             /\ DOMAIN t.buffer = DOMAIN s.buffer \ {i}
<1>1. CASE i \notin DOMAIN s.buffer
  BY <1>1 DEF PersistBuffered, Remains
<1>2. CASE i \in DOMAIN s.buffer
  <2> DEFINE u == Unbuffered(s, i)
             d == s.buffer[i].data
             slot == s.buffer[i].slot
             t == PersistBuffered(s, i)
  <2>1. d \in Content /\ slot \in Slot
    BY <1>2, FieldsAre
  <2>2. t = persist_to_disk(u, i, d, slot)
    BY <1>2 DEF PersistBuffered, Unbuffered
  <2>3. /\ u \in FS /\ Alike(s, u) /\ Frame(s, u) /\ Disk(s, u) /\ u.files = s.files
        /\ DOMAIN u.buffer = DOMAIN s.buffer \ {i}
        /\ \A j \in DOMAIN u.buffer : u.buffer[j] = s.buffer[j]
    BY UnbufferedIs
  <2>4. i < s.next_inode /\ (i \in Live(s) => slot = s.files[i].slot)
    BY <1>2 DEF Sound, Numbered, BufferFits
  <2>5. \A k \in Slot : Record(s, k).used /\ Record(s, k).ino = i => k = slot
    BY <1>2 DEF Sound, RecordsFit, RecordFits
  <2>6. /\ \A k : Record(u, k) = Record(s, k)
        /\ \A j : OnDisk(u, j) = OnDisk(s, j)
    BY <2>3, OnDiskSame DEF Record, Replayed, Disk
  <2>7. Backup(s, i) = d
    BY <1>2 DEF Backup
  <2> HIDE DEF u, d, slot, t
  <2>8. u.next_inode = s.next_inode /\ Live(u) = Live(s)
    BY <2>3 DEF Alike
  <2>9. Sound(u, new)
    BY <2>3, AlikeSound
  <2>10. Put(u, t, i, d)
    BY <2>1, <2>2, <2>3, <2>4, <2>5, <2>6, <2>8, <2>9, PersistKeeps
  <2>11. t.buffer = u.buffer
    BY <2>1, <2>2, <2>3, PersistIs DEF Core
  <2>12. Remains(s, t, i) \/ i \notin Live(s)
    BY <2>3, <2>7, <2>8, <2>10, <2>11 DEF Put, Remains, Backup
  <2>13. \A j \in Live(s) \ {i} : Remains(s, t, j)
    BY <2>3, <2>6, <2>8, <2>10, <2>11 DEF Put, Remains, Backup
  <2> QED
    BY <2>3, <2>11, <2>12, <2>13 DEF t
<1> QED
  BY <1>1, <1>2

-----------------------------------------------------------------------------
(***************************************************************************)
(* An eviction.                                                            *)
(***************************************************************************)
\* More may be missing.
LEMMA RightMore == \A s, X, P, Q : Right(s, X, P) /\ P \subseteq Q => Right(s, X, Q)
BY DEF Right, BackupRight

\* A file counts as clean once it is stored.
LEMMA CleanRight ==
  ASSUME NEW s \in FS, LetPass, NEW i \in Live(s), NEW d, NEW X, NEW P,
         Right(s, X, P \cup {i}), i \in s.excused \/ Backup(s, i) = d
  PROVE  Right(Clean(s, i, d), X, P \ {i})
<1> DEFINE t == Clean(s, i, d)
<1>1. /\ Core(s, t) /\ Disk(s, t) /\ Cleaned(s, t, i) /\ s.excused \subseteq t.excused
      /\ i \in t.excused \/ d = s.truth[i]
      /\ Frame(s, t)
  BY CleanIs
<1> HIDE DEF t
<1>2. /\ Live(t) = Live(s) /\ t.truth = s.truth /\ t.blocks = s.blocks /\ Cached(t) = Cached(s)
      /\ t.buffer = s.buffer /\ \A j : OnDisk(t, j) = OnDisk(s, j)
      /\ \A j \in Live(s) : /\ t.files[j].size = s.files[j].size
                            /\ t.files[j].dirty = IF j = i THEN FALSE ELSE s.files[j].dirty
  BY <1>1, OnDiskSame DEF Core, Cleaned, Cached
<1>3. \A j : Backup(t, j) = Backup(s, j)
  BY <1>2 DEF Backup
<1>4. SizeRight(t) /\ BlocksRight(t, X)
  <2>1. SizeRight(t)
    BY <1>1, <1>2 DEF Right, SizeRight
  <2>2. BlocksRight(t, X)
    BY <1>1, <1>2 DEF Right, BlocksRight
  <2> QED
    BY <2>1, <2>2
<1>5. BackupRight(t, P \ {i})
  <2> SUFFICES ASSUME NEW j \in Live(t) \ t.excused,
                      ~t.files[j].dirty \/ j \notin Cached(t) \cup (P \ {i})
               PROVE  Backup(t, j) = t.truth[j]
    BY DEF BackupRight
  <2>1. CASE j = i
    BY <1>1, <1>2, <1>3, <2>1
  <2>2. CASE j # i
    BY <1>1, <1>2, <1>3, <2>2 DEF Right, BackupRight
  <2> QED
    BY <2>1, <2>2
<1> QED
  BY <1>4, <1>5 DEF Right, t

\* What is buffered of an evicted file is stored.
LEMMA BufferedRight ==
  ASSUME NEW s \in FS, NEW new, Sound(s, new), LetPass, NEW X, NEW P, Right(s, X, P),
         NEW i \in Live(s), i \in DOMAIN s.buffer
  PROVE  Right(Clean(PersistBuffered(s, i), i, s.buffer[i].data), X, P \ {i})
<1> DEFINE u == PersistBuffered(s, i)
           d == s.buffer[i].data
<1>1. i \in Ino
  BY ShapeIs
<1>2. u \in FS /\ Frame(s, u) /\ \A j \in Live(s) : Remains(s, u, j)
  BY <1>1, PersistBufferedIs, PersistBufferedSound, PersistBufferedKeeps
<1> HIDE DEF u
<1>3. Right(u, X, P)
  BY <1>2, RemainsRight
<1>4. Right(u, X, P \cup {i})
  BY <1>3, RightMore
<1>5. i \in Live(u)
  BY <1>2 DEF Frame, SameFiles
<1>6. i \in u.excused \/ Backup(u, i) = d
  BY <1>2 DEF Remains, Backup
<1> HIDE DEF d
<1> QED
  BY <1>2, <1>4, <1>5, <1>6, CleanRight DEF u, d

\* Or other contents.
LEMMA StoredRight ==
  ASSUME NEW s \in FS, NEW new, Sound(s, new), LetPass, NEW X, NEW P, Right(s, X, P),
         NEW i \in Live(s), s.files[i].dirty, i \notin DOMAIN s.buffer, NEW d \in Content
  PROVE  Right(Clean(persist_to_disk(s, i, d, s.files[i].slot), i, d), X, P \ {i})
<1> DEFINE slot == s.files[i].slot
           u == persist_to_disk(s, i, d, slot)
<1>1. i \in Ino /\ slot \in Slot /\ i < s.next_inode
  BY ShapeIs, FieldsAre DEF Sound, Numbered
<1>2. \A k \in Slot : Record(s, k).used /\ Record(s, k).ino = i => k = slot
  BY DEF Sound, RecordsFit, RecordFits, LiveRecord
<1>3. Frame(s, u)
  BY EvictStoreSound
<1>7. slot = s.files[i].slot
  OBVIOUS
<1> HIDE DEF slot
<1>4. u \in FS /\ u.buffer = s.buffer /\ Put(s, u, i, d)
  BY <1>1, <1>2, <1>7, PersistIs, PersistKeeps DEF Core
<1> HIDE DEF u
<1>5. Right(u, X, P \cup {i})
  <2>1. /\ Live(u) = Live(s) /\ u.truth = s.truth /\ u.blocks = s.blocks /\ Cached(u) = Cached(s)
        /\ s.excused \subseteq u.excused
        /\ \A j \in Live(s) : u.files[j].size = s.files[j].size /\ u.files[j].dirty = s.files[j].dirty
    BY <1>3, <1>4 DEF Frame, SameFiles, Cached, Put
  <2>2. SizeRight(u) /\ BlocksRight(u, X)
    BY <2>1 DEF Right, SizeRight, BlocksRight
  <2>3. \A j \in Live(s) \ {i} : j \in u.excused \/ Backup(u, j) = Backup(s, j)
    BY <1>4 DEF Backup, Put
  <2>4. BackupRight(u, P \cup {i})
    BY <2>1, <2>3 DEF Right, BackupRight
  <2> QED
    BY <2>2, <2>4 DEF Right
<1>6. i \in Live(u) /\ (i \in u.excused \/ Backup(u, i) = d)
  BY <1>3, <1>4 DEF Frame, SameFiles, Put, Backup
<1> QED
  BY <1>4, <1>5, <1>6, CleanRight DEF u, slot

\* An evicted file is handled.
LEMMA FlushEvictedRight ==
  ASSUME NEW s \in FS, NEW new, Sound(s, new), LetPass, NEW X, NEW P, Right(s, X, P),
         NEW i \in Ino
  PROVE  Right(FlushEvicted(s, i), X, P \ {i})
<1> DEFINE f == s.files[i]
           d == ReadData(s, f.offset, f.size)
<1>1. CASE i \notin Live(s) \/ ~f.dirty
  <2>1. FlushEvicted(s, i) = s
    BY <1>1 DEF FlushEvicted
  <2>2. Right(s, X, P \ {i})
    BY <1>1 DEF Right, BackupRight
  <2> QED
    BY <2>1, <2>2
<1>2. CASE i \in Live(s) /\ f.dirty
  <2>1. f.size \in 0 .. MaxBlocks /\ f.offset \in Nat /\ s.data \in Maps(Nat, Cell)
    BY <1>2, FieldsAre, ShapeIs
  <2>2. CASE i \in DOMAIN s.buffer
    <3>1. FlushEvicted(s, i) = Clean(PersistBuffered(s, i), i, s.buffer[i].data)
      BY <1>2, <2>2 DEF FlushEvicted
    <3> QED
      BY <1>2, <2>2, <3>1, BufferedRight
  <2>3. CASE i \notin DOMAIN s.buffer /\ f.offset > 0 /\ f.size > 0
    <3>1. FlushEvicted(s, i) = Clean(persist_to_disk(s, i, d, f.slot), i, d)
      BY <1>2, <2>3 DEF FlushEvicted
    <3>2. d \in Content
      BY <2>1, ReadIs
    <3> HIDE DEF d
    <3> QED
      BY <1>2, <2>3, <3>1, <3>2, StoredRight
  <2>4. CASE i \notin DOMAIN s.buffer /\ ~(f.offset > 0 /\ f.size > 0)
    <3>1. FlushEvicted(s, i) = Clean(s, i, OnDisk(s, i))
      BY <1>2, <2>4 DEF FlushEvicted
    <3>2. Backup(s, i) = OnDisk(s, i)
      BY <2>4 DEF Backup
    <3>3. Right(s, X, P \cup {i})
      BY RightMore
    <3> QED
      BY <1>2, <3>1, <3>2, <3>3, CleanRight
  <2> QED
    BY <2>2, <2>3, <2>4
<1> QED
  BY <1>1, <1>2

\* A lookup, and all that only changes the order of the cache.
LEMMA QuietRight ==
  ASSUME NEW s, NEW t, Quiet(s, t)
  PROVE  \A X, P : Right(s, X, P) => Right(t, X, P)
<1>1. Frame(s, t) /\ \A j : OnDisk(t, j) = OnDisk(s, j)
  BY QuietIs, OnDiskSame DEF Quiet
<1>2. \A j \in Live(s) : Remains(s, t, j)
  BY <1>1 DEF Quiet, Remains, Backup
<1> QED
  BY <1>1, <1>2, RemainsRight

\* The candidate is.
LEMMA PreEvictionRight ==
  ASSUME NEW s \in FS, NEW new, Sound(s, new), LetPass, NEW X, NEW P, Right(s, X, P)
  PROVE  Right(pre_eviction_flush(s), X, P)
<1> DEFINE i == Arc!peek_eviction_candidate(s.cache)
           t == pre_eviction_flush(s)
<1>1. i \in Cached(s) \cup {NoIno}
  BY ShapeIs, CachePeek DEF Cached
<1> HIDE DEF i
<1>2. CASE i = NoIno \/ i \notin Live(s) \/ ~s.files[i].dirty
  BY <1>2 DEF pre_eviction_flush, i
<1>3. CASE i \in Live(s) /\ s.files[i].dirty /\ i \in DOMAIN s.buffer /\ i # NoIno
  <2>1. t = Clean(PersistBuffered(s, i), i, s.buffer[i].data)
    BY <1>3 DEF pre_eviction_flush, i
  <2>2. Right(t, X, P \ {i})
    BY <1>3, <2>1, BufferedRight
  <2> QED
    BY <2>2, RightMore
<1>4. CASE i \in Live(s) /\ s.files[i].dirty /\ i \notin DOMAIN s.buffer /\ i # NoIno
  <2> DEFINE g == get(s, i)
             d == s.blocks[i]
  <2>1. t = Clean(persist_to_disk(g, i, d, s.files[i].slot), i, d)
    BY <1>4 DEF pre_eviction_flush, i
  <2>2. i \in Ino /\ d \in Content
    BY <1>1, <1>4, ShapeIs, FieldsAre
  <2>3. g \in FS /\ Quiet(s, g) /\ Alike(s, g)
    BY <2>2, GetIs, QuietIs
  <2> HIDE DEF g, d, t
  <2>4. Sound(g, new) /\ Right(g, X, P)
    BY <2>3, AlikeSound, QuietRight
  <2>5. /\ g.files = s.files /\ g.buffer = s.buffer /\ i \in Live(g)
        /\ g.files[i].dirty /\ i \notin DOMAIN g.buffer
    BY <1>4, <2>3 DEF Quiet, Live
  <2>6. Right(t, X, P \ {i})
    <3>1. s.files[i].slot = g.files[i].slot
      BY <2>5
    <3> QED
      BY <2>1, <2>2, <2>3, <2>4, <2>5, <3>1, StoredRight
  <2>7. Right(t, X, P)
    BY <2>6, RightMore
  <2> QED
    BY <2>7 DEF t
<1> QED
  BY <1>2, <1>3, <1>4

\* The members of a sequence from a place on.
After(seq, k) == {seq[j] : j \in (k + 1) .. Len(seq)}

\* All that is reported is handled.
LEMMA EvictedRight ==
  ASSUME NEW seq \in Seq(Ino), NEW s \in FS, NEW new, Sound(s, new), LetPass, NEW X,
         Right(s, X, {seq[j] : j \in DOMAIN seq})
  PROVE  Right(Looped("evicted", s, seq), X, {})
<1> DEFINE n == Len(seq)
<1>1. n \in Nat /\ DOMAIN seq = 1 .. n /\ \A k \in 1 .. n : seq[k] \in Ino
  OBVIOUS
<1>2. \A u, x : Do("evicted", u, x) = FlushEvicted(u, x)
  BY DEF Do
<1>3. PICK m \in [0 .. n -> FS] : IsLoop(m, "evicted", s, seq, n)
  <2>1. \A u \in FS : \A k \in 1 .. n : Do("evicted", u, seq[k]) \in FS
    BY <1>1, <1>2, FlushEvictedIs
  <2> HIDE DEF n
  <2> QED
    BY <1>1, <2>1, LoopRounds
<1>4. After(seq, 0) = {seq[j] : j \in DOMAIN seq} /\ After(seq, n) = {}
  <2>1. 0 + 1 .. n = DOMAIN seq /\ n + 1 .. n = {}
    BY <1>1
  <2> QED
    BY <2>1 DEF After
<1>5. \A k \in 1 .. n : After(seq, k - 1) \ {seq[k]} \subseteq After(seq, k)
  <2> SUFFICES ASSUME NEW k \in 1 .. n, NEW j \in ((k - 1) + 1) .. n, seq[j] # seq[k]
               PROVE  j \in (k + 1) .. n
    BY DEF After
  <2> QED
    BY <1>1
<1> HIDE DEF n
<1> DEFINE T == {k \in 0 .. n : Sound(m[k], new) /\ Right(m[k], X, After(seq, k))}
<1>6. 0 \in T
  <2>1. m[0] = s
    BY <1>3 DEF IsLoop
  <2>2. 0 \in 0 .. n
    BY <1>1
  <2>3. Sound(m[0], new) /\ Right(m[0], X, After(seq, 0))
    BY <1>4, <2>1
  <2> QED
    BY <2>2, <2>3
<1>7. ASSUME NEW k \in 0 .. (n - 1), k \in T PROVE k + 1 \in T
  <2>1. k \in 0 .. n /\ k + 1 \in 0 .. n /\ k + 1 \in 1 .. n /\ (k + 1) - 1 = k
    BY <1>1
  <2>2. m[k + 1] = FlushEvicted(m[k], seq[k + 1])
    BY <1>2, <1>3, <2>1 DEF IsLoop
  <2>3. m[k] \in FS /\ Sound(m[k], new) /\ Right(m[k], X, After(seq, k)) /\ seq[k + 1] \in Ino
    BY <1>1, <1>7, <2>1
  <2>4. Sound(m[k + 1], new)
    BY <2>2, <2>3, FlushEvictedIs
  <2>5. Right(m[k + 1], X, After(seq, k) \ {seq[k + 1]})
    BY <2>2, <2>3, FlushEvictedRight
  <2>6. After(seq, k) \ {seq[k + 1]} \subseteq After(seq, k + 1)
    BY <1>5, <2>1
  <2>7. Right(m[k + 1], X, After(seq, k + 1))
    BY <2>5, <2>6, RightMore
  <2> QED
    BY <2>1, <2>4, <2>7
<1> HIDE DEF T
<1>8. 0 .. n \subseteq T
  BY <1>1, <1>6, <1>7, UpTo
<1>9. n \in 0 .. n
  BY <1>1
<1>10. Right(m[n], X, {})
  BY <1>4, <1>8, <1>9 DEF T
<1> QED
  BY <1>3, <1>10 DEF IsLoop

\* New contents are right once they are cached; what they displace is reported.
LEMMA InsertRight ==
  ASSUME NEW s, NEW t, NEW i, NEW d, Inserted(s, t, i, d), Right(s, {i}, {i}),
         i \in s.excused \/ d = s.truth[i], t.cache.evicted \in Seq(Ino)
  PROVE  Right(t, {}, {t.cache.evicted[j] : j \in DOMAIN t.cache.evicted})
<1> DEFINE e == t.cache.evicted
           P == {e[j] : j \in DOMAIN e}
<1>1. /\ t.files = s.files /\ t.excused = s.excused /\ t.buffer = s.buffer
      /\ t.truth = s.truth /\ Live(t) = Live(s)
      /\ \A j : OnDisk(t, j) = OnDisk(s, j)
  BY OnDiskSame DEF Inserted, Live
<1>2. \A j : Backup(t, j) = Backup(s, j)
  BY <1>1 DEF Backup
<1>3. /\ Cached(t) \subseteq Cached(s) \cup {i} /\ i \in Cached(t) /\ t.blocks[i] = d
      /\ \A x \in Cached(t) \ {i} : t.blocks[x] = s.blocks[x]
      /\ Cached(s) \ Cached(t) \subseteq P
  BY DEF Inserted
<1> HIDE DEF P
<1>4. SizeRight(t)
  BY <1>1 DEF Right, SizeRight
<1>5. BlocksRight(t, {})
  BY <1>1, <1>3 DEF Right, BlocksRight
<1>6. BackupRight(t, P)
  BY <1>1, <1>2, <1>3 DEF Right, BackupRight
<1> QED
  BY <1>4, <1>5, <1>6 DEF Right, P

\* cache_insert, of a live file's right contents.
LEMMA CacheInsertRight ==
  ASSUME NEW s \in FS, NEW new, Sound(s, new), LetPass, NEW i \in Live(s), NEW d \in Content,
         Right(s, {i}, {i}), i \in s.excused \/ d = s.truth[i]
  PROVE  Right(cache_insert(s, i, d), {}, {})
<1> DEFINE u == pre_eviction_flush(s)
           v == Insert(u, i, d)
           w == [v EXCEPT !.cache = Arc!drain_evicted(@)]
           e == v.cache.evicted
<1>1. cache_insert(s, i, d) = Looped("evicted", w, e)
  BY LoopsAre DEF cache_insert, flush_cache_evictions
<1>2. i \in Ino
  BY ShapeIs
<1>3. u \in FS /\ Sound(u, new) /\ Frame(s, u) /\ Right(u, {i}, {i})
  BY PreEvictionIs, PreEvictionRight
<1> HIDE DEF u
<1>4. i \in Live(u) /\ (i \in u.excused \/ d = u.truth[i])
  BY <1>3 DEF Frame, SameFiles
<1>5. v \in FS /\ Inserted(u, v, i, d) /\ e \in Seq(Ino)
  BY <1>2, <1>3, InsertIs
<1> HIDE DEF v
<1>6. Sound(v, new)
  BY <1>3, <1>4, <1>5, InsertSound
<1>7. Right(v, {}, {e[j] : j \in DOMAIN e})
  BY <1>3, <1>4, <1>5, InsertRight
<1>8. w \in FS /\ Quiet(v, w)
  BY <1>5, DrainedIs
<1> HIDE DEF w, e
<1>9. Sound(w, new) /\ Right(w, {}, {e[j] : j \in DOMAIN e})
  BY <1>6, <1>7, <1>8, QuietIs, AlikeSound, QuietRight
<1> QED
  BY <1>1, <1>5, <1>8, <1>9, EvictedRight

-----------------------------------------------------------------------------
(***************************************************************************)
(* The requests.                                                           *)
(***************************************************************************)
\* Changed contents, if they come of the last ones.
LEMMA ChangeRight ==
  ASSUME NEW s \in FS, Sound(s, {}), LetPass, Right(s, {}, {}), NEW i \in Live(s),
         NEW n \in 0 .. MaxBlocks, NEW h \in Content, NEW d \in Content,
         n = Len(d), Contents(s, i) = s.truth[i] => d = h /\ n = Len(h)
  PROVE  Right(cache_insert(Changed(Begun(s, i), i, n, h), i, d), {}, {})
<1> DEFINE b == Begun(s, i)
           c == Changed(b, i, n, h)
<1>1. i \in Ino
  BY ShapeIs
<1>2. /\ b \in FS /\ Alike(s, b) /\ b.files = s.files /\ b.truth = s.truth
      /\ b.buffer = s.buffer /\ b.blocks = s.blocks /\ b.cache.data = s.cache.data
      /\ Disk(s, b) /\ s.excused \subseteq b.excused
      /\ i \in b.excused \/ i \in Cached(s) \/ s.truth[i] = <<>>
  BY <1>1, BegunIs
<1> HIDE DEF b
<1>3. Sound(b, {}) /\ Live(b) = Live(s) /\ DOMAIN b.truth = Live(b) /\ Cached(b) = Cached(s)
  BY <1>2, AlikeSound DEF Alike, Sound, Cached
<1>4. /\ c \in FS /\ Live(c) = Live(b) /\ c.files[i].size = n /\ c.files[i].dirty
      /\ \A j \in Live(b) \ {i} : c.files[j] = b.files[j]
      /\ c.truth = [b.truth EXCEPT ![i] = h]
      /\ c.cache = b.cache /\ c.blocks = b.blocks /\ c.buffer = b.buffer
      /\ c.excused = b.excused /\ Disk(b, c) /\ Alike(b, c)
  BY <1>2, <1>3, ChangedIs
<1> HIDE DEF c
<1>5. /\ c.truth[i] = h /\ \A j \in Live(s) \ {i} : c.truth[j] = s.truth[j]
  BY <1>2, <1>3, <1>4
<1>6. Sound(c, {})
  BY <1>3, <1>4, AlikeSound
<1>7. i \in b.excused \/ Contents(s, i) = s.truth[i]
  BY <1>2, <1>3 DEF Right, BlocksRight, Contents
<1>8. \A j \in Live(s) : Backup(c, j) = Backup(s, j)
  <2>1. \A j : OnDisk(c, j) = OnDisk(s, j)
    BY <1>2, <1>4, OnDiskSame
  <2> QED
    BY <1>2, <1>4, <2>1 DEF Backup
<1>9. SizeRight(c)
  BY <1>2, <1>3, <1>4, <1>5, <1>7 DEF Right, SizeRight
<1>10. BlocksRight(c, {i})
  <2>1. Cached(c) = Cached(s) /\ Cached(s) \subseteq Live(s)
    BY <1>3, <1>4 DEF Cached, Sound, CacheFits
  <2> QED
    BY <1>2, <1>4, <1>5, <2>1 DEF Right, BlocksRight
<1>11. BackupRight(c, {i})
  <2>1. Cached(c) = Cached(s)
    BY <1>3, <1>4 DEF Cached
  <2>2. \A j \in Live(s) \ {i} : c.files[j] = s.files[j]
    BY <1>2, <1>3, <1>4
  <2> QED
    BY <1>2, <1>3, <1>4, <1>5, <1>8, <2>1, <2>2 DEF Right, BackupRight
<1>12. Right(c, {i}, {i})
  BY <1>9, <1>10, <1>11 DEF Right
<1>13. i \in Live(c) /\ (i \in c.excused \/ d = c.truth[i])
  BY <1>3, <1>4, <1>5, <1>7
<1> QED
  BY <1>4, <1>6, <1>12, <1>13, CacheInsertRight DEF c, b

\* A write.
LEMMA WriteRight ==
  ASSUME NEW s \in FS, Sound(s, {}), LetPass, Right(s, {}, {}), NEW i \in Live(s),
         NEW off \in 0 .. (MaxBlocks - 1), NEW v \in Val
  PROVE  Right(write(s, i, off, v), {}, {})
<1> DEFINE d == Written(Contents(s, i), off, v)
           h == Written(s.truth[i], off, v)
<1>1. d \in Content /\ h \in Content
  <2>1. s.truth[i] \in Content
    BY FieldsAre DEF Sound
  <2> QED
    BY <2>1, ContentsIs, WrittenIs
<1>2. Len(d) \in 0 .. MaxBlocks
  BY <1>1 DEF Content
<1>3. write(s, i, off, v) = cache_insert(Changed(Begun(s, i), i, Len(d), h), i, d)
  <2>1. Begun(s, i).truth = s.truth
    BY ShapeIs, BegunIs
  <2> QED
    BY <2>1 DEF write, Changed, Begun
<1>4. Contents(s, i) = s.truth[i] => d = h /\ Len(d) = Len(h)
  OBVIOUS
<1> HIDE DEF d, h
<1> QED
  BY <1>1, <1>2, <1>3, <1>4, ChangeRight

\* A truncation, or an extension.
LEMMA SetattrRight ==
  ASSUME NEW s \in FS, Sound(s, {}), LetPass, Right(s, {}, {}), NEW i \in Live(s),
         NEW n \in 0 .. MaxBlocks
  PROVE  Right(setattr(s, i, n), {}, {})
<1> DEFINE d == Resized(Contents(s, i), n)
           h == Resized(s.truth[i], n)
<1>1. CASE n = s.files[i].size
  BY <1>1 DEF setattr
<1>2. CASE n # s.files[i].size
  <2>1. d \in Content /\ h \in Content /\ Len(d) = n /\ Len(h) = n
    <3>1. s.truth[i] \in Content
      BY FieldsAre DEF Sound
    <3> QED
      BY <3>1, ContentsIs, ResizedIs
  <2>2. setattr(s, i, n) = cache_insert(Changed(Begun(s, i), i, n, h), i, d)
    <3>1. Begun(s, i).truth = s.truth
      BY ShapeIs, BegunIs
    <3> QED
      BY <1>2, <3>1 DEF setattr, Changed, Begun
  <2>3. Contents(s, i) = s.truth[i] => d = h
    OBVIOUS
  <2> HIDE DEF d, h
  <2> QED
    BY <2>1, <2>2, <2>3, ChangeRight
<1> QED
  BY <1>1, <1>2

\* A read.
LEMMA ReadRight ==
  ASSUME NEW s \in FS, Sound(s, {}), LetPass, Right(s, {}, {}), NEW i \in Live(s)
  PROVE  Right(read(s, i), {}, {})
<1> DEFINE g == get(s, i)
           S == {i} \cap DOMAIN s.buffer
           e == Excused(g, "miss", S)
           d == ReadData(s, s.files[i].offset, s.files[i].size)
<1>1. i \in Ino /\ S \in SUBSET Ino
  BY ShapeIs
<1>2. g \in FS /\ Alike(s, g) /\ Quiet(s, g)
  BY <1>1, GetIs, QuietIs
<1> HIDE DEF g
<1>3. Sound(g, {}) /\ Right(g, {}, {})
  BY <1>2, AlikeSound, QuietRight
<1>4. CASE i \in Cached(s)
  BY <1>3, <1>4 DEF read, g
<1>5. CASE i \notin Cached(s)
  <2>1. read(s, i) = cache_insert(e, i, d)
    BY <1>5 DEF read, g
  <2>2. d \in Content
    BY FieldsAre, ShapeIs, ReadIs
  <2>3. /\ e \in FS /\ Alike(g, e) /\ Frame(g, e) /\ Core(g, e) /\ Disk(g, e)
        /\ e.files = g.files /\ S \subseteq e.excused /\ g.excused \subseteq e.excused
    <3>1. "miss" \in Excuse
      BY DEF LetPass
    <3> HIDE DEF S
    <3> QED
      BY <1>1, <1>2, <3>1, ExcusedIs, ExcusedAlike
  <2>4. i \in e.excused \/ d = s.truth[i]
    <3>1. CASE i \in DOMAIN s.buffer
      BY <2>3, <3>1
    <3>2. CASE i \in s.excused
      BY <1>2, <2>3, <3>2 DEF Quiet
    <3>3. CASE i \notin DOMAIN s.buffer /\ i \notin s.excused
      BY <1>5, <3>3, BackupReads
    <3> QED
      BY <3>1, <3>2, <3>3
  <2> HIDE DEF e, d, S
  <2>5. Sound(e, {}) /\ i \in Live(e)
    BY <1>2, <1>3, <2>3, AlikeSound DEF Alike
  <2>6. \A j \in Live(g) : Remains(g, e, j)
    <3>1. \A j : OnDisk(e, j) = OnDisk(g, j)
      BY <2>3, OnDiskSame
    <3> QED
      BY <2>3, <3>1 DEF Remains, Backup, Core
  <2>7. Right(e, {}, {})
    BY <1>3, <2>3, <2>6, RemainsRight
  <2>8. Right(e, {i}, {i})
    BY <2>7 DEF Right, BlocksRight, BackupRight
  <2>9. i \in e.excused \/ d = e.truth[i]
    BY <1>2, <2>3, <2>4 DEF Quiet, Core
  <2> QED
    BY <2>1, <2>2, <2>3, <2>5, <2>8, <2>9, CacheInsertRight
<1> QED
  BY <1>4, <1>5

\* A creation.
LEMMA CreateRight ==
  ASSUME NEW s \in FS, Sound(s, {}), LetPass, Right(s, {}, {}),
         FreeSlots(s) # {}, s.next_inode \in Ino
  PROVE  Right(create(s), {}, {})
<1> DEFINE i == s.next_inode
           slot == FirstFree(s)
           n == [ino |-> i, size |-> 0, offset |-> 0, used |-> TRUE]
           a == NewFile(s, i, slot)
           b == cache_insert(a, i, <<>>)
           t == create(s)
<1>1. slot \in FreeSlots(s) /\ slot \in Slot
  BY FirstFreeIs DEF FreeSlots
<1>2. t = write_inode(b, slot, n)
  BY DEF create, NewFile, FirstFree
<1>3. /\ n \in Inode /\ n.ino = i /\ n.size = 0 /\ n.offset = 0 /\ n.used /\ n # NoInode
      /\ <<>> \in Content /\ Len(<<>>) = 0
  <2>1. 0 \in 0 .. MaxBlocks /\ <<>> \in Seq(Block) /\ Len(<<>>) = 0
    BY VexFSAssumption
  <2> QED
    BY <2>1, VexFSAssumption DEF Inode, Content, NoInode
<1>4. i \in Ino /\ i = s.next_inode
  OBVIOUS
<1> HIDE DEF i, slot, n, t, a
<1>5. /\ a \in FS /\ Sound(a, {i}) /\ i \notin Live(s) /\ Live(a) = Live(s) \cup {i}
      /\ a.files[i].slot = slot /\ a.files[i].size = 0 /\ a.files[i].dirty
      /\ \A j \in Live(s) : a.files[j] = s.files[j]
      /\ a.truth[i] = <<>> /\ \A j \in Live(s) : a.truth[j] = s.truth[j]
      /\ a.cache = s.cache /\ a.blocks = s.blocks /\ a.buffer = s.buffer
      /\ Disk(s, a) /\ a.excused = s.excused \ {i}
      /\ i \notin DOMAIN s.buffer
  <2>1. Added(s, NewFile(s, i, slot), i, slot)
    BY <1>1, <1>4, NewFileIs
  <2> QED
    BY <2>1 DEF Added, a
<1>6. Right(a, {i}, {i})
  <2>1. \A j : Backup(a, j) = Backup(s, j)
    BY <1>5, OnDiskSame DEF Backup
  <2>2. SizeRight(a)
    BY <1>3, <1>5 DEF Right, SizeRight
  <2>3. Cached(a) = Cached(s) /\ Cached(s) \subseteq Live(s)
    BY <1>5 DEF Cached, Sound, CacheFits
  <2>4. BlocksRight(a, {i})
    BY <1>5, <2>3 DEF Right, BlocksRight
  <2>5. BackupRight(a, {i})
    BY <1>5, <2>1, <2>3 DEF Right, BackupRight
  <2> QED
    BY <2>2, <2>4, <2>5 DEF Right
<1>7. b \in FS /\ Sound(b, {i}) /\ SameFiles(a, b)
  BY <1>3, <1>4, <1>5, CacheInsertIs
<1>8. Right(b, {}, {})
  BY <1>3, <1>5, <1>6, CacheInsertRight
<1> HIDE DEF b
<1>9. i \in Live(b) /\ slot = b.files[i].slot /\ b.truth[i] = <<>> /\ i \notin DOMAIN b.buffer
  BY <1>5, <1>7 DEF SameFiles
<1>10. /\ t \in FS /\ Core(b, t) /\ t.files = b.files /\ t.excused = b.excused /\ t.data = b.data
       /\ t.inode = [b.inode EXCEPT ![slot] = n] /\ t.logged = [b.logged EXCEPT ![slot] = n]
       /\ Sound(t, {})
  BY <1>1, <1>2, <1>3, <1>7, <1>9, WriteInodeIs, NewInodeIs
<1>11. \A k \in Slot : Record(t, k) = IF k = slot THEN n ELSE Record(b, k)
  <2>1. /\ \A k \in Slot : t.inode[k] = IF k = slot THEN n ELSE b.inode[k]
        /\ \A k \in Slot : t.logged[k] = IF k = slot THEN n ELSE b.logged[k]
    BY <1>7, <1>10, ShapeIs
  <2> QED
    BY <1>3, <2>1, RecordIs
<1>12. OnDisk(t, i) = <<>>
  <2>1. Record(t, slot) = n
    BY <1>1, <1>11
  <2>2. OneRecord(t)
    BY <1>10 DEF Sound
  <2>3. OnDisk(t, i) = ReadData(t, 0, 0)
    BY <1>1, <1>3, <2>1, <2>2, OnDiskIs
  <2> QED
    BY <2>3, ReadNothing
<1>13. \A j \in Live(b) \ {i} : OnDisk(t, j) = OnDisk(b, j)
  <2> SUFFICES ASSUME NEW j \in Live(b) \ {i} PROVE OnDisk(t, j) = OnDisk(b, j)
    OBVIOUS
  <2>1. \A k \in Slot : Record(b, k).used /\ Record(b, k).ino = j => k # slot
    BY <1>7, <1>9 DEF Sound, RecordsFit, RecordFits, LiveRecord, OwnSlots
  <2>2. \A k \in Slot : Record(t, k).used /\ Record(t, k).ino = j => k # slot
    BY <1>3, <1>11
  <2>3. \A o, z : ReadData(t, o, z) = ReadData(b, o, z)
    BY <1>10 DEF ReadData, CellAt
  <2>4. CASE \E k \in Slot : Record(b, k).used /\ Record(b, k).ino = j
    <3>1. PICK k \in Slot : Record(b, k).used /\ Record(b, k).ino = j
      BY <2>4
    <3>2. Record(t, k) = Record(b, k)
      BY <1>11, <2>1, <3>1
    <3>3. OneRecord(b) /\ OneRecord(t)
      BY <1>7, <1>10 DEF Sound
    <3>4. OnDisk(b, j) = ReadData(b, Record(b, k).offset, Record(b, k).size)
      BY <3>1, <3>3, OnDiskIs
    <3>5. OnDisk(t, j) = ReadData(t, Record(t, k).offset, Record(t, k).size)
      BY <3>1, <3>2, <3>3, OnDiskIs
    <3> QED
      BY <2>3, <3>2, <3>4, <3>5
  <2>5. CASE \A k \in Slot : ~(Record(b, k).used /\ Record(b, k).ino = j)
    <3>1. \A k \in Slot : ~(Record(t, k).used /\ Record(t, k).ino = j)
      BY <1>11, <2>2, <2>5
    <3> QED
      BY <2>5, <3>1, NotOnDisk
  <2> QED
    BY <2>4, <2>5
<1>14. SizeRight(t) /\ BlocksRight(t, {})
  BY <1>8, <1>10 DEF Right, SizeRight, BlocksRight, Core, Cached, Live
<1>15. BackupRight(t, {})
  <2>1. Backup(t, i) = t.truth[i] /\ \A j \in Live(b) \ {i} : Backup(t, j) = Backup(b, j)
    BY <1>9, <1>10, <1>12, <1>13 DEF Backup, Core
  <2> QED
    BY <1>8, <1>10, <2>1 DEF Right, BackupRight, Core, Cached, Live
<1> QED
  BY <1>14, <1>15 DEF Right, t

\* A close or an fsync hands the file to the write buffer.
LEMMA FlushFileRight ==
  ASSUME NEW s \in FS, Sound(s, {}), Right(s, {}, {}), NEW i \in Live(s)
  PROVE  Right(flush_file(s, i), {}, {})
<1> DEFINE a == Marked(s, i, FALSE)
           g == get(a, i)
           t == flush_file(s, i)
<1>1. CASE ~s.files[i].dirty
  BY <1>1 DEF flush_file
<1>2. CASE s.files[i].dirty
  <2>1. t = IF i \in Cached(s) THEN Buffered(g, i) ELSE g
    BY <1>2 DEF flush_file, Marked
  <2>2. /\ a \in FS /\ Live(a) = Live(s) /\ ~a.files[i].dirty
        /\ a.files[i].size = s.files[i].size
        /\ \A j \in Live(s) \ {i} : a.files[j] = s.files[j]
        /\ Core(s, a) /\ a.excused = s.excused /\ Disk(s, a)
    <3>1. FALSE \in BOOLEAN
      OBVIOUS
    <3>2. MarkedAs(s, Marked(s, i, FALSE), i, FALSE)
      BY <3>1, MarkedIs
    <3> QED
      BY <3>2 DEF MarkedAs
  <2>3. i \in Ino
    BY ShapeIs
  <2> HIDE DEF a, t
  <2>4. g \in FS /\ Quiet(a, g)
    BY <2>2, <2>3, GetIs
  <2> HIDE DEF g
  <2>5. /\ g.files = a.files /\ g.excused = s.excused /\ g.buffer = s.buffer
        /\ g.truth = s.truth /\ g.blocks = s.blocks /\ Cached(g) = Cached(s)
        /\ Live(g) = Live(s) /\ \A j : OnDisk(g, j) = OnDisk(s, j)
    BY <2>2, <2>4, OnDiskSame DEF Quiet, Core, Cached, Live
  <2>6. /\ t.files = a.files /\ t.excused = s.excused /\ t.truth = s.truth
        /\ t.blocks = s.blocks /\ Cached(t) = Cached(s) /\ Live(t) = Live(s)
        /\ \A j \in Live(s) \ {i} : Backup(t, j) = Backup(s, j)
        /\ IF i \in Cached(s) THEN Backup(t, i) = s.blocks[i] ELSE Backup(t, i) = Backup(s, i)
    <3>1. CASE i \in Cached(s)
      <4>1. i \in Live(g) \cap Cached(g)
        BY <2>5, <3>1
      <4>2. /\ t.files = g.files /\ t.excused = g.excused /\ Disk(g, t)
            /\ t.cache = g.cache /\ t.blocks = g.blocks /\ t.truth = g.truth
            /\ DOMAIN t.buffer = DOMAIN g.buffer \cup {i} /\ t.buffer[i].data = g.blocks[i]
            /\ \A j \in DOMAIN g.buffer \ {i} : t.buffer[j] = g.buffer[j]
        BY <2>1, <2>4, <3>1, <4>1, BufferedIs
      <4>3. \A j : OnDisk(t, j) = OnDisk(g, j)
        BY <4>2, OnDiskSame
      <4> QED
        BY <2>5, <3>1, <4>2, <4>3 DEF Backup, Cached, Live
    <3>2. CASE i \notin Cached(s)
      BY <2>1, <2>5, <3>2 DEF Backup
    <3> QED
      BY <3>1, <3>2
  <2>7. SizeRight(t) /\ BlocksRight(t, {})
    BY <2>2, <2>6 DEF Right, SizeRight, BlocksRight
  <2>8. BackupRight(t, {})
    <3>1. i \in s.excused \/ Backup(t, i) = s.truth[i]
      BY <2>6 DEF Right, BlocksRight, BackupRight
    <3> QED
      BY <2>2, <2>6, <3>1 DEF Right, BackupRight
  <2> QED
    BY <2>7, <2>8 DEF Right, t
<1> QED
  BY <1>1, <1>2

\* The members of a sequence up to a place.
UpToPlace(seq, k) == {seq[j] : j \in 1 .. k}

\* From s to t the files in S were taken out of the write buffer and stored.
Emptied(s, t, S) ==
  /\ Frame(s, t) /\ DOMAIN t.buffer = DOMAIN s.buffer \ S
  /\ \A i \in Live(s) : t.files[i].dirty = s.files[i].dirty

\* What is due is stored and stays right.
LEMMA PersistAllRight ==
  ASSUME NEW s \in FS, Sound(s, {}), LetPass, Right(s, {}, {}), NEW seq \in Seq(Ino)
  PROVE  LET t == PersistAll(s, seq)
         IN  Right(t, {}, {}) /\ Emptied(s, t, {seq[j] : j \in DOMAIN seq})
<1> DEFINE n == Len(seq)
<1>1. n \in Nat /\ DOMAIN seq = 1 .. n /\ \A k \in 1 .. n : seq[k] \in Ino
  OBVIOUS
<1>2. \A u, x : Do("buffered", u, x) = PersistBuffered(u, x)
  BY DEF Do
<1>3. PICK m \in [0 .. n -> FS] : IsLoop(m, "buffered", s, seq, n)
  <2>1. \A u \in FS : \A k \in 1 .. n : Do("buffered", u, seq[k]) \in FS
    BY <1>1, <1>2, PersistBufferedIs
  <2> HIDE DEF n
  <2> QED
    BY <1>1, <2>1, LoopRounds
<1>4. UpToPlace(seq, 0) = {} /\ UpToPlace(seq, n) = {seq[j] : j \in DOMAIN seq}
  BY <1>1 DEF UpToPlace
<1>5. \A k \in 0 .. (n - 1) : UpToPlace(seq, k + 1) = UpToPlace(seq, k) \cup {seq[k + 1]}
  <2> SUFFICES ASSUME NEW k \in 0 .. (n - 1)
               PROVE  UpToPlace(seq, k + 1) = UpToPlace(seq, k) \cup {seq[k + 1]}
    OBVIOUS
  <2>1. 1 .. (k + 1) = (1 .. k) \cup {k + 1}
    BY <1>1
  <2> QED
    BY <2>1 DEF UpToPlace
<1> HIDE DEF n
<1> DEFINE Ok(k) == /\ Sound(m[k], {}) /\ Right(m[k], {}, {})
                    /\ Emptied(s, m[k], UpToPlace(seq, k))
           T == {k \in 0 .. n : Ok(k)}
<1>6. 0 \in T
  <2>1. m[0] = s
    BY <1>3 DEF IsLoop
  <2>2. 0 \in 0 .. n
    BY <1>1
  <2>3. Emptied(s, s, UpToPlace(seq, 0))
    BY <1>4, FrameTwice DEF Emptied
  <2> QED
    BY <2>1, <2>2, <2>3
<1>7. ASSUME NEW k \in 0 .. (n - 1), k \in T PROVE k + 1 \in T
  <2> DEFINE u == m[k]
             v == m[k + 1]
             i == seq[k + 1]
             S == UpToPlace(seq, k)
  <2>1. k \in 0 .. n /\ k + 1 \in 0 .. n /\ k + 1 \in 1 .. n /\ (k + 1) - 1 = k
    BY <1>1
  <2>2. v = PersistBuffered(u, i)
    BY <1>2, <1>3, <2>1 DEF IsLoop
  <2>3. u \in FS /\ i \in Ino /\ Sound(u, {}) /\ Right(u, {}, {}) /\ Emptied(s, u, S)
    BY <1>1, <1>7, <2>1
  <2>4. UpToPlace(seq, k + 1) = S \cup {i}
    BY <1>5
  <2> HIDE DEF u, v, i, S
  <2>5. Sound(v, {}) /\ Frame(u, v)
    BY <2>2, <2>3, PersistBufferedSound
  <2>6. (\A j \in Live(u) : Remains(u, v, j)) /\ DOMAIN v.buffer = DOMAIN u.buffer \ {i}
    BY <2>2, <2>3, PersistBufferedKeeps
  <2>7. Right(v, {}, {})
    BY <2>3, <2>5, <2>6, RemainsRight
  <2>8. Emptied(s, v, S \cup {i})
    <3>1. Frame(s, v)
      BY <2>3, <2>5, FrameTwice DEF Emptied
    <3>2. Live(u) = Live(s)
      BY <2>3 DEF Emptied, Frame, SameFiles
    <3> QED
      BY <2>3, <2>6, <3>1, <3>2 DEF Emptied, Remains
  <2> QED
    BY <2>1, <2>4, <2>5, <2>7, <2>8 DEF v
<1> HIDE DEF T
<1>8. 0 .. n \subseteq T
  BY <1>1, <1>6, <1>7, UpTo
<1>9. n \in 0 .. n
  BY <1>1
<1>10. Ok(n)
  BY <1>8, <1>9 DEF T
<1>11. PersistAll(s, seq) = m[n]
  BY <1>3, LoopsAre DEF IsLoop
<1> QED
  BY <1>4, <1>10, <1>11

\* A deletion.
LEMMA UnlinkRight ==
  ASSUME NEW s \in FS, Sound(s, {}), Right(s, {}, {}), NEW i \in Live(s)
  PROVE  Right(unlink(s, i), {}, {})
<1> DEFINE t == unlink(s, i)
<1>1. /\ Sound(t, {}) /\ Live(t) = Live(s) \ {i}
      /\ \A j \in Live(t) : /\ t.files[j] = s.files[j] /\ t.truth[j] = s.truth[j]
                            /\ j \in Cached(s) <=> j \in Cached(t)
                            /\ OnDisk(t, j) = OnDisk(s, j)
      /\ \A j \in Cached(t) : t.blocks[j] = s.blocks[j]
      /\ t.buffer = s.buffer /\ t.excused = s.excused \ {i}
  BY UnlinkIs
<1> HIDE DEF t
<1>2. Cached(t) \subseteq Live(t)
  BY <1>1 DEF Sound, CacheFits
<1>3. SizeRight(t)
  BY <1>1 DEF Right, SizeRight
<1>4. BlocksRight(t, {})
  BY <1>1, <1>2 DEF Right, BlocksRight
<1>5. BackupRight(t, {})
  BY <1>1 DEF Right, BackupRight, Backup
<1> QED
  BY <1>3, <1>4, <1>5 DEF Right, t

\* A renaming.
LEMMA RenameRight ==
  ASSUME NEW s \in FS, Sound(s, {}), Right(s, {}, {}), NEW i \in Live(s)
  PROVE  Right(rename(s, i), {}, {})
<1> DEFINE t == rename(s, i)
<1>1. /\ Live(t) = Live(s) /\ t.files[i].dirty /\ t.files[i].size = s.files[i].size
      /\ \A j \in Live(s) \ {i} : t.files[j] = s.files[j]
      /\ t.truth = s.truth /\ Cached(t) = Cached(s) /\ t.blocks = s.blocks
      /\ t.buffer = s.buffer /\ t.excused = s.excused
      /\ \A j : OnDisk(t, j) = OnDisk(s, j)
  BY RenameIs DEF Cached
<1> HIDE DEF t
<1>2. SizeRight(t) /\ BlocksRight(t, {})
  BY <1>1 DEF Right, SizeRight, BlocksRight
<1>3. BackupRight(t, {})
  BY <1>1 DEF Right, BackupRight, Backup
<1> QED
  BY <1>2, <1>3 DEF Right, t

-----------------------------------------------------------------------------
(***************************************************************************)
(* Mounting and the end of a mount.                                        *)
(***************************************************************************)
\* What is mounted is right: contents of another length are excused.
LEMMA LoadRight ==
  ASSUME NEW s \in FS, Off(s), OneRecord(s), DataStart <= s.saved_next, LetPass
  PROVE  Right(load(s), {}, {})
<1> DEFINE a == Opened(s)
           n == Cardinality(Slot)
           t == load(s)
<1>1. a \in FS /\ a.logged = [k \in Slot |-> NoInode]
  BY OpenedIs
<1>2. t \in FS /\ Loaded(a, t, n) /\ Sound(t, {})
  BY LoadIs, LoadSound
<1> HIDE DEF a, n, t
<1>3. /\ Disk(a, t) /\ DOMAIN t.buffer = {} /\ Cached(t) \subseteq Live(t)
      /\ \A i \in Live(t) :
           LET f == t.files[i]
               r == a.inode[f.slot]
           IN  /\ r.used /\ r.ino = i /\ t.truth[i] = ReadData(a, r.offset, r.size)
               /\ i \in Cached(t) => t.blocks[i] = t.truth[i]
               /\ i \in t.excused \/ Len(t.truth[i]) = f.size
  BY <1>2 DEF Loaded
<1>4. SizeRight(t) /\ BlocksRight(t, {})
  BY <1>3 DEF SizeRight, BlocksRight
<1>5. ASSUME NEW i \in Live(t) PROVE OnDisk(t, i) = t.truth[i]
  <2> DEFINE k == t.files[i].slot
             r == a.inode[k]
  <2>1. k \in Slot
    BY <1>2, FieldsAre
  <2>2. Record(t, k) = r
    BY <1>1, <1>3, <2>1, RecordIs DEF Disk
  <2>3. r.used /\ r.ino = i /\ t.truth[i] = ReadData(a, r.offset, r.size)
    BY <1>3
  <2>4. OneRecord(t)
    BY <1>2 DEF Sound
  <2> HIDE DEF k, r
  <2>5. OnDisk(t, i) = ReadData(t, r.offset, r.size)
    BY <2>1, <2>2, <2>3, <2>4, OnDiskIs
  <2>6. \A o, z : ReadData(t, o, z) = ReadData(a, o, z)
    BY <1>3 DEF Disk, ReadData, CellAt
  <2> QED
    BY <2>3, <2>5, <2>6
<1>6. BackupRight(t, {})
  BY <1>3, <1>5 DEF BackupRight, Backup
<1> QED
  BY <1>4, <1>6 DEF Right, t

\* Each file is found on disk by the next mount.
Survives(s) == \A i \in DOMAIN s.truth \ s.excused : OnDisk(s, i) = s.truth[i]

\* So it is where all that is not stored is excused.
LEMMA DownRight ==
  ASSUME NEW s \in FS, Sound(s, {}), Right(s, {}, {}),
         \A i \in Live(s) \ s.excused : ~s.files[i].dirty /\ i \notin DOMAIN s.buffer
  PROVE  Survives(PoweredDown(s))
<1> DEFINE t == PoweredDown(s)
<1>1. t.truth = s.truth /\ t.excused = s.excused /\ \A i : OnDisk(t, i) = OnDisk(s, i)
  BY PoweredDownIs, OnDiskSame
<1>2. DOMAIN s.truth = Live(s)
  BY DEF Sound
<1> HIDE DEF t
<1>3. \A i \in Live(s) \ s.excused : OnDisk(s, i) = s.truth[i]
  BY DEF Right, BackupRight, Backup
<1> QED
  BY <1>1, <1>2, <1>3 DEF Survives, t

\* More may be lost, and what was right stays so.
LEMMA LetGoRight ==
  ASSUME NEW s \in FS, Right(s, {}, {}), NEW e \in SUBSET Ino, s.excused \subseteq e
  PROVE  Right([s EXCEPT !.excused = e], {}, {})
<1> DEFINE t == [s EXCEPT !.excused = e]
<1>1. /\ t.excused = e /\ Live(t) = Live(s) /\ Cached(t) = Cached(s) /\ t.files = s.files
      /\ t.blocks = s.blocks /\ t.buffer = s.buffer /\ t.truth = s.truth
      /\ \A i : OnDisk(t, i) = OnDisk(s, i)
  BY LetGoIs, OnDiskSame DEF Live, Cached
<1> HIDE DEF t
<1>2. SizeRight(t) /\ BlocksRight(t, {})
  BY <1>1 DEF Right, SizeRight, BlocksRight
<1>3. BackupRight(t, {})
  BY <1>1 DEF Right, BackupRight, Backup
<1> QED
  BY <1>2, <1>3 DEF Right, t

-----------------------------------------------------------------------------
(***************************************************************************)
(* The invariant and the theorems.                                         *)
(***************************************************************************)
DInv == IF mode = "mounted" THEN Right(fs, {}, {}) ELSE Survives(fs)

\* Nothing is there at first.
LEMMA DataInit == Init => DInv
<1> SUFFICES ASSUME Init PROVE DInv
  OBVIOUS
<1>1. mode = "mounted" /\ fs.files = <<>> /\ fs.cache = Arc!EmptyCache
  BY DEF Init
<1>2. Live(fs) = {} /\ Cached(fs) = {}
  BY <1>1, EmptyMap, CacheEmpty DEF Live, Cached
<1> QED
  BY <1>1, <1>2 DEF DInv, Right, SizeRight, BlocksRight, BackupRight

\* An unmount stores what is buffered.
LEMMA DestroyRight ==
  ASSUME LetPass, IInv, DInv, Destroy
  PROVE  Survives(fs')
<1> DEFINE e == fs.excused \cup Unflushed(fs)
           s == [fs EXCEPT !.excused = e]
<1>1. fs \in FS /\ Sound(fs, {}) /\ Right(fs, {}, {})
  BY DEF IInv, DInv, Destroy
<1>2. /\ s \in FS /\ Alike(fs, s) /\ Right(s, {}, {})
      /\ s.excused = e /\ s.buffer = fs.buffer /\ s.files = fs.files
  <2>1. e \in SUBSET Ino /\ fs.excused \subseteq e
    BY <1>1, ShapeIs DEF Unflushed
  <2> HIDE DEF e
  <2> QED
    BY <1>1, <2>1, LetGoIs, LetGoRight
<1>3. PICK order \in SetToSeqs(DOMAIN fs.buffer) : fs' = PoweredDown(PersistAll(s, order))
  BY DEF Destroy
<1>4. \A i \in Live(s) \ s.excused : ~s.files[i].dirty
  BY <1>2 DEF Unflushed, Live
<1> HIDE DEF e, s
<1>5. order \in Seq(Ino) /\ DOMAIN s.buffer \subseteq {order[j] : j \in DOMAIN order}
  <2>1. DOMAIN fs.buffer \in SUBSET Ino
    BY <1>1, ShapeIs
  <2> QED
    BY <1>2, <2>1, OrderIs
<1>6. Sound(s, {})
  BY <1>1, <1>2, AlikeSound
<1> DEFINE t == PersistAll(s, order)
<1>7. t \in FS /\ Sound(t, {})
  BY <1>2, <1>5, <1>6, PersistAllIs
<1>8. Right(t, {}, {}) /\ Emptied(s, t, {order[j] : j \in DOMAIN order})
  BY <1>2, <1>5, <1>6, PersistAllRight
<1> HIDE DEF t
<1>9. \A i \in Live(t) \ t.excused : ~t.files[i].dirty /\ i \notin DOMAIN t.buffer
  BY <1>4, <1>5, <1>8 DEF Emptied, Frame, SameFiles
<1> QED
  BY <1>3, <1>7, <1>8, <1>9, DownRight DEF t

\* A crash leaves what is stored.
LEMMA CrashRight ==
  ASSUME LetPass, IInv, DInv, Crash
  PROVE  Survives(fs')
<1> DEFINE e == fs.excused \cup Unflushed(fs) \cup DOMAIN fs.buffer
           s == [fs EXCEPT !.excused = e]
<1>1. fs \in FS /\ Sound(fs, {}) /\ Right(fs, {}, {})
  BY DEF IInv, DInv, Crash
<1>2. /\ s \in FS /\ Alike(fs, s) /\ Right(s, {}, {})
      /\ s.excused = e /\ s.buffer = fs.buffer /\ s.files = fs.files
  <2>1. e \in SUBSET Ino /\ fs.excused \subseteq e
    BY <1>1, ShapeIs DEF Unflushed
  <2> HIDE DEF e
  <2> QED
    BY <1>1, <2>1, LetGoIs, LetGoRight
<1>3. fs' = PoweredDown(s)
  BY DEF Crash
<1>4. \A i \in Live(s) \ s.excused : ~s.files[i].dirty /\ i \notin DOMAIN s.buffer
  BY <1>2 DEF Unflushed, Live
<1> HIDE DEF e, s
<1>5. Sound(s, {})
  BY <1>1, <1>2, AlikeSound
<1> QED
  BY <1>2, <1>3, <1>4, <1>5, DownRight

\* A flush, and the storing of what is due with it.
LEMMA FlushRight ==
  ASSUME LetPass, IInv, DInv, mode = "mounted", NEW i \in Live(fs), Flush(i)
  PROVE  Right(fs', {}, {})
<1> DEFINE s == flush_file(fs, i)
<1>1. fs \in FS /\ Sound(fs, {}) /\ Right(fs, {}, {})
  BY DEF IInv, DInv
<1>2. s \in FS /\ Sound(s, {}) /\ Right(s, {}, {})
  BY <1>1, FlushFileIs, FlushFileRight
<1>3. fs' = s \/ \E order \in DueForFlush(s, i) : fs' = PersistAll(s, order)
  BY DEF Flush, Request
<1> HIDE DEF s
<1>4. ASSUME NEW order \in DueForFlush(s, i) PROVE Right(PersistAll(s, order), {}, {})
  BY <1>2, DueIs, PersistAllRight
<1> QED
  BY <1>2, <1>3, <1>4

\* Every step keeps the data right.
LEMMA DataStep == LetPass /\ IInv /\ DInv /\ [Next]_vars => DInv'
<1> SUFFICES ASSUME LetPass, IInv, DInv, [Next]_vars PROVE DInv'
  OBVIOUS
<1>1. ASSUME NEW s, Right(s, {}, {}), Request(s) PROVE DInv'
  BY <1>1 DEF Request, DInv
<1>2. ASSUME NEW s, Request(s) PROVE fs \in FS /\ Sound(fs, {}) /\ Right(fs, {}, {})
  BY <1>2 DEF Request, IInv, DInv
<1>3. ASSUME NEW i \in Ino, Read(i) PROVE DInv'
  BY <1>1, <1>2, <1>3, ReadRight DEF Read
<1>4. ASSUME NEW i \in Ino, Flush(i) PROVE DInv'
  <2>1. i \in Live(fs) /\ mode = "mounted" /\ mode' = mode
    BY <1>4 DEF Flush, Request
  <2>2. Right(fs', {}, {})
    BY <1>4, <2>1, FlushRight
  <2> QED
    BY <2>1, <2>2 DEF DInv
<1>5. ASSUME NEW i \in Ino, Unlink(i) PROVE DInv'
  BY <1>1, <1>2, <1>5, UnlinkRight DEF Unlink
<1>6. ASSUME NEW i \in Ino, Rename(i) PROVE DInv'
  BY <1>1, <1>2, <1>6, RenameRight DEF Rename
<1>7. ASSUME NEW i \in Ino, NEW off \in 0 .. (MaxBlocks - 1), NEW v \in Val, Write(i, off, v)
      PROVE  DInv'
  BY <1>1, <1>2, <1>7, WriteRight DEF Write
<1>8. ASSUME NEW i \in Ino, NEW n \in 0 .. MaxBlocks, Setattr(i, n) PROVE DInv'
  BY <1>1, <1>2, <1>8, SetattrRight DEF Setattr
<1>9. ASSUME Create PROVE DInv'
  BY <1>1, <1>2, <1>9, CreateRight DEF Create
<1>10. ASSUME Destroy PROVE DInv'
  BY <1>10, DestroyRight DEF DInv, Destroy
<1>11. ASSUME Crash PROVE DInv'
  BY <1>11, CrashRight DEF DInv, Crash
<1>12. ASSUME Load PROVE DInv'
  <2>1. fs \in FS /\ Kept(fs) /\ fs' = load(fs) /\ mode' = "mounted"
    BY <1>12 DEF Load, IInv
  <2>2. Right(fs', {}, {})
    BY <2>1, LoadRight DEF Kept
  <2> QED
    BY <2>1, <2>2 DEF DInv
<1>13. ASSUME UNCHANGED vars PROVE DInv'
  BY <1>13 DEF DInv, vars
<1> QED
  BY <1>3, <1>4, <1>5, <1>6, <1>7, <1>8, <1>9, <1>10, <1>11, <1>12, <1>13 DEF Next

\* So they always are.
LEMMA DataInv ==
  ASSUME LetPass
  PROVE  Spec => []DInv
<1>1. IInv /\ DInv /\ [Next]_vars => DInv'
  BY DataStep
<1> QED
  BY <1>1, Inv, DataInit, PTL DEF Spec

\* Whichever request put it there, the cache holds what was last written:
\* reads are served from it (fuse/mod.rs:799).
THEOREM CacheCorrect ==
  ASSUME LetPass
  PROVE  Spec => []ReadsSeeLastWrite
<1>1. IInv /\ DInv => ReadsSeeLastWrite
  BY DEF IInv, DInv, ReadsSeeLastWrite, Right, BlocksRight, Kept, Off
<1> QED
  BY <1>1, Inv, DataInv, PTL

\* A file dropped from the cache is in the write buffer, or a read finds it on
\* disk (fuse/mod.rs:11).
THEOREM EvictionsKeep ==
  ASSUME LetPass
  PROVE  Spec => []EvictedIsKept
<1>1. IInv /\ DInv => EvictedIsKept
  <2> SUFFICES ASSUME IInv, DInv, NEW i \in Live(fs) \ (Cached(fs) \cup fs.excused)
               PROVE  (IF i \in DOMAIN fs.buffer THEN fs.buffer[i].data
                       ELSE ReadData(fs, fs.files[i].offset, fs.files[i].size)) = fs.truth[i]
    BY DEF EvictedIsKept
  <2>1. mode = "mounted"
    BY DEF IInv, Kept, Off
  <2>2. fs \in FS /\ Sound(fs, {}) /\ Right(fs, {}, {})
    BY <2>1 DEF IInv, DInv
  <2> QED
    BY <2>2, BackupReads
<1> QED
  BY <1>1, Inv, DataInv, PTL

\* A file is marked clean only when its last contents are in the write buffer or
\* on disk (fuse/mod.rs:382).
THEOREM CleanCorrect ==
  ASSUME LetPass
  PROVE  Spec => []CleanIsHandedOver
<1>1. IInv /\ DInv => CleanIsHandedOver
  BY DEF IInv, DInv, CleanIsHandedOver, Right, BackupRight, Backup, Kept, Off
<1> QED
  BY <1>1, Inv, DataInv, PTL

\* What was flushed before an unmount, and stored before a crash, is what the
\* next mount finds (fuse/mod.rs:205, load).
THEOREM RemountsFind ==
  ASSUME LetPass
  PROVE  Spec => []FlushedSurvives
<1>1. DInv => FlushedSurvives
  BY DEF DInv, FlushedSurvives, Survives
<1> QED
  BY <1>1, DataInv, PTL
=============================================================================
