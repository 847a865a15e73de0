--------------------------- MODULE ArcCacheProofs ---------------------------
(***************************************************************************)
(* The ARC cache of any size, over any keys: what is cached is what the    *)
(* queues will give up, and used_bytes is its size, through every          *)
(* insertion, whatever it evicts, lookup and removal.                      *)
(***************************************************************************)
EXTENDS ArcCache, FoldLemmas

-----------------------------------------------------------------------------
(***************************************************************************)
(* The ordered sets.                                                       *)
(***************************************************************************)
\* A queue that a pop finds every element of the set in.
Queue == {o \in [order : Seq(Key), set : SUBSET Key] : o.set \subseteq Range(o.order)}

\* What makes an ordered set's queue one that pops can rely on.
LEMMA QueueOf ==
  ASSUME NEW q \in Seq(Key), NEW S \in SUBSET Key, S \subseteq Range(q)
  PROVE  [order |-> q, set |-> S] \in Queue
BY DEF Queue

Live(o) == {i \in DOMAIN o.order : o.order[i] \in o.set}

\* The positions of a set's elements in its queue.
LEMMA LiveIs ==
  ASSUME NEW o \in Queue
  PROVE  /\ o.order \in Seq(Key) /\ o.set \in SUBSET Key /\ IsFiniteSet(o.set)
         /\ Cardinality(o.set) \in Nat /\ (Cardinality(o.set) = 0 <=> o.set = {})
         /\ Live(o) \subseteq 1 .. Len(o.order)
         /\ \A k \in o.set : \E i \in Live(o) : o.order[i] = k
         /\ o.set # {} => /\ Min(Live(o)) \in Live(o)
                          /\ \A i \in Live(o) : Min(Live(o)) <= i
<1>1. o.order \in Seq(Key) /\ o.set \in SUBSET Key /\ o.set \subseteq Range(o.order)
  BY DEF Queue
<1>2. Len(o.order) \in Nat /\ DOMAIN o.order = 1 .. Len(o.order)
  BY <1>1
<1>3. IsFiniteSet(Range(o.order))
  <2> DEFINE s == o.order
  <2>1. s \in Surjection(1 .. Len(s), Range(s))
    BY <1>1, <1>2 DEF Surjection, Range
  <2>2. IsFiniteSet(1 .. Len(s))
    BY <1>2, FS_Interval
  <2> HIDE DEF s
  <2> QED
    BY <2>1, <2>2, FS_Surjection DEF s
<1>4. IsFiniteSet(o.set)
  BY <1>1, <1>3, FS_Subset
<1>5. Cardinality(o.set) \in Nat /\ (Cardinality(o.set) = 0 <=> o.set = {})
  BY <1>4, FS_CardinalityType, FS_EmptySet
<1>6. Live(o) \subseteq 1 .. Len(o.order)
  BY <1>2 DEF Live
<1>7. \A k \in o.set : \E i \in Live(o) : o.order[i] = k
  BY <1>1 DEF Live, Range
<1>8. ASSUME o.set # {}
      PROVE  Min(Live(o)) \in Live(o) /\ \A i \in Live(o) : Min(Live(o)) <= i
  <2>1. Live(o) # {} /\ Live(o) \in SUBSET Nat
    BY <1>6, <1>7, <1>8
  <2>2. \E m \in Live(o) : \A i \in Live(o) : m <= i
    BY <2>1, Least
  <2> QED
    BY <2>2, Zenon DEF Min
<1> QED
  BY <1>1, <1>4, <1>5, <1>6, <1>7, <1>8

\* OrderedSet::push_back.
LEMMA PushIs ==
  ASSUME NEW o \in Queue, NEW k \in Key
  PROVE  push_back(o, k) \in Queue /\ push_back(o, k).set = o.set \cup {k}
<1>1. o.order \in Seq(Key) /\ o.set \in SUBSET Key /\ o.set \subseteq Range(o.order)
  BY DEF Queue
<1>2. CASE k \in o.set
  BY <1>2 DEF push_back
<1>3. CASE k \notin o.set
  <2> DEFINE q == Append(o.order, k)
  <2>1. push_back(o, k) = [order |-> q, set |-> o.set \cup {k}]
    BY <1>3 DEF push_back
  <2>2. /\ q \in Seq(Key) /\ DOMAIN q = 1 .. (Len(o.order) + 1)
        /\ DOMAIN o.order = 1 .. Len(o.order) /\ Len(o.order) \in Nat
        /\ q[Len(o.order) + 1] = k
        /\ \A i \in 1 .. Len(o.order) : q[i] = o.order[i]
    BY <1>1
  <2>3. o.set \cup {k} \subseteq Range(q)
    BY <1>1, <2>2 DEF Range
  <2> HIDE DEF q
  <2>4. [order |-> q, set |-> o.set \cup {k}] \in Queue
    BY <1>1, <2>2, <2>3, QueueOf
  <2> QED
    BY <2>1, <2>4
<1> QED
  BY <1>2, <1>3

\* OrderedSet::remove leaves a tombstone.
LEMMA RemoveIs ==
  ASSUME NEW o \in Queue, NEW k
  PROVE  remove(o, k) \in Queue /\ remove(o, k).set = o.set \ {k}
BY DEF Queue, remove

\* OrderedSet::pop_front takes an element out if there is one, the one that is
\* in front, and drops no other.
LEMMA PopIs ==
  ASSUME NEW o \in Queue
  PROVE  /\ pop_front(o) \in Queue
         /\ o.set = {} => front(o) = NoKey /\ pop_front(o).set = {}
         /\ o.set # {} => front(o) \in o.set /\ pop_front(o).set = o.set \ {front(o)}
<1>1. /\ o \in [order : Seq(Key), set : SUBSET Key]
      /\ o.order \in Seq(Key) /\ o.set \in SUBSET Key
      /\ DOMAIN o.order = 1 .. Len(o.order) /\ Len(o.order) \in Nat
  BY DEF Queue
<1>2. CASE o.set = {}
  <2>1. Live(o) = {}
    BY <1>2 DEF Live
  <2>2. front(o) = NoKey /\ pop_front(o) = [o EXCEPT !.order = <<>>]
    BY <2>1 DEF front, pop_front, Live
  <2>3. /\ [o EXCEPT !.order = <<>>] \in [order : Seq(Key), set : SUBSET Key]
        /\ [o EXCEPT !.order = <<>>].set = {}
    <3>1. ASSUME NEW q \in Seq(Key)
          PROVE  /\ [o EXCEPT !.order = q] \in [order : Seq(Key), set : SUBSET Key]
                 /\ [o EXCEPT !.order = q].set = o.set
      BY <1>1
    <3>2. <<>> \in Seq(Key)
      OBVIOUS
    <3> QED
      BY <1>2, <3>1, <3>2
  <2>4. pop_front(o) \in Queue
    BY <2>2, <2>3 DEF Queue
  <2> QED
    BY <1>2, <2>2, <2>3, <2>4
<1>3. CASE o.set # {}
  <2> DEFINE m == Min(Live(o))
             q == SubSeq(o.order, m + 1, Len(o.order))
             k == o.order[m]
  <2>1. m \in Live(o) /\ \A i \in Live(o) : m <= i
    BY <1>3, LiveIs
  <2> HIDE DEF m
  <2>2. m \in 1 .. Len(o.order) /\ k \in o.set
    BY <1>1, <2>1 DEF Live
  <2>3. front(o) = k /\ pop_front(o) = [order |-> q, set |-> o.set \ {k}]
    BY <2>1 DEF front, pop_front, Live, m
  <2>4. /\ q \in Seq(Key) /\ DOMAIN q = 1 .. (Len(o.order) - m)
        /\ \A i \in 1 .. (Len(o.order) - m) : q[i] = o.order[m + i]
    BY <1>1, <2>2
  <2>5. ASSUME NEW x \in o.set \ {k} PROVE x \in Range(q)
    <3>1. PICK i \in Live(o) : o.order[i] = x
      BY LiveIs
    <3>2. i \in 1 .. Len(o.order) /\ m <= i /\ i # m
      BY <1>1, <2>1, <2>5, <3>1 DEF Live
    <3>3. i - m \in 1 .. (Len(o.order) - m) /\ m + (i - m) = i
      BY <1>1, <2>2, <3>2
    <3> HIDE DEF q
    <3>4. q[i - m] = x
      BY <2>4, <3>1, <3>3
    <3> QED
      BY <2>4, <3>3, <3>4 DEF Range
  <2> HIDE DEF q, k
  <2>6. o.set \ {k} \in SUBSET Key /\ o.set \ {k} \subseteq Range(q)
    BY <1>1, <2>5
  <2>7. [order |-> q, set |-> o.set \ {k}] \in Queue
    BY <2>4, <2>6, QueueOf
  <2> QED
    BY <1>3, <2>2, <2>3, <2>7
<1> QED
  BY <1>2, <1>3

\* The queues truncate_to goes through.
LEMMA PopRounds ==
  ASSUME NEW o \in Queue, NEW n \in Nat
  PROVE  \E m \in [0 .. n -> Queue] :
           /\ m[0] = o
           /\ \A k \in 1 .. n : m[k] = pop_front(m[k - 1])
           /\ FoldLeft(LAMBDA x, i : pop_front(x), o, [i \in 1 .. n |-> i]) = m[n]
<1> DEFINE D == [p \in Queue \X (1 .. n) |-> pop_front(p[1])]
           Rec(h) == h = [t \in SUBSET (1 .. n) |->
                            IF t = {} THEN o ELSE pop_front(h[t \ {Max(t)}])]
           h == CHOOSE g : Rec(g)
<1>1. D \in [Queue \X (1 .. n) -> Queue]
  BY PopIs
<1>2. PICK g \in [SUBSET (1 .. n) -> Queue] : IsFold(g, n, o, D)
  <2> HIDE DEF D
  <2> QED
    BY <1>1, FoldDefined, Zenon
<1>3. Rec(g)
  <2>1. ASSUME NEW t \in SUBSET (1 .. n), t # {}
        PROVE  D[<<g[t \ {Max(t)}], Max(t)>>] = pop_front(g[t \ {Max(t)}])
    <3>1. Max(t) \in 1 .. n /\ g[t \ {Max(t)}] \in Queue
      BY <2>1, MaxIn
    <3> QED
      BY <3>1
  <2> HIDE DEF D
  <2> QED
    BY <1>2, <2>1 DEF IsFold
<1>4. Rec(h)
  BY <1>3, Zenon
<1>5. FoldLeft(LAMBDA x, i : pop_front(x), o, [i \in 1 .. n |-> i]) = h[1 .. n]
  BY DEF FoldLeft, MapThenFoldSet
<1>6. h[{}] = o
  BY <1>4
<1>7. ASSUME NEW t \in SUBSET (1 .. n), t # {}, h[t \ {Max(t)}] \in Queue
      PROVE  h[t] = D[<<h[t \ {Max(t)}], Max(t)>>]
  <2>1. Max(t) \in 1 .. n
    BY <1>7, MaxIn
  <2>2. D[<<h[t \ {Max(t)}], Max(t)>>] = pop_front(h[t \ {Max(t)}])
    <3> HIDE DEF h
    <3> QED
      BY <1>7, <2>1
  <2> HIDE DEF h, D
  <2> QED
    BY <1>4, <1>7, <2>2
<1> HIDE DEF h
<1>8. PICK m \in [0 .. n -> Queue] : IsRounds(m, h, n, o, D)
  <2>1. IsFoldIn(h, n, Queue, o, D)
    BY <1>6, <1>7 DEF IsFoldIn
  <2> HIDE DEF D
  <2> QED
    BY <1>1, <2>1, FoldRounds, Zenon
<1>9. ASSUME NEW k \in 1 .. n PROVE m[k] = pop_front(m[k - 1])
  <2>1. k - 1 \in 0 .. n
    OBVIOUS
  <2>2. m[k - 1] \in Queue
    BY <2>1
  <2>3. D[<<m[k - 1], k>>] = pop_front(m[k - 1])
    BY <2>2
  <2> QED
    BY <1>8, <2>3 DEF IsRounds
<1>10. m[0] = o /\ h[1 .. n] = m[n]
  BY <1>8 DEF IsRounds
<1> QED
  BY <1>5, <1>9, <1>10

\* OrderedSet::truncate_to keeps the set within its cap.
LEMMA TruncateIs ==
  ASSUME NEW o \in Queue, NEW max \in Nat
  PROVE  /\ truncate_to(o, max) \in Queue
         /\ Cardinality(truncate_to(o, max).set) <= max
<1> DEFINE over == Cardinality(o.set) - max
           n == IF over < 0 THEN 0 ELSE over
<1>1. Cardinality(o.set) \in Nat /\ n \in Nat
  BY LiveIs
<1>2. 1 .. over = 1 .. n
  BY <1>1
<1>3. truncate_to(o, max) = FoldLeft(LAMBDA x, i : pop_front(x), o, [i \in 1 .. n |-> i])
  BY <1>2 DEF truncate_to
<1> HIDE DEF n
<1>4. PICK m \in [0 .. n -> Queue] :
        /\ m[0] = o
        /\ \A k \in 1 .. n : m[k] = pop_front(m[k - 1])
        /\ FoldLeft(LAMBDA x, i : pop_front(x), o, [i \in 1 .. n |-> i]) = m[n]
  BY <1>1, PopRounds
<1> DEFINE T == {k \in 0 .. n : \/ m[k].set = {}
                                \/ Cardinality(m[k].set) = Cardinality(o.set) - k}
<1>5. 0 \in T
  <2>1. 0 \in 0 .. n
    BY <1>1
  <2>2. Cardinality(m[0].set) = Cardinality(o.set) - 0
    <3>1. m[0] = o
      BY <1>4, Zenon
    <3> QED
      BY <1>1, <3>1
  <2> QED
    BY <2>1, <2>2
<1>6. ASSUME NEW k \in 0 .. (n - 1), k \in T PROVE k + 1 \in T
  <2> DEFINE a == m[k]
             b == m[k + 1]
  <2>1. k \in 0 .. n /\ k + 1 \in 0 .. n /\ k + 1 \in 1 .. n /\ (k + 1) - 1 = k
    BY <1>1
  <2>2. a \in Queue /\ b = pop_front(a)
    BY <1>4, <2>1
  <2>3. a.set = {} \/ Cardinality(a.set) = Cardinality(o.set) - k
    BY <1>6
  <2> HIDE DEF a, b
  <2>4. CASE a.set = {}
    <3>1. b.set = {}
      BY <2>2, <2>4, PopIs
    <3> QED
      BY <2>1, <3>1 DEF b
  <2>5. CASE a.set # {}
    <3>1. b.set = a.set \ {front(a)} /\ front(a) \in a.set /\ IsFiniteSet(a.set)
      BY <2>2, <2>5, PopIs, LiveIs
    <3>2. Cardinality(b.set) = Cardinality(a.set) - 1
      BY <3>1, FS_RemoveElement
    <3>3. Cardinality(b.set) = Cardinality(o.set) - (k + 1)
      BY <1>1, <2>1, <2>3, <2>5, <3>2
    <3> QED
      BY <2>1, <3>3 DEF b
  <2> QED
    BY <2>4, <2>5
<1>7. n \in T
  <2> HIDE DEF T
  <2>1. 0 .. n \subseteq T
    BY <1>1, <1>5, <1>6, UpTo
  <2>2. n \in 0 .. n
    BY <1>1
  <2> QED
    BY <2>1, <2>2
<1>8. m[n] \in Queue
  BY <1>1
<1>9. Cardinality(m[n].set) <= max
  <2>1. CASE m[n].set = {}
    BY <2>1, FS_EmptySet
  <2>2. CASE Cardinality(m[n].set) = Cardinality(o.set) - n
    BY <1>1, <2>2 DEF n
  <2> QED
    BY <1>7, <2>1, <2>2
<1> QED
  BY <1>3, <1>4, <1>8, <1>9

-----------------------------------------------------------------------------
(***************************************************************************)
(* The invariant of the cache.  Good is a set, so that the rounds of the   *)
(* eviction loop can be a function into it.                                *)
(***************************************************************************)
Data == UNION {[S -> Sizes] : S \in SUBSET Key}

CacheType ==
  [t1 : Queue, t2 : Queue, b1 : Queue, b2 : Queue, data : Data,
   p : 0 .. MaxBytes, used : Nat, evicted : Seq(Key)]

\* What is cached is in one of T1 and T2, used is its size, and the ghost lists
\* are within their cap.
Good ==
  {c \in CacheType :
     /\ Cached(c) = c.t1.set \cup c.t2.set
     /\ c.t1.set \cap c.t2.set = {}
     /\ c.used = Total(c.data)
     /\ Cardinality(c.b1.set) <= MaxGhosts
     /\ Cardinality(c.b2.set) <= MaxGhosts}

IInv == cache \in Good

\* What a good cache is made of.
LEMMA GoodIs ==
  ASSUME NEW c \in Good
  PROVE  /\ c \in CacheType
         /\ c.t1 \in Queue /\ c.t2 \in Queue /\ c.b1 \in Queue /\ c.b2 \in Queue
         /\ Cached(c) \in SUBSET Key /\ IsFiniteSet(Cached(c))
         /\ c.data \in [Cached(c) -> Sizes] /\ c.data \in [Cached(c) -> Nat]
         /\ c.p \in 0 .. MaxBytes /\ c.used \in Nat /\ c.evicted \in Seq(Key)
         /\ Cached(c) = c.t1.set \cup c.t2.set
         /\ c.t1.set \cap c.t2.set = {}
         /\ c.used = Total(c.data)
         /\ Cardinality(c.b1.set) <= MaxGhosts /\ Cardinality(c.b2.set) <= MaxGhosts
<1>1. /\ c \in CacheType
      /\ Cached(c) = c.t1.set \cup c.t2.set
      /\ c.t1.set \cap c.t2.set = {}
      /\ c.used = Total(c.data)
      /\ Cardinality(c.b1.set) <= MaxGhosts /\ Cardinality(c.b2.set) <= MaxGhosts
  BY DEF Good
<1>2. /\ c.t1 \in Queue /\ c.t2 \in Queue /\ c.b1 \in Queue /\ c.b2 \in Queue
      /\ c.data \in Data
      /\ c.p \in 0 .. MaxBytes /\ c.used \in Nat /\ c.evicted \in Seq(Key)
  BY <1>1 DEF CacheType
<1>3. PICK S \in SUBSET Key : c.data \in [S -> Sizes]
  BY <1>2 DEF Data
<1>4. Cached(c) = S /\ c.data \in [S -> Nat]
  BY <1>3, ArcCacheAssumption DEF Cached
<1>5. IsFiniteSet(c.t1.set) /\ IsFiniteSet(c.t2.set)
  BY <1>2, LiveIs
<1>6. IsFiniteSet(Cached(c))
  BY <1>1, <1>5, FS_Union
<1> QED
  BY <1>1, <1>2, <1>3, <1>4, <1>6

\* Taking a key out of the data, and putting one in.
LEMMA WithoutIs ==
  ASSUME NEW S \in SUBSET Key, IsFiniteSet(S), NEW d \in [S -> Sizes], NEW k \in S
  PROVE  /\ Without(d, k) \in [S \ {k} -> Sizes]
         /\ d[k] \in Nat /\ Total(d) \in Nat /\ Total(Without(d, k)) \in Nat
         /\ Total(d) = Total(Without(d, k)) + d[k]
<1>1. d \in [S -> Nat]
  BY ArcCacheAssumption
<1>2. Without(d, k) = [x \in S \ {k} |-> d[x]]
  BY DEF Without
<1>3. /\ Total(d) \in Nat /\ Total([x \in S \ {k} |-> d[x]]) \in Nat
      /\ Total(d) = Total([x \in S \ {k} |-> d[x]]) + d[k]
  BY <1>1, TotalSplits
<1> QED
  BY <1>1, <1>2, <1>3

\* The other half: a value put in, in the place of another or not.
LEMMA WithIs ==
  ASSUME NEW S \in SUBSET Key, IsFiniteSet(S), NEW d \in [S -> Sizes], NEW k \in Key,
         NEW size \in Sizes
  PROVE  /\ With(d, k, size) \in [S \cup {k} -> Sizes]
         /\ Total(With(d, k, size)) \in Nat
         /\ k \in S => Total(With(d, k, size)) = Total(Without(d, k)) + size
<1> DEFINE e == With(d, k, size)
           R == S \cup {k}
<1>1. e \in [R -> Sizes] /\ e[k] = size /\ R \in SUBSET Key /\ k \in R
  BY DEF With
<1>2. IsFiniteSet(R)
  BY FS_AddElement
<1>3. /\ Total(e) \in Nat
      /\ Total(e) = Total(Without(e, k)) + e[k]
  <2>1. e[k] \in Nat
    BY <1>1, ArcCacheAssumption
  <2> HIDE DEF e, R
  <2>3. e \in [R -> Sizes] /\ R \in SUBSET Key /\ k \in R /\ IsFiniteSet(R)
    BY <1>1, <1>2
  <2>2. /\ Without(e, k) \in [R \ {k} -> Sizes]
         /\ e[k] \in Nat /\ Total(e) \in Nat /\ Total(Without(e, k)) \in Nat
         /\ Total(e) = Total(Without(e, k)) + e[k]
    <3>1. ASSUME NEW X \in SUBSET Key, IsFiniteSet(X), NEW f \in [X -> Sizes], NEW x \in X
          PROVE  /\ Without(f, x) \in [X \ {x} -> Sizes] /\ Total(Without(f, x)) \in Nat
                 /\ f[x] \in Nat /\ Total(f) \in Nat
                 /\ Total(f) = Total(Without(f, x)) + f[x]
      BY <3>1, WithoutIs
    <3>2. \A f \in [R -> Sizes] : \A x \in R :
             /\ Without(f, x) \in [R \ {x} -> Sizes] /\ Total(Without(f, x)) \in Nat
             /\ f[x] \in Nat /\ Total(f) \in Nat
             /\ Total(f) = Total(Without(f, x)) + f[x]
      BY <2>3, <3>1
    <3> QED
      BY <2>3, <3>2
  <2> QED
    BY <2>2
<1>4. k \in S => Without(e, k) = Without(d, k)
  BY DEF With, Without
<1> QED
  BY <1>1, <1>3, <1>4

\* A new value adds its size.
LEMMA AdmitIs ==
  ASSUME NEW k \in Key, NEW size \in Sizes
  PROVE  \A S \in SUBSET Key : \A d \in [S -> Sizes] :
           IsFiniteSet(S) /\ k \notin S =>
             /\ With(d, k, size) \in [S \cup {k} -> Sizes]
             /\ Total(With(d, k, size)) = Total(d) + size
<1> SUFFICES ASSUME NEW S \in SUBSET Key, NEW d \in [S -> Sizes], IsFiniteSet(S), k \notin S
             PROVE  /\ With(d, k, size) \in [S \cup {k} -> Sizes]
                    /\ Total(With(d, k, size)) = Total(d) + size
  OBVIOUS
<1> DEFINE e == With(d, k, size)
           R == S \cup {k}
<1>1. e \in [R -> Sizes] /\ e[k] = size /\ R \in SUBSET Key /\ k \in R
  BY DEF With
<1>2. Without(e, k) = d
  BY DEF With, Without
<1>3. IsFiniteSet(R)
  BY FS_AddElement
<1> HIDE DEF e, R
<1>4. \A X \in SUBSET Key : \A f \in [X -> Sizes] : \A x \in X :
        IsFiniteSet(X) => Total(f) = Total(Without(f, x)) + f[x]
  <2> SUFFICES ASSUME NEW X \in SUBSET Key, NEW f \in [X -> Sizes], NEW x \in X, IsFiniteSet(X)
               PROVE  Total(f) = Total(Without(f, x)) + f[x]
    OBVIOUS
  <2> QED
    BY WithoutIs
<1>5. Total(e) = Total(Without(e, k)) + e[k]
  BY <1>1, <1>3, <1>4
<1> QED
  BY <1>1, <1>2, <1>5 DEF e, R

\* evict_one gives up an entry if there is one: its victim, which it reports.
LEMMA EvictIs ==
  ASSUME NEW c \in Good, Cached(c) # {}
  PROVE  /\ evict_one(c) \in Good
         /\ Victim(c) \in Cached(c)
         /\ Cached(evict_one(c)) = Cached(c) \ {Victim(c)}
         /\ evict_one(c).used <= c.used
         /\ evict_one(c).evicted = Append(c.evicted, Victim(c))
         /\ \A x \in Cached(c) \ {Victim(c)} : evict_one(c).data[x] = c.data[x]
<1> DEFINE k == Victim(c)
           r == evict_one(c)
<1>1. /\ c \in CacheType
      /\ c.t1 \in Queue /\ c.t2 \in Queue /\ c.b1 \in Queue /\ c.b2 \in Queue
      /\ Cached(c) \in SUBSET Key /\ IsFiniteSet(Cached(c))
      /\ c.data \in [Cached(c) -> Sizes]
      /\ c.p \in 0 .. MaxBytes /\ c.used \in Nat /\ c.evicted \in Seq(Key)
      /\ Cached(c) = c.t1.set \cup c.t2.set
      /\ c.t1.set \cap c.t2.set = {}
      /\ c.used = Total(c.data)
      /\ Cardinality(c.b1.set) <= MaxGhosts /\ Cardinality(c.b2.set) <= MaxGhosts
  BY GoodIs
<1>2. FromT1(c) => c.t1.set # {}
  <2>1. ASSUME FromT1(c), c.t1.set = {} PROVE FALSE
    <3>1. Cardinality(c.t1.set) = 0 /\ c.p \in Nat
      BY <1>1, <2>1, FS_EmptySet, ArcAssumption
    <3>2. c.t2.set = {}
      BY <2>1, <3>1 DEF FromT1
    <3> QED
      BY <1>1, <2>1, <3>2
  <2> QED
    BY <2>1
<1>3. ~FromT1(c) => c.t2.set # {}
  BY DEF FromT1
<1>4. /\ FromT1(c) => k = front(c.t1) /\ k \in c.t1.set
      /\ ~FromT1(c) => k = front(c.t2) /\ k \in c.t2.set
  BY <1>1, <1>2, <1>3, PopIs DEF Victim
<1>5. k \in Cached(c) /\ k \in Key /\ k # NoKey
  BY <1>1, <1>4, ArcAssumption
<1> HIDE DEF k
<1> DEFINE data == Without(c.data, k)
           used == c.used - c.data[k]
           evicted == Append(c.evicted, k)
<1>6. /\ data \in [Cached(c) \ {k} -> Sizes]
      /\ c.data[k] \in Nat /\ Total(data) \in Nat
      /\ used \in Nat /\ used <= c.used /\ used = Total(data)
  <2> DEFINE d == c.data
             S == Cached(c)
  <2>1. S \in SUBSET Key /\ IsFiniteSet(S) /\ d \in [S -> Sizes] /\ k \in S /\ c.used = Total(d)
    BY <1>1, <1>5
  <2> HIDE DEF d, S
  <2>2. /\ Without(d, k) \in [S \ {k} -> Sizes]
        /\ d[k] \in Nat /\ Total(d) \in Nat /\ Total(Without(d, k)) \in Nat
        /\ Total(d) = Total(Without(d, k)) + d[k]
    BY <2>1, WithoutIs
  <2>3. Total(d) - d[k] \in Nat /\ Total(d) - d[k] <= Total(d) /\ Total(d) - d[k] = Total(Without(d, k))
    BY <2>2
  <2> QED
    BY <2>1, <2>2, <2>3 DEF d, S
<1>7. evicted \in Seq(Key) /\ data \in Data
  BY <1>1, <1>5, <1>6 DEF Data
<1> DEFINE cut == [c EXCEPT !.data = data, !.used = used, !.evicted = evicted]
<1> HIDE DEF data, used, evicted
<1>8. /\ cut \in CacheType
      /\ cut.t1 = c.t1 /\ cut.t2 = c.t2 /\ cut.b1 = c.b1 /\ cut.b2 = c.b2
      /\ cut.data = data /\ cut.p = c.p /\ cut.used = used /\ cut.evicted = evicted
  <2> HIDE DEF cut
  <2>1. cut = [c EXCEPT !.data = data, !.used = used, !.evicted = evicted]
    BY DEF cut
  <2>2. c \in CacheType /\ data \in Data /\ used \in Nat /\ evicted \in Seq(Key)
    BY <1>1, <1>6, <1>7
  <2> QED
    BY <2>1, <2>2 DEF CacheType
<1> HIDE DEF cut
<1>9. /\ FromT1(c) => r = [cut EXCEPT !.t1 = pop_front(cut.t1),
                                      !.b1 = truncate_to(push_back(cut.b1, k), MaxGhosts)]
      /\ ~FromT1(c) => r = [cut EXCEPT !.t2 = pop_front(cut.t2),
                                       !.b2 = truncate_to(push_back(cut.b2, k), MaxGhosts)]
  BY <1>5, Zenon DEF evict_one, Reported, k, cut, data, used, evicted
<1> HIDE DEF r
<1>10. ASSUME r.data = data, r.used = used, r.evicted = evicted, r \in Good
       PROVE  /\ Cached(r) = Cached(c) \ {k}
              /\ r.used <= c.used
              /\ r.evicted = Append(c.evicted, k)
              /\ \A x \in Cached(c) \ {k} : r.data[x] = c.data[x]
  BY <1>6, <1>10 DEF Cached, evicted, data, Without
<1>11. CASE FromT1(c)
  <2> DEFINE t == pop_front(cut.t1)
             b == truncate_to(push_back(cut.b1, k), MaxGhosts)
  <2>1. r = [cut EXCEPT !.t1 = t, !.b1 = b]
    BY <1>9, <1>11
  <2>2. t \in Queue /\ t.set = c.t1.set \ {k}
    BY <1>1, <1>4, <1>8, <1>11, PopIs
  <2>3. b \in Queue /\ Cardinality(b.set) <= MaxGhosts
    BY <1>1, <1>5, <1>8, PushIs, TruncateIs, ArcAssumption
  <2> HIDE DEF t, b
  <2>4. /\ r \in CacheType
        /\ r.t1 = t /\ r.t2 = c.t2
        /\ Cardinality(r.b1.set) <= MaxGhosts /\ Cardinality(r.b2.set) <= MaxGhosts
        /\ r.data = data /\ r.used = used /\ r.evicted = evicted
    <3>1. /\ r \in CacheType /\ r.t1 = t /\ r.b1 = b
          /\ r.t2 = cut.t2 /\ r.b2 = cut.b2
          /\ r.data = cut.data /\ r.used = cut.used /\ r.evicted = cut.evicted
      <4>1. cut \in CacheType
        BY <1>8
      <4> QED
        BY <2>1, <2>2, <2>3, <4>1 DEF CacheType
    <3> QED
      BY <1>1, <1>8, <2>3, <3>1
  <2>5. Cached(r) = Cached(c) \ {k}
    BY <1>6, <2>4 DEF Cached
  <2>6. /\ Cached(r) = r.t1.set \cup r.t2.set
        /\ r.t1.set \cap r.t2.set = {}
    BY <1>1, <1>4, <1>11, <2>2, <2>4, <2>5
  <2>7. r \in Good
    BY <1>6, <2>4, <2>6 DEF Good
  <2> QED
    BY <1>5, <1>10, <2>4, <2>7 DEF r, k
<1>12. CASE ~FromT1(c)
  <2> DEFINE t == pop_front(cut.t2)
             b == truncate_to(push_back(cut.b2, k), MaxGhosts)
  <2>1. r = [cut EXCEPT !.t2 = t, !.b2 = b]
    BY <1>9, <1>12
  <2>2. t \in Queue /\ t.set = c.t2.set \ {k}
    BY <1>1, <1>4, <1>8, <1>12, PopIs
  <2>3. b \in Queue /\ Cardinality(b.set) <= MaxGhosts
    BY <1>1, <1>5, <1>8, PushIs, TruncateIs, ArcAssumption
  <2> HIDE DEF t, b
  <2>4. /\ r \in CacheType
        /\ r.t2 = t /\ r.t1 = c.t1
        /\ Cardinality(r.b1.set) <= MaxGhosts /\ Cardinality(r.b2.set) <= MaxGhosts
        /\ r.data = data /\ r.used = used /\ r.evicted = evicted
    <3>1. /\ r \in CacheType /\ r.t2 = t /\ r.b2 = b
          /\ r.t1 = cut.t1 /\ r.b1 = cut.b1
          /\ r.data = cut.data /\ r.used = cut.used /\ r.evicted = cut.evicted
      <4>1. cut \in CacheType
        BY <1>8
      <4> QED
        BY <2>1, <2>2, <2>3, <4>1 DEF CacheType
    <3> QED
      BY <1>1, <1>8, <2>3, <3>1
  <2>5. Cached(r) = Cached(c) \ {k}
    BY <1>6, <2>4 DEF Cached
  <2>6. /\ Cached(r) = r.t1.set \cup r.t2.set
        /\ r.t1.set \cap r.t2.set = {}
    BY <1>1, <1>4, <1>12, <2>2, <2>4, <2>5
  <2>7. r \in Good
    BY <1>6, <2>4, <2>6 DEF Good
  <2> QED
    BY <1>5, <1>10, <2>4, <2>7 DEF r, k
<1> QED
  BY <1>11, <1>12

-----------------------------------------------------------------------------
(***************************************************************************)
(* The eviction loop.                                                      *)
(***************************************************************************)
\* One round of it.
Round(x, size) == IF Cached(x) # {} /\ Crowded(x, size) THEN evict_one(x) ELSE x

\* A round of the eviction loop leaves a good cache.
LEMMA RoundIs ==
  ASSUME NEW c \in Good, NEW size
  PROVE  Round(c, size) \in Good
BY EvictIs DEF Round

\* n rounds of it, as make_room folds them.
Looped(c, size, n) ==
  FoldLeft(LAMBDA x, i : IF Cached(x) # {} /\ Crowded(x, size) THEN evict_one(x) ELSE x,
           c, [i \in 1 .. n |-> i])

\* The caches the loop goes through.
LoopOf(m, c, size, n) ==
  /\ m[0] = c
  /\ \A k \in 1 .. n : m[k] = Round(m[k - 1], size)
  /\ Looped(c, size, n) = m[n]

\* make_room's loop goes through some caches, the last of which it returns.
LEMMA RoomRounds ==
  ASSUME NEW size
  PROVE  \A c \in Good : \A n \in Nat : \E m \in [0 .. n -> Good] : LoopOf(m, c, size, n)
<1> SUFFICES ASSUME NEW c \in Good, NEW n \in Nat
             PROVE  \E m \in [0 .. n -> Good] : LoopOf(m, c, size, n)
  OBVIOUS
<1> DEFINE D == [q \in Good \X (1 .. n) |-> Round(q[1], size)]
           Rec(h) == h = [t \in SUBSET (1 .. n) |->
                            IF t = {} THEN c ELSE Round(h[t \ {Max(t)}], size)]
           h == CHOOSE g : Rec(g)
<1>1. D \in [Good \X (1 .. n) -> Good]
  BY RoundIs
<1>2. PICK g \in [SUBSET (1 .. n) -> Good] : IsFold(g, n, c, D)
  <2> HIDE DEF D
  <2> QED
    BY <1>1, FoldDefined, Zenon
<1>3. Rec(g)
  <2>1. ASSUME NEW t \in SUBSET (1 .. n), t # {}
        PROVE  D[<<g[t \ {Max(t)}], Max(t)>>] = Round(g[t \ {Max(t)}], size)
    <3>1. Max(t) \in 1 .. n /\ g[t \ {Max(t)}] \in Good
      BY <2>1, MaxIn
    <3> QED
      BY <3>1
  <2> HIDE DEF D
  <2> QED
    BY <1>2, <2>1 DEF IsFold
<1>4. Rec(h)
  BY <1>3, Zenon
<1>5. Looped(c, size, n) = h[1 .. n]
  BY DEF Looped, FoldLeft, MapThenFoldSet, Round
<1>6. h[{}] = c
  BY <1>4
<1>7. ASSUME NEW t \in SUBSET (1 .. n), t # {}, h[t \ {Max(t)}] \in Good
      PROVE  h[t] = D[<<h[t \ {Max(t)}], Max(t)>>]
  <2>1. Max(t) \in 1 .. n
    BY <1>7, MaxIn
  <2>2. D[<<h[t \ {Max(t)}], Max(t)>>] = Round(h[t \ {Max(t)}], size)
    <3> HIDE DEF h
    <3> QED
      BY <1>7, <2>1
  <2> HIDE DEF h, D
  <2> QED
    BY <1>4, <1>7, <2>2
<1> HIDE DEF h
<1>8. PICK m \in [0 .. n -> Good] : IsRounds(m, h, n, c, D)
  <2>1. IsFoldIn(h, n, Good, c, D)
    BY <1>6, <1>7 DEF IsFoldIn
  <2> HIDE DEF D
  <2> QED
    BY <1>1, <2>1, FoldRounds, Zenon
<1>9. ASSUME NEW k \in 1 .. n PROVE m[k] = Round(m[k - 1], size)
  <2>1. k - 1 \in 0 .. n
    OBVIOUS
  <2>2. m[k - 1] \in Good
    BY <2>1
  <2>3. D[<<m[k - 1], k>>] = Round(m[k - 1], size)
    BY <2>2
  <2> QED
    BY <1>8, <2>3 DEF IsRounds
<1>10. m[0] = c /\ h[1 .. n] = m[n]
  BY <1>8 DEF IsRounds
<1> QED
  BY <1>5, <1>9, <1>10 DEF LoopOf

\* r is c after some evictions: what has gone is in the report.
Shed(c, r) ==
  /\ Cached(r) \subseteq Cached(c)
  /\ Len(r.evicted) >= Len(c.evicted)
  /\ \A k \in Cached(r) : r.data[k] = c.data[k]
  /\ \A k \in Cached(c) \ Cached(r) :
       \E j \in (Len(c.evicted) + 1) .. Len(r.evicted) : r.evicted[j] = k

\* The first eviction since c.
First(c, r) ==
  Len(r.evicted) >= Len(c.evicted) + 1 /\ r.evicted[Len(c.evicted) + 1] = Victim(c)

\* One more eviction: its victim joins what has gone and been reported.
LEMMA ShedMore ==
  ASSUME NEW c \in Good, NEW a \in Good, Shed(c, a), Cached(a) # {}
  PROVE  /\ Shed(c, evict_one(a))
         /\ First(c, a) => First(c, evict_one(a))
         /\ a = c => First(c, evict_one(a))
         /\ Cardinality(Cached(evict_one(a))) = Cardinality(Cached(a)) - 1
<1> DEFINE b == evict_one(a)
           v == Victim(a)
<1>1. /\ b \in Good /\ v \in Cached(a)
      /\ Cached(b) = Cached(a) \ {v}
      /\ b.evicted = Append(a.evicted, v)
      /\ \A x \in Cached(a) \ {v} : b.data[x] = a.data[x]
  BY EvictIs
<1>2. /\ a.evicted \in Seq(Key) /\ c.evicted \in Seq(Key) /\ IsFiniteSet(Cached(a))
      /\ Cached(a) \in SUBSET Key
  BY GoodIs
<1> HIDE DEF b, v
<1>3. /\ Len(a.evicted) \in Nat /\ Len(c.evicted) \in Nat /\ v \in Key
      /\ Len(b.evicted) = Len(a.evicted) + 1
      /\ b.evicted[Len(a.evicted) + 1] = v
      /\ \A j \in 1 .. Len(a.evicted) : b.evicted[j] = a.evicted[j]
  BY <1>1, <1>2
<1>4. Shed(c, b)
  <2>1. Cached(b) \subseteq Cached(c) /\ Len(b.evicted) >= Len(c.evicted)
    BY <1>1, <1>3 DEF Shed
  <2>3. \A k \in Cached(b) : b.data[k] = c.data[k]
    BY <1>1 DEF Shed
  <2>2. ASSUME NEW k \in Cached(c) \ Cached(b)
        PROVE  \E j \in (Len(c.evicted) + 1) .. Len(b.evicted) : b.evicted[j] = k
    <3>1. CASE k = v
      <4>1. Len(a.evicted) + 1 \in (Len(c.evicted) + 1) .. Len(b.evicted)
        BY <1>3 DEF Shed
      <4> QED
        BY <1>3, <3>1, <4>1
    <3>2. CASE k # v
      <4>1. PICK j \in (Len(c.evicted) + 1) .. Len(a.evicted) : a.evicted[j] = k
        BY <1>1, <3>2 DEF Shed
      <4>2. j \in (Len(c.evicted) + 1) .. Len(b.evicted) /\ j \in 1 .. Len(a.evicted)
        BY <1>3
      <4> QED
        BY <1>3, <4>1, <4>2
    <3> QED
      BY <3>1, <3>2
  <2> QED
    BY <2>1, <2>2, <2>3 DEF Shed
<1>5. First(c, a) => First(c, b)
  <2>1. ASSUME First(c, a) PROVE First(c, b)
    <3>1. Len(c.evicted) + 1 \in 1 .. Len(a.evicted)
      BY <1>3, <2>1 DEF First
    <3> QED
      BY <1>3, <2>1, <3>1 DEF First
  <2> QED
    BY <2>1
<1>6. a = c => First(c, b)
  BY <1>3 DEF First, v
<1>7. Cardinality(Cached(b)) = Cardinality(Cached(a)) - 1
  BY <1>1, <1>2, FS_RemoveElement
<1> QED
  BY <1>4, <1>5, <1>6, <1>7 DEF b

\* The loop ends with room for the newcomer or with nothing left to evict.
LEMMA MakeRoomIs ==
  ASSUME NEW c \in Good, NEW size
  PROVE  LET r == MakeRoom(c, size)
         IN  /\ r \in Good /\ Shed(c, r)
             /\ Cached(r) = {} \/ ~Crowded(r, size)
             /\ IF Cached(c) # {} /\ Crowded(c, size) THEN First(c, r) ELSE r = c
<1> DEFINE n == Cardinality(Cached(c))
           evicts == Cached(c) # {} /\ Crowded(c, size)
<1>1. n \in Nat /\ (n = 0 <=> Cached(c) = {})
  BY GoodIs, FS_CardinalityType, FS_EmptySet
<1> HIDE DEF n
<1>2. PICK m \in [0 .. n -> Good] : LoopOf(m, c, size, n)
  <2>1. \A d \in Good : \A t \in Nat : \E m \in [0 .. t -> Good] : LoopOf(m, d, size, t)
    BY RoomRounds
  <2> HIDE DEF evicts
  <2> QED
    BY <1>1, <2>1
<1>3. MakeRoom(c, size) = m[n]
  BY <1>2 DEF LoopOf, MakeRoom, Looped, n
<1>4. m[0] = c /\ \A k \in 1 .. n : m[k] = Round(m[k - 1], size)
  BY <1>2 DEF LoopOf
<1> DEFINE Done(x) == Cached(x) = {} \/ ~Crowded(x, size)
           T == {k \in 0 .. n :
                   /\ Shed(c, m[k])
                   /\ Done(m[k]) \/ Cardinality(Cached(m[k])) = n - k
                   /\ IF evicts /\ k # 0 THEN First(c, m[k]) ELSE m[k] = c}
<1>5. 0 \in T
  <2>1. Shed(c, c)
    <3>1. Len(c.evicted) \in Nat
      BY GoodIs
    <3> QED
      BY <3>1 DEF Shed
  <2>2. 0 \in 0 .. n /\ Cardinality(Cached(c)) = n - 0
    BY <1>1 DEF n
  <2> QED
    BY <1>4, <2>1, <2>2
<1>6. ASSUME NEW k \in 0 .. (n - 1), k \in T PROVE k + 1 \in T
  <2> DEFINE a == m[k]
             b == m[k + 1]
  <2>1. /\ k \in 0 .. n /\ k + 1 \in 0 .. n /\ k + 1 \in 1 .. n /\ (k + 1) - 1 = k
        /\ k + 1 # 0 /\ n \in Nat /\ k \in Nat
    BY <1>1
  <2>2. a \in Good /\ b = Round(a, size)
    <3>1. m[k + 1] = Round(m[(k + 1) - 1], size)
      BY <1>4, <2>1
    <3> QED
      BY <2>1, <3>1
  <2>3. /\ Shed(c, a)
        /\ Done(a) \/ Cardinality(Cached(a)) = n - k
        /\ IF evicts /\ k # 0 THEN First(c, a) ELSE a = c
    BY <1>6
  <2> HIDE DEF a, b
  <2>4. CASE Done(a)
    <3>1. b = a
      BY <2>2, <2>4 DEF Round
    <3>2. ~(evicts /\ k = 0)
      BY <2>3, <2>4
    <3>3. IF evicts /\ k + 1 # 0 THEN First(c, b) ELSE b = c
      BY <2>1, <2>3, <3>1, <3>2
    <3> QED
      BY <2>1, <2>3, <2>4, <3>1, <3>3 DEF b
  <2>5. CASE ~Done(a)
    <3>1. b = evict_one(a) /\ Cached(a) # {}
      BY <2>2, <2>5 DEF Round
    <3>2. /\ Shed(c, b)
          /\ First(c, a) => First(c, b)
          /\ a = c => First(c, b)
          /\ Cardinality(Cached(b)) = Cardinality(Cached(a)) - 1
      BY <2>2, <2>3, <3>1, ShedMore
    <3>3. evicts
      BY <2>3, <2>5
    <3>4. First(c, b)
      BY <2>3, <3>2
    <3>5. Cardinality(Cached(b)) = n - (k + 1)
      BY <2>1, <2>3, <2>5, <3>2
    <3> QED
      BY <2>1, <3>2, <3>3, <3>4, <3>5 DEF b
  <2> QED
    BY <2>4, <2>5
<1>7. n \in T
  <2> HIDE DEF T
  <2>1. 0 .. n \subseteq T
    BY <1>1, <1>5, <1>6, UpTo
  <2>2. n \in 0 .. n
    BY <1>1
  <2> QED
    BY <2>1, <2>2
<1>8. m[n] \in Good
  BY <1>1
<1>9. Done(m[n])
  <2>1. ASSUME Cardinality(Cached(m[n])) = n - n PROVE Cached(m[n]) = {}
    <3>1. Cardinality(Cached(m[n])) = 0 /\ IsFiniteSet(Cached(m[n]))
      BY <1>1, <1>8, <2>1, GoodIs
    <3> QED
      BY <3>1, FS_EmptySet
  <2> QED
    BY <1>7, <2>1
<1>10. evicts => n # 0
  BY <1>1
<1> QED
  BY <1>3, <1>7, <1>8, <1>9, <1>10

-----------------------------------------------------------------------------
(***************************************************************************)
(* The operations.                                                         *)
(***************************************************************************)
\* A cache that holds what its lists say, and counts it, is good.
LEMMA GoodFrom ==
  ASSUME NEW r \in CacheType, NEW S \in SUBSET Key, r.data \in [S -> Sizes],
         S = r.t1.set \cup r.t2.set, r.t1.set \cap r.t2.set = {},
         r.used = Total(r.data),
         Cardinality(r.b1.set) <= MaxGhosts, Cardinality(r.b2.set) <= MaxGhosts
  PROVE  r \in Good /\ Cached(r) = S
BY DEF Good, Cached

\* A new cache.
LEMMA EmptyIsGood == EmptyCache \in Good
<1> DEFINE d == EmptyCache.data
<1>1. EmptySet \in Queue /\ EmptySet.set = {} /\ Cardinality({}) = 0
  <2>1. <<>> \in Seq(Key)
    OBVIOUS
  <2> QED
    BY <2>1, QueueOf, FS_EmptySet DEF EmptySet
<1>2. d \in [{} -> Sizes] /\ d \in Data
  <2>1. d \in [{} -> Sizes]
    BY DEF EmptyCache
  <2> QED
    BY <2>1 DEF Data
<1>3. Total(d) = 0
  BY TotalEmpty DEF EmptyCache
<1>4. /\ EmptyCache.t1 = EmptySet /\ EmptyCache.t2 = EmptySet
      /\ EmptyCache.b1 = EmptySet /\ EmptyCache.b2 = EmptySet
      /\ EmptyCache.used = 0
  BY DEF EmptyCache
<1>5. EmptyCache \in CacheType
  <2>1. <<>> \in Seq(Key) /\ 0 \in 0 .. MaxBytes /\ 0 \in Nat
    BY ArcAssumption
  <2>2. EmptyCache = [t1 |-> EmptySet, t2 |-> EmptySet, b1 |-> EmptySet, b2 |-> EmptySet,
                      data |-> d, p |-> 0, used |-> 0, evicted |-> <<>>]
    BY DEF EmptyCache
  <2> HIDE DEF d
  <2> QED
    BY <1>1, <1>2, <2>1, <2>2 DEF CacheType
<1> HIDE DEF d
<1>6. /\ EmptyCache.data \in [{} -> Sizes] /\ {} \in SUBSET Key
      /\ EmptyCache.used = Total(EmptyCache.data)
  BY <1>2, <1>3, <1>4 DEF d
<1>7. /\ {} = EmptyCache.t1.set \cup EmptyCache.t2.set
      /\ EmptyCache.t1.set \cap EmptyCache.t2.set = {}
      /\ Cardinality(EmptyCache.b1.set) <= MaxGhosts
      /\ Cardinality(EmptyCache.b2.set) <= MaxGhosts
  BY <1>1, <1>4, ArcAssumption
<1> QED
  BY <1>5, <1>6, <1>7, GoodFrom

\* A second access moves a key from T1 to T2 and nothing else.
LEMMA PromoteIs ==
  ASSUME NEW c \in Good, NEW k \in Key
  PROVE  /\ promote(c, k) \in Good
         /\ Cached(promote(c, k)) = Cached(c)
         /\ promote(c, k).used = c.used
         /\ promote(c, k).evicted = c.evicted
         /\ promote(c, k).data = c.data
<1>1. CASE k \notin c.t1.set
  BY <1>1 DEF promote
<1>2. CASE k \in c.t1.set
  <2> DEFINE r == promote(c, k)
             t1 == remove(c.t1, k)
             t2 == push_back(c.t2, k)
  <2>1. r = [c EXCEPT !.t1 = t1, !.t2 = t2]
    BY <1>2 DEF promote
  <2>2. /\ c \in CacheType
        /\ c.t1 \in Queue /\ c.t2 \in Queue
        /\ Cached(c) \in SUBSET Key /\ c.data \in [Cached(c) -> Sizes]
        /\ Cached(c) = c.t1.set \cup c.t2.set
        /\ c.t1.set \cap c.t2.set = {}
        /\ c.used = Total(c.data)
        /\ Cardinality(c.b1.set) <= MaxGhosts /\ Cardinality(c.b2.set) <= MaxGhosts
    BY GoodIs
  <2>3. t1 \in Queue /\ t1.set = c.t1.set \ {k} /\ t2 \in Queue /\ t2.set = c.t2.set \cup {k}
    BY <2>2, RemoveIs, PushIs
  <2> HIDE DEF r, t1, t2
  <2>4. /\ r \in CacheType /\ r.t1 = t1 /\ r.t2 = t2 /\ r.b1 = c.b1 /\ r.b2 = c.b2
        /\ r.data = c.data /\ r.used = c.used /\ r.evicted = c.evicted
    BY <2>1, <2>2, <2>3 DEF CacheType
  <2>5. /\ Cached(c) = r.t1.set \cup r.t2.set /\ r.t1.set \cap r.t2.set = {}
        /\ r.data \in [Cached(c) -> Sizes] /\ r.used = Total(r.data)
        /\ Cardinality(r.b1.set) <= MaxGhosts /\ Cardinality(r.b2.set) <= MaxGhosts
    BY <1>2, <2>2, <2>3, <2>4
  <2>6. r \in Good /\ Cached(r) = Cached(c)
    BY <2>2, <2>4, <2>5, GoodFrom
  <2> QED
    BY <2>4, <2>6 DEF r
<1> QED
  BY <1>1, <1>2

\* The first half of an update in place: the new value, and the difference.
LEMMA UpdateIs ==
  ASSUME NEW c \in Good, NEW k \in Cached(c), NEW size \in Sizes
  PROVE  LET r == [c EXCEPT !.used = Replaced(c, k, size), !.data = With(c.data, k, size)]
         IN  /\ r \in Good /\ Cached(r) = Cached(c) /\ r.evicted = c.evicted
             /\ r.data = With(c.data, k, size)
<1> DEFINE used == Replaced(c, k, size)
           data == With(c.data, k, size)
           r == [c EXCEPT !.used = used, !.data = data]
<1>1. /\ c \in CacheType
      /\ Cached(c) \in SUBSET Key /\ IsFiniteSet(Cached(c))
      /\ c.data \in [Cached(c) -> Sizes]
      /\ Cached(c) = c.t1.set \cup c.t2.set
      /\ c.t1.set \cap c.t2.set = {}
      /\ c.used = Total(c.data)
      /\ Cardinality(c.b1.set) <= MaxGhosts /\ Cardinality(c.b2.set) <= MaxGhosts
  BY GoodIs
<1>2. data \in [Cached(c) -> Sizes] /\ used \in Nat /\ used = Total(data)
  <2> DEFINE d == c.data
             S == Cached(c)
  <2>1. /\ S \in SUBSET Key /\ IsFiniteSet(S) /\ d \in [S -> Sizes] /\ k \in S /\ k \in Key
        /\ c.used = Total(d) /\ size \in Nat /\ S \cup {k} = S
    BY <1>1, ArcCacheAssumption
  <2> HIDE DEF d, S
  <2>2. /\ d[k] \in Nat /\ Total(d) \in Nat /\ Total(Without(d, k)) \in Nat
        /\ Total(d) = Total(Without(d, k)) + d[k]
    BY <2>1, WithoutIs
  <2>3. With(d, k, size) \in [S -> Sizes] /\ Total(With(d, k, size)) = Total(Without(d, k)) + size
    BY <2>1, WithIs
  <2>4. Minus(Total(d), d[k]) = Total(Without(d, k))
    BY <2>2 DEF Minus
  <2> QED
    BY <2>1, <2>2, <2>3, <2>4 DEF d, S, Replaced
<1>3. data \in Data
  BY <1>1, <1>2 DEF Data
<1> HIDE DEF used, data
<1>4. /\ r \in CacheType /\ r.t1 = c.t1 /\ r.t2 = c.t2 /\ r.b1 = c.b1 /\ r.b2 = c.b2
      /\ r.data = data /\ r.used = used /\ r.evicted = c.evicted
  <2> HIDE DEF r
  <2>1. r = [c EXCEPT !.used = used, !.data = data]
    BY DEF r
  <2> QED
    BY <1>1, <1>2, <1>3, <2>1 DEF CacheType
<1> HIDE DEF r
<1>5. r \in Good /\ Cached(r) = Cached(c)
  BY <1>1, <1>2, <1>4, GoodFrom
<1> QED
  BY <1>4, <1>5 DEF r, used, data

\* An insertion updates an entry, or makes room and admits one.
LEMMA InsertIs ==
  ASSUME NEW c \in Good, NEW k \in Key, NEW size \in Sizes
  PROVE  LET r == insert(c, k, size)
             room == MakeRoom(c, size)
         IN  /\ r \in Good
             /\ IF k \in Cached(c)
                THEN Cached(r) = Cached(c) /\ r.evicted = c.evicted
                ELSE /\ Cached(r) = Cached(room) \cup {k}
                     /\ r.used = room.used + size
                     /\ r.evicted = room.evicted
             /\ r.data = With(IF k \in Cached(c) THEN c.data ELSE room.data, k, size)
<1> DEFINE r == insert(c, k, size)
           room == MakeRoom(c, size)
<1>1. CASE k \in Cached(c)
  <2> DEFINE u == [c EXCEPT !.used = Replaced(c, k, size), !.data = With(c.data, k, size)]
  <2>1. r = promote(u, k)
    BY <1>1 DEF insert
  <2>2. /\ u \in Good /\ Cached(u) = Cached(c) /\ u.evicted = c.evicted
        /\ u.data = With(c.data, k, size)
    BY <1>1, UpdateIs
  <2> HIDE DEF r, u
  <2>3. /\ r \in Good /\ Cached(r) = Cached(c) /\ r.evicted = c.evicted
        /\ r.data = With(c.data, k, size)
    BY <2>1, <2>2, PromoteIs
  <2> QED
    BY <1>1, <2>3 DEF r
<1>2. CASE k \notin Cached(c)
  <2> DEFINE used == room.used + size
             data == With(room.data, k, size)
             new == [room EXCEPT !.used = used, !.data = data]
             t1 == push_back(new.t1, k)
             S == Cached(room) \cup {k}
  <2>1. room \in Good /\ Cached(room) \subseteq Cached(c)
    BY MakeRoomIs DEF Shed
  <2>2. IF k \in room.t1.set \cup room.t2.set THEN r = new
        ELSE r = [new EXCEPT !.t1 = t1]
    BY <1>2 DEF insert
  <2> HIDE DEF r, room
  <2>3. /\ room \in CacheType
        /\ room.t1 \in Queue /\ room.t2 \in Queue
        /\ Cached(room) \in SUBSET Key /\ IsFiniteSet(Cached(room))
        /\ room.data \in [Cached(room) -> Sizes] /\ room.used \in Nat
        /\ Cached(room) = room.t1.set \cup room.t2.set
        /\ room.t1.set \cap room.t2.set = {}
        /\ room.used = Total(room.data)
        /\ Cardinality(room.b1.set) <= MaxGhosts /\ Cardinality(room.b2.set) <= MaxGhosts
    BY <2>1, GoodIs
  <2>4. k \notin Cached(room)
    BY <1>2, <2>1
  <2>5. data \in [S -> Sizes] /\ used \in Nat /\ used = Total(data) /\ S \in SUBSET Key
    <3> DEFINE d == room.data
               R == Cached(room)
    <3>1. /\ R \in SUBSET Key /\ IsFiniteSet(R) /\ d \in [R -> Sizes] /\ k \notin R
          /\ room.used = Total(d) /\ room.used \in Nat /\ size \in Nat
      BY <2>3, <2>4, ArcCacheAssumption
    <3> HIDE DEF d, R
    <3>2. With(d, k, size) \in [R \cup {k} -> Sizes] /\ Total(With(d, k, size)) = Total(d) + size
      BY <3>1, AdmitIs
    <3> QED
      BY <3>1, <3>2 DEF d, R
  <2>6. data \in Data
    BY <2>5 DEF Data
  <2> HIDE DEF used, data, S
  <2>7. /\ new \in CacheType
        /\ new.t1 = room.t1 /\ new.t2 = room.t2 /\ new.b1 = room.b1 /\ new.b2 = room.b2
        /\ new.data = data /\ new.used = used /\ new.evicted = room.evicted
    <3> HIDE DEF new
    <3>1. new = [room EXCEPT !.used = used, !.data = data]
      BY DEF new
    <3> QED
      BY <2>3, <2>5, <2>6, <3>1 DEF CacheType
  <2> HIDE DEF new
  <2>8. t1 \in Queue /\ t1.set = room.t1.set \cup {k}
    BY <2>3, <2>7, PushIs
  <2>9. r = [new EXCEPT !.t1 = t1]
    BY <2>2, <2>3, <2>4
  <2> HIDE DEF t1
  <2>10. /\ r \in CacheType /\ r.t1 = t1 /\ r.t2 = room.t2
         /\ r.b1 = room.b1 /\ r.b2 = room.b2
         /\ r.data = data /\ r.used = used /\ r.evicted = room.evicted
    <3>1. /\ r \in CacheType /\ r.t1 = t1 /\ r.t2 = new.t2
          /\ r.b1 = new.b1 /\ r.b2 = new.b2
          /\ r.data = new.data /\ r.used = new.used /\ r.evicted = new.evicted
      BY <2>7, <2>8, <2>9 DEF CacheType
    <3> QED
      BY <2>7, <3>1
  <2>11. /\ S = r.t1.set \cup r.t2.set /\ r.t1.set \cap r.t2.set = {}
         /\ r.data \in [S -> Sizes] /\ r.used = Total(r.data)
         /\ Cardinality(r.b1.set) <= MaxGhosts /\ Cardinality(r.b2.set) <= MaxGhosts
    BY <2>3, <2>4, <2>5, <2>8, <2>10 DEF S
  <2>12. r \in Good /\ Cached(r) = S
    BY <2>5, <2>10, <2>11, GoodFrom
  <2> QED
    BY <1>2, <2>10, <2>12 DEF r, S, used, data, room
<1> QED
  BY <1>1, <1>2

\* A lookup promotes a hit, and moves the target of T1 on a ghost within the
\* limit.
LEMMA GetIs ==
  ASSUME NEW c \in Good, NEW k \in Key
  PROVE  /\ get(c, k) \in Good
         /\ Cached(get(c, k)) = Cached(c)
         /\ get(c, k).used = c.used /\ get(c, k).data = c.data
<1>1. /\ c \in CacheType /\ c.p \in 0 .. MaxBytes
      /\ Cached(c) \in SUBSET Key
      /\ c.data \in [Cached(c) -> Sizes]
      /\ Cached(c) = c.t1.set \cup c.t2.set
      /\ c.t1.set \cap c.t2.set = {}
      /\ c.used = Total(c.data)
      /\ Cardinality(c.b1.set) <= MaxGhosts /\ Cardinality(c.b2.set) <= MaxGhosts
  BY GoodIs
<1>2. ASSUME NEW p \in 0 .. MaxBytes, NEW r, r = [c EXCEPT !.p = p]
      PROVE  r \in Good /\ Cached(r) = Cached(c) /\ r.used = c.used /\ r.data = c.data
  <2>1. /\ r \in CacheType /\ r.t1 = c.t1 /\ r.t2 = c.t2 /\ r.b1 = c.b1 /\ r.b2 = c.b2
        /\ r.data = c.data /\ r.used = c.used
    BY <1>1, <1>2 DEF CacheType
  <2> QED
    BY <1>1, <2>1, GoodFrom
<1>3. CASE k \in Cached(c)
  BY <1>3, PromoteIs DEF get
<1>4. CASE k \notin Cached(c) /\ k \in c.b1.set
  <2>1. (IF c.p + 1 < MaxBytes THEN c.p + 1 ELSE MaxBytes) \in 0 .. MaxBytes
    BY <1>1, ArcAssumption
  <2>2. get(c, k) = [c EXCEPT !.p = IF c.p + 1 < MaxBytes THEN c.p + 1 ELSE MaxBytes]
    BY <1>4 DEF get
  <2> QED
    BY <1>2, <2>1, <2>2
<1>5. CASE k \notin Cached(c) /\ k \notin c.b1.set /\ k \in c.b2.set
  <2>1. Minus(c.p, 1) \in 0 .. MaxBytes
    BY <1>1, ArcAssumption DEF Minus
  <2>2. get(c, k) = [c EXCEPT !.p = Minus(c.p, 1)]
    BY <1>5 DEF get
  <2> QED
    BY <1>2, <2>1, <2>2
<1>6. CASE k \notin Cached(c) /\ k \notin c.b1.set /\ k \notin c.b2.set
  BY <1>6 DEF get
<1> QED
  BY <1>3, <1>4, <1>5, <1>6

\* A removal takes out one entry and its size.
LEMMA RemoveKeyIs ==
  ASSUME NEW c \in Good, NEW k \in Key
  PROVE  /\ remove_key(c, k) \in Good /\ Cached(remove_key(c, k)) = Cached(c) \ {k}
         /\ \A x \in Cached(c) \ {k} : remove_key(c, k).data[x] = c.data[x]
<1>1. CASE k \notin Cached(c)
  BY <1>1 DEF remove_key
<1>2. CASE k \in Cached(c)
  <2> DEFINE r == remove_key(c, k)
             used == Minus(c.used, c.data[k])
             data == Without(c.data, k)
             t1 == remove(c.t1, k)
             t2 == remove(c.t2, k)
             S == Cached(c) \ {k}
  <2>1. r = [c EXCEPT !.used = used, !.data = data, !.t1 = t1, !.t2 = t2]
    BY <1>2 DEF remove_key
  <2>2. /\ c \in CacheType
        /\ c.t1 \in Queue /\ c.t2 \in Queue
        /\ Cached(c) \in SUBSET Key /\ IsFiniteSet(Cached(c))
        /\ c.data \in [Cached(c) -> Sizes]
        /\ Cached(c) = c.t1.set \cup c.t2.set
        /\ c.t1.set \cap c.t2.set = {}
        /\ c.used = Total(c.data)
        /\ Cardinality(c.b1.set) <= MaxGhosts /\ Cardinality(c.b2.set) <= MaxGhosts
    BY GoodIs
  <2>3. /\ t1 \in Queue /\ t1.set = c.t1.set \ {k}
        /\ t2 \in Queue /\ t2.set = c.t2.set \ {k}
    BY <2>2, RemoveIs
  <2>4. data \in [S -> Sizes] /\ used \in Nat /\ used = Total(data) /\ S \in SUBSET Key
    <3> DEFINE d == c.data
               R == Cached(c)
    <3>1. R \in SUBSET Key /\ IsFiniteSet(R) /\ d \in [R -> Sizes] /\ k \in R /\ c.used = Total(d)
      BY <1>2, <2>2
    <3> HIDE DEF d, R
    <3>2. /\ Without(d, k) \in [R \ {k} -> Sizes]
          /\ d[k] \in Nat /\ Total(d) \in Nat /\ Total(Without(d, k)) \in Nat
          /\ Total(d) = Total(Without(d, k)) + d[k]
      BY <3>1, WithoutIs
    <3>3. Minus(Total(d), d[k]) = Total(Without(d, k))
      BY <3>2 DEF Minus
    <3> QED
      BY <3>1, <3>2, <3>3 DEF d, R
  <2>5. data \in Data
    BY <2>4 DEF Data
  <2> HIDE DEF r, used, data, t1, t2, S
  <2>6. /\ r \in CacheType /\ r.t1 = t1 /\ r.t2 = t2 /\ r.b1 = c.b1 /\ r.b2 = c.b2
        /\ r.data = data /\ r.used = used
    BY <2>1, <2>2, <2>3, <2>4, <2>5 DEF CacheType
  <2>7. /\ S = r.t1.set \cup r.t2.set /\ r.t1.set \cap r.t2.set = {}
        /\ r.data \in [S -> Sizes] /\ r.used = Total(r.data)
        /\ Cardinality(r.b1.set) <= MaxGhosts /\ Cardinality(r.b2.set) <= MaxGhosts
    BY <2>2, <2>3, <2>4, <2>6 DEF S
  <2>8. r \in Good /\ Cached(r) = S
    BY <2>4, <2>6, <2>7, GoodFrom
  <2> QED
    BY <2>6, <2>8 DEF r, S, data, Without, Cached
<1> QED
  BY <1>1, <1>2

\* A drain empties the report and nothing else.
LEMMA DrainIs ==
  ASSUME NEW c \in Good
  PROVE  /\ drain_evicted(c) \in Good /\ Cached(drain_evicted(c)) = Cached(c)
         /\ drain_evicted(c).data = c.data
<1>1. /\ c \in CacheType
      /\ Cached(c) \in SUBSET Key
      /\ c.data \in [Cached(c) -> Sizes]
      /\ Cached(c) = c.t1.set \cup c.t2.set
      /\ c.t1.set \cap c.t2.set = {}
      /\ c.used = Total(c.data)
      /\ Cardinality(c.b1.set) <= MaxGhosts /\ Cardinality(c.b2.set) <= MaxGhosts
  BY GoodIs
<1>2. ASSUME NEW q \in Seq(Key), NEW r, r = [c EXCEPT !.evicted = q]
      PROVE  r \in Good /\ Cached(r) = Cached(c) /\ r.data = c.data
  <2>1. /\ r \in CacheType /\ r.t1 = c.t1 /\ r.t2 = c.t2 /\ r.b1 = c.b1 /\ r.b2 = c.b2
        /\ r.data = c.data /\ r.used = c.used
    BY <1>1, <1>2 DEF CacheType
  <2> QED
    BY <1>1, <2>1, GoodFrom
<1>3. <<>> \in Seq(Key)
  OBVIOUS
<1> QED
  BY <1>2, <1>3 DEF drain_evicted

-----------------------------------------------------------------------------
(***************************************************************************)
(* The invariant.                                                          *)
(***************************************************************************)
\* Every call leaves a good cache.
LEMMA Step ==
  ASSUME IInv, [Next]_cache
  PROVE  IInv'
<1>1. CASE UNCHANGED cache
  BY <1>1 DEF IInv
<1>2. ASSUME NEW k \in Key, NEW size \in Sizes, Insert(k, size) PROVE IInv'
  BY <1>2, InsertIs DEF IInv, Insert
<1>3. ASSUME NEW k \in Key, Get(k) PROVE IInv'
  BY <1>3, GetIs DEF IInv, Get
<1>4. ASSUME NEW k \in Key, RemoveEntry(k) PROVE IInv'
  BY <1>4, RemoveKeyIs DEF IInv, RemoveEntry
<1>5. CASE DrainEvicted
  BY <1>5, DrainIs DEF IInv, DrainEvicted
<1> QED
  BY <1>1, <1>2, <1>3, <1>4, <1>5 DEF Next

\* The invariant of the cache, under any sequence of its calls.
THEOREM Inductive == Spec => []IInv
<1>1. Init => IInv
  BY EmptyIsGood DEF Init, IInv
<1>2. IInv /\ [Next]_cache => IInv'
  BY Step
<1> QED
  BY <1>1, <1>2, PTL DEF Spec

\* The ghost lists stay within their cap and p within the range get() clamps
\* it to (cache/mod.rs:176).
THEOREM TypeCorrect == Spec => []TypeOK
<1>1. IInv => TypeOK
  <2> SUFFICES ASSUME IInv PROVE TypeOK
    OBVIOUS
  <2>1. /\ cache.t1 \in Queue /\ cache.t2 \in Queue /\ cache.b1 \in Queue /\ cache.b2 \in Queue
        /\ Cached(cache) \in SUBSET Key /\ cache.data \in [Cached(cache) -> Sizes]
        /\ cache.p \in 0 .. MaxBytes /\ cache.used \in Nat /\ cache.evicted \in Seq(Key)
        /\ Cardinality(cache.b1.set) <= MaxGhosts /\ Cardinality(cache.b2.set) <= MaxGhosts
    BY GoodIs DEF IInv
  <2>2. \A o \in Queue : o.order \in Seq(Key) /\ o.set \subseteq Key
    BY DEF Queue
  <2>3. \A o \in OrderedSets : o.order \in Seq(Key) /\ o.set \subseteq Key
    BY <2>1, <2>2 DEF OrderedSets
  <2>4. \A k \in Cached(cache) : cache.data[k] \in Sizes
    BY <2>1
  <2> QED
    BY <2>1, <2>3, <2>4 DEF TypeOK
<1> QED
  BY <1>1, Inductive, PTL

\* The eviction loop of insert() always finds what it needs (cache/mod.rs:140).
THEOREM Evictable == Spec => []EveryEntryEvictable
<1>1. IInv => EveryEntryEvictable
  <2> SUFFICES ASSUME IInv PROVE EveryEntryEvictable
    OBVIOUS
  <2>1. /\ cache.t1 \in Queue /\ cache.t2 \in Queue /\ cache.b1 \in Queue /\ cache.b2 \in Queue
        /\ Cached(cache) = cache.t1.set \cup cache.t2.set
        /\ cache.t1.set \cap cache.t2.set = {}
    BY GoodIs DEF IInv
  <2>2. \A o \in Queue : o.set \subseteq Range(o.order)
    BY DEF Queue
  <2>3. \A o \in OrderedSets : o.set \subseteq Range(o.order)
    BY <2>1, <2>2 DEF OrderedSets
  <2> QED
    BY <2>1, <2>3 DEF EveryEntryEvictable
<1> QED
  BY <1>1, Inductive, PTL

\* used_bytes never drifts from what is stored (cache/mod.rs:115).
THEOREM UsedExact == Spec => []UsedIsSum
<1>1. IInv => UsedIsSum
  <2> SUFFICES ASSUME IInv PROVE UsedIsSum
    OBVIOUS
  <2>1. cache.used = Total(cache.data)
    BY GoodIs DEF IInv
  <2> QED
    BY <2>1 DEF UsedIsSum, Total, Cached
<1> QED
  BY <1>1, Inductive, PTL

\* The preview an owner saves an entry by names the entry that goes
\* (cache/mod.rs:194).
THEOREM PeekExact == Spec => []PeekIsNextVictim
<1>1. IInv => PeekIsNextVictim
  <2> SUFFICES ASSUME IInv, NEW k \in Key \ Cached(cache), NEW size \in Sizes \ {0},
                      cache.used >= MaxBytes
               PROVE  FirstEvicted(k, size) = peek_eviction_candidate(cache)
    BY DEF PeekIsNextVictim
  <2> DEFINE room == MakeRoom(cache, size)
  <2>1. cache \in Good /\ cache.used \in Nat /\ size \in Nat \ {0} /\ MaxBytes \in Nat
    BY GoodIs, ArcAssumption, ArcCacheAssumption DEF IInv
  <2>2. insert(cache, k, size).evicted = room.evicted
    BY <2>1, InsertIs
  <2>3. Crowded(cache, size)
    BY <2>1 DEF Crowded
  <2>4. peek_eviction_candidate(cache) = Victim(cache)
    BY <2>1 DEF peek_eviction_candidate
  <2>5. /\ Cached(cache) # {} => First(cache, room)
        /\ Cached(cache) = {} => room = cache
    BY <2>1, <2>3, MakeRoomIs
  <2> HIDE DEF room
  <2>6. CASE Cached(cache) # {}
    BY <2>2, <2>4, <2>5, <2>6 DEF FirstEvicted, First
  <2>7. CASE Cached(cache) = {}
    <3>1. Len(cache.evicted) \in Nat
      BY <2>1, GoodIs
    <3>2. FirstEvicted(k, size) = NoKey
      BY <2>2, <2>5, <2>7, <3>1 DEF FirstEvicted
    <3>3. Victim(cache) = NoKey
      <4>1. /\ cache.t1 \in Queue /\ cache.t2 \in Queue
            /\ cache.t1.set = {} /\ cache.t2.set = {}
        BY <2>1, <2>7, GoodIs
      <4> QED
        BY <4>1, PopIs DEF Victim
    <3> QED
      BY <2>4, <3>2, <3>3
  <2> QED
    BY <2>6, <2>7
<1> QED
  BY <1>1, Inductive, PTL

\* What leaves the cache by itself is in the report its owner drains
\* (cache/mod.rs:90).
THEOREM NothingSilent == Spec => NoSilentEviction
<1> DEFINE Gone(k) == \/ cache' = remove_key(cache, k)
                      \/ k \in Range(SubSeq(cache'.evicted, Len(cache.evicted) + 1,
                                            Len(cache'.evicted)))
<1>1. ASSUME IInv, [Next]_cache, NEW k \in Cached(cache) \ Cached(cache') PROVE Gone(k)
  <2>1. cache \in Good /\ IInv'
    BY <1>1, Step DEF IInv
  <2>2. ASSUME NEW x \in Key, NEW size \in Sizes, Insert(x, size) PROVE Gone(k)
    <3> DEFINE room == MakeRoom(cache, size)
    <3>1. /\ x \notin Cached(cache)
          /\ Cached(cache') = Cached(room) \cup {x}
          /\ cache'.evicted = room.evicted
      BY <1>1, <2>1, <2>2, InsertIs DEF Insert
    <3>2. Shed(cache, room) /\ room \in Good
      BY <2>1, MakeRoomIs
    <3> HIDE DEF room
    <3>3. k \in Cached(cache) \ Cached(room)
      BY <1>1, <3>1
    <3>4. PICK j \in (Len(cache.evicted) + 1) .. Len(room.evicted) : room.evicted[j] = k
      BY <3>2, <3>3 DEF Shed
    <3> DEFINE s == room.evicted
               a == Len(cache.evicted)
    <3>5. s \in Seq(Key) /\ a \in Nat /\ a <= Len(s)
      BY <2>1, <3>2, GoodIs DEF Shed
    <3> HIDE DEF s, a
    <3> DEFINE t == SubSeq(s, a + 1, Len(s))
    <3>6. /\ DOMAIN t = 1 .. (Len(s) - a)
          /\ \A i \in 1 .. (Len(s) - a) : t[i] = s[a + i]
      BY <3>5
    <3>7. j - a \in 1 .. (Len(s) - a) /\ a + (j - a) = j
      BY <3>4, <3>5 DEF s, a
    <3> HIDE DEF t
    <3>8. t[j - a] = k
      BY <3>4, <3>6, <3>7 DEF s
    <3>9. k \in Range(t)
      BY <3>6, <3>7, <3>8 DEF Range
    <3> QED
      BY <3>1, <3>9 DEF t, s, a
  <2>3. ASSUME NEW x \in Key, Get(x) PROVE Gone(k)
    BY <1>1, <2>1, <2>3, GetIs DEF Get
  <2>4. ASSUME NEW x \in Key, RemoveEntry(x) PROVE Gone(k)
    <3>1. cache' = remove_key(cache, x) /\ x = k
      BY <1>1, <2>1, <2>4, RemoveKeyIs DEF RemoveEntry
    <3> QED
      BY <3>1
  <2>5. CASE DrainEvicted
    BY <1>1, <2>1, <2>5, DrainIs DEF DrainEvicted
  <2>6. CASE UNCHANGED cache
    BY <1>1, <2>6
  <2> QED
    BY <1>1, <2>2, <2>3, <2>4, <2>5, <2>6 DEF Next
<1>2. ASSUME IInv, [Next]_cache
      PROVE  [\A k \in Cached(cache) \ Cached(cache') : Gone(k)]_cache
  BY <1>1, <1>2
<1> QED
  BY <1>2, Inductive, PTL DEF Spec, NoSilentEviction

\* A new key is admitted within the limit, or is all the cache holds
\* (cache/mod.rs:140).
THEOREM WithinCeiling == Spec => AdmissionRespectsCeiling
<1> DEFINE Fits(k) == cache'.used <= MaxBytes \/ Cached(cache') = {k}
<1>1. ASSUME IInv, [Next]_cache, NEW k \in Cached(cache') \ Cached(cache) PROVE Fits(k)
  <2>1. cache \in Good
    BY <1>1 DEF IInv
  <2>2. ASSUME NEW x \in Key, NEW size \in Sizes, Insert(x, size) PROVE Fits(k)
    <3> DEFINE room == MakeRoom(cache, size)
    <3>1. /\ Cached(cache') = Cached(room) \cup {x}
          /\ cache'.used = room.used + size
      BY <1>1, <2>1, <2>2, InsertIs DEF Insert
    <3>2. /\ Cached(room) = {} \/ ~Crowded(room, size)
          /\ Cached(room) \subseteq Cached(cache)
          /\ room \in Good
      BY <2>1, MakeRoomIs DEF Shed
    <3> HIDE DEF room
    <3>3. k = x
      BY <1>1, <3>1, <3>2
    <3>4. CASE Cached(room) = {}
      BY <3>1, <3>3, <3>4
    <3>5. CASE ~Crowded(room, size)
      <4>1. room.used \in Nat /\ size \in Nat /\ MaxBytes \in Nat
        BY <3>2, GoodIs, ArcAssumption, ArcCacheAssumption
      <4> QED
        BY <3>1, <3>5, <4>1 DEF Crowded
    <3> QED
      BY <3>2, <3>4, <3>5
  <2>3. ASSUME NEW x \in Key, Get(x) PROVE Fits(k)
    BY <1>1, <2>1, <2>3, GetIs DEF Get
  <2>4. ASSUME NEW x \in Key, RemoveEntry(x) PROVE Fits(k)
    BY <1>1, <2>1, <2>4, RemoveKeyIs DEF RemoveEntry
  <2>5. CASE DrainEvicted
    BY <1>1, <2>1, <2>5, DrainIs DEF DrainEvicted
  <2>6. CASE UNCHANGED cache
    BY <1>1, <2>6
  <2> QED
    BY <1>1, <2>2, <2>3, <2>4, <2>5, <2>6 DEF Next
<1>2. ASSUME IInv, [Next]_cache
      PROVE  [\A k \in Cached(cache') \ Cached(cache) : Fits(k)]_cache
  BY <1>1, <1>2
<1> QED
  BY <1>2, Inductive, PTL DEF Spec, AdmissionRespectsCeiling
=============================================================================
