------------------------------ MODULE ArcCache ------------------------------
(***************************************************************************)
(* The ARC cache on its own (cache/mod.rs), under any sequence of calls of *)
(* its interface.                                                          *)
(***************************************************************************)
EXTENDS Arc

CONSTANTS
  Sizes,      \* sizes of the values inserted
  MaxQueue,   \* bound: length of a queue, tombstones included
  MaxReport   \* bound: evictions between two drains

ASSUME ArcCacheAssumption == Sizes \subseteq Nat

VARIABLE cache

Init == cache = EmptyCache

\* The queues keep their tombstones until a pop passes them: nothing but these
\* bounds limits their length.
WithinBounds ==
  /\ Len(cache'.t1.order) <= MaxQueue
  /\ Len(cache'.t2.order) <= MaxQueue
  /\ Len(cache'.evicted) <= MaxReport

Insert(k, size) == cache' = insert(cache, k, size) /\ WithinBounds
Get(k) == cache' = get(cache, k) /\ WithinBounds
RemoveEntry(k) == cache' = remove_key(cache, k)
DrainEvicted == cache' = drain_evicted(cache)

Next ==
  \/ \E k \in Key : (\E size \in Sizes : Insert(k, size)) \/ Get(k) \/ RemoveEntry(k)
  \/ DrainEvicted

Spec == Init /\ [][Next]_cache

-----------------------------------------------------------------------------
OrderedSets == {cache.t1, cache.t2, cache.b1, cache.b2}

\* The ghost lists stay within their cap, and p within the range get() clamps
\* it to.
TypeOK ==
  /\ \A o \in OrderedSets : o.order \in Seq(Key) /\ o.set \subseteq Key
  /\ Cached(cache) \subseteq Key
  /\ \A k \in Cached(cache) : cache.data[k] \in Sizes
  /\ Cardinality(cache.b1.set) <= MaxGhosts
  /\ Cardinality(cache.b2.set) <= MaxGhosts
  /\ cache.p \in 0 .. MaxBytes
  /\ cache.used \in Nat
  /\ cache.evicted \in Seq(Key)

\* Whatever is cached is in exactly one of T1 and T2, and has a place in its
\* queue that a pop will reach: otherwise insert()'s eviction loop would find
\* nothing to evict and never end (cache/mod.rs:140).
EveryEntryEvictable ==
  /\ Cached(cache) = cache.t1.set \cup cache.t2.set
  /\ cache.t1.set \cap cache.t2.set = {}
  /\ \A o \in OrderedSets : o.set \subseteq Range(o.order)

\* used_bytes is what the cached values add up to, through updates in place,
\* evictions and removals (saturating_sub never hides a difference).
UsedIsSum ==
  cache.used = FoldSet(LAMBDA k, sum : sum + cache.data[k], 0, Cached(cache))

\* What inserting k evicts first, or NoKey.
FirstEvicted(k, size) ==
  LET report == insert(cache, k, size).evicted
      next == Len(cache.evicted) + 1
  IN  IF Len(report) >= next THEN report[next] ELSE NoKey

\* At or above its limit the cache names, before an insertion, the very entry
\* the insertion evicts first (cache/mod.rs:194 "Peek at which key *would* be
\* evicted next").
PeekIsNextVictim ==
  \A k \in Key \ Cached(cache), size \in Sizes \ {0} :
    cache.used >= MaxBytes => FirstEvicted(k, size) = peek_eviction_candidate(cache)

\* What an insertion or a lookup drops from the cache it reports
\* (cache/mod.rs:90 "evicted keys since last drain").
NoSilentEviction ==
  [][\A k \in Cached(cache) \ Cached(cache') :
       \/ cache' = remove_key(cache, k)
       \/ k \in Range(SubSeq(cache'.evicted, Len(cache.evicted) + 1, Len(cache'.evicted)))]_cache

\* A new key is admitted within the limit, or alone.
AdmissionRespectsCeiling ==
  [][\A k \in Cached(cache') \ Cached(cache) :
       cache'.used <= MaxBytes \/ Cached(cache') = {k}]_cache

\* The cache never holds more than its limit (cache/mod.rs:4 "Hard memory
\* ceiling -- never exceeds what you give it").
HardCeiling == cache.used <= MaxBytes
=============================================================================
