-------------------------------- MODULE Arc --------------------------------
(***************************************************************************)
(* The data structure of cache/mod.rs: ordered sets with lazily removed    *)
(* entries, and the cache record built from four of them.  An operation of *)
(* the code is an operator from a cache to the cache it leaves.  What is   *)
(* cached is known here by its size.                                       *)
(***************************************************************************)
EXTENDS Integers, Sequences, FiniteSets, SequencesExt, FiniteSetsExt

CONSTANTS
  Key,        \* what the cache is indexed by (inode numbers)
  NoKey,      \* Option::None, for a key
  MaxBytes,   \* max_bytes
  MaxGhosts   \* the cap on each ghost list (1000)

ASSUME ArcAssumption == MaxBytes \in Nat /\ MaxGhosts \in Nat /\ NoKey \notin Key

-----------------------------------------------------------------------------
(***************************************************************************)
(* OrderedSet: a queue of keys and the set of those that are in it.  A key *)
(* of the queue that is not in the set is a tombstone.                     *)
(***************************************************************************)
EmptySet == [order |-> <<>>, set |-> {}]

push_back(o, k) ==
  IF k \in o.set THEN o ELSE [order |-> Append(o.order, k), set |-> o.set \cup {k}]

\* The first key of the queue that is no tombstone, or NoKey.
front(o) ==
  LET live == {i \in DOMAIN o.order : o.order[i] \in o.set}
  IN  IF live = {} THEN NoKey ELSE o.order[Min(live)]

\* pop_front drops the tombstones it meets, and the key it returns.
pop_front(o) ==
  LET live == {i \in DOMAIN o.order : o.order[i] \in o.set}
  IN  IF live = {} THEN [o EXCEPT !.order = <<>>]
      ELSE [order |-> SubSeq(o.order, Min(live) + 1, Len(o.order)),
            set   |-> o.set \ {o.order[Min(live)]}]

remove(o, k) == [o EXCEPT !.set = @ \ {k}]

\* Mutant: one ghost too many.
truncate_one_more(o, max) == IF Cardinality(o.set) > max + 1 THEN pop_front(o) ELSE o
truncate_to(o, max) ==
  FoldLeft(LAMBDA x, i : pop_front(x), o, [i \in 1 .. (Cardinality(o.set) - max) |-> i])

-----------------------------------------------------------------------------
(***************************************************************************)
(* ArcCache.  data maps the cached keys to the size of their values.       *)
(***************************************************************************)
EmptyCache ==
  [t1 |-> EmptySet, t2 |-> EmptySet, b1 |-> EmptySet, b2 |-> EmptySet,
   data |-> <<>>, p |-> 0, used |-> 0, evicted |-> <<>>]

Cached(c) == DOMAIN c.data

\* saturating_sub
Minus(m, n) == IF m > n THEN m - n ELSE 0

Without(f, k) == [x \in DOMAIN f \ {k} |-> f[x]]
With(f, k, v) == [x \in DOMAIN f \cup {k} |-> IF x = k THEN v ELSE f[x]]

\* Mutant: the key joins T2 and stays in T1.
promote_keep(c, k) ==
  IF k \in c.t1.set THEN [c EXCEPT !.t2 = push_back(@, k)] ELSE c
promote(c, k) ==
  IF k \in c.t1.set THEN [c EXCEPT !.t1 = remove(@, k), !.t2 = push_back(@, k)] ELSE c

\* Which list gives up an entry.
FromT1(c) == Cardinality(c.t1.set) > c.p \/ c.t2.set = {}

\* What evict_one takes, or NoKey.
Victim(c) == IF FromT1(c) THEN front(c.t1) ELSE front(c.t2)

\* Mutant: a full cache is taken for one with room, as > for >=.
PeekWhenOver(c) == IF c.used <= MaxBytes THEN NoKey ELSE Victim(c)
peek_eviction_candidate(c) == IF c.used < MaxBytes THEN NoKey ELSE Victim(c)

\* Mutant: the evicted key is not reported.
Unreported(c, k) == c.evicted
Reported(c, k) == Append(c.evicted, k)

\* The cache without the victim k, which list it came from decided.
evict_one(c) ==
  LET k   == Victim(c)
      cut == [c EXCEPT !.data = Without(@, k),
                       !.used = @ - (IF k \in Cached(c) THEN c.data[k] ELSE 0),
                       !.evicted = Reported(c, k)]
  IN  IF k = NoKey THEN c
      ELSE IF FromT1(c)
           THEN [cut EXCEPT !.t1 = pop_front(@),
                            !.b1 = truncate_to(push_back(@, k), MaxGhosts)]
           ELSE [cut EXCEPT !.t2 = pop_front(@),
                            !.b2 = truncate_to(push_back(@, k), MaxGhosts)]

\* Mutant: room is made for what is there, not for what comes.
CrowdedAlready(c, size) == c.used > MaxBytes
Crowded(c, size) == c.used + size > MaxBytes

\* The eviction loop: at most as many rounds as there are entries.
MakeRoom(c, size) ==
  FoldLeft(LAMBDA x, i : IF Cached(x) # {} /\ Crowded(x, size) THEN evict_one(x) ELSE x,
           c, [i \in 1 .. Cardinality(Cached(c)) |-> i])

\* Mutant: the old size of an entry stays in the count.
ReplacedTwice(c, k, size) == c.used + size
Replaced(c, k, size) == Minus(c.used, c.data[k]) + size

insert(c, k, size) ==
  IF k \in Cached(c)
  THEN promote([c EXCEPT !.used = Replaced(c, k, size), !.data = With(@, k, size)], k)
  ELSE LET r == MakeRoom(c, size)
           in == [r EXCEPT !.used = @ + size, !.data = With(@, k, size)]
       IN  IF k \in r.t1.set \cup r.t2.set THEN in
           ELSE [in EXCEPT !.t1 = push_back(@, k)]

\* A miss on a ghost moves the target size of T1.
get(c, k) ==
  IF k \in Cached(c) THEN promote(c, k)
  ELSE IF k \in c.b1.set
       THEN [c EXCEPT !.p = IF @ + 1 < MaxBytes THEN @ + 1 ELSE MaxBytes]
       ELSE IF k \in c.b2.set THEN [c EXCEPT !.p = Minus(@, 1)] ELSE c

remove_key(c, k) ==
  IF k \in Cached(c)
  THEN [c EXCEPT !.used = Minus(@, c.data[k]), !.data = Without(@, k),
                 !.t1 = remove(@, k), !.t2 = remove(@, k)]
  ELSE c

drain_evicted(c) == [c EXCEPT !.evicted = <<>>]
=============================================================================
