------------------------------- MODULE BTree -------------------------------
(***************************************************************************)
(* The B+ tree of fs/btree.rs that indexes the entries of all directories. *)
(* A key is a directory's inode number and a name; names are numbered in   *)
(* their order.  Values sit in the leaves, an internal node separates its  *)
(* children by keys.  A removal never joins nodes: leaves may be empty and *)
(* separators may be keys that are gone.                                   *)
(***************************************************************************)
EXTENDS Integers, Sequences, FiniteSets, SequencesExt

CONSTANTS
  Dirs,      \* directories, by inode number
  Names,     \* names, from 1 on
  LastName,  \* the name that dir_end takes for the last one
  Values,
  ORDER      \* a node with this many keys is split

VARIABLES
  root,   \* a node: keys, and the values of a leaf or an inner node's children
  size    \* entries

vars == <<root, size>>

Keys == Dirs \X Names

Less(a, b) == a[1] < b[1] \/ (a[1] = b[1] /\ a[2] < b[2])
AtMost(a, b) == a = b \/ Less(a, b)

dir_start(d) == <<d, 0>>
dir_end(d) == <<d, LastName>>

Leaf(keys, vals) == [keys |-> keys, vals |-> vals, children |-> <<>>]
Internal(keys, children) == [keys |-> keys, vals |-> <<>>, children |-> children]
IsLeaf(n) == n.children = <<>>

\* Where k is in a leaf, or would be; and the child to look for k in.
LeafPos(n, k) == Cardinality({j \in DOMAIN n.keys : Less(n.keys[j], k)}) + 1

\* Mutant: a key equal to a separator is looked for on its left.
ChildLeftOf(n, k) == LeafPos(n, k)
ChildOf(n, k) == Cardinality({j \in DOMAIN n.keys : AtMost(n.keys[j], k)}) + 1

IsAt(n, k, pos) == pos <= Len(n.keys) /\ n.keys[pos] = k

RECURSIVE LeafFor(_, _)
LeafFor(n, k) == IF IsLeaf(n) THEN n ELSE LeafFor(n.children[ChildOf(n, k)], k)

Has(n, k) == IsAt(LeafFor(n, k), k, LeafPos(LeafFor(n, k), k))
Get(n, k) == LET leaf == LeafFor(n, k) IN leaf.vals[LeafPos(leaf, k)]

-----------------------------------------------------------------------------
(***************************************************************************)
(* An insertion returns the node it leaves, or the two it was split into   *)
(* with the key that separates them.                                       *)
(***************************************************************************)
Single(n) == [nodes |-> <<n>>, promoted |-> <<>>]

SplitNode(n, mid) ==
  [nodes |-> <<Internal(SubSeq(n.keys, 1, mid), SubSeq(n.children, 1, mid + 1)),
               Internal(SubSeq(n.keys, mid + 2, Len(n.keys)),
                        SubSeq(n.children, mid + 2, Len(n.children)))>>,
   promoted |-> <<n.keys[mid + 1]>>]

SplitLeaf(n, mid) ==
  [nodes |-> <<Leaf(SubSeq(n.keys, 1, mid), SubSeq(n.vals, 1, mid)),
               Leaf(SubSeq(n.keys, mid + 1, Len(n.keys)),
                    SubSeq(n.vals, mid + 1, Len(n.vals)))>>,
   promoted |-> <<n.keys[mid + 1]>>]

Split(n) ==
  LET mid == Len(n.keys) \div 2
  IN  IF Len(n.keys) < ORDER THEN Single(n)
      ELSE IF IsLeaf(n) THEN SplitLeaf(n, mid) ELSE SplitNode(n, mid)

InsertLeaf(n, k, v) ==
  LET pos == LeafPos(n, k)
  IN  IF IsAt(n, k, pos) THEN Single([n EXCEPT !.vals[pos] = v])
      ELSE Split(Leaf(InsertAt(n.keys, pos, k), InsertAt(n.vals, pos, v)))

\* The inner node n with child pos replaced by the outcome r of an insertion.
Adopt(n, pos, r) ==
  Split(Internal(SubSeq(n.keys, 1, pos - 1) \o r.promoted \o SubSeq(n.keys, pos, Len(n.keys)),
                 SubSeq(n.children, 1, pos - 1) \o r.nodes
                   \o SubSeq(n.children, pos + 1, Len(n.children))))

RECURSIVE InsertNode(_, _, _)
InsertNode(n, k, v) ==
  IF IsLeaf(n) THEN InsertLeaf(n, k, v)
  ELSE Adopt(n, ChildOf(n, k), InsertNode(n.children[ChildOf(n, k)], k, v))

RECURSIVE RemoveNode(_, _)
RemoveNode(n, k) ==
  LET pos == LeafPos(n, k)
  IN  IF ~IsLeaf(n) THEN [n EXCEPT !.children[ChildOf(n, k)] = RemoveNode(@, k)]
      ELSE IF IsAt(n, k, pos) THEN Leaf(RemoveAt(n.keys, pos), RemoveAt(n.vals, pos))
      ELSE n

-----------------------------------------------------------------------------
(***************************************************************************)
(* Scans, as sequences of keys.                                            *)
(***************************************************************************)
RECURSIVE collect_all(_)
collect_all(n) ==
  IF IsLeaf(n) THEN n.keys ELSE FlattenSeq([j \in DOMAIN n.children |-> collect_all(n.children[j])])

\* Mutant: a child is left out when the separator on its right is the first key
\* wanted.
OverlapsWithin(n, j, start, end) ==
  /\ j = 1 \/ AtMost(n.keys[j - 1], end)
  /\ j > Len(n.keys) \/ Less(dir_end(start[1]), n.keys[j])
Overlaps(n, j, start, end) ==
  /\ j = 1 \/ AtMost(n.keys[j - 1], end)
  /\ j > Len(n.keys) \/ AtMost(start, n.keys[j])

RECURSIVE collect_range(_, _, _)
collect_range(n, start, end) ==
  IF IsLeaf(n) THEN SelectSeq(n.keys, LAMBDA k : AtMost(start, k) /\ AtMost(k, end))
  ELSE FlattenSeq([j \in DOMAIN n.children |->
         IF Overlaps(n, j, start, end) THEN collect_range(n.children[j], start, end) ELSE <<>>])

list_all == collect_all(root)
list_dir(d) == collect_range(root, dir_start(d), dir_end(d))

-----------------------------------------------------------------------------
Init == root = Leaf(<<>>, <<>>) /\ size = 0

\* A root that was split gets a root above it.
insert(k, v) ==
  LET r == InsertNode(root, k, v)
  IN  /\ root' = IF Len(r.nodes) = 1 THEN r.nodes[1] ELSE Internal(r.promoted, r.nodes)
      /\ size' = IF Has(root, k) THEN size ELSE size + 1

remove(k) ==
  /\ root' = RemoveNode(root, k)
  /\ size' = IF Has(root, k) THEN size - 1 ELSE size

Next == \E k \in Keys : remove(k) \/ \E v \in Values : insert(k, v)

Spec == Init /\ [][Next]_vars

-----------------------------------------------------------------------------
(***************************************************************************)
(* Properties.                                                             *)
(***************************************************************************)
RECURSIVE Height(_)
Height(n) == IF IsLeaf(n) THEN 1 ELSE 1 + Height(n.children[1])

RECURSIVE Pairs(_)
Pairs(n) == IF IsLeaf(n) THEN {<<n.keys[j], n.vals[j]>> : j \in DOMAIN n.keys}
            ELSE UNION {Pairs(n.children[j]) : j \in DOMAIN n.children}

\* What the leaves hold, wherever it is.
Entries ==
  [k \in {p[1] : p \in Pairs(root)} |-> (CHOOSE p \in Pairs(root) : p[1] = k)[2]]

\* Every node's size is bounded, and all leaves are on one level.
RECURSIVE WellShaped(_)
WellShaped(n) ==
  /\ Len(n.keys) < ORDER
  /\ IF IsLeaf(n) THEN Len(n.vals) = Len(n.keys)
     ELSE /\ Len(n.children) = Len(n.keys) + 1
          /\ \A j \in DOMAIN n.children :
               WellShaped(n.children[j]) /\ Height(n.children[j]) = Height(n.children[1])

\* Searching from the root, scanning a directory by its two sentinel keys and
\* walking all leaves agree with each other and with the count of entries, in
\* ascending order, through all splits and removals, which leave a balanced tree
\* of bounded nodes (btree.rs:315 "Returns entries sorted by name (the B+ tree
\* ordering guarantee)").
LookupsAgree ==
  /\ WellShaped(root)
  /\ \A k \in Keys : Has(root, k) <=> k \in DOMAIN Entries
  /\ \A k \in DOMAIN Entries : Get(root, k) = Entries[k]
  /\ \A j \in 1 .. (Len(list_all) - 1) : Less(list_all[j], list_all[j + 1])
  /\ Len(list_all) = size /\ Range(list_all) = DOMAIN Entries
  /\ \A d \in Dirs : list_dir(d) = SelectSeq(list_all, LAMBDA k : k[1] = d)

Map == INSTANCE OrderedMap WITH entries <- Entries

\* Every change of the tree is the change the map promises for the same key and
\* value, and nothing else (btree.rs:274 "Insert (or update) a file/directory
\* entry", btree.rs:296).
ImplementsMap ==
  /\ Map!Spec
  /\ [][\E k \in Keys : \/ remove(k) /\ Map!remove(k)
                        \/ \E v \in Values : insert(k, v) /\ Map!insert(k, v)]_vars
=============================================================================
