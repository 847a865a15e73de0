----------------------------- MODULE MCLayers -----------------------------
(***************************************************************************)
(* Three layers under the handlers, each on its own: the B+ tree of names, *)
(* the namespace kept in it, and what is where on disk, which is Store.    *)
(* Which of them moves is chosen at the start.                             *)
(***************************************************************************)
EXTENDS Layers

CONSTANTS MaxNameCalls   \* bound: requests

VARIABLES part, root, size

tree == <<root, size>>
store == <<st, todo>>
layers == <<part, tree, ns, store, mode, calls>>

\* Of the names, 3 is a virtual file's, 4 is read back as 1 and 5 not at all, 6
\* starts with a blank, 7 and 8 are the files of 1's and 2's tags.
ReadBack == <<1, 2, 3, 1, 0, 6, 7, 8>>
RequestsOf == [set \in {1 .. 3, {1, 4}, {1, 5}, {1, 6}, {1, 7, 8}} |->
                 MaxNameCalls - (IF set = 1 .. 3 THEN 0 ELSE IF 7 \in set THEN 2 ELSE 1)]

Tree == INSTANCE BTree WITH
  Dirs <- {1, 2}, Names <- 1 .. 3, LastName <- 4, Values <- {1, 2}, ORDER <- 3

LayersInit ==
  /\ part \in {"tree", "names", "disk"}
  /\ Tree!Init /\ NS!Init /\ Init
  /\ part # "names" => ns = NS!Image(1 .. 3)
  /\ part # "disk" => st = load(Image(0))

LayersNext ==
  \/ part = "tree" /\ Tree!Next /\ UNCHANGED <<part, ns, store, mode, calls>>
  \/ part = "names" /\ NS!Next /\ UNCHANGED <<part, tree, store>>
  \/ part = "disk" /\ Next /\ UNCHANGED <<part, tree, ns>>

LayersSpec == LayersInit /\ [][LayersNext]_layers

-----------------------------------------------------------------------------
\* See BTree: searches, scans and the count of entries agree.
LookupsAgree == part = "tree" => Tree!LookupsAgree

\* See BTree: the tree is the map it promises to be.
ImplementsMap == Tree!ImplementsMap

\* See Namespace: a mount finds the names that the last one left.
NamesSurvive == part = "names" => NS!NamesSurvive

\* See Namespace: a mount, fsck, tree and find see the same in an image.
ReadersAgree == part = "names" => NS!ReadersAgree
=============================================================================
