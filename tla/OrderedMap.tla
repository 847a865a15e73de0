----------------------------- MODULE OrderedMap -----------------------------
(***************************************************************************)
(* What the B+ tree of fs/btree.rs promises: a map from keys to values.    *)
(***************************************************************************)
CONSTANTS Keys, Values

VARIABLE entries   \* the map

Init == entries = <<>>

insert(k, v) ==
  entries' = [x \in DOMAIN entries \cup {k} |-> IF x = k THEN v ELSE entries[x]]

remove(k) == entries' = [x \in DOMAIN entries \ {k} |-> entries[x]]

Next == \E k \in Keys : remove(k) \/ \E v \in Values : insert(k, v)

Spec == Init /\ [][Next]_entries
=============================================================================
