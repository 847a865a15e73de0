---------------------------- MODULE AtomicStore ----------------------------
(***************************************************************************)
(* What the write-ahead journal promises its client: a store of disk       *)
(* locations in which a transaction takes effect completely, at one        *)
(* instant, or not at all.  A crash is not visible: it can only abandon    *)
(* the transaction in progress.                                            *)
(***************************************************************************)
EXTENDS Naturals, Sequences

CONSTANTS Loc,      \* disk locations (an inode record, a chunk of file data)
          Val,      \* what a location can hold
          Requests  \* the transactions a client can ask for

VARIABLES store,    \* the contents a reader sees after the next mount
          pending   \* the writes of the transaction in progress, or <<>>

vars == <<store, pending>>

\* The store after the writes ws, a sequence of [loc, val] records.
Overwrite(f, ws) ==
  [l \in Loc |-> IF \E k \in DOMAIN ws : ws[k].loc = l
                 THEN ws[CHOOSE k \in DOMAIN ws : ws[k].loc = l].val
                 ELSE f[l]]

Init == store \in [Loc -> Val] /\ pending = <<>>

Begin(ws) == pending = <<>> /\ pending' = ws /\ UNCHANGED store

Commit == pending # <<>> /\ store' = Overwrite(store, pending) /\ pending' = <<>>

Abandon == pending # <<>> /\ pending' = <<>> /\ UNCHANGED store

Next == (\E ws \in Requests : Begin(ws)) \/ Commit \/ Abandon

Spec == Init /\ [][Next]_vars
=============================================================================
