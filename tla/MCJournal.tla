----------------------------- MODULE MCJournal -----------------------------
(***************************************************************************)
(* Journal on a small disk: two locations, and an extent that covers both. *)
(* Two inode writes leave the journal short of the checkpoint with four of *)
(* its six slots used, so that a location is logged twice, and too full    *)
(* for the extent, so that log_data_write_all's error is met.  Three        *)
(* crashes can leave five dead entries, so that a commit meets a full      *)
(* journal.                                                                *)
(***************************************************************************)
EXTENDS Journal

CONSTANTS a, b

MCLoc == {a, b}
MCVal == {0, 1}
MCExtents == {<<a, b>>}
=============================================================================
