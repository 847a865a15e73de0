------------------------------- MODULE Layers -------------------------------
(***************************************************************************)
(* Two layers under the handlers, beside each other: what is where on      *)
(* disk, which is Store, and the names, which is Namespace.                *)
(***************************************************************************)
EXTENDS Store

\* See Namespace.
CONSTANTS NameIno, Slot, NameKept, Blank, Sidecar, TagBase, Virtual, Lost, NameCalls

VARIABLE ns

NS == INSTANCE Namespace WITH
  Ino <- NameIno, Kept <- NameKept, Excuse <- Lost, MaxCalls <- NameCalls

ASSUME NamesAssumption == NS!Setting

\* See Namespace: the index and the table of files describe one tree.
NamesAgree == NS!NamesAgree
=============================================================================
