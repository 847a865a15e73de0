----------------------------- MODULE MCArcCache -----------------------------
(***************************************************************************)
(* ArcCache with three keys.  A value may be empty, fit, or be larger than *)
(* the cache, so that one insertion evicts up to two others.               *)
(***************************************************************************)
EXTENDS ArcCache, TLC

CONSTANTS k1, k2, k3

Keys == {k1, k2, k3}
AnyKey == Permutations(Keys)
=============================================================================
