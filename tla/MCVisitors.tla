----------------------------- MODULE MCVisitors -----------------------------
(***************************************************************************)
(* Instances of Visitors for TLC: one form, or one slot.                   *)
(***************************************************************************)
EXTENDS Visitors, TLC

CONSTANTS f1, b1, b2, blank, words, c1, c2, c3, acme, other

Arrivals == Permutations(Copies) \cup Permutations(Bookers)
=============================================================================
