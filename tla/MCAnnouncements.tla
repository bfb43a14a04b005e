-------------------------- MODULE MCAnnouncements --------------------------
(***************************************************************************)
(* Instances of Announcements for TLC: two members of staff, one of them   *)
(* in the only unit, and the account of an operator.                       *)
(***************************************************************************)
EXTENDS Announcements, TLC

CONSTANTS ann, bob, operator, unit, e1, p1, p2, d1, m1, m2

InUnit == [r \in Rules |-> {ann}]
Reader == [m \in Readers |-> IF m = m1 THEN ann ELSE bob]
Twins == Permutations(Publishers)
=============================================================================
