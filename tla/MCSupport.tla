----------------------------- MODULE MCSupport ------------------------------
(***************************************************************************)
(* Instances of Support for TLC: operators who each have one browser.      *)
(***************************************************************************)
EXTENDS Support, TLC

CONSTANTS owner, staff, second, acme, home, desk, third, e1, e2, q1, l1, m1

OneEach == [b \in Browsers |-> IF b = home THEN owner ELSE IF b = desk THEN staff ELSE second]
Visits == Permutations(Entries)
=============================================================================
