----------------------------- MODULE MCImprove -----------------------------
(***************************************************************************)
(* Instances of Improve for TLC: two campaigns, the first about two        *)
(* subjects in two units.  The reader and the supervisor reach everything, *)
(* so they may ask for whatever a narrower reach would let them ask for.   *)
(***************************************************************************)
EXTENDS Improve, TLC

CONSTANTS c1, c2, s1, s2, unit, other, ann, bob, r1, p1, p2, k1, x, y

Pairs == [c \in Campaigns |-> IF c = c1 THEN {s1, s2} ELSE {s1}]
Flat == [u \in Units |-> {u}]
OneEach == [cell \in Cells |-> 1]
Homes == [s \in Subjects |-> IF s = s1 THEN unit ELSE other]
NoUnit == [r \in Readers |-> {}]
Linked == [s \in Subjects |-> IF s = s2 THEN ann ELSE None]
NoUnits == [w \in People |-> {}]

\* A read other than of a gap shares nothing with the loop: it is followed only while nobody
\* has reflected yet, and a gap through all of it.
Apart ==
  \/ \A r \in Readers : read[r].stage = "idle" \/ gapOf[r].who # None
  \/ (\A p \in Requests : req[p] = Idle) /\ (\A cell \in Cells : ~Reflected(cell))

Interchangeable == Permutations(Texts) \cup Permutations(Requests)
=============================================================================
