------------------------------ MODULE MCUnits ------------------------------
(***************************************************************************)
(* Instances of Units for TLC.                                             *)
(***************************************************************************)
EXTENDS Units, TLC

CONSTANTS root, u1, u2, u3

\* The units other than the root that exist at the start are interchangeable.
Symmetric == Permutations(Initial \ {Root})
=============================================================================
