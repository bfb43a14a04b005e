----------------------------- MODULE MCBuilder -----------------------------
(***************************************************************************)
(* Instances of Builder for TLC.                                           *)
(***************************************************************************)
EXTENDS Builder, TLC

\* The saves under way are interchangeable.
Symmetric == Permutations(InFlight)
=============================================================================
