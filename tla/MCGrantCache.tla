---------------------------- MODULE MCGrantCache ----------------------------
(***************************************************************************)
(* Instances of GrantCache for TLC.                                        *)
(***************************************************************************)
EXTENDS GrantCache, TLC

\* Requests for decisions are interchangeable.
Symmetric == Permutations(Readers)
=============================================================================
