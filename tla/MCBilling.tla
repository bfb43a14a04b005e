----------------------------- MODULE MCBilling -----------------------------
(***************************************************************************)
(* Instances of Billing for TLC.                                           *)
(***************************************************************************)
EXTENDS Billing, TLC

\* Requests are interchangeable, and so are the Enterprise requests.
Symmetric == Permutations(PlanRequests) \cup Permutations(Asks)
=============================================================================
