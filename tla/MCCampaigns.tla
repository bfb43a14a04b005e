---------------------------- MODULE MCCampaigns ----------------------------
(***************************************************************************)
(* Instances of Campaigns for TLC.                                         *)
(***************************************************************************)
EXTENDS Campaigns, TLC

CONSTANTS r1, r2, r3, m1, m2

\* Two submissions of one member, and one of another: a double-click and a colleague.
TwoOfOneMember == (r1 :> m1) @@ (r2 :> m1) @@ (r3 :> m2)

\* A member who submits twice, and a stranger who holds the link.
DoubleClickAndStranger == (r1 :> m1) @@ (r2 :> m1) @@ (r3 :> None)

\* A member and a stranger who holds the link.
MemberAndStranger == (r1 :> m1) @@ (r2 :> None)

\* Nobody answers.
Nobody == [r \in {} |-> None]
=============================================================================
