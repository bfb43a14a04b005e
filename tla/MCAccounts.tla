----------------------------- MODULE MCAccounts -----------------------------
(***************************************************************************)
(* Instances of Accounts for TLC: two administrators who can both sign in, *)
(* and a newcomer who cannot yet.                                          *)
(***************************************************************************)
EXTENDS Accounts, TLC

CONSTANTS ann, bob, new, p1, p2, r1, r2, a1, a2, l1, d1

\* Of two requests of a kind, each administrator sends one.
Senders == [p \in Provisioners \cup Revokers \cup Leavers |-> IF p \in {p2, r2} THEN bob ELSE ann]
Devices == Permutations(Activators)
=============================================================================
