------------------------------ MODULE MCRoster ------------------------------
(***************************************************************************)
(* Instances of Roster for TLC: a school with two sections, its founder,   *)
(* who may do everything, the head of one section, and a newcomer.         *)
(***************************************************************************)
EXTENDS Roster

CONSTANTS school, north, south, founder, head, newcomer, Admin, Head, Aide, Extra, p1, p2, p3, p4, p5, p6, p7

Below == [u \in Units |-> IF u = school THEN Units ELSE {u}]

Allow(r, c, s) == [role |-> r, capability |-> c, scope |-> s, effect |-> "allow"]
Deny(r, c, s) == [role |-> r, capability |-> c, scope |-> s, effect |-> "deny"]
Clear(r, c) == [role |-> r, capability |-> c, scope |-> None, effect |-> "allow"]

AdminDoes == {"assignment.create", "assignment.delete", "grant.update", "person.create",
              "person.delete", "person.import", "results.read", "role.create", "role.delete"}

\* The administrator everywhere, the head on their own section.
Grid ==
  {Allow(Admin, c, "all") : c \in AdminDoes}
  \cup {Allow(Head, "assignment.create", "subtree"), Allow(Head, "results.read", "own_unit"),
        Allow(Aide, "results.read", "own_unit"), Deny(Aide, "assignment.create", "own_unit")}

Posts0 == {[person |-> founder, role |-> Admin, unit |-> school],
           [person |-> head, role |-> Head, unit |-> north]}

\* One save, which hands the power to edit the grid to a role for its own unit only.
Handover == {{Clear(Admin, "grant.update"), Allow(Aide, "grant.update", "own_unit")}}

\* Saves that give it, if at all, over the whole organisation.
Swaps ==
  {{Clear(Admin, "grant.update"), Allow(Head, "grant.update", "all")},
   {Clear(Admin, "grant.update")},
   {Clear(Head, "grant.update")}}

Saves0 ==
  Handover \cup Swaps \cup
  {{Allow(Aide, "assignment.create", "subtree"), Allow(Aide, "grant.update", "own_unit")}}

ByHead(P) == [p \in Procs |-> IF p \in P THEN head ELSE founder]
HeadAssigns == ByHead(Assigners)
=============================================================================
