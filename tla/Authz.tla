------------------------------- MODULE Authz -------------------------------
(***************************************************************************)
(* The permission rules of src/src/backend/authz: the three readings of    *)
(* one person's grants (resolve, visibleUnits, heldCapabilities), and the  *)
(* bound on what a new position may confer (findEscalation).               *)
(*                                                                         *)
(* A candidate grant is [capability, scope, effect, anchor]; anchor is the *)
(* unit it was reached through.  Its dates and parameters are left out:    *)
(* nothing in the code gives a stored grant an end or reads its parameters *)
(* to decide.  Units do not move here (Units is about that), so Subtree is *)
(* what unitSubtree returns.                                               *)
(***************************************************************************)
EXTENDS Naturals

CONSTANTS
  Units,    \* the units of the organisation
  Subtree,  \* Units -> the unit and all below it
  None

ASSUME UnitsAssumption ==
  /\ None \notin Units
  /\ Subtree \in [Units -> SUBSET Units]

Scopes == {"self", "own_unit", "subtree", "all"}
Effects == {"allow", "deny"}
Breadth == [self |-> 0, own_unit |-> 1, subtree |-> 2, all |-> 3]

\* What a question is about: one unit, the whole organisation, or a person.
OfUnit(u) == [unit |-> u, me |-> FALSE]
OfOrg == [unit |-> None, me |-> FALSE]
OfSelf == [unit |-> None, me |-> TRUE]
Targets == {OfUnit(u) : u \in Units} \cup {OfOrg, OfSelf}

-----------------------------------------------------------------------------
scopeCovers(g, target) ==
  \/ g.scope = "all"
  \/ g.scope = "self" /\ target.me
  \/ g.scope = "own_unit" /\ target.unit # None /\ target.unit = g.anchor
  \/ g.scope = "subtree" /\ g.anchor # None /\ target.unit \in Subtree[g.anchor]

Matching(G, capability, effect, target) ==
  {g \in G : g.capability = capability /\ g.effect = effect /\ scopeCovers(g, target)}

\* One deny refuses, whatever else matches; no match refuses too.
resolve(G, capability, target) ==
  CASE Matching(G, capability, "deny", target) # {}           -> "explicit_deny"
    [] /\ Matching(G, capability, "deny", target) = {}
       /\ Matching(G, capability, "allow", target) # {}       -> "granted"
    [] OTHER -> IF \E g \in G : g.capability = capability THEN "out_of_scope" ELSE "no_grant"

May(G, capability, target) == resolve(G, capability, target) = "granted"

-----------------------------------------------------------------------------
Live(G, capability, effect) == {g \in G : g.capability = capability /\ g.effect = effect}
Scoped(G, scope) == \E g \in G : g.scope = scope

\* The units a set of grants names.
unitsOf(G) ==
  {u \in Units : \E g \in G : /\ g.anchor # None
                              /\ \/ g.scope = "own_unit" /\ u = g.anchor
                                 \/ g.scope = "subtree" /\ u \in Subtree[g.anchor]}

Nowhere == [all |-> FALSE, units |-> {}, self |-> FALSE]

\* Mutant: an org-wide allow ignores the units a deny covers.
visibleUnitsAllWins(G, capability) ==
  LET allows == Live(G, capability, "allow")
      denies == Live(G, capability, "deny")
  IN CASE Scoped(denies, "all") -> Nowhere
       [] ~Scoped(denies, "all") /\ Scoped(allows, "all") ->
            [all |-> TRUE, units |-> Units, self |-> TRUE]
       [] OTHER -> [all |-> FALSE, units |-> unitsOf(allows) \ unitsOf(denies),
                    self |-> Scoped(allows, "self") /\ ~Scoped(denies, "self")]

\* Which units a list may show.  When all is set the units are not listed.
visibleUnits(G, capability) ==
  LET allows == Live(G, capability, "allow")
      denies == Live(G, capability, "deny")
  IN CASE Scoped(denies, "all") -> Nowhere
       [] ~Scoped(denies, "all") /\ Scoped(allows, "all") ->
            [all |-> unitsOf(denies) = {}, units |-> Units \ unitsOf(denies), self |-> TRUE]
       [] OTHER -> [all |-> FALSE, units |-> unitsOf(allows) \ unitsOf(denies),
                    self |-> Scoped(allows, "self") /\ ~Scoped(denies, "self")]

seesNothing(seen) == ~seen.all /\ seen.units = {} /\ ~seen.self

\* The screen's hint: some live allow, unless denied everywhere...
held(G, capability) ==
  Live(G, capability, "allow") # {} /\ ~Scoped(Live(G, capability, "deny"), "all")

\* ...with its widest scope (canAtLeast asks whether that is at least a given one).
heldAtLeast(G, capability, scope) ==
  /\ held(G, capability)
  /\ \E g \in Live(G, capability, "allow") : Breadth[g.scope] >= Breadth[scope]

-----------------------------------------------------------------------------
(* A row of a role's grants, [role, capability, scope, effect], placed at  *)
(* a unit.                                                                 *)

Placed(row, u) ==
  [capability |-> row.capability, scope |-> row.scope, effect |-> row.effect, anchor |-> u]

\* findEscalation: G is the caller's; rows are those of the role to be placed at u.
Escalates(G, rows, u) ==
  \E row \in rows :
    /\ row.effect = "allow" /\ row.scope # "self"
    /\ ~visibleUnits(G, row.capability).all
    /\ \/ row.scope = "all"
       \/ ~(unitsOf({Placed(row, u)}) \subseteq visibleUnits(G, row.capability).units)

\* requireNoGrantEscalation: the bound on what one save of the grid may raise.
Overreaches(G, cells) ==
  LET raising == {cell \in cells : cell.effect = "allow" /\ cell.scope # None}
  IN \E cell \in raising :
       LET reach == visibleUnits(G, cell.capability)
           selfOnly == \A c \in raising : c.capability = cell.capability => c.scope = "self"
       IN \/ seesNothing(reach)
          \/ ~reach.all /\ ~selfOnly /\ reach.units # Units

-----------------------------------------------------------------------------
(* The three readings are one rule.  A list shows a unit exactly when a    *)
(* check on that unit passes (visibility.ts, "a list can never disagree    *)
(* with a permission check"); the screen's hint hides nothing a check      *)
(* would allow, on any target, and calls org-wide what is org-wide; and a  *)
(* caller who is turned away from every list may do nothing anywhere.      *)
OneRule(G, capability) ==
  /\ \A u \in Units :
       u \in visibleUnits(G, capability).units <=> May(G, capability, OfUnit(u))
  /\ \A t \in Targets : May(G, capability, t) => held(G, capability)
  /\ May(G, capability, OfOrg) => heldAtLeast(G, capability, "all")
  /\ seesNothing(visibleUnits(G, capability)) =>
       \A t \in Targets : ~May(G, capability, t)
=============================================================================
