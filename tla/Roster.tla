------------------------------- MODULE Roster -------------------------------
(***************************************************************************)
(* Who holds which role where, and what each role may do: the requests of  *)
(* src/src/backend/features/people and features/roles that change it, with *)
(* the guards of authz and middleware in front of them.                    *)
(*                                                                         *)
(* A request is checked on what is committed, then runs one transaction at *)
(* READ COMMITTED: a step finds the rows it will touch, the last one       *)
(* commits.  Every request here ends by writing the organisation's row     *)
(* (bumpVersion), after all its other statements.  Names, the order of the *)
(* roles, reads through a stale cache (GrantCache) and which position is a *)
(* person's primary one are left out.                                      *)
(***************************************************************************)
EXTENDS Authz, FiniteSets

CONSTANTS
  People, Roles, Capabilities,
  FirstGrants,   \* the powers grid to start from, as rows
  FirstPosts,    \* the posts to start from, as [person, role, unit]
  FirstRoles,    \* the roles to start from
  Bodies,        \* the saves of the grid to try: sets of cells, scope None to clear one
  By,            \* request -> the person who sends it
  Assigners,     \* addAssignment
  Importers,     \* commitImport, of one row
  Removers,      \* removeAssignment
  Leavers,       \* deletePerson
  Makers,        \* createPerson, createRole
  RoleDeleters,  \* deleteRole
  Savers,        \* writeMatrix
  Terms,         \* the people whose assignments have an end date
  MaxRequests    \* bound on the requests that arrive

Procs == Assigners \cup Importers \cup Removers \cup Leavers \cup Makers \cup RoleDeleters \cup Savers
Rows == [role : Roles, capability : Capabilities, scope : Scopes, effect : Effects]
Cells == [role : Roles, capability : Capabilities, scope : Scopes \cup {None}, effect : Effects]
Posts == [person : People, role : Roles, unit : Units]
\* A position's id: the request that created it, and as what.
Ids == (Procs \cup {None}) \X Roles \X Units

ASSUME RosterAssumption ==
  /\ FirstGrants \in SUBSET Rows
  /\ FirstPosts \in SUBSET Posts
  /\ FirstRoles \in SUBSET Roles
  /\ \A post \in FirstPosts : post.role \in FirstRoles
  /\ \A row \in FirstGrants : row.role \in FirstRoles
  /\ Bodies \in SUBSET (SUBSET Cells)
  /\ By \in [Procs -> People]
  /\ Savers \cap (Assigners \cup Importers) = {}
  /\ MaxRequests \in Nat
  /\ None \notin Roles \cup People \cup Scopes \cup Procs

VARIABLES
  users,      \* the accounts, which outlive the person
  people,     \* the persons of the organisation
  roles,      \* its roles
  positions,  \* its positions, [id, role, unit]
  members,    \* who holds them, [person, position, ended]
  grants,     \* the grid, as rows
  arg,        \* Procs -> what the request is about and what its transaction has found
  pc          \* Procs -> the next step

tables == <<users, people, roles, positions, members, grants>>
vars == <<tables, arg, pc>>

\* stale: something has been committed since the request was checked.
NoArg == [who |-> None, role |-> None, to |-> None, units |-> {}, found |-> {}, cells |-> {},
          rows |-> {}, stale |-> FALSE]
Args == [who : People \cup {None}, role : Roles \cup {None}, to : Roles \cup {None},
         units : SUBSET Units, found : SUBSET Ids, cells : SUBSET Cells, rows : SUBSET Rows,
         stale : BOOLEAN]
Waiting == {"placing", "found", "removing", "leaving", "deleting", "moved", "saving", "cleared"}

TypeOK ==
  /\ users \in SUBSET People
  /\ people \in SUBSET People
  /\ roles \in SUBSET Roles
  /\ positions \in SUBSET [id : Ids, role : Roles, unit : Units]
  /\ members \in SUBSET [person : People, position : Ids, ended : BOOLEAN]
  /\ grants \in SUBSET Rows
  /\ arg \in [Procs -> Args]
  /\ pc \in [Procs -> Waiting \cup {"idle", "done"}]

Init ==
  /\ people = {post.person : post \in FirstPosts}
  /\ users = people
  /\ roles = FirstRoles
  /\ positions = {[id |-> <<None, post.role, post.unit>>, role |-> post.role, unit |-> post.unit] :
                    post \in FirstPosts}
  /\ members = {[person |-> post.person, position |-> <<None, post.role, post.unit>>,
                 ended |-> FALSE] : post \in FirstPosts}
  /\ grants = FirstGrants
  /\ arg = [p \in Procs |-> NoArg]
  /\ pc = [p \in Procs |-> "idle"]

-----------------------------------------------------------------------------
At(role, unit) == {q \in positions : q.role = role /\ q.unit = unit}
IdsOf(Q) == {q.id : q \in Q}
Has(who, id) == \E m \in members : m.person = who /\ m.position = id

\* The positions somebody holds now.
Holds(who) ==
  {q \in positions : \E m \in members : m.person = who /\ m.position = q.id /\ ~m.ended}
RolesOf(who) == {q.role : q \in Holds(who)}
RowsOf(role) == {g \in grants : g.role = role}

\* The grants a person can use.  They are keyed by role, so of two posts with
\* one role only the one read last anchors it, and the query has no order:
\* collectGrants(who) is the set of the answers it can give.
collectGrants(who) ==
  LET mine == RolesOf(who)
      anchors == {at \in [mine -> Units] :
                    \A r \in mine : \E q \in Holds(who) : q.role = r /\ q.unit = at[r]}
  IN {{Placed(row, at[row.role]) : row \in {g \in grants : g.role \in mine}} : at \in anchors}

CanDo(who, capability, target) == \E G \in collectGrants(who) : May(G, capability, target)
Powers(who, targets) ==
  UNION {{power \in Capabilities \X targets : May(G, power[1], power[2])} : G \in collectGrants(who)}

\* A person is in a list when they hold a post in a unit of it, or none at all.
assertVisible(G, who, capability, by) ==
  LET seen == visibleUnits(G, capability) IN
  /\ ~seesNothing(seen)
  /\ who \in people
  /\ \/ seen.all
     \/ \E q \in positions : Has(who, q.id) /\ q.unit \in seen.units
     \/ \A q \in positions : ~Has(who, q.id)
     \/ seen.self /\ who = by

Arrives(p) == pc[p] = "idle" /\ Cardinality({q \in Procs : pc[q] # "idle"}) < MaxRequests

Goto(p, at, a) ==
  /\ arg' = [arg EXCEPT ![p] = a]
  /\ pc' = [pc EXCEPT ![p] = at]
  /\ UNCHANGED tables

\* What every request under way was checked on has changed.
Overtake(done) ==
  arg' = [q \in Procs |-> IF q \in done THEN NoArg
                          ELSE [arg[q] EXCEPT !.stale = pc[q] \in Waiting]]
Commits(p) ==
  /\ Overtake({p})
  /\ pc' = [pc EXCEPT ![p] = "done"]

-----------------------------------------------------------------------------
(* addAssignment, and commitImport of a row that may name two units.       *)

\* Mutant: the bound on what the position confers is missing from the route.
AssignCheckUnbounded(p, who, role, unit) ==
  /\ Arrives(p)
  /\ who \in people /\ role \in roles
  /\ \E G \in collectGrants(By[p]) : May(G, "assignment.create", OfUnit(unit))
  /\ Goto(p, "placing", [NoArg EXCEPT !.who = who, !.role = role, !.units = {unit}])

AssignCheck(p, who, role, unit) ==
  /\ Arrives(p)
  /\ who \in people /\ role \in roles
  /\ \E G \in collectGrants(By[p]) : /\ May(G, "assignment.create", OfUnit(unit))
                                     /\ ~Escalates(G, RowsOf(role), unit)
  /\ Goto(p, "placing", [NoArg EXCEPT !.who = who, !.role = role, !.units = {unit}])

\* Both placements are bounded; the person may be new.
ImportCheck(p, who, role, units) ==
  /\ Arrives(p)
  /\ role \in roles
  /\ \E G \in collectGrants(By[p]) : /\ ~seesNothing(visibleUnits(G, "person.import"))
                                     /\ \A u \in units : ~Escalates(G, RowsOf(role), u)
  /\ Goto(p, "placing", [NoArg EXCEPT !.who = who, !.role = role, !.units = units])

\* The shared position of each unit is looked for before it is created; of
\* several, any one.
FindPositions(p, ids) ==
  /\ pc[p] = "placing"
  /\ ids \subseteq UNION {IdsOf(At(arg[p].role, u)) : u \in arg[p].units}
  /\ \A u \in arg[p].units :
       LET here == IdsOf(At(arg[p].role, u)) IN here # {} => \E i \in ids : ids \cap here = {i}
  /\ p \in Assigners => \A i \in ids : ~Has(arg[p].who, i)
  /\ Goto(p, "found", [arg[p] EXCEPT !.found = ids])

\* The positions that were not there are created, and all of them given.  A key
\* that is gone, or an assignment made meanwhile, ends the transaction instead.
PlaceCommit(p) ==
  LET a == arg[p]
      missing == {u \in a.units : \A q \in positions : q.id \in a.found => q.unit # u}
      new == {[id |-> <<p, a.role, u>>, role |-> a.role, unit |-> u] : u \in missing}
      given == a.found \cup IdsOf(new)
  IN
  /\ pc[p] = "found"
  /\ a.found \subseteq IdsOf(positions)
  /\ new # {} => a.role \in roles
  /\ IF p \in Assigners
       THEN a.who \in people /\ \A i \in given : ~Has(a.who, i)
       ELSE a.who \in users => a.who \in people
  /\ users' = users \cup {a.who}
  /\ people' = people \cup {a.who}
  /\ positions' = positions \cup new
  /\ members' = members \cup {[person |-> a.who, position |-> i, ended |-> FALSE] :
                                i \in {j \in given : ~Has(a.who, j)}}
  /\ Commits(p)
  /\ UNCHANGED <<roles, grants>>

-----------------------------------------------------------------------------
(* createPerson, createRole, removeAssignment, deletePerson                *)

createPerson(p, who) ==
  /\ Arrives(p)
  /\ \E G \in collectGrants(By[p]) : ~seesNothing(visibleUnits(G, "person.create"))
  /\ who \notin users
  /\ users' = users \cup {who}
  /\ people' = people \cup {who}
  /\ Commits(p)
  /\ UNCHANGED <<roles, positions, members, grants>>

\* A new role has no grants.
createRole(p, role) ==
  /\ Arrives(p)
  /\ CanDo(By[p], "role.create", OfOrg)
  /\ role \notin roles
  /\ roles' = roles \cup {role}
  /\ Commits(p)
  /\ UNCHANGED <<users, people, positions, members, grants>>

RemoveCheck(p, who, id) ==
  /\ Arrives(p)
  /\ \E G \in collectGrants(By[p]) : assertVisible(G, who, "assignment.delete", By[p])
  /\ Has(who, id)
  /\ Goto(p, "removing", [NoArg EXCEPT !.who = who, !.found = {id}])

RemoveCommit(p) ==
  /\ pc[p] = "removing"
  /\ \A i \in arg[p].found : Has(arg[p].who, i)
  /\ members' = {m \in members : ~(m.person = arg[p].who /\ m.position \in arg[p].found)}
  /\ Commits(p)
  /\ UNCHANGED <<users, people, roles, positions, grants>>

LeaveCheck(p, who) ==
  /\ Arrives(p)
  /\ \E G \in collectGrants(By[p]) : assertVisible(G, who, "person.delete", By[p])
  /\ Goto(p, "leaving", [NoArg EXCEPT !.who = who])

\* The person's node goes and their assignments with it; the account stays, disabled.
LeaveCommit(p) ==
  /\ pc[p] = "leaving"
  /\ arg[p].who \in people
  /\ people' = people \ {arg[p].who}
  /\ members' = {m \in members : m.person # arg[p].who}
  /\ Commits(p)
  /\ UNCHANGED <<users, roles, positions, grants>>

-----------------------------------------------------------------------------
(* deleteRole                                                              *)

HoldersOf(role) == {m.person : m \in {n \in members : ~n.ended /\ \E q \in positions :
                                         q.id = n.position /\ q.role = role}}

\* Mutant: never asks whether somebody still holds the role.
RoleDeleteCheckUnasked(p, role, to) ==
  /\ Arrives(p)
  /\ role \in roles
  /\ CanDo(By[p], "role.delete", OfOrg)
  /\ to # None => to \in roles
  /\ Goto(p, "deleting", [NoArg EXCEPT !.role = role, !.to = to])

RoleDeleteCheck(p, role, to) ==
  /\ Arrives(p)
  /\ role \in roles
  /\ CanDo(By[p], "role.delete", OfOrg)
  /\ HoldersOf(role) # {} => to # None
  /\ to # None => to \in roles
  /\ Goto(p, "deleting", [NoArg EXCEPT !.role = role, !.to = to])

\* The UPDATE that moves the positions to the other role, when one is named.
RoleMove(p) ==
  LET moved == IF arg[p].to = None THEN {} ELSE {q \in positions : q.role = arg[p].role} IN
  /\ pc[p] = "deleting"
  /\ moved # {} => arg[p].to \in roles
  /\ Goto(p, "moved", [arg[p] EXCEPT !.found = IdsOf(moved)])

\* A position moved to a role and not committed keeps that role's row in place.
Kept(p, role) ==
  \E q \in Procs \ {p} : pc[q] = "moved" /\ arg[q].found # {} /\ arg[q].to = role

\* The role goes, and with it the positions that still have it, with their
\* assignments, and its row of the grid.
RoleDeleteCommit(p) ==
  LET a == arg[p]
      after == {IF q.id \in a.found THEN [q EXCEPT !.role = a.to] ELSE q : q \in positions}
  IN
  /\ pc[p] = "moved"
  /\ a.role \in roles /\ ~Kept(p, a.role)
  /\ roles' = roles \ {a.role}
  /\ positions' = {q \in after : q.role # a.role}
  /\ members' = {m \in members : \A q \in after : q.id = m.position => q.role # a.role}
  /\ grants' = {g \in grants : g.role # a.role}
  /\ Commits(p)
  /\ UNCHANGED <<users, people>>

-----------------------------------------------------------------------------
(* writeMatrix: the cells given are replaced, the others stay.             *)

SameCell(g, cell) == g.role = cell.role /\ g.capability = cell.capability
EditCells(body) == {cell \in body : cell.capability = "grant.update"}

\* Mutant: looks at the grid as it is, not as it would be.
somebodyCanEditPowersNow(body) ==
  EditCells(body) # {} => \E g \in grants : g.capability = "grant.update" /\ g.effect = "allow"

\* Checked against the grid that would result.  Where a role has two rows for
\* the capability the one read last counts.
somebodyCanStillEditPowers(body) ==
  EditCells(body) # {} =>
    \/ \E cell \in EditCells(body) : cell.scope # None /\ cell.effect = "allow"
    \/ \E g \in grants : /\ g.capability = "grant.update" /\ g.effect = "allow"
                         /\ \A cell \in EditCells(body) : ~SameCell(g, cell)

SaveCheck(p, body) ==
  /\ Arrives(p)
  /\ \A cell \in body : cell.role \in roles
  /\ \E G \in collectGrants(By[p]) : May(G, "grant.update", OfOrg) /\ ~Overreaches(G, body)
  /\ somebodyCanStillEditPowers(body)
  /\ Goto(p, "saving", [NoArg EXCEPT !.cells = body])

\* The rows the DELETEs can see.
SaveClear(p) ==
  /\ pc[p] = "saving"
  /\ Goto(p, "cleared", [arg[p] EXCEPT !.rows =
                           {g \in grants : \E cell \in arg[p].cells : SameCell(g, cell)}])

SaveCommit(p) ==
  LET kept == grants \ arg[p].rows
      new == {cell \in arg[p].cells : cell.scope # None}
  IN
  /\ pc[p] = "cleared"
  /\ \A cell \in new : cell.role \in roles
  /\ new \cap kept = {}
  /\ grants' = kept \cup new
  /\ Commits(p)
  /\ UNCHANGED <<users, people, roles, positions, members>>

-----------------------------------------------------------------------------
\* A key is missing, a row is there already, or the database broke it off.
Rollback(p) ==
  /\ pc[p] \in Waiting
  /\ Goto(p, "done", NoArg)

\* The end date of an assignment passes.
End(m) ==
  /\ ~m.ended /\ m.person \in Terms
  /\ members' = (members \ {m}) \cup {[m EXCEPT !.ended = TRUE]}
  /\ Overtake({})
  /\ UNCHANGED <<users, people, roles, positions, grants, pc>>

Next ==
  \/ \E p \in Assigners, who \in People, role \in Roles, unit \in Units :
       AssignCheck(p, who, role, unit)
  \/ \E p \in Importers, who \in People, role \in Roles, unit, also \in Units :
       ImportCheck(p, who, role, {unit, also})
  \/ \E p \in Assigners \cup Importers :
       PlaceCommit(p) \/ \E ids \in SUBSET IdsOf(positions) : FindPositions(p, ids)
  \/ \E p \in Removers :
       RemoveCommit(p) \/ \E who \in People, id \in IdsOf(positions) : RemoveCheck(p, who, id)
  \/ \E p \in Leavers : LeaveCommit(p) \/ \E who \in People : LeaveCheck(p, who)
  \/ \E p \in Makers, who \in People : createPerson(p, who)
  \/ \E p \in Makers, role \in Roles : createRole(p, role)
  \/ \E p \in RoleDeleters, role \in Roles, to \in Roles \cup {None} : RoleDeleteCheck(p, role, to)
  \/ \E p \in RoleDeleters : RoleMove(p) \/ RoleDeleteCommit(p)
  \/ \E p \in Savers : SaveClear(p) \/ SaveCommit(p) \/ \E body \in Bodies : SaveCheck(p, body)
  \/ \E p \in Procs : Rollback(p)
  \/ \E m \in members : End(m)

Spec == Init /\ [][Next]_vars
-----------------------------------------------------------------------------
\* p's transaction commits on what it was checked on.
Undisturbed(p, from) == pc[p] = from /\ pc'[p] = "done" /\ ~arg[p].stale

\* The roles whose holders the route of the grid lets through.  It asks for the
\* organisation, which a row of a narrower scope reaches from no unit.
Editors == {r \in roles : May({Placed(g, None) : g \in RowsOf(r)}, "grant.update", OfOrg)}

\* No role is given the power to edit the grid over a part of the organisation.
EditsAreOrgWide ==
  \A g \in grants : g.capability = "grant.update" /\ g.effect = "allow" => g.scope = "all"

OneRowPerCell == \A g, h \in grants : SameCell(g, h) => g = h

(* resolve, visibleUnits and heldCapabilities, on whatever grants anybody  *)
(* collects at any moment of the organisation's life, are one rule.        *)
ReadingsAgree ==
  \A who \in People, c \in Capabilities : \A G \in collectGrants(who) : OneRule(G, c)

(* The foreign keys and cascades: whatever deletions, imports and saves    *)
(* race, no post, position or power is left of a person or role that is    *)
(* gone.                                                                   *)
RowsAreLive ==
  /\ people \subseteq users
  /\ \A m \in members : m.person \in people /\ m.position \in IdsOf(positions)
  /\ \A q \in positions : q.role \in roles
  /\ \A g \in grants : g.role \in roles

(* Nobody may hand out a power they do not hold themselves                 *)
(* (findEscalation, requireNoGrantEscalation): after an assignment, an     *)
(* import or a save that nothing overtook, whoever can do more than before *)
(* can do no more than its sender could.  Not claimed: of a second post    *)
(* with a role already held (it may move a deny), of a save that clears a  *)
(* deny, or of what a save allows on the organisation as a whole.          *)
PowersAreBounded ==
  [][\A p \in Assigners \cup Importers \cup Savers :
       /\ Undisturbed(p, "found") \/ Undisturbed(p, "cleared")
       /\ p \notin Savers => arg[p].role \notin RolesOf(arg[p].who)
       /\ \A g \in arg[p].rows : g.effect = "deny" => g \in arg[p].cells
       => LET targets == IF p \in Savers THEN Targets \ {OfSelf, OfOrg} ELSE Targets \ {OfSelf}
          IN \A who \in People :
               Powers(who, targets)' \subseteq Powers(who, targets) \cup Powers(By[p], targets)]_vars

(* "Deleting cascades the positions away, and everyone's access with them, *)
(* so it refuses": a deletion that nothing overtook leaves everybody a     *)
(* post at each unit they had one (unless the role named is the one that   *)
(* goes).                                                                  *)
HoldersAreMoved ==
  [][\A p \in RoleDeleters :
       Undisturbed(p, "moved") /\ arg[p].to # arg[p].role =>
         \A who \in People :
           {q.unit : q \in Holds(who)} \subseteq {q.unit : q \in Holds(who)'}]_vars

(* The lockout guard: a save that nothing overtook leaves a role whose     *)
(* holders the route still lets edit the grid, if there was one.  The      *)
(* guard counts an allow of any scope (assertSomebodyCanStillEditPowers),  *)
(* so it keeps this only where the grid it accepts gives that power over   *)
(* the whole organisation or not at all; SomebodyCanEditPowers is false.   *)
SavesKeepAnEditor ==
  [][\A p \in Savers :
       Undisturbed(p, "cleared") /\ OneRowPerCell /\ EditsAreOrgWide' /\ Editors # {}
         => Editors' # {}]_vars

(* What the code says and does not keep; see the README.                   *)

\* "Grants on the position and on its role both anchor at the position's unit"
\* (collect.ts): whoever holds a post can use what its role may do there.
PowersAtEveryPost ==
  \A who \in People : \A q \in Holds(who) : \A row \in RowsOf(q.role) :
    /\ row.effect = "allow" /\ row.scope # "self"
    /\ \A g \in grants : g.capability = row.capability => g.effect = "allow"
    => \A G \in collectGrants(who) : May(G, row.capability, OfUnit(q.unit))

\* "Two identical positions would mean two places to attach a grant, and only
\* one checked" (addAssignment).
PositionsAreShared == \A q, r \in positions : q.role = r.role /\ q.unit = r.unit => q = r

\* The lockout guard "refuses a save that would leave NO role able to edit the
\* powers grid. It is the one unrecoverable state on that screen"
\* (roles/service.ts:274): of saves alone, the grid always has an editor.
SomebodyCanEditPowers == Editors # {}
=============================================================================
