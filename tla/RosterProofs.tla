---------------------------- MODULE RosterProofs ----------------------------
(***************************************************************************)
(* Proofs about Authz and Roster, for any units, roles, people, grids and  *)
(* requests: the three readings of a set of grants are one rule, no row is *)
(* left of a person or role that is gone, holders of a deleted role are    *)
(* moved, a save of the grid leaves somebody who can edit it, and nobody   *)
(* hands out a power they do not hold.                                     *)
(*                                                                         *)
(* RowsAreLive needs one thing beside itself: a deletion that has moved    *)
(* positions to another role and not committed keeps that role (Moved).    *)
(* The action properties need what a request was checked on to hold still, *)
(* unless something was committed since (Checked, Sent).                   *)
(***************************************************************************)
EXTENDS Roster, TLAPS

\* A set of grants as collectGrants makes them.
Candidates == [capability : Capabilities, scope : Scopes, effect : Effects, anchor : Units]

\* What a request under way is about.
Chosen ==
  \A p \in Procs :
    /\ pc[p] \in {"placing", "found"} => arg[p].who \in People /\ arg[p].role \in Roles
    /\ pc[p] \in {"deleting", "moved"} => arg[p].role \in Roles

\* The role that positions were moved to is still there.
Moved == \A p \in Procs : pc[p] = "moved" /\ arg[p].found # {} => arg[p].to \in roles

IInv == TypeOK /\ Chosen /\ Moved /\ RowsAreLive

-----------------------------------------------------------------------------
(* One rule.                                                               *)

LEMMA SubtreesAreUnits ==
  /\ \A u \in Units : Subtree[u] \subseteq Units
  /\ None \notin Units
  BY UnitsAssumption

\* The units that grants name are those at which one of them covers the unit,
\* an org-wide one aside.
LEMMA UnitsOfCover ==
  ASSUME NEW G \in SUBSET Candidates, NEW u \in Units
  PROVE  u \in unitsOf(G) <=> \E g \in G : g.scope # "all" /\ scopeCovers(g, OfUnit(u))
<1> \A g \in G : g.anchor \in Units /\ g.anchor # None
  BY SubtreesAreUnits DEF Candidates
<1> QED BY SubtreesAreUnits DEF unitsOf, scopeCovers, OfUnit

LEMMA MayIs ==
  ASSUME NEW G, NEW c, NEW t
  PROVE  May(G, c, t) <=> /\ \A g \in Live(G, c, "deny") : ~scopeCovers(g, t)
                          /\ \E g \in Live(G, c, "allow") : scopeCovers(g, t)
<1> DEFINE D == Matching(G, c, "deny", t)
           A == Matching(G, c, "allow", t)
<1>1. D = {} <=> \A g \in Live(G, c, "deny") : ~scopeCovers(g, t)
  BY DEF Matching, Live
<1>2. A # {} <=> \E g \in Live(G, c, "allow") : scopeCovers(g, t)
  BY DEF Matching, Live
<1>3. May(G, c, t) <=> D = {} /\ A # {}
  <2>1. CASE D # {}
    BY <2>1 DEF May, resolve
  <2>2. CASE D = {} /\ A # {}
    BY <2>2 DEF May, resolve
  <2>3. CASE D = {} /\ A = {}
    BY <2>3 DEF May, resolve
  <2> QED BY <2>1, <2>2, <2>3
<1> QED BY <1>1, <1>2, <1>3

\* A grant of the whole organisation covers every target, and only such a
\* grant covers the organisation itself.
LEMMA AllCovers ==
  ASSUME NEW G \in SUBSET Candidates
  PROVE  /\ \A g \in G, t \in Targets : g.scope = "all" => scopeCovers(g, t)
         /\ \A g \in G : scopeCovers(g, OfOrg) => g.scope = "all"
         /\ \A g \in G : scopeCovers(g, OfSelf) => g.scope \in {"all", "self"}
         /\ \A g \in G : g.scope = "self" => scopeCovers(g, OfSelf)
<1> \A g \in G : g.anchor \in Units
  BY DEF Candidates
<1> QED BY SubtreesAreUnits DEF scopeCovers, OfOrg, OfSelf

LEMMA LiveTyped ==
  ASSUME NEW G \in SUBSET Candidates, NEW c, NEW effect
  PROVE  Live(G, c, effect) \in SUBSET Candidates
  BY DEF Live

LEMMA ListsAreChecks ==
  ASSUME NEW G \in SUBSET Candidates, NEW c, NEW u \in Units
  PROVE  u \in visibleUnits(G, c).units <=> May(G, c, OfUnit(u))
<1> DEFINE A == Live(G, c, "allow")
           D == Live(G, c, "deny")
           t == OfUnit(u)
<1>1. A \in SUBSET Candidates /\ D \in SUBSET Candidates /\ t \in Targets
  BY LiveTyped DEF Targets
<1>2. May(G, c, t) <=> (\A g \in D : ~scopeCovers(g, t)) /\ (\E g \in A : scopeCovers(g, t))
  BY MayIs
<1>3. u \in unitsOf(A) <=> \E g \in A : g.scope # "all" /\ scopeCovers(g, t)
  BY <1>1, UnitsOfCover
<1>4. u \in unitsOf(D) <=> \E g \in D : g.scope # "all" /\ scopeCovers(g, t)
  BY <1>1, UnitsOfCover
<1>5. \A g \in A \cup D : g.scope = "all" => scopeCovers(g, t)
  BY <1>1, AllCovers
<1>6. CASE Scoped(D, "all")
  <2>1. visibleUnits(G, c) = Nowhere
    BY <1>6 DEF visibleUnits
  <2> QED BY <2>1, <1>2, <1>5, <1>6 DEF Nowhere, Scoped
<1>7. CASE ~Scoped(D, "all") /\ Scoped(A, "all")
  <2>1. visibleUnits(G, c).units = Units \ unitsOf(D)
    BY <1>7 DEF visibleUnits
  <2> QED BY <2>1, <1>2, <1>4, <1>5, <1>7 DEF Scoped
<1>8. CASE ~Scoped(D, "all") /\ ~Scoped(A, "all")
  <2>1. visibleUnits(G, c).units = unitsOf(A) \ unitsOf(D)
    BY <1>8 DEF visibleUnits
  <2> QED BY <2>1, <1>2, <1>3, <1>4, <1>8 DEF Scoped
<1> QED BY <1>6, <1>7, <1>8

LEMMA HintsAreChecks ==
  ASSUME NEW G \in SUBSET Candidates, NEW c
  PROVE  /\ \A t \in Targets : May(G, c, t) => held(G, c)
         /\ May(G, c, OfOrg) => heldAtLeast(G, c, "all")
<1> DEFINE A == Live(G, c, "allow")
           D == Live(G, c, "deny")
<1>1. A \in SUBSET Candidates /\ D \in SUBSET Candidates
  BY LiveTyped
<1>2. ASSUME NEW t \in Targets, May(G, c, t) PROVE held(G, c)
  <2>1. (\A g \in D : ~scopeCovers(g, t)) /\ (\E g \in A : scopeCovers(g, t))
    BY <1>2, MayIs
  <2>2. ~Scoped(D, "all")
    BY <1>1, <2>1, AllCovers DEF Scoped
  <2> QED BY <2>1, <2>2 DEF held
<1>3. ASSUME May(G, c, OfOrg) PROVE heldAtLeast(G, c, "all")
  <2>1. held(G, c)
    BY <1>2, <1>3 DEF Targets
  <2>2. PICK g \in A : scopeCovers(g, OfOrg)
    BY <1>3, MayIs
  <2>3. g.scope = "all"
    BY <1>1, <2>2, AllCovers
  <2>4. Breadth["all"] >= Breadth["all"]
    BY DEF Breadth
  <2> QED BY <2>1, <2>2, <2>3, <2>4 DEF heldAtLeast
<1> QED BY <1>2, <1>3

LEMMA NothingSeenNothingDone ==
  ASSUME NEW G \in SUBSET Candidates, NEW c, NEW t \in Targets, May(G, c, t)
  PROVE  ~seesNothing(visibleUnits(G, c))
<1> DEFINE A == Live(G, c, "allow")
           D == Live(G, c, "deny")
<1>1. A \in SUBSET Candidates /\ D \in SUBSET Candidates
  BY LiveTyped
<1>2. (\A g \in D : ~scopeCovers(g, t)) /\ (\E g \in A : scopeCovers(g, t))
  BY MayIs
<1>3. ~Scoped(D, "all")
  BY <1>1, <1>2, AllCovers DEF Scoped
<1>4. CASE Scoped(A, "all")
  <2>1. visibleUnits(G, c).self = TRUE
    BY <1>3, <1>4 DEF visibleUnits
  <2> QED BY <2>1 DEF seesNothing
<1>5. CASE ~Scoped(A, "all")
  <2>1. CASE t = OfOrg
    BY <2>1, <1>1, <1>2, <1>5, AllCovers DEF Scoped
  <2>2. CASE t = OfSelf
    <3>1. Scoped(A, "self") /\ ~Scoped(D, "self")
      BY <2>2, <1>1, <1>2, <1>5, AllCovers DEF Scoped
    <3>2. visibleUnits(G, c).self
      BY <3>1, <1>3, <1>5 DEF visibleUnits
    <3> QED BY <3>2 DEF seesNothing
  <2>3. CASE \E u \in Units : t = OfUnit(u)
    <3>1. PICK u \in Units : t = OfUnit(u)
      BY <2>3
    <3>2. u \in visibleUnits(G, c).units
      BY <3>1, ListsAreChecks
    <3> QED BY <3>2 DEF seesNothing
  <2> QED BY <2>1, <2>2, <2>3 DEF Targets
<1> QED BY <1>4, <1>5

(* On any set of grants, lists, checks and hints are one rule.             *)
THEOREM ReadingsAreOneRule ==
  ASSUME NEW G \in SUBSET Candidates, NEW c
  PROVE  OneRule(G, c)
  BY ListsAreChecks, HintsAreChecks, NothingSeenNothingDone DEF OneRule

\* What collectGrants answers is such a set.
LEMMA CollectedTyped ==
  ASSUME grants \in SUBSET Rows, NEW who, NEW G \in collectGrants(who)
  PROVE  G \in SUBSET Candidates
<1> DEFINE mine == RolesOf(who)
<1>1. PICK at \in [mine -> Units] : G = {Placed(row, at[row.role]) : row \in {g \in grants : g.role \in mine}}
  BY DEF collectGrants
<1>2. \A row \in {g \in grants : g.role \in mine} : Placed(row, at[row.role]) \in Candidates
  BY <1>1 DEF Placed, Candidates, Rows
<1> QED BY <1>1, <1>2

-----------------------------------------------------------------------------
(* Types.                                                                  *)

Steps == Waiting \cup {"idle", "done"}

LEMMA NoArgTyped == NoArg \in Args
  BY RosterAssumption DEF NoArg, Args

LEMMA Going ==
  ASSUME TypeOK, NEW p \in Procs, NEW at \in Steps, NEW a \in Args, Goto(p, at, a)
  PROVE  /\ TypeOK'
         /\ UNCHANGED tables
         /\ pc'[p] = at /\ arg'[p] = a
         /\ \A q \in Procs \ {p} : pc'[q] = pc[q] /\ arg'[q] = arg[q]
<1>1. UNCHANGED tables /\ arg' = [arg EXCEPT ![p] = a] /\ pc' = [pc EXCEPT ![p] = at]
  BY DEF Goto
<1>2. arg \in [Procs -> Args] /\ pc \in [Procs -> Steps]
  BY DEF TypeOK, Steps
<1>3. arg' \in [Procs -> Args] /\ pc' \in [Procs -> Steps]
  BY <1>1, <1>2
<1>4. pc'[p] = at /\ arg'[p] = a /\ \A q \in Procs \ {p} : pc'[q] = pc[q] /\ arg'[q] = arg[q]
  BY <1>1, <1>2
<1> QED BY <1>1, <1>3, <1>4 DEF TypeOK, Steps, tables

\* A request that moves on keeps the invariant, if what it is about is chosen.
LEMMA GoingKeeps ==
  ASSUME IInv, NEW p \in Procs, NEW at \in Steps, NEW a \in Args, Goto(p, at, a),
         at \in {"placing", "found"} => a.who \in People /\ a.role \in Roles,
         at \in {"deleting", "moved"} => a.role \in Roles,
         at = "moved" /\ a.found # {} => a.to \in roles
  PROVE  IInv'
<1>1. /\ TypeOK' /\ UNCHANGED tables
      /\ pc'[p] = at /\ arg'[p] = a
      /\ \A q \in Procs \ {p} : pc'[q] = pc[q] /\ arg'[q] = arg[q]
  BY Going DEF IInv
<1>2. Chosen'
  BY <1>1 DEF IInv, Chosen
<1>3. Moved'
  BY <1>1 DEF IInv, Moved, tables
<1>4. RowsAreLive'
  BY <1>1 DEF IInv, RowsAreLive, IdsOf, tables
<1> QED BY <1>1, <1>2, <1>3, <1>4 DEF IInv

\* A step that overtakes the others keeps what they are about.
LEMMA Overtaking ==
  ASSUME IInv, NEW done \in SUBSET Procs, Overtake(done),
         \/ done = {} /\ pc' = pc
         \/ \E p \in Procs : done = {p} /\ pc' = [pc EXCEPT ![p] = "done"]
  PROVE  /\ arg' \in [Procs -> Args] /\ pc' \in [Procs -> Steps]
         /\ Chosen'
         /\ \A q \in Procs : pc'[q] = "moved" =>
              /\ pc[q] = "moved" /\ q \notin done
              /\ arg'[q].to = arg[q].to /\ arg'[q].found = arg[q].found
<1>1. arg \in [Procs -> Args] /\ pc \in [Procs -> Steps]
  BY DEF IInv, TypeOK, Steps
<1>2. arg' = [q \in Procs |-> IF q \in done THEN NoArg ELSE [arg[q] EXCEPT !.stale = pc[q] \in Waiting]]
  BY DEF Overtake
<1>3. ASSUME NEW q \in Procs
      PROVE  /\ arg'[q] \in Args
             /\ q \notin done => /\ arg'[q].who = arg[q].who /\ arg'[q].role = arg[q].role
                                 /\ arg'[q].to = arg[q].to /\ arg'[q].found = arg[q].found
  <2> DEFINE a == arg[q]
             b == pc[q] \in Waiting
  <2>1. a \in Args /\ b \in BOOLEAN
    BY <1>1
  <2>2. arg'[q] = IF q \in done THEN NoArg ELSE [a EXCEPT !.stale = b]
    BY <1>2
  <2> HIDE DEF a, b
  <2>3. [a EXCEPT !.stale = b] \in Args
    BY <2>1 DEF Args
  <2>4. CASE q \in done
    BY <2>2, <2>4, NoArgTyped
  <2>5. CASE q \notin done
    BY <2>1, <2>2, <2>3, <2>5 DEF Args, a
  <2> QED BY <2>4, <2>5
<1>4. pc' \in [Procs -> Steps]
  BY <1>1 DEF Steps
<1>5. \A q \in Procs : pc'[q] = IF q \in done THEN "done" ELSE pc[q]
  BY <1>1
<1>6. Chosen'
  <2> SUFFICES ASSUME NEW q \in Procs
               PROVE  /\ pc'[q] \in {"placing", "found"} => arg'[q].who \in People /\ arg'[q].role \in Roles
                      /\ pc'[q] \in {"deleting", "moved"} => arg'[q].role \in Roles
    BY DEF Chosen
  <2>1. CASE q \notin done
    BY <2>1, <1>3, <1>5 DEF IInv, Chosen
  <2>2. CASE q \in done
    BY <2>2, <1>5 DEF IInv, Chosen
  <2> QED BY <2>1, <2>2
<1> QED BY <1>2, <1>3, <1>4, <1>5, <1>6

\* A commit that deletes no role keeps every role that positions were moved to.
LEMMA CommitKeepsMoved ==
  ASSUME IInv, NEW p \in Procs, Commits(p), roles \subseteq roles'
  PROVE  arg' \in [Procs -> Args] /\ pc' \in [Procs -> Steps] /\ Chosen' /\ Moved'
<1>1. Overtake({p}) /\ pc' = [pc EXCEPT ![p] = "done"]
  BY DEF Commits
<1>2. /\ arg' \in [Procs -> Args] /\ pc' \in [Procs -> Steps] /\ Chosen'
      /\ \A q \in Procs : pc'[q] = "moved" =>
           /\ pc[q] = "moved"
           /\ arg'[q].to = arg[q].to /\ arg'[q].found = arg[q].found
  BY <1>1, Overtaking
<1> QED BY <1>2 DEF IInv, Moved

-----------------------------------------------------------------------------
(* The invariant, action by action.                                        *)

LEMMA InitIInv == Init => IInv
<1> SUFFICES ASSUME Init PROVE IInv
  OBVIOUS
<1>1. FirstPosts \subseteq Posts /\ FirstGrants \subseteq Rows /\ FirstRoles \subseteq Roles
      /\ (\A post \in FirstPosts : post.role \in FirstRoles)
      /\ (\A row \in FirstGrants : row.role \in FirstRoles)
  BY RosterAssumption
<1>2. people \in SUBSET People /\ users = people /\ roles = FirstRoles /\ grants = FirstGrants
  BY <1>1 DEF Init, Posts
<1>3. positions \in SUBSET [id : Ids, role : Roles, unit : Units]
  BY <1>1 DEF Init, Posts, Ids
<1>4. ASSUME NEW m \in members
      PROVE  /\ m \in [person : People, position : Ids, ended : BOOLEAN]
             /\ m.person \in people /\ m.position \in IdsOf(positions)
  <2>1. PICK post \in FirstPosts :
          m = [person |-> post.person, position |-> <<None, post.role, post.unit>>, ended |-> FALSE]
    BY DEF Init
  <2>2. post.person \in people
    BY DEF Init
  <2>3. <<None, post.role, post.unit>> \in Ids
    BY <1>1 DEF Posts, Ids
  <2>4. [id |-> <<None, post.role, post.unit>>, role |-> post.role, unit |-> post.unit] \in positions
    BY DEF Init
  <2>5. <<None, post.role, post.unit>> \in IdsOf(positions)
    BY <2>4 DEF IdsOf
  <2> HIDE DEF Init
  <2> QED BY <1>2, <2>1, <2>2, <2>3, <2>5
<1>5. arg \in [Procs -> Args] /\ pc \in [Procs -> Steps]
  BY NoArgTyped DEF Init, Steps
<1>6. TypeOK
  BY <1>1, <1>2, <1>3, <1>4, <1>5 DEF TypeOK, Steps
<1>7. RowsAreLive
  <2>1. \A m \in members : m.person \in people /\ m.position \in IdsOf(positions)
    BY <1>4
  <2>2. \A q \in positions : q.role \in roles
    BY <1>1 DEF Init
  <2> QED BY <1>1, <1>2, <2>1, <2>2 DEF RowsAreLive
<1>8. Chosen /\ Moved
  BY DEF Init, Chosen, Moved
<1> QED BY <1>6, <1>7, <1>8 DEF IInv

LEMMA ChecksKeep ==
  ASSUME IInv, NEW p \in Procs,
         \/ \E who \in People, role \in Roles, unit \in Units : AssignCheck(p, who, role, unit)
         \/ \E who \in People, role \in Roles, unit, also \in Units :
              ImportCheck(p, who, role, {unit, also})
         \/ \E ids \in SUBSET IdsOf(positions) : FindPositions(p, ids)
         \/ \E who \in People, id \in IdsOf(positions) : RemoveCheck(p, who, id)
         \/ \E who \in People : LeaveCheck(p, who)
         \/ \E role \in Roles, to \in Roles \cup {None} : RoleDeleteCheck(p, role, to)
         \/ \E body \in Bodies : SaveCheck(p, body)
         \/ Rollback(p)
  PROVE  IInv'
<1>0. IdsOf(positions) \subseteq Ids /\ arg[p] \in Args
  BY DEF IInv, TypeOK, IdsOf
<1>1. ASSUME NEW who \in People, NEW role \in Roles, NEW U \in SUBSET Units,
             Goto(p, "placing", [NoArg EXCEPT !.who = who, !.role = role, !.units = U])
      PROVE  IInv'
  <2> DEFINE a == [NoArg EXCEPT !.who = who, !.role = role, !.units = U]
  <2>1. a \in Args /\ a.who = who /\ a.role = role
    BY NoArgTyped DEF Args, NoArg
  <2> HIDE DEF a
  <2>2. Goto(p, "placing", a)
    BY <1>1 DEF a
  <2> QED BY <2>1, <2>2, GoingKeeps DEF Steps, Waiting
<1>2. ASSUME NEW ids \in SUBSET IdsOf(positions), FindPositions(p, ids) PROVE IInv'
  <2> DEFINE a == [arg[p] EXCEPT !.found = ids]
  <2>1. a \in Args /\ a.who = arg[p].who /\ a.role = arg[p].role
    BY <1>0 DEF Args
  <2>2. arg[p].who \in People /\ arg[p].role \in Roles
    BY <1>2 DEF FindPositions, IInv, Chosen
  <2> HIDE DEF a
  <2>3. Goto(p, "found", a)
    BY <1>2 DEF FindPositions, a
  <2> QED BY <2>1, <2>2, <2>3, GoingKeeps DEF Steps, Waiting
<1>3. ASSUME NEW who \in People, NEW id \in IdsOf(positions), RemoveCheck(p, who, id) PROVE IInv'
  <2> DEFINE a == [NoArg EXCEPT !.who = who, !.found = {id}]
  <2>1. a \in Args
    BY <1>0, NoArgTyped DEF Args, NoArg
  <2>2. Goto(p, "removing", a)
    BY <1>3 DEF RemoveCheck
  <2> HIDE DEF a
  <2> QED BY <2>1, <2>2, GoingKeeps DEF Steps, Waiting
<1>4. ASSUME NEW who \in People, LeaveCheck(p, who) PROVE IInv'
  <2> DEFINE a == [NoArg EXCEPT !.who = who]
  <2>1. a \in Args
    BY NoArgTyped DEF Args, NoArg
  <2>2. Goto(p, "leaving", a)
    BY <1>4 DEF LeaveCheck
  <2> HIDE DEF a
  <2> QED BY <2>1, <2>2, GoingKeeps DEF Steps, Waiting
<1>5. ASSUME NEW role \in Roles, NEW to \in Roles \cup {None}, RoleDeleteCheck(p, role, to) PROVE IInv'
  <2> DEFINE a == [NoArg EXCEPT !.role = role, !.to = to]
  <2>1. a \in Args /\ a.role = role
    BY NoArgTyped DEF Args, NoArg
  <2>2. Goto(p, "deleting", a)
    BY <1>5 DEF RoleDeleteCheck
  <2> HIDE DEF a
  <2> QED BY <2>1, <2>2, GoingKeeps DEF Steps, Waiting
<1>6. ASSUME NEW body \in Bodies, SaveCheck(p, body) PROVE IInv'
  <2> DEFINE a == [NoArg EXCEPT !.cells = body]
  <2>1. a \in Args
    <3>1. body \in SUBSET Cells
      BY RosterAssumption
    <3> QED BY <3>1, NoArgTyped DEF Args, NoArg
  <2>2. Goto(p, "saving", a)
    BY <1>6 DEF SaveCheck
  <2> HIDE DEF a
  <2> QED BY <2>1, <2>2, GoingKeeps DEF Steps, Waiting
<1>7. ASSUME Rollback(p) PROVE IInv'
  BY <1>7, NoArgTyped, GoingKeeps DEF Rollback, Steps
<1>8. ASSUME NEW who \in People, NEW role \in Roles, NEW unit \in Units, AssignCheck(p, who, role, unit)
      PROVE  IInv'
  <2>1. {unit} \in SUBSET Units
    OBVIOUS
  <2>2. Goto(p, "placing", [NoArg EXCEPT !.who = who, !.role = role, !.units = {unit}])
    BY <1>8 DEF AssignCheck
  <2> QED BY <2>1, <2>2, <1>1
<1>9. ASSUME NEW who \in People, NEW role \in Roles, NEW unit \in Units, NEW also \in Units,
             ImportCheck(p, who, role, {unit, also})
      PROVE  IInv'
  <2>1. {unit, also} \in SUBSET Units
    OBVIOUS
  <2>2. Goto(p, "placing", [NoArg EXCEPT !.who = who, !.role = role, !.units = {unit, also}])
    BY <1>9 DEF ImportCheck
  <2> QED BY <2>1, <2>2, <1>1
<1> QED BY <1>2, <1>3, <1>4, <1>5, <1>6, <1>7, <1>8, <1>9

\* A commit that deletes no role and leaves well-typed, live rows.
LEMMA CommitKeeps ==
  ASSUME IInv, NEW p \in Procs, Commits(p), roles \subseteq roles',
         users' \in SUBSET People, people' \in SUBSET People, roles' \in SUBSET Roles,
         positions' \in SUBSET [id : Ids, role : Roles, unit : Units],
         members' \in SUBSET [person : People, position : Ids, ended : BOOLEAN],
         grants' \in SUBSET Rows,
         RowsAreLive'
  PROVE  IInv'
<1>1. arg' \in [Procs -> Args] /\ pc' \in [Procs -> Steps] /\ Chosen' /\ Moved'
  BY CommitKeepsMoved
<1>2. TypeOK'
  BY <1>1 DEF TypeOK, Steps
<1> QED BY <1>1, <1>2 DEF IInv

\* The rows an invariant state has.
LEMMA RowsTyped ==
  ASSUME IInv
  PROVE  /\ users \in SUBSET People /\ people \in SUBSET People /\ roles \in SUBSET Roles
         /\ positions \in SUBSET [id : Ids, role : Roles, unit : Units]
         /\ members \in SUBSET [person : People, position : Ids, ended : BOOLEAN]
         /\ grants \in SUBSET Rows
         /\ arg \in [Procs -> Args]
  BY DEF IInv, TypeOK

LEMMA PlaceKeeps ==
  ASSUME IInv, NEW p \in Procs, PlaceCommit(p)
  PROVE  IInv'
<1> DEFINE a == arg[p]
           missing == {u \in a.units : \A q \in positions : q.id \in a.found => q.unit # u}
           new == {[id |-> <<p, a.role, u>>, role |-> a.role, unit |-> u] : u \in missing}
           given == a.found \cup IdsOf(new)
           added == {[person |-> a.who, position |-> i, ended |-> FALSE] :
                       i \in {j \in given : ~Has(a.who, j)}}
<1>1. /\ a.found \subseteq IdsOf(positions)
      /\ new # {} => a.role \in roles
      /\ users' = users \cup {a.who} /\ people' = people \cup {a.who}
      /\ positions' = positions \cup new /\ members' = members \cup added
      /\ Commits(p) /\ roles' = roles /\ grants' = grants
  BY DEF PlaceCommit
<1>2. a.who \in People /\ a.role \in Roles /\ a.units \subseteq Units /\ a.found \subseteq Ids
  <2>1. a \in Args
    BY RowsTyped
  <2>2. pc[p] = "found"
    BY DEF PlaceCommit
  <2>3. a.who \in People /\ a.role \in Roles
    BY <2>2 DEF IInv, Chosen
  <2> QED BY <2>1, <2>3 DEF Args
<1>3. \A n \in new : /\ n \in [id : Ids, role : Roles, unit : Units]
                     /\ n.role = a.role
  BY <1>2 DEF Ids
<1>4. given \subseteq Ids /\ given \subseteq IdsOf(positions')
  <2>1. IdsOf(new) \subseteq Ids
    BY <1>3 DEF IdsOf
  <2>2. IdsOf(positions) \subseteq IdsOf(positions') /\ IdsOf(new) \subseteq IdsOf(positions')
    BY <1>1 DEF IdsOf
  <2> QED BY <1>1, <1>2, <2>1, <2>2
<1> HIDE DEF new, given
<1>5. ASSUME NEW m \in added
      PROVE  /\ m \in [person : People, position : Ids, ended : BOOLEAN]
             /\ m.person = a.who /\ m.position \in IdsOf(positions')
  <2>1. PICK i \in {j \in given : ~Has(a.who, j)} :
          m = [person |-> a.who, position |-> i, ended |-> FALSE]
    OBVIOUS
  <2>2. i \in Ids /\ i \in IdsOf(positions')
    BY <1>4
  <2> HIDE DEF a, added
  <2> QED BY <1>2, <2>1, <2>2
<1> HIDE DEF added, a
<1>6. RowsAreLive'
  <2>1. RowsAreLive /\ IdsOf(positions) \subseteq IdsOf(positions')
    BY <1>1 DEF IInv, IdsOf
  <2>2. people' \subseteq users' /\ \A g \in grants' : g.role \in roles'
    BY <1>1, <2>1 DEF RowsAreLive
  <2>3. \A m \in members' : m.person \in people' /\ m.position \in IdsOf(positions')
    BY <1>1, <1>5, <2>1 DEF RowsAreLive
  <2>4. \A q \in positions' : q.role \in roles'
    BY <1>1, <1>3, <2>1 DEF RowsAreLive
  <2> QED BY <2>2, <2>3, <2>4 DEF RowsAreLive, IdsOf
<1>7. users' \in SUBSET People /\ people' \in SUBSET People
  BY <1>1, <1>2, RowsTyped
<1>8. /\ positions' \in SUBSET [id : Ids, role : Roles, unit : Units]
      /\ members' \in SUBSET [person : People, position : Ids, ended : BOOLEAN]
  BY <1>1, <1>3, <1>5, RowsTyped
<1> QED BY <1>1, <1>6, <1>7, <1>8, RowsTyped, CommitKeeps

\* createPerson, createRole, removeAssignment, deletePerson.
LEMMA OneRowKeeps ==
  ASSUME IInv, NEW p \in Procs,
         \/ \E who \in People : createPerson(p, who)
         \/ \E role \in Roles : createRole(p, role)
         \/ RemoveCommit(p)
         \/ LeaveCommit(p)
  PROVE  IInv'
<1> USE RowsTyped DEF IdsOf
<1>0. RowsAreLive
  BY DEF IInv
<1>1. ASSUME NEW who \in People, createPerson(p, who) PROVE IInv'
  <2>1. /\ users' = users \cup {who} /\ people' = people \cup {who} /\ Commits(p)
        /\ UNCHANGED <<roles, positions, members, grants>>
    BY <1>1 DEF createPerson
  <2>2. RowsAreLive'
    BY <1>0, <2>1 DEF RowsAreLive
  <2> QED BY <2>1, <2>2, CommitKeeps
<1>2. ASSUME NEW role \in Roles, createRole(p, role) PROVE IInv'
  <2>1. /\ roles' = roles \cup {role} /\ Commits(p)
        /\ UNCHANGED <<users, people, positions, members, grants>>
    BY <1>2 DEF createRole
  <2>2. RowsAreLive'
    BY <1>0, <2>1 DEF RowsAreLive
  <2> QED BY <2>1, <2>2, CommitKeeps
<1>3. ASSUME RemoveCommit(p) PROVE IInv'
  <2>1. /\ members' \subseteq members /\ Commits(p)
        /\ UNCHANGED <<users, people, roles, positions, grants>>
    BY <1>3 DEF RemoveCommit
  <2>2. RowsAreLive'
    BY <1>0, <2>1 DEF RowsAreLive
  <2> QED BY <2>1, <2>2, CommitKeeps
<1>4. ASSUME LeaveCommit(p) PROVE IInv'
  <2>1. /\ people' = people \ {arg[p].who} /\ members' = {m \in members : m.person # arg[p].who}
        /\ Commits(p)
        /\ UNCHANGED <<users, roles, positions, grants>>
    BY <1>4 DEF LeaveCommit
  <2>2. RowsAreLive'
    BY <1>0, <2>1 DEF RowsAreLive
  <2> QED BY <2>1, <2>2, CommitKeeps
<1> QED BY <1>1, <1>2, <1>3, <1>4

LEMMA RoleMoveKeeps ==
  ASSUME IInv, NEW p \in Procs, RoleMove(p)
  PROVE  IInv'
<1> DEFINE moved == IF arg[p].to = None THEN {} ELSE {q \in positions : q.role = arg[p].role}
           a == [arg[p] EXCEPT !.found = IdsOf(moved)]
<1>1. pc[p] = "deleting" /\ (moved # {} => arg[p].to \in roles) /\ Goto(p, "moved", a)
  BY DEF RoleMove
<1>2. IdsOf(moved) \subseteq Ids /\ (IdsOf(moved) # {} => moved # {}) /\ arg[p] \in Args
  BY RowsTyped DEF IdsOf
<1> HIDE DEF moved
<1>3. a \in Args /\ a.role = arg[p].role /\ a.to = arg[p].to /\ a.found = IdsOf(moved)
  BY <1>2 DEF Args
<1>4. arg[p].role \in Roles
  BY <1>1 DEF IInv, Chosen
<1> HIDE DEF a
<1> QED BY <1>1, <1>2, <1>3, <1>4, GoingKeeps DEF Steps, Waiting

LEMMA RoleDeleteKeeps ==
  ASSUME IInv, NEW p \in Procs, RoleDeleteCommit(p)
  PROVE  IInv'
<1> DEFINE a == arg[p]
           Now(q) == IF q.id \in a.found THEN [q EXCEPT !.role = a.to] ELSE q
           after == {Now(q) : q \in positions}
<1>1. /\ pc[p] = "moved" /\ a.role \in roles /\ ~Kept(p, a.role)
      /\ roles' = roles \ {a.role}
      /\ positions' = {q \in after : q.role # a.role}
      /\ members' = {m \in members : \A q \in after : q.id = m.position => q.role # a.role}
      /\ grants' = {g \in grants : g.role # a.role}
      /\ Commits(p) /\ users' = users /\ people' = people
  BY DEF RoleDeleteCommit
<1>2. RowsAreLive /\ Moved
  BY DEF IInv
<1>3. ASSUME NEW q \in positions
      PROVE  /\ Now(q) \in [id : Ids, role : Roles, unit : Units]
             /\ Now(q).id = q.id /\ Now(q).role \in roles
  <2>1. q \in [id : Ids, role : Roles, unit : Units] /\ q.role \in roles /\ roles \subseteq Roles
    BY <1>2, RowsTyped DEF RowsAreLive
  <2>2. q.id \in a.found => a.to \in roles
    BY <1>1, <1>2 DEF Moved
  <2> QED BY <2>1, <2>2
<1> HIDE DEF a, Now
<1>4. positions' \in SUBSET [id : Ids, role : Roles, unit : Units]
  BY <1>1, <1>3
<1>5. RowsAreLive'
  <2>1. ASSUME NEW m \in members' PROVE m.person \in people' /\ m.position \in IdsOf(positions')
    <3>1. m \in members /\ m.person \in people /\ m.position \in IdsOf(positions)
      BY <1>1, <1>2 DEF RowsAreLive
    <3>2. PICK q \in positions : q.id = m.position
      BY <3>1 DEF IdsOf
    <3>3. Now(q) \in after /\ Now(q).id = m.position
      BY <3>2, <1>3
    <3>4. Now(q) \in positions'
      BY <1>1, <3>3
    <3>5. m.position \in IdsOf(positions')
      BY <3>3, <3>4 DEF IdsOf
    <3> QED BY <1>1, <3>1, <3>5
  <2>2. \A q \in positions' : q.role \in roles'
    BY <1>1, <1>3
  <2>3. people' \subseteq users' /\ \A g \in grants' : g.role \in roles'
    BY <1>1, <1>2 DEF RowsAreLive
  <2> QED BY <2>1, <2>2, <2>3 DEF RowsAreLive, IdsOf
<1>6. /\ arg' \in [Procs -> Args] /\ pc' \in [Procs -> Steps] /\ Chosen'
      /\ \A q \in Procs : pc'[q] = "moved" =>
           /\ pc[q] = "moved" /\ q # p
           /\ arg'[q].to = arg[q].to /\ arg'[q].found = arg[q].found
  <2>1. Overtake({p}) /\ pc' = [pc EXCEPT ![p] = "done"]
    BY <1>1 DEF Commits
  <2> QED BY <2>1, Overtaking
<1>7. Moved'
  <2> SUFFICES ASSUME NEW q \in Procs, pc'[q] = "moved", arg'[q].found # {} PROVE arg'[q].to \in roles'
    BY DEF Moved
  <2>1. pc[q] = "moved" /\ q # p /\ arg'[q].to = arg[q].to /\ arg[q].found # {}
    BY <1>6
  <2>2. arg[q].to \in roles
    BY <1>2, <2>1 DEF Moved
  <2>3. arg[q].to # a.role
    BY <1>1, <2>1 DEF Kept
  <2> QED BY <1>1, <2>1, <2>2, <2>3
<1>8. TypeOK'
  <2>1. members' \subseteq members /\ grants' \subseteq grants /\ roles' \subseteq roles
    BY <1>1
  <2> QED BY <1>1, <1>4, <1>6, <2>1, RowsTyped DEF TypeOK, Steps
<1> QED BY <1>5, <1>6, <1>7, <1>8 DEF IInv

LEMMA SaveKeeps ==
  ASSUME IInv, NEW p \in Procs, SaveClear(p) \/ SaveCommit(p)
  PROVE  IInv'
<1>0. arg[p] \in Args /\ grants \in SUBSET Rows
  BY RowsTyped
<1>1. ASSUME SaveClear(p) PROVE IInv'
  <2> DEFINE rows == {g \in grants : \E cell \in arg[p].cells : SameCell(g, cell)}
             a == [arg[p] EXCEPT !.rows = rows]
  <2>1. a \in Args
    BY <1>0 DEF Args
  <2>2. Goto(p, "cleared", a)
    BY <1>1 DEF SaveClear
  <2> HIDE DEF a
  <2> QED BY <2>1, <2>2, GoingKeeps DEF Steps, Waiting
<1>2. ASSUME SaveCommit(p) PROVE IInv'
  <2> DEFINE new == {cell \in arg[p].cells : cell.scope # None}
  <2>1. /\ \A cell \in new : cell.role \in roles
        /\ grants' = (grants \ arg[p].rows) \cup new
        /\ Commits(p)
        /\ UNCHANGED <<users, people, roles, positions, members>>
    BY <1>2 DEF SaveCommit
  <2>2. new \subseteq Rows
    BY <1>0 DEF Args, Cells, Rows
  <2> HIDE DEF new
  <2>3. RowsAreLive'
    BY <2>1 DEF IInv, RowsAreLive, IdsOf
  <2>4. grants' \in SUBSET Rows
    BY <1>0, <2>1, <2>2
  <2> QED BY <2>1, <2>3, <2>4, RowsTyped, CommitKeeps
<1> QED BY <1>1, <1>2

LEMMA EndKeeps ==
  ASSUME IInv, NEW m \in members, End(m)
  PROVE  IInv'
<1> DEFINE n == [m EXCEPT !.ended = TRUE]
<1>1. /\ members' = (members \ {m}) \cup {n} /\ Overtake({})
      /\ UNCHANGED <<users, people, roles, positions, grants, pc>>
  BY DEF End
<1>2. n \in [person : People, position : Ids, ended : BOOLEAN]
      /\ n.person = m.person /\ n.position = m.position
  BY RowsTyped
<1> HIDE DEF n
<1>3. RowsAreLive'
  BY <1>1, <1>2 DEF IInv, RowsAreLive, IdsOf
<1>4. /\ arg' \in [Procs -> Args] /\ pc' \in [Procs -> Steps] /\ Chosen'
      /\ \A q \in Procs : pc'[q] = "moved" =>
           pc[q] = "moved" /\ arg'[q].to = arg[q].to /\ arg'[q].found = arg[q].found
  <2>1. {} \in SUBSET Procs /\ pc' = pc
    BY <1>1
  <2> QED BY <1>1, <2>1, Overtaking
<1>5. Moved'
  BY <1>1, <1>4 DEF IInv, Moved
<1>6. members' \in SUBSET [person : People, position : Ids, ended : BOOLEAN]
  BY <1>1, <1>2, RowsTyped
<1>7. TypeOK'
  BY <1>1, <1>4, <1>6, RowsTyped DEF TypeOK, Steps
<1> QED BY <1>3, <1>4, <1>5, <1>7 DEF IInv

LEMMA StepKeeps == IInv /\ [Next]_vars => IInv'
<1> SUFFICES ASSUME IInv, [Next]_vars PROVE IInv'
  OBVIOUS
<1>1. CASE UNCHANGED vars
  <2>1. UNCHANGED <<users, people, roles, positions, members, grants, arg, pc>>
    BY <1>1 DEF vars, tables
  <2> QED BY <2>1 DEF IInv, TypeOK, Chosen, Moved, RowsAreLive, IdsOf
<1>2. CASE \E p \in Assigners, who \in People, role \in Roles, unit \in Units :
             AssignCheck(p, who, role, unit)
  BY <1>2, ChecksKeep DEF Procs
<1>3. CASE \E p \in Importers, who \in People, role \in Roles, unit, also \in Units :
             ImportCheck(p, who, role, {unit, also})
  BY <1>3, ChecksKeep DEF Procs
<1>4. CASE \E p \in Assigners \cup Importers :
             PlaceCommit(p) \/ \E ids \in SUBSET IdsOf(positions) : FindPositions(p, ids)
  BY <1>4, ChecksKeep, PlaceKeeps DEF Procs
<1>5. CASE \E p \in Removers :
             RemoveCommit(p) \/ \E who \in People, id \in IdsOf(positions) : RemoveCheck(p, who, id)
  BY <1>5, ChecksKeep, OneRowKeeps DEF Procs
<1>6. CASE \E p \in Leavers : LeaveCommit(p) \/ \E who \in People : LeaveCheck(p, who)
  BY <1>6, ChecksKeep, OneRowKeeps DEF Procs
<1>7. CASE \/ \E p \in Makers, who \in People : createPerson(p, who)
           \/ \E p \in Makers, role \in Roles : createRole(p, role)
  BY <1>7, OneRowKeeps DEF Procs
<1>8. CASE \/ \E p \in RoleDeleters, role \in Roles, to \in Roles \cup {None} :
                RoleDeleteCheck(p, role, to)
           \/ \E p \in RoleDeleters : RoleMove(p) \/ RoleDeleteCommit(p)
  BY <1>8, ChecksKeep, RoleMoveKeeps, RoleDeleteKeeps DEF Procs
<1>9. CASE \E p \in Savers : SaveClear(p) \/ SaveCommit(p) \/ \E body \in Bodies : SaveCheck(p, body)
  BY <1>9, ChecksKeep, SaveKeeps DEF Procs
<1>10. CASE \E p \in Procs : Rollback(p)
  BY <1>10, ChecksKeep
<1>11. CASE \E m \in members : End(m)
  BY <1>11, EndKeeps
<1> QED
  BY <1>1, <1>2, <1>3, <1>4, <1>5, <1>6, <1>7, <1>8, <1>9, <1>10, <1>11 DEF Next

LEMMA Invariance == Spec => []IInv
<1>1. Init => IInv
  BY InitIInv
<1>2. IInv /\ [Next]_vars => IInv'
  BY StepKeeps
<1> QED BY <1>1, <1>2, PTL DEF Spec

(* Every table, and every request under way, stays well typed.             *)
THEOREM RosterTypeCorrect == Spec => []TypeOK
<1>1. IInv => TypeOK
  BY DEF IInv
<1> QED BY <1>1, Invariance, PTL

(* The foreign keys and cascades (deletePerson, deleteRole, addAssignment, *)
(* commitImport, writeMatrix): whatever races, no post, position or power  *)
(* is left of a person or role that is gone.                               *)
THEOREM RowsStayLive == Spec => []RowsAreLive
<1>1. IInv => RowsAreLive
  BY DEF IInv
<1> QED BY <1>1, Invariance, PTL

(* Checks, lists and hints never disagree about what collectGrants answers,*)
(* at any moment of the organisation's life.                               *)
THEOREM ReadingsAlwaysAgree == Spec => []ReadingsAgree
<1>1. IInv => ReadingsAgree
  <2> SUFFICES ASSUME IInv, NEW who \in People, NEW c \in Capabilities, NEW G \in collectGrants(who)
               PROVE  OneRule(G, c)
    BY DEF ReadingsAgree
  <2>1. G \in SUBSET Candidates
    BY RowsTyped, CollectedTyped
  <2> QED BY <2>1, ReadingsAreOneRule
<1> QED BY <1>1, Invariance, PTL

-----------------------------------------------------------------------------
(* What a request was checked on still holds while nothing overtakes it.   *)

\* A deletion of a role, and a save, at step at with what they hold in a.
StillChecked(at, a) ==
  ~a.stale =>
    /\ at \in {"deleting", "moved"} /\ a.to = None => HoldersOf(a.role) = {}
    /\ at = "moved" =>
         a.found = IF a.to = None THEN {} ELSE IdsOf({q \in positions : q.role = a.role})
    /\ at \in {"saving", "cleared"} => a.cells \in Bodies /\ somebodyCanStillEditPowers(a.cells)
    /\ at = "cleared" => a.rows = {g \in grants : \E cell \in a.cells : SameCell(g, cell)}

Checked == \A p \in Procs : StillChecked(pc[p], arg[p])

LEMMA GoingChecked ==
  ASSUME IInv, Checked, NEW p \in Procs, NEW at \in Steps, NEW a \in Args, Goto(p, at, a),
         StillChecked(at, a)
  PROVE  Checked'
<1>1. /\ UNCHANGED tables
      /\ pc'[p] = at /\ arg'[p] = a
      /\ \A q \in Procs \ {p} : pc'[q] = pc[q] /\ arg'[q] = arg[q]
  BY Going DEF IInv
<1>2. UNCHANGED <<positions, members, grants>>
  BY <1>1 DEF tables
<1>3. ASSUME NEW q \in Procs PROVE StillChecked(pc[q], arg[q])'
  <2> DEFINE b == IF q = p THEN a ELSE arg[q]
             stands == IF q = p THEN at ELSE pc[q]
  <2>1. arg'[q] = b /\ pc'[q] = stands /\ StillChecked(stands, b)
    BY <1>1 DEF Checked
  <2> HIDE DEF b, stands
  <2> QED BY <1>2, <2>1 DEF StillChecked, HoldersOf, IdsOf, somebodyCanStillEditPowers, EditCells
<1> QED BY <1>3 DEF Checked

\* Whatever commits overtakes every other request under way.
LEMMA OvertakingChecked ==
  ASSUME IInv, NEW done \in SUBSET Procs, Overtake(done),
         \/ done = {} /\ pc' = pc
         \/ \E p \in Procs : done = {p} /\ pc' = [pc EXCEPT ![p] = "done"]
  PROVE  Checked'
<1>1. arg \in [Procs -> Args] /\ pc \in [Procs -> Steps]
  BY DEF IInv, TypeOK, Steps
<1>2. SUFFICES ASSUME NEW q \in Procs PROVE StillChecked(pc[q], arg[q])'
  BY DEF Checked
<1>3. CASE pc'[q] \notin Waiting
  BY <1>3 DEF StillChecked, Waiting
<1>4. CASE pc'[q] \in Waiting
  <2>1. q \notin done /\ pc[q] \in Waiting
    BY <1>1, <1>4 DEF Waiting
  <2> DEFINE a == arg[q]
             b == pc[q] \in Waiting
  <2>2. arg'[q] = [a EXCEPT !.stale = b]
    BY <2>1 DEF Overtake
  <2>3. a \in Args /\ b
    BY <1>1, <2>1
  <2> HIDE DEF a, b
  <2>4. [a EXCEPT !.stale = b].stale = b
    BY <2>3 DEF Args
  <2>5. arg'[q].stale
    BY <2>2, <2>3, <2>4
  <2> QED BY <2>5 DEF StillChecked
<1> QED BY <1>3, <1>4

LEMMA CommitChecked ==
  ASSUME IInv, NEW p \in Procs, Commits(p)
  PROVE  Checked'
  BY OvertakingChecked DEF Commits

\* A step that does not leave a role's deletion or a save under way says nothing of it.
LEMMA OtherChecked ==
  ASSUME IInv, Checked, NEW p \in Procs, NEW at \in Steps, NEW a \in Args, Goto(p, at, a),
         at \notin {"deleting", "moved", "saving", "cleared"}
  PROVE  Checked'
  BY GoingChecked DEF StillChecked

LEMMA RequestsChecked ==
  ASSUME IInv, Checked, NEW p \in Procs,
         \/ \E who \in People, role \in Roles, unit \in Units : AssignCheck(p, who, role, unit)
         \/ \E who \in People, role \in Roles, unit, also \in Units :
              ImportCheck(p, who, role, {unit, also})
         \/ \E ids \in SUBSET IdsOf(positions) : FindPositions(p, ids)
         \/ \E who \in People, id \in IdsOf(positions) : RemoveCheck(p, who, id)
         \/ \E who \in People : LeaveCheck(p, who)
         \/ Rollback(p)
  PROVE  Checked'
<1>0. IdsOf(positions) \subseteq Ids /\ arg[p] \in Args
  BY RowsTyped DEF IdsOf
<1>1. ASSUME NEW who \in People, NEW role \in Roles, NEW U \in SUBSET Units,
             Goto(p, "placing", [NoArg EXCEPT !.who = who, !.role = role, !.units = U])
      PROVE  Checked'
  <2> DEFINE a == [NoArg EXCEPT !.who = who, !.role = role, !.units = U]
  <2>1. a \in Args
    BY NoArgTyped DEF Args, NoArg
  <2>2. Goto(p, "placing", a)
    BY <1>1
  <2> HIDE DEF a
  <2> QED BY <2>1, <2>2, OtherChecked DEF Steps, Waiting
<1>2. ASSUME NEW who \in People, NEW role \in Roles, NEW unit \in Units, AssignCheck(p, who, role, unit)
      PROVE  Checked'
  <2>1. {unit} \in SUBSET Units
    OBVIOUS
  <2>2. Goto(p, "placing", [NoArg EXCEPT !.who = who, !.role = role, !.units = {unit}])
    BY <1>2 DEF AssignCheck
  <2> QED BY <2>1, <2>2, <1>1
<1>3. ASSUME NEW who \in People, NEW role \in Roles, NEW unit \in Units, NEW also \in Units,
             ImportCheck(p, who, role, {unit, also})
      PROVE  Checked'
  <2>1. {unit, also} \in SUBSET Units
    OBVIOUS
  <2>2. Goto(p, "placing", [NoArg EXCEPT !.who = who, !.role = role, !.units = {unit, also}])
    BY <1>3 DEF ImportCheck
  <2> QED BY <2>1, <2>2, <1>1
<1>4. ASSUME NEW ids \in SUBSET IdsOf(positions), FindPositions(p, ids) PROVE Checked'
  <2> DEFINE a == [arg[p] EXCEPT !.found = ids]
  <2>1. a \in Args
    BY <1>0 DEF Args
  <2>2. Goto(p, "found", a)
    BY <1>4 DEF FindPositions
  <2> HIDE DEF a
  <2> QED BY <2>1, <2>2, OtherChecked DEF Steps, Waiting
<1>5. ASSUME NEW who \in People, NEW id \in IdsOf(positions), RemoveCheck(p, who, id) PROVE Checked'
  <2> DEFINE a == [NoArg EXCEPT !.who = who, !.found = {id}]
  <2>1. a \in Args
    BY <1>0, NoArgTyped DEF Args, NoArg
  <2>2. Goto(p, "removing", a)
    BY <1>5 DEF RemoveCheck
  <2> HIDE DEF a
  <2> QED BY <2>1, <2>2, OtherChecked DEF Steps, Waiting
<1>6. ASSUME NEW who \in People, LeaveCheck(p, who) PROVE Checked'
  <2> DEFINE a == [NoArg EXCEPT !.who = who]
  <2>1. a \in Args
    BY NoArgTyped DEF Args, NoArg
  <2>2. Goto(p, "leaving", a)
    BY <1>6 DEF LeaveCheck
  <2> HIDE DEF a
  <2> QED BY <2>1, <2>2, OtherChecked DEF Steps, Waiting
<1>7. ASSUME Rollback(p) PROVE Checked'
  BY <1>7, NoArgTyped, OtherChecked DEF Rollback, Steps
<1> QED BY <1>2, <1>3, <1>4, <1>5, <1>6, <1>7

LEMMA RoleDeletesChecked ==
  ASSUME IInv, Checked, NEW p \in Procs,
         \/ \E role \in Roles, to \in Roles \cup {None} : RoleDeleteCheck(p, role, to)
         \/ RoleMove(p)
  PROVE  Checked'
<1>1. ASSUME NEW role \in Roles, NEW to \in Roles \cup {None}, RoleDeleteCheck(p, role, to) PROVE Checked'
  <2> DEFINE a == [NoArg EXCEPT !.role = role, !.to = to]
  <2>1. a \in Args /\ a.role = role /\ a.to = to
    BY NoArgTyped DEF Args, NoArg
  <2>2. Goto(p, "deleting", a) /\ (to = None => HoldersOf(role) = {})
    BY <1>1 DEF RoleDeleteCheck
  <2> HIDE DEF a
  <2>3. StillChecked("deleting", a)
    BY <2>1, <2>2 DEF StillChecked
  <2> QED BY <2>1, <2>2, <2>3, GoingChecked DEF Steps, Waiting
<1>2. ASSUME RoleMove(p) PROVE Checked'
  <2> DEFINE moved == IF arg[p].to = None THEN {} ELSE {q \in positions : q.role = arg[p].role}
             a == [arg[p] EXCEPT !.found = IdsOf(moved)]
  <2>1. pc[p] = "deleting" /\ Goto(p, "moved", a)
    BY <1>2 DEF RoleMove
  <2>2. /\ IdsOf(moved) \subseteq Ids /\ arg[p] \in Args
        /\ IdsOf(moved) = IF arg[p].to = None THEN {}
                          ELSE IdsOf({q \in positions : q.role = arg[p].role})
    BY RowsTyped DEF IdsOf
  <2> HIDE DEF moved
  <2>3. /\ a \in Args /\ a.role = arg[p].role /\ a.to = arg[p].to /\ a.stale = arg[p].stale
        /\ a.found = IdsOf(moved)
    BY <2>2 DEF Args
  <2> HIDE DEF a
  <2>4. StillChecked("moved", a)
    BY <2>1, <2>2, <2>3 DEF Checked, StillChecked
  <2> QED BY <2>1, <2>3, <2>4, GoingChecked DEF Steps, Waiting
<1> QED BY <1>1, <1>2

LEMMA SavesChecked ==
  ASSUME IInv, Checked, NEW p \in Procs,
         SaveClear(p) \/ \E body \in Bodies : SaveCheck(p, body)
  PROVE  Checked'
<1>1. ASSUME NEW body \in Bodies, SaveCheck(p, body) PROVE Checked'
  <2> DEFINE a == [NoArg EXCEPT !.cells = body]
  <2>1. a \in Args /\ a.cells = body
    BY RosterAssumption, NoArgTyped DEF Args, NoArg
  <2>2. Goto(p, "saving", a) /\ somebodyCanStillEditPowers(body)
    BY <1>1 DEF SaveCheck
  <2> HIDE DEF a
  <2>3. StillChecked("saving", a)
    BY <2>1, <2>2 DEF StillChecked
  <2> QED BY <2>1, <2>2, <2>3, GoingChecked DEF Steps, Waiting
<1>2. ASSUME SaveClear(p) PROVE Checked'
  <2> DEFINE rows == {g \in grants : \E cell \in arg[p].cells : SameCell(g, cell)}
             a == [arg[p] EXCEPT !.rows = rows]
  <2>1. arg[p] \in Args /\ rows \in SUBSET Rows
    BY RowsTyped
  <2>2. pc[p] = "saving" /\ Goto(p, "cleared", a)
    BY <1>2 DEF SaveClear
  <2>3. a \in Args /\ a.cells = arg[p].cells /\ a.stale = arg[p].stale /\ a.rows = rows
    BY <2>1 DEF Args
  <2> HIDE DEF a
  <2>4. StillChecked("cleared", a)
    BY <2>2, <2>3 DEF Checked, StillChecked
  <2> QED BY <2>2, <2>3, <2>4, GoingChecked DEF Steps, Waiting
<1> QED BY <1>1, <1>2

LEMMA StepChecked == IInv /\ Checked /\ [Next]_vars => Checked'
<1> SUFFICES ASSUME IInv, Checked, [Next]_vars PROVE Checked'
  OBVIOUS
<1>1. CASE UNCHANGED vars
  <2>1. UNCHANGED <<positions, members, grants, arg, pc>>
    BY <1>1 DEF vars, tables
  <2>2. \A role \in Roles : HoldersOf(role)' = HoldersOf(role)
    BY <2>1 DEF HoldersOf, IdsOf
  <2>3. \A cells \in Bodies : somebodyCanStillEditPowers(cells)' <=> somebodyCanStillEditPowers(cells)
    BY <2>1 DEF somebodyCanStillEditPowers, EditCells, IdsOf
  <2>4. ASSUME NEW p \in Procs PROVE StillChecked(pc[p], arg[p])'
    <3>1. /\ StillChecked(pc[p], arg[p])
          /\ pc'[p] = pc[p] /\ arg'[p] = arg[p]
      BY <2>1 DEF Checked
    <3>2. pc[p] \in {"deleting", "moved"} => arg[p].role \in Roles
      BY DEF IInv, Chosen
    <3> QED BY <2>1, <2>2, <2>3, <3>1, <3>2 DEF StillChecked
  <2> QED BY <2>4 DEF Checked
<1>2. ASSUME NEW p \in Procs,
             PlaceCommit(p) \/ RemoveCommit(p) \/ LeaveCommit(p) \/ RoleDeleteCommit(p) \/ SaveCommit(p)
               \/ (\E who \in People : createPerson(p, who)) \/ (\E role \in Roles : createRole(p, role))
      PROVE  Checked'
  <2>1. Commits(p)
    BY <1>2 DEF PlaceCommit, RemoveCommit, LeaveCommit, RoleDeleteCommit, SaveCommit,
                createPerson, createRole
  <2> QED BY <2>1, CommitChecked
<1>3. CASE \E p \in Assigners, who \in People, role \in Roles, unit \in Units :
             AssignCheck(p, who, role, unit)
  BY <1>3, RequestsChecked DEF Procs
<1>4. CASE \E p \in Importers, who \in People, role \in Roles, unit, also \in Units :
             ImportCheck(p, who, role, {unit, also})
  BY <1>4, RequestsChecked DEF Procs
<1>5. CASE \E p \in Assigners \cup Importers :
             PlaceCommit(p) \/ \E ids \in SUBSET IdsOf(positions) : FindPositions(p, ids)
  BY <1>2, <1>5, RequestsChecked DEF Procs
<1>6. CASE \E p \in Removers :
             RemoveCommit(p) \/ \E who \in People, id \in IdsOf(positions) : RemoveCheck(p, who, id)
  BY <1>2, <1>6, RequestsChecked DEF Procs
<1>7. CASE \E p \in Leavers : LeaveCommit(p) \/ \E who \in People : LeaveCheck(p, who)
  BY <1>2, <1>7, RequestsChecked DEF Procs
<1>8. CASE \/ \E p \in Makers, who \in People : createPerson(p, who)
           \/ \E p \in Makers, role \in Roles : createRole(p, role)
  BY <1>2, <1>8 DEF Procs
<1>9. CASE \/ \E p \in RoleDeleters, role \in Roles, to \in Roles \cup {None} :
                RoleDeleteCheck(p, role, to)
           \/ \E p \in RoleDeleters : RoleMove(p) \/ RoleDeleteCommit(p)
  BY <1>2, <1>9, RoleDeletesChecked DEF Procs
<1>10. CASE \E p \in Savers : SaveClear(p) \/ SaveCommit(p) \/ \E body \in Bodies : SaveCheck(p, body)
  BY <1>2, <1>10, SavesChecked DEF Procs
<1>11. CASE \E p \in Procs : Rollback(p)
  BY <1>11, RequestsChecked
<1>12. CASE \E m \in members : End(m)
  <2>1. {} \in SUBSET Procs /\ pc' = pc /\ Overtake({})
    BY <1>12 DEF End
  <2> QED BY <2>1, OvertakingChecked
<1> QED
  BY <1>1, <1>3, <1>4, <1>5, <1>6, <1>7, <1>8, <1>9, <1>10, <1>11, <1>12 DEF Next

\* The step that ends a request at its last step: its own commit, or one that changes
\* no table.
LEMMA WhoseCommit ==
  ASSUME IInv, [Next]_vars, NEW p \in Procs, pc[p] \in {"found", "moved", "cleared"}, pc'[p] = "done"
  PROVE  \/ pc[p] = "found" /\ PlaceCommit(p)
         \/ pc[p] = "moved" /\ RoleDeleteCommit(p)
         \/ pc[p] = "cleared" /\ SaveCommit(p)
         \/ UNCHANGED tables
<1>0. pc \in [Procs -> Steps]
  BY DEF IInv, TypeOK, Steps
<1>1. ASSUME NEW q \in Procs, NEW at, pc' = [pc EXCEPT ![q] = at], pc[q] \notin {"found", "moved", "cleared"}
      PROVE  FALSE
  BY <1>0, <1>1
<1>2. CASE UNCHANGED vars
  BY <1>2 DEF vars
<1>3. CASE \E q \in Assigners, who \in People, role \in Roles, unit \in Units :
             AssignCheck(q, who, role, unit)
  BY <1>1, <1>3 DEF Procs, AssignCheck, Arrives, Goto
<1>4. CASE \E q \in Importers, who \in People, role \in Roles, unit, also \in Units :
             ImportCheck(q, who, role, {unit, also})
  BY <1>1, <1>4 DEF Procs, ImportCheck, Arrives, Goto
<1>5. CASE \E q \in Assigners \cup Importers, ids \in SUBSET IdsOf(positions) : FindPositions(q, ids)
  BY <1>1, <1>5 DEF Procs, FindPositions, Goto
<1>6. CASE \E q \in Removers :
             RemoveCommit(q) \/ \E who \in People, id \in IdsOf(positions) : RemoveCheck(q, who, id)
  BY <1>1, <1>6 DEF Procs, RemoveCommit, RemoveCheck, Commits, Arrives, Goto
<1>7. CASE \E q \in Leavers : LeaveCommit(q) \/ \E who \in People : LeaveCheck(q, who)
  BY <1>1, <1>7 DEF Procs, LeaveCommit, LeaveCheck, Commits, Arrives, Goto
<1>8. CASE \/ \E q \in Makers, who \in People : createPerson(q, who)
           \/ \E q \in Makers, role \in Roles : createRole(q, role)
  BY <1>1, <1>8 DEF Procs, createPerson, createRole, Commits, Arrives
<1>9. CASE \/ \E q \in RoleDeleters, role \in Roles, to \in Roles \cup {None} :
                RoleDeleteCheck(q, role, to)
           \/ \E q \in RoleDeleters : RoleMove(q)
  BY <1>1, <1>9 DEF Procs, RoleDeleteCheck, RoleMove, Arrives, Goto
<1>10. CASE \E q \in RoleDeleters : RoleDeleteCommit(q)
  <2>1. PICK q \in RoleDeleters : RoleDeleteCommit(q)
    BY <1>10
  <2>2. q \in Procs /\ pc' = [pc EXCEPT ![q] = "done"] /\ pc[q] = "moved"
    BY <2>1 DEF RoleDeleteCommit, Commits, Procs
  <2> QED BY <1>0, <2>1, <2>2
<1>11. CASE \E q \in Savers : SaveClear(q) \/ \E body \in Bodies : SaveCheck(q, body)
  BY <1>1, <1>11 DEF Procs, SaveClear, SaveCheck, Arrives, Goto
<1>12. CASE \E q \in Savers : SaveCommit(q)
  <2>1. PICK q \in Savers : SaveCommit(q)
    BY <1>12
  <2>2. q \in Procs /\ pc' = [pc EXCEPT ![q] = "done"] /\ pc[q] = "cleared"
    BY <2>1 DEF SaveCommit, Commits, Procs
  <2> QED BY <1>0, <2>1, <2>2
<1>13. CASE \E q \in Procs : Rollback(q)
  BY <1>13 DEF Rollback, Goto
<1>14. CASE \E m \in members : End(m)
  BY <1>0, <1>14 DEF End
<1>15. CASE \E q \in Assigners \cup Importers : PlaceCommit(q)
  <2>1. PICK q \in Assigners \cup Importers : PlaceCommit(q)
    BY <1>15
  <2>2. q \in Procs /\ pc' = [pc EXCEPT ![q] = "done"] /\ pc[q] = "found"
    BY <2>1 DEF PlaceCommit, Commits, Procs
  <2> QED BY <1>0, <2>1, <2>2
<1> QED
  BY <1>2, <1>3, <1>4, <1>5, <1>6, <1>7, <1>8, <1>9, <1>10, <1>11, <1>12, <1>13, <1>14, <1>15 DEF Next

LEMMA CheckedInvariance == Spec => []Checked
<1>1. Init => Checked
  BY DEF Init, Checked, StillChecked
<1> QED BY <1>1, StepChecked, Invariance, PTL DEF Spec

\* A deletion whose check still holds moves every post of its role, or finds none.
LEMMA DeletionMovesHolders ==
  ASSUME IInv, Checked, NEW p \in Procs, RoleDeleteCommit(p), ~arg[p].stale,
         arg[p].to # arg[p].role,
         NEW who \in People, NEW q \in Holds(who)
  PROVE  \E r \in Holds(who)' : r.unit = q.unit
<1> DEFINE a == arg[p]
           Now(r) == IF r.id \in a.found THEN [r EXCEPT !.role = a.to] ELSE r
           after == {Now(r) : r \in positions}
<1>1. /\ pc[p] = "moved"
      /\ positions' = {r \in after : r.role # a.role}
      /\ members' = {m \in members : \A r \in after : r.id = m.position => r.role # a.role}
  BY DEF RoleDeleteCommit
<1>2. /\ positions \in SUBSET [id : Ids, role : Roles, unit : Units]
      /\ a \in Args
  BY RowsTyped
<1>3. /\ a.to = None => HoldersOf(a.role) = {} /\ a.found = {}
      /\ a.to # None => a.found = IdsOf({r \in positions : r.role = a.role})
  BY <1>1 DEF Checked, StillChecked
<1>4. PICK m \in members : m.person = who /\ m.position = q.id /\ ~m.ended
  BY DEF Holds
<1>5. q \in positions
  BY DEF Holds
<1>6. ASSUME NEW r \in positions
      PROVE  /\ Now(r).id = r.id /\ Now(r).unit = r.unit
             /\ Now(r).role = IF r.id \in a.found THEN a.to ELSE r.role
  <2>1. r \in [id : Ids, role : Roles, unit : Units]
    BY <1>2
  <2> QED BY <2>1
<1> HIDE DEF Now, a
<1>7. ASSUME NEW r \in positions, r.id = q.id PROVE Now(r).role # a.role
  <2>1. CASE a.to = None
    <3>1. r.role # a.role
      <4>1. r.role = a.role => m.person \in HoldersOf(a.role)
        BY <1>4, <1>7 DEF HoldersOf
      <4> QED BY <1>3, <2>1, <4>1
    <3> QED BY <1>3, <1>6, <2>1, <3>1
  <2>2. CASE a.to # None
    <3>1. r.role = a.role => r.id \in a.found
      BY <1>3, <2>2 DEF IdsOf
    <3>2. a.to # a.role
      BY DEF a
    <3> QED BY <1>6, <3>1, <3>2
  <2> QED BY <2>1, <2>2
<1>8. m \in members'
  <2> SUFFICES ASSUME NEW r \in after, r.id = m.position PROVE r.role # a.role
    BY <1>1
  <2>1. PICK s \in positions : r = Now(s)
    OBVIOUS
  <2>2. s.id = q.id
    BY <1>4, <1>6, <2>1
  <2> QED BY <1>7, <2>1, <2>2
<1>9. Now(q) \in positions'
  BY <1>1, <1>5, <1>7
<1>10. Now(q).id = m.position /\ Now(q).unit = q.unit
  BY <1>4, <1>5, <1>6
<1>11. Now(q) \in Holds(who)'
  BY <1>4, <1>8, <1>9, <1>10 DEF Holds
<1> QED BY <1>10, <1>11

(* "Deleting cascades the positions away, and everyone's access with them, *)
(* so it refuses" (deleteRole): a deletion that nothing overtook leaves    *)
(* everybody a post at each unit they had one, for any number of roles,    *)
(* people and requests.                                                    *)
THEOREM HoldersAlwaysMoved == Spec => HoldersAreMoved
<1>1. IInv /\ Checked /\ [Next]_vars =>
        [\A p \in RoleDeleters :
           Undisturbed(p, "moved") /\ arg[p].to # arg[p].role =>
             \A who \in People :
               {q.unit : q \in Holds(who)} \subseteq {q.unit : q \in Holds(who)'}]_vars
  <2> SUFFICES ASSUME IInv, Checked, [Next]_vars, NEW p \in RoleDeleters,
                      Undisturbed(p, "moved"), arg[p].to # arg[p].role,
                      NEW who \in People, NEW q \in Holds(who)
               PROVE  \E r \in Holds(who)' : r.unit = q.unit
    OBVIOUS
  <2>1. p \in Procs /\ pc[p] = "moved" /\ pc'[p] = "done" /\ ~arg[p].stale
    BY DEF Procs, Undisturbed
  <2>2. CASE RoleDeleteCommit(p)
    BY <2>1, <2>2, DeletionMovesHolders
  <2>3. CASE UNCHANGED tables
    <3>1. UNCHANGED <<positions, members>>
      BY <2>3 DEF tables
    <3> QED BY <3>1 DEF Holds
  <2> QED BY <2>1, <2>2, <2>3, WhoseCommit
<1> QED BY <1>1, Invariance, CheckedInvariance, PTL DEF Spec, HoldersAreMoved

\* A save names a cell of the grid once.
OneCellEach == \A body \in Bodies : \A c, d \in body : SameCell(c, d) => c = d

\* What the route asks of a role's rows: one that allows on everything, none that denies on it.
EditAll(r, effect) ==
  \E g \in grants : g.role = r /\ g.capability = "grant.update" /\ g.scope = "all" /\ g.effect = effect
EditorsByRow == {r \in roles : EditAll(r, "allow") /\ ~EditAll(r, "deny")}

LEMMA EditorsAre == Editors = EditorsByRow
<1> SUFFICES ASSUME NEW r \in roles
             PROVE  May({Placed(g, None) : g \in RowsOf(r)}, "grant.update", OfOrg) <=>
                      EditAll(r, "allow") /\ ~EditAll(r, "deny")
  BY DEF Editors, EditorsByRow
<1> DEFINE G == {Placed(g, None) : g \in RowsOf(r)}
<1>1. \A g : scopeCovers(Placed(g, None), OfOrg) <=> g.scope = "all"
  BY DEF scopeCovers, Placed, OfOrg
<1>2. ASSUME NEW effect
      PROVE  Matching(G, "grant.update", effect, OfOrg) # {} <=> EditAll(r, effect)
  <2>1. \A g : /\ Placed(g, None).capability = g.capability /\ Placed(g, None).effect = g.effect
               /\ scopeCovers(Placed(g, None), OfOrg) <=> g.scope = "all"
    BY <1>1 DEF Placed
  <2>2. Matching(G, "grant.update", effect, OfOrg) # {} <=>
          \E g \in RowsOf(r) : /\ Placed(g, None).capability = "grant.update"
                               /\ Placed(g, None).effect = effect
                               /\ scopeCovers(Placed(g, None), OfOrg)
    BY DEF Matching
  <2> QED BY <2>1, <2>2 DEF RowsOf, EditAll
<1>3. May(G, "grant.update", OfOrg) <=>
        /\ Matching(G, "grant.update", "deny", OfOrg) = {}
        /\ Matching(G, "grant.update", "allow", OfOrg) # {}
  <2> HIDE DEF G
  <2> QED BY DEF May, resolve
<1> QED BY <1>2, <1>3

\* A commit on what was checked: the guard saw to an allow, and it is of everything.
LEMMA SaveLeavesAnEditor ==
  ASSUME OneCellEach, IInv, Checked, NEW p \in Procs, SaveCommit(p), ~arg[p].stale,
         OneRowPerCell, EditsAreOrgWide', Editors # {}
  PROVE  Editors' # {}
<1> DEFINE cells == arg[p].cells
           new == {cell \in cells : cell.scope # None}
           IsEdit(g) == g.capability = "grant.update"
<1>1. /\ grants' = (grants \ arg[p].rows) \cup new
      /\ \A cell \in new : cell.role \in roles
      /\ roles' = roles /\ pc[p] = "cleared"
  BY DEF SaveCommit
<1>2. /\ cells \in Bodies /\ somebodyCanStillEditPowers(cells)
      /\ arg[p].rows = {g \in grants : \E cell \in cells : SameCell(g, cell)}
  BY <1>1 DEF Checked, StillChecked
<1>3. \A c, d \in cells : SameCell(c, d) => c = d
  BY <1>2 DEF OneCellEach
<1>4. \A g \in grants' : \/ g \in new
                         \/ g \in grants /\ \A cell \in cells : ~SameCell(g, cell)
  BY <1>1, <1>2
<1> HIDE DEF cells
<1>e. (Editors = EditorsByRow)'
  BY EditorsAre, PTL
<1>5. ASSUME NEW r \in roles,
             \E g \in grants' : g.role = r /\ IsEdit(g),
             \A g \in grants' : g.role = r /\ IsEdit(g) => g.effect = "allow"
      PROVE  Editors' # {}
  <2>1. \A g \in grants' : g.role = r /\ IsEdit(g) => g.scope = "all"
    BY <1>5 DEF EditsAreOrgWide
  <2>2. r \in roles'
    BY <1>1, <1>5
  <2>3. r \in Editors'
    BY <1>5, <1>e, <2>1, <2>2 DEF EditorsByRow, EditAll
  <2> QED BY <2>3
<1>6. CASE EditCells(cells) = {}
  <2>1. PICK r \in Editors : TRUE
    OBVIOUS
  <2>2. PICK e \in grants : e.role = r /\ IsEdit(e) /\ e.effect = "allow"
    BY <2>1, EditorsAre DEF EditorsByRow, EditAll
  <2>6. /\ r \in roles
        /\ \A g \in grants : g.role = r /\ IsEdit(g) => g = e
    BY <2>1, <2>2, EditorsAre DEF OneRowPerCell, SameCell, EditorsByRow
  <2>3. \A cell \in cells : ~IsEdit(cell)
    BY <1>6 DEF EditCells
  <2>4. \A g \in grants : IsEdit(g) => g \in grants'
    BY <1>1, <1>2, <2>3 DEF SameCell
  <2>5. \A g \in grants' : IsEdit(g) => g \in grants
    BY <1>4, <2>3
  <2> QED BY <1>5, <2>2, <2>4, <2>5, <2>6
<1>7. CASE \E cell \in EditCells(cells) : cell.scope # None /\ cell.effect = "allow"
  <2>1. PICK cell \in EditCells(cells) : cell.scope # None /\ cell.effect = "allow"
    BY <1>7
  <2>2. cell \in new /\ cell \in cells /\ IsEdit(cell) /\ cell.role \in roles
    BY <1>1, <2>1 DEF EditCells
  <2>3. \A g \in grants' : g.role = cell.role /\ IsEdit(g) => g = cell
    BY <1>3, <1>4, <2>2 DEF SameCell
  <2> QED BY <1>1, <1>5, <2>1, <2>2, <2>3
<1>8. CASE \E g \in grants : /\ IsEdit(g) /\ g.effect = "allow"
                             /\ \A cell \in EditCells(cells) : ~SameCell(g, cell)
  <2>1. PICK g \in grants : /\ IsEdit(g) /\ g.effect = "allow"
                            /\ \A cell \in EditCells(cells) : ~SameCell(g, cell)
    BY <1>8
  <2>2. g.role \in roles
    BY DEF IInv, RowsAreLive
  <2>3. \A cell \in cells : ~SameCell(g, cell)
    BY <2>1 DEF SameCell, EditCells
  <2>4. g \in grants'
    BY <1>1, <1>2, <2>3
  <2>5. \A h \in grants' : h.role = g.role /\ IsEdit(h) => h = g
    <3> SUFFICES ASSUME NEW h \in grants', h.role = g.role, IsEdit(h) PROVE h = g
      OBVIOUS
    <3>1. SameCell(g, h)
      BY <2>1 DEF SameCell
    <3>2. CASE h \in new
      BY <2>3, <3>1, <3>2
    <3>3. CASE h \in grants
      BY <3>1, <3>3 DEF OneRowPerCell
    <3> QED BY <1>4, <3>2, <3>3
  <2> QED BY <1>5, <2>1, <2>2, <2>4, <2>5
<1> QED BY <1>2, <1>6, <1>7, <1>8 DEF somebodyCanStillEditPowers

(* The lockout guard (writeMatrix): where a save names each cell once, one *)
(* that nothing overtook leaves a role whose holders the route lets edit   *)
(* the grid, for any grid and any saves, if in the grid it leaves that     *)
(* power is given on the whole organisation only.                          *)
THEOREM SavesAlwaysKeepAnEditor == ASSUME OneCellEach PROVE Spec => SavesKeepAnEditor
<1>1. IInv /\ Checked /\ [Next]_vars =>
        [\A p \in Savers :
           Undisturbed(p, "cleared") /\ OneRowPerCell /\ EditsAreOrgWide' /\ Editors # {}
             => Editors' # {}]_vars
  <2> SUFFICES ASSUME IInv, Checked, [Next]_vars, NEW p \in Savers,
                      Undisturbed(p, "cleared"), OneRowPerCell, EditsAreOrgWide', Editors # {}
               PROVE  Editors' # {}
    OBVIOUS
  <2>1. p \in Procs /\ pc[p] = "cleared" /\ pc'[p] = "done" /\ ~arg[p].stale
    BY DEF Procs, Undisturbed
  <2>2. CASE SaveCommit(p)
    BY <2>1, <2>2, SaveLeavesAnEditor, OneCellEach
  <2>3. CASE UNCHANGED tables
    <3>1. UNCHANGED <<roles, grants>>
      BY <2>3 DEF tables
    <3> QED BY <3>1 DEF Editors, RowsOf
  <2> QED BY <2>1, <2>2, <2>3, WhoseCommit
<1> QED BY <1>1, Invariance, CheckedInvariance, PTL DEF Spec, SavesKeepAnEditor

-----------------------------------------------------------------------------
(* Nobody hands out a power they do not hold.                              *)

\* A request at step at is of the kind that has it; and a bound it was checked
\* under still holds while nothing overtakes it.
Stands(p, at, a) ==
  /\ at \in {"placing", "found"} => p \in Assigners \cup Importers
  /\ at \in {"saving", "cleared"} => p \in Savers
  /\ ~a.stale =>
       /\ at \in {"placing", "found"} =>
            \E G \in collectGrants(By[p]) : \A u \in a.units : ~Escalates(G, RowsOf(a.role), u)
       /\ at = "found" => \A i \in a.found : \E q \in positions :
                            q.id = i /\ q.role = a.role /\ q.unit \in a.units
       /\ at \in {"saving", "cleared"} =>
            \E G \in collectGrants(By[p]) : ~Overreaches(G, a.cells)

Sent == \A p \in Procs : Stands(p, pc[p], arg[p])

\* An id is one position's, and only a request that is over has given it.
IdsAreOnes ==
  /\ \A q, r \in positions : q.id = r.id => q = r
  /\ \A q \in positions, p \in Procs : q.id[1] = p => pc[p] = "done"

LEMMA InitSent == Init => Sent /\ IdsAreOnes
<1> SUFFICES ASSUME Init PROVE Sent /\ IdsAreOnes
  OBVIOUS
<1>1. Sent
  BY DEF Init, Sent, Stands
<1>2. ASSUME NEW q \in positions
      PROVE  q.id = <<None, q.role, q.unit>> /\ q = [id |-> q.id, role |-> q.role, unit |-> q.unit]
  BY DEF Init
<1>3. IdsAreOnes
  <2>1. \A q, r \in positions : q.id = r.id => q.role = r.role /\ q.unit = r.unit
    BY <1>2
  <2>2. \A q, r \in positions : q.id = r.id => q = r
    BY <1>2, <2>1
  <2>3. \A q \in positions, p \in Procs : q.id[1] # p
    BY <1>2, RosterAssumption
  <2> QED BY <2>2, <2>3 DEF IdsAreOnes
<1> QED BY <1>1, <1>3

\* What is collected of somebody depends on the tables alone.
LEMMA CollectedFrame ==
  ASSUME UNCHANGED <<positions, members, grants>>, NEW who
  PROVE  /\ collectGrants(who)' = collectGrants(who)
         /\ Holds(who)' = Holds(who)
         /\ RolesOf(who)' = RolesOf(who)
         /\ \A role : RowsOf(role)' = RowsOf(role)
  BY DEF collectGrants, Holds, RolesOf, RowsOf

LEMMA GoingSent ==
  ASSUME IInv, Sent, IdsAreOnes, NEW p \in Procs, NEW at \in Steps, NEW a \in Args, Goto(p, at, a),
         pc[p] # "done", Stands(p, at, a)
  PROVE  Sent' /\ IdsAreOnes'
<1>1. /\ UNCHANGED tables
      /\ pc'[p] = at /\ arg'[p] = a
      /\ \A q \in Procs \ {p} : pc'[q] = pc[q] /\ arg'[q] = arg[q]
  BY Going DEF IInv
<1>2. UNCHANGED <<positions, members, grants>>
  BY <1>1 DEF tables
<1>3. ASSUME NEW q \in Procs PROVE Stands(q, pc[q], arg[q])'
  <2> DEFINE b == IF q = p THEN a ELSE arg[q]
             at2 == IF q = p THEN at ELSE pc[q]
  <2>1. arg'[q] = b /\ pc'[q] = at2 /\ Stands(q, at2, b)
    BY <1>1 DEF Sent
  <2> HIDE DEF b, at2
  <2>2. collectGrants(By[q])' = collectGrants(By[q]) /\ positions' = positions
    BY <1>2, CollectedFrame
  <2>3. {g \in grants' : g.role = arg'[q].role} = {g \in grants : g.role = b.role}
    BY <1>2, <2>1
  <2> QED BY <2>1, <2>2, <2>3 DEF Stands, RowsOf
<1>4. IdsAreOnes'
  BY <1>1, <1>2 DEF IdsAreOnes
<1> QED BY <1>3, <1>4 DEF Sent

LEMMA OvertakingSent ==
  ASSUME IInv, Sent, NEW done \in SUBSET Procs, Overtake(done),
         \/ done = {} /\ pc' = pc
         \/ \E p \in Procs : done = {p} /\ pc' = [pc EXCEPT ![p] = "done"]
  PROVE  Sent'
<1>1. arg \in [Procs -> Args] /\ pc \in [Procs -> Steps]
  BY DEF IInv, TypeOK, Steps
<1>2. SUFFICES ASSUME NEW q \in Procs PROVE Stands(q, pc[q], arg[q])'
  BY DEF Sent
<1>3. CASE pc'[q] \notin Waiting
  BY <1>3 DEF Stands, Waiting
<1>4. CASE pc'[q] \in Waiting
  <2>1. q \notin done /\ pc[q] \in Waiting /\ pc'[q] = pc[q]
    BY <1>1, <1>4 DEF Waiting
  <2> DEFINE a == arg[q]
             b == pc[q] \in Waiting
  <2>2. arg'[q] = [a EXCEPT !.stale = b]
    BY <2>1 DEF Overtake
  <2>3. a \in Args /\ b
    BY <1>1, <2>1
  <2> HIDE DEF a, b
  <2>4. [a EXCEPT !.stale = b].stale = b
    BY <2>3 DEF Args
  <2>5. arg'[q].stale
    BY <2>2, <2>3, <2>4
  <2> QED BY <2>1, <2>5 DEF Stands, Sent
<1> QED BY <1>3, <1>4

LEMMA CommitSent ==
  ASSUME IInv, Sent, NEW p \in Procs, Commits(p)
  PROVE  Sent'
  BY OvertakingSent DEF Commits

LEMMA OtherSent ==
  ASSUME IInv, Sent, IdsAreOnes, NEW p \in Procs, NEW at \in Steps, NEW a \in Args, Goto(p, at, a),
         pc[p] # "done", at \notin {"placing", "found", "saving", "cleared"}
  PROVE  Sent' /\ IdsAreOnes'
  BY GoingSent DEF Stands

\* The requests that place people are bounded where they are checked, and find
\* positions of the role and units they were checked for.
LEMMA PlacementsSent ==
  ASSUME IInv, Sent, IdsAreOnes, NEW p \in Assigners \cup Importers,
         \/ \E who \in People, role \in Roles, unit \in Units :
              p \in Assigners /\ AssignCheck(p, who, role, unit)
         \/ \E who \in People, role \in Roles, unit, also \in Units :
              ImportCheck(p, who, role, {unit, also})
         \/ \E ids \in SUBSET IdsOf(positions) : FindPositions(p, ids)
  PROVE  Sent' /\ IdsAreOnes'
<1>0. p \in Procs /\ IdsOf(positions) \subseteq Ids /\ arg[p] \in Args
  BY RowsTyped DEF IdsOf, Procs
<1>1. ASSUME NEW who \in People, NEW role \in Roles, NEW U \in SUBSET Units, Arrives(p),
             \E G \in collectGrants(By[p]) : \A u \in U : ~Escalates(G, RowsOf(role), u),
             Goto(p, "placing", [NoArg EXCEPT !.who = who, !.role = role, !.units = U])
      PROVE  Sent' /\ IdsAreOnes'
  <2> DEFINE a == [NoArg EXCEPT !.who = who, !.role = role, !.units = U]
  <2>1. a \in Args /\ a.role = role /\ a.units = U
    BY NoArgTyped DEF Args, NoArg
  <2>2. Goto(p, "placing", a)
    BY <1>1
  <2> HIDE DEF a
  <2>3. Stands(p, "placing", a)
    BY <1>1, <2>1 DEF Stands
  <2>4. pc[p] # "done"
    BY <1>1 DEF Arrives
  <2> QED BY <1>0, <2>1, <2>2, <2>3, <2>4, GoingSent DEF Steps, Waiting
<1>2. ASSUME NEW who \in People, NEW role \in Roles, NEW unit \in Units, AssignCheck(p, who, role, unit)
      PROVE  Sent' /\ IdsAreOnes'
  <2> DEFINE U == {unit}
  <2>1. /\ Arrives(p)
        /\ \E G \in collectGrants(By[p]) : ~Escalates(G, RowsOf(role), unit)
        /\ Goto(p, "placing", [NoArg EXCEPT !.who = who, !.role = role, !.units = U])
    BY <1>2 DEF AssignCheck
  <2>2. U \in SUBSET Units /\ \A u \in U : u = unit
    OBVIOUS
  <2> HIDE DEF U
  <2>3. \E G \in collectGrants(By[p]) : \A u \in U : ~Escalates(G, RowsOf(role), u)
    BY <2>1, <2>2
  <2> QED BY <1>1, <2>1, <2>2, <2>3
<1>3. ASSUME NEW who \in People, NEW role \in Roles, NEW unit \in Units, NEW also \in Units,
             ImportCheck(p, who, role, {unit, also})
      PROVE  Sent' /\ IdsAreOnes'
  <2> DEFINE U == {unit, also}
  <2>1. /\ Arrives(p)
        /\ \E G \in collectGrants(By[p]) : \A u \in U : ~Escalates(G, RowsOf(role), u)
        /\ Goto(p, "placing", [NoArg EXCEPT !.who = who, !.role = role, !.units = U])
    BY <1>3 DEF ImportCheck
  <2>2. U \in SUBSET Units
    OBVIOUS
  <2> HIDE DEF U
  <2> QED BY <1>1, <2>1, <2>2
<1>4. ASSUME NEW ids \in SUBSET IdsOf(positions), FindPositions(p, ids)
      PROVE  Sent' /\ IdsAreOnes'
  <2> DEFINE a == [arg[p] EXCEPT !.found = ids]
  <2>1. /\ a \in Args /\ a.role = arg[p].role /\ a.units = arg[p].units /\ a.stale = arg[p].stale
        /\ a.found = ids
    BY <1>0 DEF Args
  <2>2. Goto(p, "found", a) /\ pc[p] = "placing"
    BY <1>4 DEF FindPositions
  <2> HIDE DEF a
  <2>3. \A i \in ids : \E q \in positions : q.id = i /\ q.role = arg[p].role /\ q.unit \in arg[p].units
    BY <1>4 DEF FindPositions, IdsOf, At
  <2>4. Stands(p, "placing", arg[p])
    BY <1>0, <2>2 DEF Sent
  <2>5. Stands(p, "found", a)
    BY <2>1, <2>3, <2>4 DEF Stands
  <2> QED BY <1>0, <2>1, <2>2, <2>5, GoingSent DEF Steps, Waiting
<1> QED BY <1>2, <1>3, <1>4

LEMMA SavesSent ==
  ASSUME IInv, Sent, IdsAreOnes, NEW p \in Savers,
         SaveClear(p) \/ \E body \in Bodies : SaveCheck(p, body)
  PROVE  Sent' /\ IdsAreOnes'
<1>0. p \in Procs /\ arg[p] \in Args
  BY RowsTyped DEF Procs
<1>1. ASSUME NEW body \in Bodies, SaveCheck(p, body) PROVE Sent' /\ IdsAreOnes'
  <2> DEFINE a == [NoArg EXCEPT !.cells = body]
  <2>1. a \in Args /\ a.cells = body
    BY RosterAssumption, NoArgTyped DEF Args, NoArg
  <2>2. /\ Goto(p, "saving", a) /\ pc[p] # "done"
        /\ \E G \in collectGrants(By[p]) : ~Overreaches(G, body)
    BY <1>1 DEF SaveCheck, Arrives
  <2> HIDE DEF a
  <2>3. Stands(p, "saving", a)
    BY <2>1, <2>2 DEF Stands
  <2> QED BY <1>0, <2>1, <2>2, <2>3, GoingSent DEF Steps, Waiting
<1>2. ASSUME SaveClear(p) PROVE Sent' /\ IdsAreOnes'
  <2> DEFINE rows == {g \in grants : \E cell \in arg[p].cells : SameCell(g, cell)}
             a == [arg[p] EXCEPT !.rows = rows]
  <2>1. rows \in SUBSET Rows
    BY RowsTyped
  <2>2. pc[p] = "saving" /\ Goto(p, "cleared", a)
    BY <1>2 DEF SaveClear
  <2>3. a \in Args /\ a.cells = arg[p].cells /\ a.stale = arg[p].stale
    BY <1>0, <2>1 DEF Args
  <2> HIDE DEF a
  <2>4. Stands(p, "saving", arg[p])
    BY <1>0, <2>2 DEF Sent
  <2>5. Stands(p, "cleared", a)
    BY <2>3, <2>4 DEF Stands
  <2> QED BY <1>0, <2>2, <2>3, <2>5, GoingSent DEF Steps, Waiting
<1> QED BY <1>1, <1>2

\* The checks of the other requests, and what is given up.
LEMMA OthersSent ==
  ASSUME IInv, Sent, IdsAreOnes, NEW p \in Procs,
         \/ \E who \in People, id \in IdsOf(positions) : RemoveCheck(p, who, id)
         \/ \E who \in People : LeaveCheck(p, who)
         \/ \E role \in Roles, to \in Roles \cup {None} : RoleDeleteCheck(p, role, to)
         \/ RoleMove(p)
         \/ Rollback(p)
  PROVE  Sent' /\ IdsAreOnes'
<1>0. IdsOf(positions) \subseteq Ids /\ arg[p] \in Args
  BY RowsTyped DEF IdsOf
<1>1. ASSUME NEW a \in Args, NEW at \in {"removing", "leaving", "deleting", "moved", "done"},
             Goto(p, at, a), pc[p] # "done"
      PROVE  Sent' /\ IdsAreOnes'
  BY <1>1, OtherSent DEF Steps, Waiting
<1>2. ASSUME NEW who \in People, NEW id \in IdsOf(positions), RemoveCheck(p, who, id)
      PROVE  Sent' /\ IdsAreOnes'
  <2>1. [NoArg EXCEPT !.who = who, !.found = {id}] \in Args
    BY <1>0, NoArgTyped DEF Args, NoArg
  <2> QED BY <1>1, <1>2, <2>1 DEF RemoveCheck, Arrives
<1>3. ASSUME NEW who \in People, LeaveCheck(p, who) PROVE Sent' /\ IdsAreOnes'
  <2>1. [NoArg EXCEPT !.who = who] \in Args
    BY NoArgTyped DEF Args, NoArg
  <2> QED BY <1>1, <1>3, <2>1 DEF LeaveCheck, Arrives
<1>4. ASSUME NEW role \in Roles, NEW to \in Roles \cup {None}, RoleDeleteCheck(p, role, to)
      PROVE  Sent' /\ IdsAreOnes'
  <2>1. [NoArg EXCEPT !.role = role, !.to = to] \in Args
    BY NoArgTyped DEF Args, NoArg
  <2> QED BY <1>1, <1>4, <2>1 DEF RoleDeleteCheck, Arrives
<1>5. ASSUME RoleMove(p) PROVE Sent' /\ IdsAreOnes'
  <2> DEFINE moved == IF arg[p].to = None THEN {} ELSE {q \in positions : q.role = arg[p].role}
  <2>1. IdsOf(moved) \subseteq Ids
    BY RowsTyped DEF IdsOf
  <2>2. pc[p] = "deleting" /\ Goto(p, "moved", [arg[p] EXCEPT !.found = IdsOf(moved)])
    BY <1>5 DEF RoleMove
  <2> HIDE DEF moved
  <2>3. [arg[p] EXCEPT !.found = IdsOf(moved)] \in Args
    BY <1>0, <2>1 DEF Args
  <2> QED BY <1>1, <2>2, <2>3
<1>6. ASSUME Rollback(p) PROVE Sent' /\ IdsAreOnes'
  <2>1. pc[p] # "done" /\ Goto(p, "done", NoArg)
    BY <1>6 DEF Rollback, Waiting
  <2> QED BY <1>1, <2>1, NoArgTyped
<1> QED BY <1>2, <1>3, <1>4, <1>5, <1>6

\* New positions are numbered by the request that makes them, which makes none twice.
LEMMA PlaceSent ==
  ASSUME IInv, Sent, IdsAreOnes, NEW p \in Procs, PlaceCommit(p)
  PROVE  Sent' /\ IdsAreOnes'
<1> DEFINE a == arg[p]
           missing == {u \in a.units : \A q \in positions : q.id \in a.found => q.unit # u}
           new == {[id |-> <<p, a.role, u>>, role |-> a.role, unit |-> u] : u \in missing}
<1>1. Commits(p) /\ pc[p] = "found" /\ positions' = positions \cup new
  BY DEF PlaceCommit
<1>2. Sent'
  BY <1>1, CommitSent
<1>3. pc' = [pc EXCEPT ![p] = "done"] /\ pc \in [Procs -> Steps]
  BY <1>1 DEF Commits, IInv, TypeOK, Steps
<1>4. \A q \in new : q.id = <<p, a.role, q.unit>> /\ q.role = a.role
                     /\ q = [id |-> q.id, role |-> q.role, unit |-> q.unit]
  OBVIOUS
<1>5. \A q \in positions : q.id[1] # p
  BY <1>1 DEF IdsAreOnes
<1> HIDE DEF new, a
<1>6. \A q, r \in positions' : q.id = r.id => q = r
  <2>1. \A q, r \in new : q.id = r.id => q = r
    <3>1. \A q, r \in new : q.id = r.id => q.unit = r.unit /\ q.role = r.role
      BY <1>4
    <3> QED BY <1>4, <3>1
  <2>2. \A q \in positions, r \in new : q.id # r.id
    BY <1>4, <1>5
  <2> QED BY <1>1, <2>1, <2>2 DEF IdsAreOnes
<1>7. \A q \in positions', r \in Procs : q.id[1] = r => pc'[r] = "done"
  BY <1>1, <1>3, <1>4 DEF IdsAreOnes
<1> QED BY <1>2, <1>6, <1>7 DEF IdsAreOnes

\* The other commits number nothing; a role's deletion keeps the numbers.
LEMMA CommitsSent ==
  ASSUME IInv, Sent, IdsAreOnes, NEW p \in Procs,
         \/ RemoveCommit(p) \/ LeaveCommit(p) \/ RoleDeleteCommit(p) \/ SaveCommit(p)
         \/ \E who \in People : createPerson(p, who)
         \/ \E role \in Roles : createRole(p, role)
  PROVE  Sent' /\ IdsAreOnes'
<1>1. Commits(p)
  BY DEF RemoveCommit, LeaveCommit, RoleDeleteCommit, SaveCommit, createPerson, createRole
<1>2. Sent'
  BY <1>1, CommitSent
<1>3. pc' = [pc EXCEPT ![p] = "done"] /\ pc \in [Procs -> Steps]
  BY <1>1 DEF Commits, IInv, TypeOK, Steps
<1>4. \A q \in Procs : pc[q] = "done" => pc'[q] = "done"
  BY <1>3
<1>5. CASE RoleDeleteCommit(p)
  <2> DEFINE a == arg[p]
             Now(q) == IF q.id \in a.found THEN [q EXCEPT !.role = a.to] ELSE q
  <2>1. positions' \subseteq {Now(q) : q \in positions}
    BY <1>5 DEF RoleDeleteCommit
  <2>2. \A q \in positions : q \in [id : Ids, role : Roles, unit : Units]
    BY RowsTyped
  <2>3. ASSUME NEW q \in positions PROVE Now(q).id = q.id
    BY <2>2
  <2> HIDE DEF Now
  <2>4. IdsAreOnes'
    <3>1. ASSUME NEW q \in positions', NEW r \in positions', q.id = r.id PROVE q = r
      <4>1. PICK q1 \in positions : q = Now(q1)
        BY <2>1
      <4>2. PICK r1 \in positions : r = Now(r1)
        BY <2>1
      <4>3. q1 = r1
        BY <2>3, <3>1, <4>1, <4>2 DEF IdsAreOnes
      <4> QED BY <4>1, <4>2, <4>3
    <3>2. ASSUME NEW q \in positions', NEW r \in Procs, q.id[1] = r PROVE pc'[r] = "done"
      <4>1. PICK q1 \in positions : q = Now(q1)
        BY <2>1
      <4>2. q1.id[1] = r
        BY <2>3, <3>2, <4>1
      <4> QED BY <1>4, <4>2 DEF IdsAreOnes
    <3> QED BY <3>1, <3>2 DEF IdsAreOnes
  <2> QED BY <1>2, <2>4
<1>6. CASE ~RoleDeleteCommit(p)
  <2>1. positions' = positions
    BY <1>6 DEF RemoveCommit, LeaveCommit, SaveCommit, createPerson, createRole
  <2>2. IdsAreOnes'
    BY <1>4, <2>1 DEF IdsAreOnes
  <2> QED BY <1>2, <2>2
<1> QED BY <1>5, <1>6

LEMMA StepSent == IInv /\ Sent /\ IdsAreOnes /\ [Next]_vars => Sent' /\ IdsAreOnes'
<1> SUFFICES ASSUME IInv, Sent, IdsAreOnes, [Next]_vars PROVE Sent' /\ IdsAreOnes'
  OBVIOUS
<1>1. CASE UNCHANGED vars
  <2>1. UNCHANGED <<positions, members, grants, arg, pc>>
    BY <1>1 DEF vars, tables
  <2>2. ASSUME NEW p \in Procs PROVE Stands(p, pc[p], arg[p])'
    <3>1. /\ Stands(p, pc[p], arg[p])
          /\ collectGrants(By[p])' = collectGrants(By[p]) /\ positions' = positions
          /\ grants' = grants /\ pc'[p] = pc[p] /\ arg'[p] = arg[p]
      BY <2>1, CollectedFrame DEF Sent
    <3> QED BY <3>1 DEF Stands, RowsOf
  <2>3. IdsAreOnes'
    BY <2>1 DEF IdsAreOnes
  <2> QED BY <2>2, <2>3 DEF Sent
<1>2. CASE \E p \in Assigners, who \in People, role \in Roles, unit \in Units :
             AssignCheck(p, who, role, unit)
  BY <1>2, PlacementsSent
<1>3. CASE \E p \in Importers, who \in People, role \in Roles, unit, also \in Units :
             ImportCheck(p, who, role, {unit, also})
  BY <1>3, PlacementsSent
<1>4. CASE \E p \in Assigners \cup Importers :
             PlaceCommit(p) \/ \E ids \in SUBSET IdsOf(positions) : FindPositions(p, ids)
  BY <1>4, PlacementsSent, PlaceSent DEF Procs
<1>5. CASE \E p \in Removers :
             RemoveCommit(p) \/ \E who \in People, id \in IdsOf(positions) : RemoveCheck(p, who, id)
  BY <1>5, CommitsSent, OthersSent DEF Procs
<1>6. CASE \E p \in Leavers : LeaveCommit(p) \/ \E who \in People : LeaveCheck(p, who)
  BY <1>6, CommitsSent, OthersSent DEF Procs
<1>7. CASE \/ \E p \in Makers, who \in People : createPerson(p, who)
           \/ \E p \in Makers, role \in Roles : createRole(p, role)
  BY <1>7, CommitsSent DEF Procs
<1>8. CASE \/ \E p \in RoleDeleters, role \in Roles, to \in Roles \cup {None} :
                RoleDeleteCheck(p, role, to)
           \/ \E p \in RoleDeleters : RoleMove(p) \/ RoleDeleteCommit(p)
  BY <1>8, CommitsSent, OthersSent DEF Procs
<1>9. CASE \E p \in Savers : SaveClear(p) \/ SaveCommit(p) \/ \E body \in Bodies : SaveCheck(p, body)
  BY <1>9, CommitsSent, SavesSent DEF Procs
<1>10. CASE \E p \in Procs : Rollback(p)
  BY <1>10, OthersSent
<1>11. CASE \E m \in members : End(m)
  <2>1. {} \in SUBSET Procs /\ pc' = pc /\ Overtake({}) /\ positions' = positions
    BY <1>11 DEF End
  <2>2. IdsAreOnes'
    BY <2>1 DEF IdsAreOnes
  <2> QED BY <2>1, <2>2, OvertakingSent
<1> QED
  BY <1>1, <1>2, <1>3, <1>4, <1>5, <1>6, <1>7, <1>8, <1>9, <1>10, <1>11 DEF Next

LEMMA SentInvariance == Spec => [](Sent /\ IdsAreOnes)
  BY InitSent, StepSent, Invariance, PTL DEF Spec

\* Whoever sees every unit may do what it asks on all of them, and on the organisation.
LEMMA AllSeen ==
  ASSUME NEW G \in SUBSET Candidates, NEW c, visibleUnits(G, c).all,
         NEW t \in Targets \ {OfSelf}
  PROVE  May(G, c, t)
<1> DEFINE A == Live(G, c, "allow")
           D == Live(G, c, "deny")
<1>1. A \in SUBSET Candidates /\ D \in SUBSET Candidates
  BY LiveTyped
<1>2. ~Scoped(D, "all") /\ Scoped(A, "all") /\ unitsOf(D) = {}
  BY DEF visibleUnits, Nowhere
<1>3. \E g \in A : scopeCovers(g, t)
  BY <1>1, <1>2, AllCovers DEF Scoped
<1>4. ASSUME NEW g \in D PROVE ~scopeCovers(g, t)
  <2>1. CASE t = OfOrg
    BY <1>1, <1>2, <2>1, AllCovers DEF Scoped
  <2>2. CASE \E u \in Units : t = OfUnit(u)
    <3>1. PICK u \in Units : t = OfUnit(u)
      BY <2>2
    <3>2. ~\E h \in D : h.scope # "all" /\ scopeCovers(h, OfUnit(u))
      BY <1>1, <1>2, UnitsOfCover
    <3> QED BY <1>2, <3>1, <3>2 DEF Scoped
  <2> QED BY <2>1, <2>2 DEF Targets
<1> QED BY <1>3, <1>4, MayIs

\* findEscalation: what a bounded row would allow at a unit, whoever bounds it may do.
LEMMA PlacedRowBounded ==
  ASSUME NEW G \in SUBSET Candidates, NEW rows \in SUBSET Rows, NEW u \in Units,
         ~Escalates(G, rows, u), NEW row \in rows, row.effect = "allow",
         NEW t \in Targets \ {OfSelf}, scopeCovers(Placed(row, u), t)
  PROVE  May(G, row.capability, t)
<1> DEFINE here == {Placed(row, u)}
<1>1. row \in Rows /\ here \in SUBSET Candidates
  BY DEF Rows, Placed, Candidates
<1>2. /\ Placed(row, u).scope = row.scope /\ Placed(row, u).anchor = u
      /\ t.me = FALSE /\ u # None
  BY SubtreesAreUnits DEF Placed, Targets, OfUnit, OfOrg, OfSelf
<1>3. row.scope # "self"
  BY <1>2 DEF scopeCovers
<1>4. \/ visibleUnits(G, row.capability).all
      \/ row.scope # "all" /\ unitsOf(here) \subseteq visibleUnits(G, row.capability).units
  BY <1>3 DEF Escalates
<1>5. CASE visibleUnits(G, row.capability).all
  BY <1>5, AllSeen
<1>6. CASE row.scope # "all" /\ unitsOf(here) \subseteq visibleUnits(G, row.capability).units
  <2>1. t # OfOrg
    BY <1>1, <1>2, <1>6, AllCovers
  <2>2. PICK v \in Units : t = OfUnit(v)
    BY <2>1 DEF Targets
  <2>3. v \in unitsOf(here)
    BY <1>1, <1>2, <1>6, <2>2, UnitsOfCover
  <2> QED BY <1>6, <2>2, <2>3, ListsAreChecks
<1> QED BY <1>4, <1>5, <1>6

\* requireNoGrantEscalation: and what a bounded cell would, at any unit.
LEMMA SavedCellBounded ==
  ASSUME NEW G \in SUBSET Candidates, NEW cells, ~Overreaches(G, cells), NEW cell \in cells,
         cell.effect = "allow", cell.scope # None, NEW u, NEW v \in Units,
         scopeCovers(Placed(cell, u), OfUnit(v))
  PROVE  May(G, cell.capability, OfUnit(v))
<1>1. cell.scope # "self"
  BY DEF scopeCovers, Placed, OfUnit
<1>2. \/ visibleUnits(G, cell.capability).all
      \/ visibleUnits(G, cell.capability).units = Units
  BY <1>1 DEF Overreaches
<1>3. OfUnit(v) \in Targets \ {OfSelf}
  BY DEF Targets, OfUnit, OfSelf
<1> QED BY <1>2, <1>3, AllSeen, ListsAreChecks

\* What somebody can do, grant by grant.
LEMMA PowersAre ==
  ASSUME NEW who, NEW T, NEW power
  PROVE  power \in Powers(who, T) <=>
           \E c \in Capabilities, t \in T : /\ power = <<c, t>>
                                            /\ \E G \in collectGrants(who) : May(G, c, t)
  BY DEF Powers

\* However one of a person's posts is picked for each role, that is an answer.
LEMMA PickedIsCollected ==
  ASSUME NEW who, NEW at \in [RolesOf(who) -> Units],
         \A r \in RolesOf(who) : \E q \in Holds(who) : q.role = r /\ q.unit = at[r]
  PROVE  {Placed(row, at[row.role]) : row \in {g \in grants : g.role \in RolesOf(who)}}
           \in collectGrants(who)
  BY DEF collectGrants

\* The posts that a placement nothing overtook adds: of its role, at its units.
LEMMA PlacementPosts ==
  ASSUME IInv, Sent, IdsAreOnes, NEW p \in Procs, PlaceCommit(p), ~arg[p].stale, NEW who \in People
  PROVE  /\ Holds(who) \subseteq Holds(who)'
         /\ \A q \in Holds(who)' :
              \/ q \in Holds(who)
              \/ who = arg[p].who /\ q.role = arg[p].role /\ q.unit \in arg[p].units
<1> DEFINE a == arg[p]
           missing == {u \in a.units : \A q \in positions : q.id \in a.found => q.unit # u}
           new == {[id |-> <<p, a.role, u>>, role |-> a.role, unit |-> u] : u \in missing}
           given == a.found \cup IdsOf(new)
<1>1. /\ pc[p] = "found"
      /\ positions' = positions \cup new
      /\ members' = members \cup {[person |-> a.who, position |-> i, ended |-> FALSE] :
                                    i \in {j \in given : ~Has(a.who, j)}}
  BY DEF PlaceCommit
<1>2. \A i \in a.found : \E q \in positions : q.id = i /\ q.role = a.role /\ q.unit \in a.units
  BY <1>1 DEF Sent, Stands
<1>3. \A q \in new : q.id[1] = p /\ q.role = a.role /\ q.unit \in a.units
  OBVIOUS
<1>4. \A i \in IdsOf(new) : i[1] = p
  BY <1>3 DEF IdsOf
<1>5. \A q \in positions : q.id[1] # p
  BY <1>1 DEF IdsAreOnes
<1> HIDE DEF a, new
<1>6. Holds(who) \subseteq Holds(who)'
  BY <1>1 DEF Holds
<1>7. ASSUME NEW q \in Holds(who)'
      PROVE  q \in Holds(who) \/ (who = a.who /\ q.role = a.role /\ q.unit \in a.units)
  <2>1. q \in positions' /\ \E m \in members' : m.person = who /\ m.position = q.id /\ ~m.ended
    BY <1>7 DEF Holds
  <2>2. PICK m \in members' : m.person = who /\ m.position = q.id /\ ~m.ended
    BY <2>1
  <2>3. CASE m \in members
    <3>1. m.position \in IdsOf(positions)
      BY <2>3 DEF IInv, RowsAreLive
    <3>2. q \in positions
      BY <1>1, <1>3, <1>5, <2>1, <2>2, <3>1 DEF IdsOf
    <3> QED BY <2>2, <2>3, <3>2 DEF Holds
  <2>4. CASE m \notin members
    <3>1. m.person = a.who /\ m.position \in given
      BY <1>1, <2>4
    <3>2. CASE q \in new
      BY <1>3, <2>2, <3>1, <3>2
    <3>3. CASE q \in positions
      <4>1. q.id \in a.found
        BY <1>4, <1>5, <2>2, <3>1, <3>3
      <4>2. PICK r \in positions : r.id = q.id /\ r.role = a.role /\ r.unit \in a.units
        BY <1>2, <4>1
      <4>3. r = q
        BY <3>3, <4>2 DEF IdsAreOnes
      <4> QED BY <2>2, <3>1, <4>2, <4>3
    <3> QED BY <1>1, <2>1, <3>2, <3>3
  <2> QED BY <2>3, <2>4
<1> QED BY <1>6, <1>7 DEF a

\* An assignment or an import that nothing overtook raises nobody above its sender.
LEMMA PlacementBounded ==
  ASSUME IInv, Sent, IdsAreOnes, NEW p \in Assigners \cup Importers, PlaceCommit(p), ~arg[p].stale,
         arg[p].role \notin RolesOf(arg[p].who), NEW who \in People,
         NEW c \in Capabilities, NEW t \in Targets \ {OfSelf},
         NEW H \in collectGrants(who)', May(H, c, t)
  PROVE  \/ \E G \in collectGrants(who) : May(G, c, t)
         \/ \E G \in collectGrants(By[p]) : May(G, c, t)
<1> DEFINE a == arg[p]
           Of(rows, at) == {Placed(row, at[row.role]) : row \in rows}
           mine == RolesOf(who)
           here == {g \in grants : g.role \in mine}
<1>1. p \in Procs /\ pc[p] = "found" /\ grants' = grants /\ grants \in SUBSET Rows
  BY RowsTyped DEF Procs, PlaceCommit
<1>2. /\ Holds(who) \subseteq Holds(who)'
      /\ \A q \in Holds(who)' :
           \/ q \in Holds(who)
           \/ who = a.who /\ q.role = a.role /\ q.unit \in a.units
  BY <1>1, PlacementPosts
<1>3. /\ mine \subseteq RolesOf(who)'
      /\ \A r \in RolesOf(who)' : r \in mine \/ (who = a.who /\ r = a.role /\ r \notin mine)
  BY <1>2 DEF RolesOf
<1>4. PICK to \in [RolesOf(who)' -> Units] :
        /\ \A r \in RolesOf(who)' : \E q \in Holds(who)' : q.role = r /\ q.unit = to[r]
        /\ H = Of({g \in grants' : g.role \in RolesOf(who)'}, to)
  BY DEF collectGrants
<1> DEFINE at == [r \in mine |-> to[r]]
           G == Of(here, at)
<1>5. G \in collectGrants(who)
  <2>1. at \in [mine -> Units]
    BY <1>3, <1>4
  <2>2. ASSUME NEW r \in mine PROVE \E q \in Holds(who) : q.role = r /\ q.unit = at[r]
    <3>1. PICK q \in Holds(who)' : q.role = r /\ q.unit = to[r]
      BY <1>3, <1>4, <2>2
    <3>2. q \in Holds(who)
      BY <1>2, <2>2, <3>1
    <3> QED BY <3>1, <3>2
  <2> HIDE DEF at
  <2> QED BY <2>1, <2>2, PickedIsCollected
<1>6. G \subseteq H
  BY <1>1, <1>3, <1>4
<1>7. /\ \A g \in Live(H, c, "deny") : ~scopeCovers(g, t)
      /\ \E g \in Live(H, c, "allow") : scopeCovers(g, t)
  BY MayIs
<1>8. PICK h \in Live(H, c, "allow") : scopeCovers(h, t)
  BY <1>7
<1>9. CASE h \in G
  <2>1. \A g \in Live(G, c, "deny") : ~scopeCovers(g, t)
    BY <1>6, <1>7 DEF Live
  <2>2. h \in Live(G, c, "allow")
    BY <1>8, <1>9 DEF Live
  <2>3. May(G, c, t)
    BY <1>8, <2>1, <2>2, MayIs
  <2> QED BY <1>5, <2>3
<1>10. CASE h \notin G
  <2>1. PICK row \in grants : row.role \in RolesOf(who)' /\ h = Placed(row, to[row.role])
    BY <1>1, <1>4, <1>8 DEF Live
  <2>2. row.role \notin mine
    BY <1>10, <2>1
  <2>3. who = a.who /\ row.role = a.role
    BY <1>3, <2>1, <2>2
  <2> DEFINE u == to[row.role]
  <2>4. u \in a.units /\ u \in Units
    <3>1. PICK q \in Holds(who)' : q.role = row.role /\ q.unit = u
      BY <1>4, <2>1
    <3>2. q \notin Holds(who)
      BY <2>2, <3>1 DEF RolesOf
    <3> QED BY <1>2, <1>4, <2>1, <3>1, <3>2
  <2>5. PICK S \in collectGrants(By[p]) : \A v \in a.units : ~Escalates(S, RowsOf(a.role), v)
    BY <1>1 DEF Sent, Stands
  <2>6. S \in SUBSET Candidates
    BY <1>1, CollectedTyped
  <2>7. /\ RowsOf(a.role) \in SUBSET Rows /\ row \in RowsOf(a.role)
        /\ row.effect = "allow" /\ row.capability = c
    BY <1>1, <1>8, <2>1, <2>3 DEF RowsOf, Live, Placed
  <2> HIDE DEF u, a
  <2>8. May(S, row.capability, t)
    <3>1. scopeCovers(Placed(row, u), t)
      BY <1>8, <2>1 DEF u
    <3> QED BY <2>4, <2>5, <2>6, <2>7, <3>1, PlacedRowBounded
  <2> QED BY <2>5, <2>7, <2>8
<1> QED BY <1>9, <1>10

\* A save that nothing overtook and that clears no deny raises nobody above its sender.
LEMMA SaveBounded ==
  ASSUME IInv, Sent, NEW p \in Savers, SaveCommit(p), ~arg[p].stale,
         \A g \in arg[p].rows : g.effect = "deny" => g \in arg[p].cells,
         NEW who \in People, NEW c \in Capabilities, NEW t \in Targets \ {OfSelf, OfOrg},
         NEW H \in collectGrants(who)', May(H, c, t)
  PROVE  \/ \E G \in collectGrants(who) : May(G, c, t)
         \/ \E G \in collectGrants(By[p]) : May(G, c, t)
<1> DEFINE a == arg[p]
           new == {cell \in a.cells : cell.scope # None}
           mine == RolesOf(who)
           here == {g \in grants : g.role \in mine}
<1>1. /\ p \in Procs /\ pc[p] = "cleared" /\ grants \in SUBSET Rows
      /\ grants' = (grants \ a.rows) \cup new
      /\ UNCHANGED <<positions, members>>
  BY RowsTyped DEF Procs, SaveCommit
<1>2. Holds(who)' = Holds(who) /\ RolesOf(who)' = mine
  BY <1>1 DEF Holds, RolesOf
<1>3. PICK at \in [mine -> Units] :
        /\ \A r \in mine : \E q \in Holds(who) : q.role = r /\ q.unit = at[r]
        /\ H = {Placed(row, at[row.role]) : row \in {g \in grants' : g.role \in mine}}
  BY <1>2 DEF collectGrants
<1> DEFINE G == {Placed(row, at[row.role]) : row \in here}
<1>4. G \in collectGrants(who)
  BY <1>3, PickedIsCollected
<1>5. /\ \A g \in Live(H, c, "deny") : ~scopeCovers(g, t)
      /\ \E g \in Live(H, c, "allow") : scopeCovers(g, t)
  BY MayIs
<1>6. PICK h \in Live(H, c, "allow") : scopeCovers(h, t)
  BY <1>5
<1> HIDE DEF a
<1>7. PICK row \in grants' : row.role \in mine /\ h = Placed(row, at[row.role])
  BY <1>3, <1>6 DEF Live
<1>8. CASE row \in grants
  <2>1. h \in Live(G, c, "allow")
    BY <1>6, <1>7, <1>8 DEF Live
  <2>2. ASSUME NEW g \in Live(G, c, "deny") PROVE ~scopeCovers(g, t)
    <3>1. PICK old \in grants : old.role \in mine /\ g = Placed(old, at[old.role])
      BY DEF Live
    <3>2. old.effect = "deny" /\ old \in Rows
      BY <1>1, <3>1 DEF Live, Placed
    <3>3. old.scope # None
      BY <3>2, RosterAssumption DEF Rows
    <3>4. old \in grants'
      BY <1>1, <3>1, <3>2, <3>3 DEF a
    <3>5. g \in H
      BY <1>3, <3>1, <3>4
    <3> QED BY <1>5, <3>5 DEF Live
  <2>3. May(G, c, t)
    BY <1>6, <2>1, <2>2, MayIs
  <2> QED BY <1>4, <2>3
<1>9. CASE row \notin grants
  <2>1. row \in a.cells /\ row.scope # None /\ row.effect = "allow" /\ row.capability = c
    BY <1>1, <1>6, <1>7, <1>9 DEF Live, Placed
  <2>2. PICK S \in collectGrants(By[p]) : ~Overreaches(S, a.cells)
    BY <1>1 DEF Sent, Stands, a
  <2>3. S \in SUBSET Candidates
    BY <1>1, CollectedTyped
  <2>4. PICK v \in Units : t = OfUnit(v)
    BY DEF Targets
  <2>5. May(S, row.capability, OfUnit(v))
    BY <1>6, <1>7, <2>1, <2>2, <2>3, <2>4, SavedCellBounded
  <2> QED BY <2>1, <2>2, <2>4, <2>5
<1> QED BY <1>8, <1>9

(* Nobody may hand out a power they do not hold themselves                 *)
(* (findEscalation, requireNoGrantEscalation): after an assignment of a    *)
(* role not already held, an import or a save that clears no deny, if      *)
(* nothing overtook it, whoever can do more than before can do no more     *)
(* than its sender could, for any organisation, grid and requests.         *)
THEOREM PowersAlwaysBounded == Spec => PowersAreBounded
<1>1. IInv /\ Sent /\ IdsAreOnes /\ [Next]_vars =>
        [\A p \in Assigners \cup Importers \cup Savers :
           /\ Undisturbed(p, "found") \/ Undisturbed(p, "cleared")
           /\ p \notin Savers => arg[p].role \notin RolesOf(arg[p].who)
           /\ \A g \in arg[p].rows : g.effect = "deny" => g \in arg[p].cells
           => LET targets == IF p \in Savers THEN Targets \ {OfSelf, OfOrg} ELSE Targets \ {OfSelf}
              IN \A who \in People :
                   Powers(who, targets)' \subseteq Powers(who, targets) \cup Powers(By[p], targets)]_vars
  <2> SUFFICES ASSUME IInv, Sent, IdsAreOnes, [Next]_vars,
                      NEW p \in Assigners \cup Importers \cup Savers,
                      Undisturbed(p, "found") \/ Undisturbed(p, "cleared"),
                      p \notin Savers => arg[p].role \notin RolesOf(arg[p].who),
                      \A g \in arg[p].rows : g.effect = "deny" => g \in arg[p].cells,
                      NEW who \in People
               PROVE  LET T == IF p \in Savers THEN Targets \ {OfSelf, OfOrg} ELSE Targets \ {OfSelf}
                      IN  Powers(who, T)' \subseteq Powers(who, T) \cup Powers(By[p], T)
    OBVIOUS
  <2> DEFINE T == IF p \in Savers THEN Targets \ {OfSelf, OfOrg} ELSE Targets \ {OfSelf}
  <2>0. (p \in Savers => T = Targets \ {OfSelf, OfOrg}) /\ (p \notin Savers => T = Targets \ {OfSelf})
    OBVIOUS
  <2> SUFFICES Powers(who, T)' \subseteq Powers(who, T) \cup Powers(By[p], T)
    OBVIOUS
  <2> HIDE DEF T
  <2>1. /\ p \in Procs /\ ~arg[p].stale /\ pc'[p] = "done"
        /\ \/ pc[p] = "found" /\ p \in Assigners \cup Importers /\ p \notin Savers
           \/ pc[p] = "cleared" /\ p \in Savers
    BY RosterAssumption DEF Procs, Undisturbed, Sent, Stands
  <2>2. ASSUME \A c \in Capabilities, t \in T : \A H \in collectGrants(who)' :
                 May(H, c, t) => \/ \E G \in collectGrants(who) : May(G, c, t)
                                 \/ \E G \in collectGrants(By[p]) : May(G, c, t)
        PROVE  Powers(who, T)' \subseteq Powers(who, T) \cup Powers(By[p], T)
    <3> SUFFICES ASSUME NEW power \in Powers(who, T)'
                 PROVE  power \in Powers(who, T) \/ power \in Powers(By[p], T)
      OBVIOUS
    <3>1. PICK c \in Capabilities, t \in T : /\ power = <<c, t>>
                                             /\ \E H \in collectGrants(who)' : May(H, c, t)
      BY DEF Powers
    <3> QED BY <2>2, <3>1, PowersAre
  <2>3. CASE pc[p] = "found" /\ PlaceCommit(p)
    BY <2>0, <2>1, <2>2, <2>3, PlacementBounded
  <2>4. CASE pc[p] = "cleared" /\ SaveCommit(p)
    BY <2>0, <2>1, <2>2, <2>4, SaveBounded
  <2>5. CASE UNCHANGED tables
    <3>1. collectGrants(who)' = collectGrants(who)
      BY <2>5, CollectedFrame DEF tables
    <3> QED BY <2>2, <3>1
  <2> QED BY <2>1, <2>3, <2>4, <2>5, WhoseCommit
<1> QED BY <1>1, Invariance, SentInvariance, PTL DEF Spec, PowersAreBounded
=============================================================================
