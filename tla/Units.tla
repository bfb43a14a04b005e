------------------------------- MODULE Units -------------------------------
(***************************************************************************)
(* The units of one organisation: the structural half of the org graph     *)
(* (src/src/backend/features/units/service.ts, db/graph.ts).  A unit is a  *)
(* row of nodes, its place a "contains" row of edges, and the unique index *)
(* edges_one_parent_per_dimension gives it one parent at most.             *)
(*                                                                         *)
(* A request checks what it needs, then runs one transaction at READ       *)
(* COMMITTED.  What a transaction has written and not committed is its     *)
(* entry of work; others wait for the rows in it.  A numbered range of     *)
(* siblings (expandUnitNames) is one unit here, and a unit's name, dates,  *)
(* positions and subjects are left out.                                    *)
(***************************************************************************)
EXTENDS Naturals

CONSTANTS
  Nodes,      \* every unit there will ever be
  Initial,    \* those the organisation starts with
  Root,       \* the unit the others start under
  Creators,   \* requests that create a unit, one after another
  Movers,     \* requests that move one (reparentUnit)
  Deleters,   \* requests that delete one; a request slot may be in all three
  MAX_DEPTH,  \* the cap on every recursive query, 32 in the code
  None

Procs == Creators \cup Movers \cup Deleters

ASSUME UnitsAssumption ==
  /\ Initial \subseteq Nodes
  /\ Root \in Initial
  /\ MAX_DEPTH \in Nat
  /\ None \notin Nodes

VARIABLES
  units,  \* the committed units
  edges,  \* the committed contains edges, as <<parent, child>>
  born,   \* the ids handed out so far
  work,   \* Procs -> the edges its transaction deleted and added, the units it made and dropped
  arg,    \* Procs -> the unit it is about, the parent it names (None: the top), whether the
          \*   rows its first DELETE can see have been replaced since; history: another request
          \*   has committed since it checked
  pc      \* Procs -> the next step

vars == <<units, edges, born, work, arg, pc>>

Pairs == Nodes \X Nodes
Nothing == [del |-> {}, add |-> {}, new |-> {}, drop |-> {}]
NoArg == [unit |-> None, to |-> None, stale |-> FALSE, overtaken |-> FALSE]

TypeOK ==
  /\ units \in SUBSET Nodes
  /\ edges \in SUBSET Pairs
  /\ born \in SUBSET Nodes
  /\ work \in [Procs -> [del : SUBSET Pairs, add : SUBSET Pairs,
                         new : SUBSET Nodes, drop : SUBSET Nodes]]
  /\ arg \in [Procs -> [unit : Nodes \cup {None}, to : Nodes \cup {None}, stale : BOOLEAN,
                        overtaken : BOOLEAN]]
  /\ pc \in [Procs -> {"idle", "creating", "moving", "queued", "deleting", "reassigned", "written"}]

\* The wizard's shape: everything directly under the root.
Init ==
  /\ units = Initial
  /\ edges = {<<Root, u>> : u \in Initial \ {Root}}
  /\ born = Initial
  /\ work = [p \in Procs |-> Nothing]
  /\ arg = [p \in Procs |-> NoArg]
  /\ pc = [p \in Procs |-> "idle"]

-----------------------------------------------------------------------------
(* db/graph.ts: the recursive queries, each a walk of at most MAX_DEPTH    *)
(* levels.                                                                 *)

childrenOf(u) == {v \in Nodes : <<u, v>> \in edges}

\* S and the units at most MAX_DEPTH levels below it.
Down(S) ==
  LET level[d \in 0..MAX_DEPTH] ==
        IF d = 0 THEN S ELSE level[d - 1] \cup UNION {childrenOf(u) : u \in level[d - 1]}
  IN level[MAX_DEPTH]

unitSubtree(u) == Down({u} \cap units)

\* Mutant: only a move to the unit itself, or straight to a child, counts as a loop.
wouldCreateCycleShallow(parent, child) == parent = child \/ parent \in childrenOf(child)

wouldCreateCycle(parent, child) == parent = child \/ parent \in Down({child})

-----------------------------------------------------------------------------
(* What a transaction in flight makes the others wait for.                 *)

Others(p) == Procs \ {p}

\* The edge of unit c is in no other transaction's writes (row lock, unique index).
KeyFree(p, c) == \A q \in Others(p) : \A e \in work[q].del \cup work[q].add : e[2] # c

\* No other transaction is deleting u, so a foreign key to it need not wait.
Settled(p, u) == \A q \in Others(p) : u \notin work[q].drop

\* No other transaction holds a new edge at u, so its row can be deleted.
Unshared(p, u) == \A q \in Others(p) : \A e \in work[q].add : u \notin {e[1], e[2]}

\* assertUnitInOrg, for a unit that may be left out.
Known(u) == u = None \/ u \in units

Refuse(p) ==
  /\ work' = [work EXCEPT ![p] = Nothing]
  /\ arg' = [arg EXCEPT ![p] = NoArg]
  /\ pc' = [pc EXCEPT ![p] = "idle"]
  /\ UNCHANGED <<units, edges, born>>

-----------------------------------------------------------------------------
(* createUnit                                                              *)

CreateFind(p, to) ==
  /\ pc[p] = "idle"
  /\ Known(to)
  /\ arg' = [arg EXCEPT ![p].to = to]
  /\ pc' = [pc EXCEPT ![p] = "creating"]
  /\ UNCHANGED <<units, edges, born, work>>

\* The node, and the edge whose foreign key must find the parent still there.
CreateWrite(p, u) ==
  /\ pc[p] = "creating"
  /\ Settled(p, arg[p].to)
  /\ Known(arg[p].to)
  /\ u \notin born
  /\ born' = born \cup {u}
  /\ work' = [work EXCEPT ![p].new = {u},
                          ![p].add = {<<to, u>> : to \in {arg[p].to} \ {None}}]
  /\ pc' = [pc EXCEPT ![p] = "written"]
  /\ UNCHANGED <<units, edges, arg>>

CreateRefuse(p) ==
  /\ pc[p] = "creating"
  /\ ~Known(arg[p].to)
  /\ Refuse(p)

-----------------------------------------------------------------------------
(* reparentUnit                                                            *)

MoveFind(p, u, to) ==
  /\ pc[p] = "idle"
  /\ u \in units
  /\ Known(to)
  /\ to # None => ~wouldCreateCycle(to, u)
  /\ arg' = [arg EXCEPT ![p].unit = u, ![p].to = to]
  /\ pc' = [pc EXCEPT ![p] = "moving"]
  /\ UNCHANGED <<units, edges, born, work>>

\* The DELETE of the old edge takes its snapshot, and may have to wait.
MoveBegin(p) ==
  /\ pc[p] = "moving"
  /\ pc' = [pc EXCEPT ![p] = "queued"]
  /\ UNCHANGED <<units, edges, born, work, arg>>

\* The edges of p's unit that its DELETE sees, and those its INSERT would collide with.
Mine(p) == IF arg[p].stale THEN {} ELSE {e \in edges : e[2] = arg[p].unit}

\* Mutant: the unique index is missing.
CollidesNever(p) == FALSE

Collides(p) == arg[p].to # None /\ \E e \in edges \ Mine(p) : e[2] = arg[p].unit

MoveReady(p) ==
  /\ pc[p] = "queued"
  /\ KeyFree(p, arg[p].unit)
  /\ arg[p].to # None => Settled(p, arg[p].to) /\ Settled(p, arg[p].unit)

MoveWrite(p) ==
  /\ MoveReady(p)
  /\ ~Collides(p)
  /\ arg[p].to # None => {arg[p].to, arg[p].unit} \subseteq units
  /\ work' = [work EXCEPT ![p].del = Mine(p),
                          ![p].add = {<<to, arg[p].unit>> : to \in {arg[p].to} \ {None}}]
  /\ pc' = [pc EXCEPT ![p] = "written"]
  /\ UNCHANGED <<units, edges, born, arg>>

\* The unique index, or a foreign key, stops it.
MoveRefuse(p) ==
  /\ MoveReady(p)
  /\ Collides(p) \/ (arg[p].to # None /\ ~({arg[p].to, arg[p].unit} \subseteq units))
  /\ Refuse(p)

-----------------------------------------------------------------------------
(* deleteUnit                                                              *)

DeleteFind(p, u, to) ==
  /\ pc[p] = "idle"
  /\ u \in units
  /\ to = None => childrenOf(u) = {}
  /\ Known(to)
  /\ to # None => to \notin unitSubtree(u)
  /\ arg' = [arg EXCEPT ![p].unit = u, ![p].to = to]
  /\ pc' = [pc EXCEPT ![p] = IF to = None THEN "reassigned" ELSE "deleting"]
  /\ UNCHANGED <<units, edges, born, work>>

\* Mutant: the children are not moved before the unit is deleted.
DeleteReassignNothing(p) ==
  /\ pc[p] = "deleting"
  /\ pc' = [pc EXCEPT ![p] = "reassigned"]
  /\ UNCHANGED <<units, edges, born, work, arg>>

\* The children go to the unit named, all in one updateMany.
DeleteReassign(p) ==
  LET moved == childrenOf(arg[p].unit) IN
  /\ pc[p] = "deleting"
  /\ \A c \in moved : KeyFree(p, c)
  /\ moved # {} => Settled(p, arg[p].to) /\ arg[p].to \in units
  /\ work' = [work EXCEPT ![p].del = {<<arg[p].unit, c>> : c \in moved},
                          ![p].add = {<<arg[p].to, c>> : c \in moved}]
  /\ pc' = [pc EXCEPT ![p] = "reassigned"]
  /\ UNCHANGED <<units, edges, born, arg>>

\* The node goes, and its edges with it (ON DELETE CASCADE), those added since the check too.
DeleteNode(p) ==
  LET u == arg[p].unit
      cascade == {e \in edges : u \in {e[1], e[2]}}
  IN
  /\ pc[p] = "reassigned"
  /\ u \in units
  /\ Settled(p, u)
  /\ Unshared(p, u)
  /\ \A e \in cascade : KeyFree(p, e[2])
  /\ work' = [work EXCEPT ![p].drop = {u}, ![p].del = @ \cup cascade,
                          ![p].add = {e \in @ : u \notin {e[1], e[2]}}]
  /\ pc' = [pc EXCEPT ![p] = "written"]
  /\ UNCHANGED <<units, edges, born, arg>>

\* Another request deleted the unit, or the one the children were to go to.
DeleteRefuse(p) ==
  /\ \/ /\ pc[p] = "reassigned"
        /\ arg[p].unit \notin units
     \/ /\ pc[p] = "deleting"
        /\ childrenOf(arg[p].unit) # {}
        /\ arg[p].to \notin units
  /\ Refuse(p)

-----------------------------------------------------------------------------
(* runInTransaction                                                        *)

Commit(p) ==
  /\ pc[p] = "written"
  /\ units' = (units \cup work[p].new) \ work[p].drop
  /\ edges' = (edges \ work[p].del) \cup work[p].add
  /\ work' = [work EXCEPT ![p] = Nothing]
  /\ arg' = [q \in Procs |->
              IF q = p THEN NoArg
              ELSE [arg[q] EXCEPT !.stale = @ \/ (pc[q] = "queued" /\ arg[q].unit = arg[p].unit),
                                  !.overtaken = pc[q] # "idle"]]
  /\ pc' = [pc EXCEPT ![p] = "idle"]
  /\ UNCHANGED born

\* The database breaks the transaction off (a lost connection, a deadlock it resolved).
Rollback(p) ==
  /\ pc[p] \in {"creating", "queued", "deleting", "reassigned", "written"}
  /\ Refuse(p)

-----------------------------------------------------------------------------
Create(p) == CreateRefuse(p) \/ (\E to \in Nodes \cup {None} : CreateFind(p, to))
                             \/ (\E u \in Nodes : CreateWrite(p, u))

Move(p) == MoveBegin(p) \/ MoveWrite(p) \/ MoveRefuse(p)
           \/ \E u \in Nodes, to \in Nodes \cup {None} : MoveFind(p, u, to)

Delete(p) == DeleteReassign(p) \/ DeleteNode(p) \/ DeleteRefuse(p)
             \/ \E u \in Nodes, to \in Nodes \cup {None} : DeleteFind(p, u, to)

Next ==
  \/ \E p \in Creators : Create(p)
  \/ \E p \in Movers : Move(p)
  \/ \E p \in Deleters : Delete(p)
  \/ \E p \in Procs : Commit(p) \/ Rollback(p)

Spec == Init /\ [][Next]_vars

-----------------------------------------------------------------------------
(* The index edges_one_parent_per_dimension: no unit is in two places,     *)
(* whatever two moves and a reassignment do at once.                       *)
OneParent == \A d, e \in edges : d[2] = e[2] => d = e

(* The foreign keys of edges: a parent or a child that is deleted leaves   *)
(* no edge behind, also when the edge and the deletion race.               *)
EdgesHaveUnits == \A e \in edges : {e[1], e[2]} \subseteq units

(* Every unit is reached from the top: there is no set of units in which   *)
(* each has its parent inside the set.                                     *)
Forest ==
  \A S \in SUBSET units :
    S # {} => \E u \in S : \A v \in S : <<v, u>> \notin edges

Commits(p) == pc[p] = "written" /\ pc'[p] = "idle"

(* No move and no reassignment closes a loop (wouldCreateCycle), unless    *)
(* another request committed between its check and its write: the check is *)
(* sound, and what breaks it is that nothing holds the rows it walked.     *)
LoopsNeedARace ==
  [][Forest => Forest' \/ \E p \in Movers \cup Deleters : Commits(p) /\ arg[p].overtaken]_vars

(* deleteUnit never orphans what is below: a unit that had a parent keeps  *)
(* one, unless somebody moved that very unit to the top or it was put      *)
(* under a unit between the check of its deletion and the delete.          *)
NoOrphans ==
  [][\A e \in edges :
       \/ e[2] \notin units'
       \/ \E d \in edges' : d[2] = e[2]
       \/ \E p \in Movers : Commits(p) /\ arg[p].unit = e[2] /\ arg[p].to = None
       \/ \E p \in Deleters : Commits(p) /\ arg[p].overtaken /\ arg[p].unit = e[1]]_vars

(* The same without the excuse: what deleteUnit says (service.ts:309).     *)
NeverOrphaned ==
  [][\A e \in edges :
       \/ e[2] \notin units'
       \/ \E d \in edges' : d[2] = e[2]
       \/ \E p \in Movers : Commits(p) /\ arg[p].unit = e[2] /\ arg[p].to = None]_vars

=============================================================================
