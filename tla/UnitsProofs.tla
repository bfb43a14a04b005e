---------------------------- MODULE UnitsProofs -----------------------------
(***************************************************************************)
(* The organisation and the permissions that hang on it: proofs about      *)
(* Units and, in the last section, GrantCache, for any units, requests and *)
(* limits. The two are not composed: a theorem speaks of Spec or of        *)
(* CacheSpec.                                                              *)
(*                                                                         *)
(* Units: no unit is in two places, no edge outlives a unit it joins, and  *)
(* loops and orphans need a race.                                          *)
(* What the unique index and the foreign keys make sure of holds at each   *)
(* commit because of what every transaction in flight has made sure of     *)
(* already, and what the locks keep the others from undoing: Sound says it *)
(* of one transaction's work. For loops and orphans Shaped says what a     *)
(* transaction has written of what it was asked, and Checked that where    *)
(* nobody came in between, a set of units still lies between the unit and  *)
(* its new parent that no edge leads out of.                               *)
(***************************************************************************)
EXTENDS Units, GrantCache, FiniteSetTheorems, WellFoundedInduction, TLAPS

Works == [del : SUBSET Pairs, add : SUBSET Pairs, new : SUBSET Nodes, drop : SUBSET Nodes]
Arguments == [unit : Nodes \cup {None}, to : Nodes \cup {None}, stale : BOOLEAN, overtaken : BOOLEAN]
Steps == {"idle", "creating", "moving", "queued", "deleting", "reassigned", "written"}

\* Two transactions write the edges of different units, and neither adds an edge at a unit
\* that the other deletes.
Clear(v, w) ==
  /\ \A d \in v.del \cup v.add, e \in w.del \cup w.add : d[2] # e[2]
  /\ \A e \in v.add, u \in w.drop : u \notin {e[1], e[2]}
  /\ \A e \in w.add, u \in v.drop : u \notin {e[1], e[2]}

\* Once w is committed every unit still has one parent at most and every edge its units.
Fits(w) ==
  /\ \A d, e \in w.add : d[2] = e[2] => d = e
  /\ \A e \in w.add, d \in edges : d[2] = e[2] => d \in w.del
  /\ \A e \in w.add : {e[1], e[2]} \subseteq (units \cup w.new) \ w.drop
  /\ \A e \in edges, u \in w.drop : u \in {e[1], e[2]} => e \in w.del

\* What is written is about units that have been created.
Born(w) ==
  /\ \A e \in w.del \cup w.add : e[2] \in born
  /\ w.new \cup w.drop \subseteq born

Sound ==
  /\ \A p \in Procs : Fits(work[p]) /\ Born(work[p])
  /\ \A p, q \in Procs : p # q => Clear(work[p], work[q])

\* How much of its work a request has done.
Staged ==
  \A p \in Procs :
    /\ pc[p] \notin {"reassigned", "written"} => work[p] = Nothing
    /\ pc[p] = "reassigned" => work[p].new = {} /\ work[p].drop = {}

IInv ==
  /\ TypeOK
  /\ units \subseteq born
  /\ OneParent
  /\ EdgesHaveUnits
  /\ Sound
  /\ Staged

-----------------------------------------------------------------------------
LEMMA TypeIs == TypeOK <=>
  /\ units \in SUBSET Nodes /\ edges \in SUBSET Pairs /\ born \in SUBSET Nodes
  /\ work \in [Procs -> Works] /\ arg \in [Procs -> Arguments] /\ pc \in [Procs -> Steps]
  BY DEF TypeOK, Works, Arguments, Steps

LEMMA NothingFits ==
  /\ Nothing \in Works /\ Fits(Nothing) /\ Born(Nothing)
  /\ \A w : Clear(Nothing, w)
  BY DEF Nothing, Works, Fits, Born, Clear

LEMMA ClearBothWays == ASSUME NEW v, NEW w, Clear(v, w) PROVE Clear(w, v)
  BY DEF Clear

LEMMA NoArgTyped == NoArg \in Arguments
  BY DEF NoArg, Arguments

LEMMA InitIInv == Init => IInv
<1> SUFFICES ASSUME Init PROVE IInv
  OBVIOUS
<1>1. Initial \subseteq Nodes /\ Root \in Initial
  BY UnitsAssumption
<1>2. /\ work = [p \in Procs |-> Nothing] /\ arg = [p \in Procs |-> NoArg]
      /\ pc = [p \in Procs |-> "idle"]
      /\ units = Initial /\ born = Initial /\ edges = {<<Root, u>> : u \in Initial \ {Root}}
  BY DEF Init
<1>3. edges \in SUBSET Pairs
  BY <1>1, <1>2 DEF Pairs
<1>4. TypeOK
  BY <1>1, <1>2, <1>3, NothingFits, NoArgTyped, TypeIs DEF Steps
<1>5. OneParent /\ EdgesHaveUnits
  BY <1>1, <1>2 DEF OneParent, EdgesHaveUnits
<1>6. Sound
  BY <1>2, NothingFits DEF Sound
<1>7. Staged
  BY <1>2 DEF Staged
<1> QED BY <1>2, <1>4, <1>5, <1>6, <1>7 DEF IInv

\* A step of one transaction, which nobody else sees yet.
LEMMA WorkKeeps ==
  ASSUME IInv, NEW p \in Procs, NEW w \in Works, NEW at \in Steps,
         work' = [work EXCEPT ![p] = w], pc' = [pc EXCEPT ![p] = at],
         arg' \in [Procs -> Arguments],
         UNCHANGED <<units, edges>>, born \subseteq born', born' \subseteq Nodes,
         Fits(w),
         \A e \in w.del \cup w.add : e[2] \in born', w.new \cup w.drop \subseteq born',
         \A q \in Procs \ {p} : Clear(w, work[q]),
         at \notin {"reassigned", "written"} => w = Nothing,
         at = "reassigned" => w.new = {} /\ w.drop = {}
  PROVE  IInv'
<1>0. work \in [Procs -> Works] /\ pc \in [Procs -> Steps]
  BY TypeIs DEF IInv
<1>1. /\ \A q \in Procs : work'[q] = IF q = p THEN w ELSE work[q]
      /\ \A q \in Procs : pc'[q] = IF q = p THEN at ELSE pc[q]
      /\ work' \in [Procs -> Works] /\ pc' \in [Procs -> Steps]
  BY <1>0
<1>2. TypeOK'
  <2>1. TypeOK
    BY DEF IInv
  <2>2. units' \in SUBSET Nodes /\ edges' \in SUBSET Pairs
    BY <2>1, TypeIs
  <2> QED BY <1>1, <2>2 DEF TypeOK, Works, Arguments, Steps
<1>3. units' \subseteq born' /\ OneParent' /\ EdgesHaveUnits'
  BY DEF IInv, OneParent, EdgesHaveUnits
<1>4. ASSUME NEW q \in Procs PROVE Fits(work[q])' /\ Born(work[q])'
  <2>1. Fits(work[q]) /\ Born(work[q])
    BY DEF IInv, Sound
  <2>2. CASE q = p
    BY <2>2, <1>1 DEF Fits, Born
  <2>3. CASE q # p
    BY <2>1, <2>3, <1>1 DEF Fits, Born
  <2> QED BY <2>2, <2>3
<1>5. ASSUME NEW q \in Procs, NEW r \in Procs, q # r PROVE Clear(work[q], work[r])'
  <2>1. CASE q = p
    BY <2>1, <1>1, <1>5 DEF Clear
  <2>2. CASE r = p
    <3>1. Clear(w, work[q])
      BY <2>2, <1>5
    <3>2. Clear(work[q], w)
      BY <3>1, ClearBothWays
    <3> QED BY <2>2, <3>2, <1>1, <1>5 DEF Clear
  <2>3. CASE q # p /\ r # p
    <3>1. Clear(work[q], work[r])
      BY <1>5 DEF IInv, Sound
    <3> QED BY <2>3, <3>1, <1>1 DEF Clear
  <2> QED BY <2>1, <2>2, <2>3
<1>6. Sound'
  BY <1>4, <1>5 DEF Sound
<1>7. Staged'
  BY <1>1 DEF IInv, Staged
<1> QED BY <1>2, <1>3, <1>6, <1>7 DEF IInv

\* Its work given up, or not begun.
LEMMA EmptyKeeps ==
  ASSUME IInv, NEW p \in Procs, NEW at \in Steps,
         work' = [work EXCEPT ![p] = Nothing] \/ (work' = work /\ work[p] = Nothing),
         pc' = [pc EXCEPT ![p] = at],
         arg' \in [Procs -> Arguments], UNCHANGED <<units, edges, born>>,
         at # "written"
  PROVE  IInv'
<1>1. work \in [Procs -> Works]
  BY TypeIs DEF IInv
<1>2. work' = [work EXCEPT ![p] = Nothing]
  BY <1>1
<1>3. born' \subseteq Nodes
  BY TypeIs DEF IInv
<1>4. Nothing.del = {} /\ Nothing.add = {} /\ Nothing.new = {} /\ Nothing.drop = {}
  BY DEF Nothing
<1>5. at = "reassigned" => Nothing.new = {} /\ Nothing.drop = {}
  BY DEF Nothing
<1> QED BY <1>2, <1>3, <1>4, <1>5, NothingFits, WorkKeeps

LEMMA RefuseKeeps ==
  ASSUME IInv, NEW p \in Procs, Refuse(p)
  PROVE  IInv'
<1>1. arg' \in [Procs -> Arguments]
  BY TypeIs, NoArgTyped DEF IInv, Refuse
<1> QED BY <1>1, EmptyKeeps DEF Refuse, Steps

\* The checks.
LEMMA FindKeeps ==
  ASSUME IInv, NEW p \in Procs, NEW u \in Nodes, NEW to \in Nodes \cup {None},
         CreateFind(p, to) \/ MoveFind(p, u, to) \/ DeleteFind(p, u, to) \/ MoveBegin(p)
  PROVE  IInv'
<1>0. arg \in [Procs -> Arguments]
  BY TypeIs DEF IInv
<1>1. work[p] = Nothing
  BY DEF IInv, Staged, CreateFind, MoveFind, DeleteFind, MoveBegin
<1>6. [arg[p] EXCEPT !.unit = u, !.to = to] \in Arguments
  BY <1>0 DEF Arguments
<1>2. CASE CreateFind(p, to)
  <2>1. arg' \in [Procs -> Arguments]
    BY <1>0, <1>2 DEF CreateFind, Arguments
  <2> QED BY <1>1, <1>2, <2>1, EmptyKeeps DEF CreateFind, Steps
<1>3. CASE MoveFind(p, u, to)
  <2>1. arg' = [arg EXCEPT ![p] = [arg[p] EXCEPT !.unit = u, !.to = to]]
    BY <1>0, <1>3 DEF MoveFind
  <2>2. arg' \in [Procs -> Arguments]
    BY <1>0, <1>6, <2>1
  <2> QED BY <1>1, <1>3, <2>2, EmptyKeeps DEF MoveFind, Steps
<1>4. CASE DeleteFind(p, u, to)
  <2>1. arg' = [arg EXCEPT ![p] = [arg[p] EXCEPT !.unit = u, !.to = to]]
    BY <1>0, <1>4 DEF DeleteFind
  <2>2. arg' \in [Procs -> Arguments]
    BY <1>0, <1>6, <2>1
  <2> QED BY <1>1, <1>4, <2>2, EmptyKeeps DEF DeleteFind, Steps
<1>5. CASE MoveBegin(p)
  BY <1>0, <1>1, <1>5, EmptyKeeps DEF MoveBegin, Steps
<1> QED BY <1>2, <1>3, <1>4, <1>5

-----------------------------------------------------------------------------
(* The writes.                                                             *)

\* The shape of what the others have written.
LEMMA OthersAre ==
  ASSUME IInv, NEW q \in Procs
  PROVE  /\ work[q] \in Works /\ Fits(work[q]) /\ Born(work[q])
         /\ \A e \in edges : e[1] \in units /\ e[2] \in units
         /\ units \subseteq born /\ units \subseteq Nodes /\ born \subseteq Nodes /\ edges \subseteq Pairs
  BY TypeIs DEF IInv, Sound, EdgesHaveUnits

LEMMA CreateKeeps ==
  ASSUME IInv, NEW p \in Procs, NEW u \in Nodes, CreateWrite(p, u)
  PROVE  IInv'
<1> DEFINE to == arg[p].to
           add == {<<t, u>> : t \in {to} \ {None}}
           w == [work[p] EXCEPT !.new = {u}, !.add = add]
<1>0. /\ work \in [Procs -> Works] /\ arg \in [Procs -> Arguments]
  BY TypeIs DEF IInv
<1>1. /\ pc[p] = "creating" /\ Settled(p, to) /\ Known(to) /\ u \notin born
      /\ born' = born \cup {u}
      /\ work' = [work EXCEPT ![p].new = {u}, ![p].add = add]
      /\ pc' = [pc EXCEPT ![p] = "written"] /\ UNCHANGED <<units, edges, arg>>
  BY DEF CreateWrite
<1>2. work[p] \in Works /\ work[p].del = {} /\ work[p].new = {} /\ work[p].drop = {}
  <2>1. work[p] = Nothing
    BY <1>1 DEF IInv, Staged
  <2> QED BY <2>1, NothingFits DEF Nothing
<1>3. add \subseteq Pairs /\ \A e \in add : e[1] = to /\ e[2] = u /\ to \in units
  <2>1. to # None => to \in units
    BY <1>1 DEF Known
  <2> QED BY <2>1, OthersAre DEF Pairs
<1>4. work' = [work EXCEPT ![p] = w]
  BY <1>0, <1>1
<1>5. w \in Works /\ w.del = {} /\ w.drop = {} /\ w.new = {u} /\ w.add = add
  <2> HIDE DEF add
  <2> QED BY <1>2, <1>3 DEF Works
<1> HIDE DEF w, add, to
<1>6. Fits(w)
  <2>1. \A d, e \in w.add : d[2] = e[2] => d = e
    BY <1>3, <1>5 DEF Pairs
  <2>2. \A e \in w.add, d \in edges : d[2] # e[2]
    BY <1>1, <1>3, <1>5, OthersAre
  <2>3. \A e \in w.add : {e[1], e[2]} \subseteq (units \cup w.new) \ w.drop
    BY <1>3, <1>5
  <2> QED BY <2>1, <2>2, <2>3, <1>5 DEF Fits
<1>7. (\A e \in w.del \cup w.add : e[2] \in born') /\ w.new \cup w.drop \subseteq born'
  BY <1>1, <1>3, <1>5
<1>8. ASSUME NEW q \in Procs \ {p} PROVE Clear(w, work[q])
  <2>1. /\ \A e \in work[q].del \cup work[q].add : e[2] # u
        /\ u \notin work[q].drop
    BY <1>1, OthersAre DEF Born
  <2>2. to \notin work[q].drop
    BY <1>1 DEF Settled, Others
  <2> QED BY <2>1, <2>2, <1>3, <1>5 DEF Clear
<1>9. born \subseteq born' /\ born' \subseteq Nodes
  BY <1>1, OthersAre
<1> QED BY <1>0, <1>1, <1>4, <1>5, <1>6, <1>7, <1>8, <1>9, WorkKeeps DEF Steps

LEMMA MoveKeeps ==
  ASSUME IInv, NEW p \in Procs, MoveWrite(p)
  PROVE  IInv'
<1> DEFINE to == arg[p].to
           unit == arg[p].unit
           add == {<<t, unit>> : t \in {to} \ {None}}
           del == Mine(p)
           w == [work[p] EXCEPT !.del = del, !.add = add]
<1>0. /\ work \in [Procs -> Works] /\ arg \in [Procs -> Arguments]
  BY TypeIs DEF IInv
<1>1. /\ pc[p] = "queued" /\ KeyFree(p, unit)
      /\ to # None => Settled(p, to) /\ Settled(p, unit)
      /\ ~Collides(p) /\ (to # None => {to, unit} \subseteq units)
      /\ work' = [work EXCEPT ![p].del = del, ![p].add = add]
      /\ pc' = [pc EXCEPT ![p] = "written"] /\ UNCHANGED <<units, edges, born, arg>>
  BY DEF MoveWrite, MoveReady
<1>2. work[p] \in Works /\ work[p].del = {} /\ work[p].new = {} /\ work[p].drop = {}
  <2>1. work[p] = Nothing
    BY <1>1 DEF IInv, Staged
  <2> QED BY <2>1, NothingFits DEF Nothing
<1>3. del \subseteq edges /\ \A e \in del : e[2] = unit
  BY DEF Mine
<1>4. add \subseteq Pairs /\ \A e \in add : e[1] = to /\ e[2] = unit /\ to # None
  BY <1>1, OthersAre DEF Pairs
<1>5. work' = [work EXCEPT ![p] = w]
  BY <1>0, <1>1
<1>6. w \in Works /\ w.del = del /\ w.drop = {} /\ w.new = {} /\ w.add = add
  <2>1. del \subseteq Pairs
    BY <1>3, OthersAre
  <2> HIDE DEF del, add
  <2> QED BY <1>2, <1>4, <2>1 DEF Works
<1>7. to # None => \A d \in edges : d[2] = unit => d \in del
  BY <1>1 DEF Collides
<1> HIDE DEF w, add, to, unit, del
<1>8. Fits(w)
  BY <1>1, <1>4, <1>6, <1>7 DEF Fits, Pairs
<1>9. (\A e \in w.del \cup w.add : e[2] \in born') /\ w.new \cup w.drop \subseteq born'
  <2>1. \A e \in del : e[2] \in born
    BY <1>3, OthersAre
  <2>2. \A e \in add : e[2] \in born
    BY <1>1, <1>4, OthersAre
  <2> QED BY <1>1, <1>6, <2>1, <2>2
<1>10. ASSUME NEW q \in Procs \ {p} PROVE Clear(w, work[q])
  <2>1. \A e \in work[q].del \cup work[q].add : e[2] # unit
    BY <1>1 DEF KeyFree, Others
  <2>2. to # None => to \notin work[q].drop /\ unit \notin work[q].drop
    BY <1>1 DEF Settled, Others
  <2> QED BY <2>1, <2>2, <1>3, <1>4, <1>6 DEF Clear
<1>11. born \subseteq born' /\ born' \subseteq Nodes
  BY <1>1, OthersAre
<1> QED BY <1>0, <1>1, <1>5, <1>6, <1>8, <1>9, <1>10, <1>11, WorkKeeps DEF Steps

LEMMA ReassignKeeps ==
  ASSUME IInv, NEW p \in Procs, DeleteReassign(p)
  PROVE  IInv'
<1> DEFINE to == arg[p].to
           unit == arg[p].unit
           moved == childrenOf(unit)
           del == {<<unit, c>> : c \in moved}
           add == {<<to, c>> : c \in moved}
           w == [work[p] EXCEPT !.del = del, !.add = add]
<1>0. /\ work \in [Procs -> Works] /\ arg \in [Procs -> Arguments]
  BY TypeIs DEF IInv
<1>1. /\ pc[p] = "deleting" /\ (\A c \in moved : KeyFree(p, c))
      /\ moved # {} => Settled(p, to) /\ to \in units
      /\ work' = [work EXCEPT ![p].del = del, ![p].add = add]
      /\ pc' = [pc EXCEPT ![p] = "reassigned"] /\ UNCHANGED <<units, edges, born, arg>>
  BY DEF DeleteReassign
<1>2. work[p] \in Works /\ work[p].del = {} /\ work[p].new = {} /\ work[p].drop = {}
  <2>1. work[p] = Nothing
    BY <1>1 DEF IInv, Staged
  <2> QED BY <2>1, NothingFits DEF Nothing
<1>3. \A c \in moved : <<unit, c>> \in edges /\ c \in units
  BY OthersAre DEF childrenOf
<1>4. work' = [work EXCEPT ![p] = w]
  BY <1>0, <1>1
<1> HIDE DEF moved, to, unit
<1>5. /\ del \subseteq edges /\ add \subseteq Pairs
      /\ \A e \in del : e[2] \in moved
      /\ \A e \in add : e[1] = to /\ e[2] \in moved /\ to \in units
  <2>1. moved \subseteq units /\ units \subseteq Nodes
    BY <1>3, OthersAre
  <2>2. ASSUME NEW e \in add PROVE e \in Pairs /\ e[1] = to /\ e[2] \in moved /\ to \in units
    <3>1. PICK c \in moved : e = <<to, c>>
      OBVIOUS
    <3> QED BY <3>1, <2>1, <1>1 DEF Pairs
  <2>3. ASSUME NEW e \in del PROVE e \in edges /\ e[2] \in moved
    <3>1. PICK c \in moved : e = <<unit, c>>
      OBVIOUS
    <3> QED BY <3>1, <1>3
  <2> QED BY <2>2, <2>3
<1>6. w \in Works /\ w.del = del /\ w.drop = {} /\ w.new = {} /\ w.add = add
  <2>1. del \subseteq Pairs
    BY <1>5, OthersAre
  <2> HIDE DEF del, add
  <2> QED BY <1>2, <1>5, <2>1 DEF Works
<1>7. \A c \in moved, d \in edges : d[2] = c => d = <<unit, c>>
  BY <1>3 DEF IInv, OneParent
<1>8. \A c \in moved, d \in edges : d[2] = c => d \in del
  BY <1>7
<1>9. \A d, e \in add : d[2] = e[2] => d = e
  OBVIOUS
<1> HIDE DEF w, add, del
<1>10. Fits(w)
  <2>1. \A e \in w.add, d \in edges : d[2] = e[2] => d \in w.del
    BY <1>5, <1>6, <1>8
  <2>2. \A e \in w.add : {e[1], e[2]} \subseteq (units \cup w.new) \ w.drop
    BY <1>3, <1>5, <1>6
  <2> QED BY <1>6, <1>9, <2>1, <2>2 DEF Fits
<1>11. (\A e \in w.del \cup w.add : e[2] \in born') /\ w.new \cup w.drop \subseteq born'
  <2>1. \A e \in del \cup add : e[2] \in born
    BY <1>3, <1>5, OthersAre
  <2> QED BY <1>1, <1>6, <2>1
<1>12. ASSUME NEW q \in Procs \ {p} PROVE Clear(w, work[q])
  <2>1. \A c \in moved, e \in work[q].del \cup work[q].add : e[2] # c
    BY <1>1 DEF KeyFree, Others
  <2>2. moved # {} => to \notin work[q].drop
    BY <1>1 DEF Settled, Others
  <2>3. ASSUME NEW c \in moved PROVE c \notin work[q].drop
    <3>1. c \in work[q].drop => <<unit, c>> \in work[q].del
      BY <1>3, OthersAre DEF Fits
    <3> QED BY <3>1, <2>1
  <2> QED BY <2>1, <2>2, <2>3, <1>5, <1>6 DEF Clear
<1>13. born \subseteq born' /\ born' \subseteq Nodes
  BY <1>1, OthersAre
<1> QED BY <1>0, <1>1, <1>4, <1>6, <1>10, <1>11, <1>12, <1>13, WorkKeeps DEF Steps

LEMMA NodeKeeps ==
  ASSUME IInv, NEW p \in Procs, DeleteNode(p)
  PROVE  IInv'
<1> DEFINE u == arg[p].unit
           v == work[p]
           cascade == {e \in edges : u \in {e[1], e[2]}}
           kept == {e \in v.add : u \notin {e[1], e[2]}}
           w == [v EXCEPT !.drop = {u}, !.del = v.del \cup cascade, !.add = kept]
<1>0. /\ work \in [Procs -> Works] /\ arg \in [Procs -> Arguments]
  BY TypeIs DEF IInv
<1>1. /\ pc[p] = "reassigned" /\ u \in units /\ Settled(p, u) /\ Unshared(p, u)
      /\ \A e \in cascade : KeyFree(p, e[2])
      /\ work' = [work EXCEPT ![p].drop = {u}, ![p].del = @ \cup cascade,
                              ![p].add = {e \in @ : u \notin {e[1], e[2]}}]
      /\ pc' = [pc EXCEPT ![p] = "written"] /\ UNCHANGED <<units, edges, born, arg>>
  BY DEF DeleteNode
<1>2. v \in Works /\ v.new = {} /\ v.drop = {} /\ Fits(v) /\ Born(v)
  BY <1>1, OthersAre DEF IInv, Staged
<1>3. work' = [work EXCEPT ![p] = w]
  BY <1>0, <1>1
<1>4. /\ w \in Works /\ w.del = v.del \cup cascade /\ w.drop = {u} /\ w.new = {} /\ w.add = kept
  <2>1. v.del \cup cascade \subseteq Pairs /\ kept \subseteq Pairs /\ u \in Nodes
    BY <1>1, <1>2, OthersAre DEF Works
  <2> HIDE DEF kept, cascade, u, v
  <2> QED BY <1>2, <2>1 DEF Works
<1>5. kept \subseteq v.add /\ \A e \in kept : u \notin {e[1], e[2]}
  OBVIOUS
<1>6. cascade \subseteq edges /\ \A e \in edges : u \in {e[1], e[2]} => e \in cascade
  OBVIOUS
<1>7. \A q \in Procs \ {p} : Clear(v, work[q])
  BY DEF IInv, Sound
<1> HIDE DEF w, kept, cascade, u, v
<1>8. Fits(w)
  <2>1. \A d, e \in w.add : d[2] = e[2] => d = e
    BY <1>2, <1>4, <1>5 DEF Fits
  <2>2. \A e \in w.add, d \in edges : d[2] = e[2] => d \in w.del
    BY <1>2, <1>4, <1>5 DEF Fits
  <2>3. \A e \in w.add : {e[1], e[2]} \subseteq (units \cup w.new) \ w.drop
    BY <1>2, <1>4, <1>5 DEF Fits
  <2>4. \A e \in edges, x \in w.drop : x \in {e[1], e[2]} => e \in w.del
    BY <1>4, <1>6
  <2> QED BY <2>1, <2>2, <2>3, <2>4 DEF Fits
<1>9. (\A e \in w.del \cup w.add : e[2] \in born') /\ w.new \cup w.drop \subseteq born'
  <2>1. \A e \in w.del \cup w.add : e[2] \in born
    BY <1>2, <1>4, <1>5, <1>6, OthersAre DEF Born
  <2>2. w.new \cup w.drop \subseteq born
    BY <1>1, <1>4, OthersAre
  <2> QED BY <1>1, <2>1, <2>2
<1>10. ASSUME NEW q \in Procs \ {p} PROVE Clear(w, work[q])
  <2>1. Clear(v, work[q])
    BY <1>7
  <2>2. \A d \in cascade, e \in work[q].del \cup work[q].add : d[2] # e[2]
    BY <1>1 DEF KeyFree, Others
  <2>3. \A e \in work[q].add : u \notin {e[1], e[2]}
    BY <1>1 DEF Unshared, Others
  <2> QED BY <2>1, <2>2, <2>3, <1>4, <1>5 DEF Clear
<1>11. born \subseteq born' /\ born' \subseteq Nodes
  BY <1>1, OthersAre
<1> QED BY <1>0, <1>1, <1>3, <1>4, <1>8, <1>9, <1>10, <1>11, WorkKeeps DEF Steps

-----------------------------------------------------------------------------
LEMMA CommitKeeps ==
  ASSUME IInv, NEW p \in Procs, Commit(p)
  PROVE  IInv'
<1> DEFINE w == work[p]
<1>0. work \in [Procs -> Works] /\ arg \in [Procs -> Arguments] /\ pc \in [Procs -> Steps]
  BY TypeIs DEF IInv
<1>1. /\ units' = (units \cup w.new) \ w.drop /\ edges' = (edges \ w.del) \cup w.add
      /\ work' = [work EXCEPT ![p] = Nothing] /\ pc' = [pc EXCEPT ![p] = "idle"] /\ born' = born
  BY DEF Commit
<1>2. w \in Works /\ Fits(w) /\ Born(w)
  BY OthersAre
<1>3. arg' \in [Procs -> Arguments]
  <2>1. ASSUME NEW q \in Procs
        PROVE  [arg[q] EXCEPT !.stale = @ \/ (pc[q] = "queued" /\ arg[q].unit = arg[p].unit),
                              !.overtaken = pc[q] # "idle"] \in Arguments
    BY <1>0 DEF Arguments
  <2> QED BY <2>1, NoArgTyped DEF Commit
<1> HIDE DEF w
<1>4. OneParent'
  <2> SUFFICES ASSUME NEW d \in edges', NEW e \in edges', d[2] = e[2] PROVE d = e
    BY DEF OneParent
  <2> QED BY <1>1, <1>2 DEF IInv, OneParent, Fits
<1>5. EdgesHaveUnits'
  <2> SUFFICES ASSUME NEW e \in edges' PROVE e[1] \in units' /\ e[2] \in units'
    BY DEF EdgesHaveUnits
  <2>1. CASE e \in w.add
    BY <2>1, <1>1, <1>2 DEF Fits
  <2>2. CASE e \in edges \ w.del
    <3>1. e[1] \in units /\ e[2] \in units
      BY <2>2, OthersAre
    <3>2. e[1] \notin w.drop /\ e[2] \notin w.drop
      BY <2>2, <1>2 DEF Fits
    <3> QED BY <3>1, <3>2, <1>1
  <2> QED BY <2>1, <2>2, <1>1
<1>6. /\ units' \subseteq born' /\ units' \subseteq Nodes /\ edges' \subseteq Pairs /\ born' \subseteq Nodes
  BY <1>1, <1>2, OthersAre DEF Born, Works
<1>7. /\ \A q \in Procs : work'[q] = IF q = p THEN Nothing ELSE work[q]
      /\ \A q \in Procs : pc'[q] = IF q = p THEN "idle" ELSE pc[q]
      /\ work' \in [Procs -> Works] /\ pc' \in [Procs -> Steps]
  BY <1>0, <1>1, NothingFits DEF Steps
<1>8. TypeOK'
  BY <1>3, <1>6, <1>7 DEF TypeOK, Works, Arguments, Steps
<1>9. ASSUME NEW q \in Procs PROVE Fits(work[q])' /\ Born(work[q])'
  <2>1. CASE q = p
    BY <2>1, <1>7 DEF Fits, Born, Nothing
  <2>2. CASE q # p
    <3> DEFINE v == work[q]
    <3>1. Fits(v) /\ Born(v) /\ Clear(v, w) /\ work'[q] = v
      BY <2>2, <1>7, OthersAre DEF IInv, Sound, w
    <3> HIDE DEF v
    <3>2. \A d, e \in v.add : d[2] = e[2] => d = e
      BY <3>1 DEF Fits
    <3>3. \A e \in v.add, d \in edges' : d[2] = e[2] => d \in v.del
      BY <3>1, <1>1 DEF Fits, Clear
    <3>4. \A e \in v.add : {e[1], e[2]} \subseteq (units' \cup v.new) \ v.drop
      BY <3>1, <1>1 DEF Fits, Clear
    <3>5. \A e \in edges', u \in v.drop : u \in {e[1], e[2]} => e \in v.del
      BY <3>1, <1>1 DEF Fits, Clear
    <3> QED BY <3>1, <3>2, <3>3, <3>4, <3>5, <1>1 DEF Fits, Born
  <2> QED BY <2>1, <2>2
<1>10. ASSUME NEW q \in Procs, NEW r \in Procs, q # r PROVE Clear(work[q], work[r])'
  <2>1. CASE q = p \/ r = p
    BY <2>1, <1>7, <1>10 DEF Clear, Nothing
  <2>2. CASE q # p /\ r # p
    <3>1. Clear(work[q], work[r])
      BY <1>10 DEF IInv, Sound
    <3> QED BY <2>2, <3>1, <1>7 DEF Clear
  <2> QED BY <2>1, <2>2
<1>11. Sound'
  BY <1>9, <1>10 DEF Sound
<1>12. Staged'
  BY <1>7 DEF IInv, Staged
<1> QED BY <1>4, <1>5, <1>6, <1>8, <1>11, <1>12 DEF IInv

LEMMA StepKeeps == IInv /\ [Next]_vars => IInv'
<1> SUFFICES ASSUME IInv, [Next]_vars PROVE IInv'
  OBVIOUS
<1>1. CASE UNCHANGED vars
  BY <1>1 DEF vars, IInv, TypeOK, OneParent, EdgesHaveUnits, Sound, Fits, Born, Clear, Staged
<1>2. ASSUME NEW p \in Creators, Create(p) PROVE IInv'
  BY <1>2, FindKeeps, CreateKeeps, RefuseKeeps, UnitsAssumption DEF Create, CreateRefuse, Procs
<1>3. ASSUME NEW p \in Movers, Move(p) PROVE IInv'
  BY <1>3, FindKeeps, MoveKeeps, RefuseKeeps, UnitsAssumption DEF Move, MoveRefuse, Procs
<1>4. ASSUME NEW p \in Deleters, Delete(p) PROVE IInv'
  BY <1>4, FindKeeps, ReassignKeeps, NodeKeeps, RefuseKeeps DEF Delete, DeleteRefuse, Procs
<1>5. ASSUME NEW p \in Procs, Commit(p) \/ Rollback(p) PROVE IInv'
  BY <1>5, CommitKeeps, RefuseKeeps DEF Rollback
<1> QED BY <1>1, <1>2, <1>3, <1>4, <1>5 DEF Next

LEMMA Invariance == Spec => []IInv
<1> QED BY InitIInv, StepKeeps, PTL DEF Spec

-----------------------------------------------------------------------------
(* Units, edges, and what every request has under way stay well typed.     *)
THEOREM UnitsTypeCorrect == Spec => []TypeOK
<1>1. IInv => TypeOK
  BY DEF IInv
<1> QED BY <1>1, Invariance, PTL

(* reparentUnit and deleteUnit: whatever moves and reassignments race, no  *)
(* unit is in two places.                                                  *)
THEOREM AlwaysOneParent == Spec => []OneParent
<1>1. IInv => OneParent
  BY DEF IInv
<1> QED BY <1>1, Invariance, PTL

(* createUnit, reparentUnit and deleteUnit: no edge is left at a unit that *)
(* is gone, also when the edge and the deletion race.                      *)
THEOREM EdgesAlwaysHaveUnits == Spec => []EdgesHaveUnits
<1>1. IInv => EdgesHaveUnits
  BY DEF IInv
<1> QED BY <1>1, Invariance, PTL

-----------------------------------------------------------------------------
(***************************************************************************)
(* The recursive queries of db/graph.ts, and what they keep reparentUnit   *)
(* and deleteUnit from: no loop and no orphan without another request that *)
(* committed between the check and the write.                              *)
(***************************************************************************)

(* The induction the walks need: a set of naturals has a least element, so *)
(* one that holds 0 and all successors holds them all.                     *)
LEMMA LeastNatural ==
  ASSUME NEW S \in SUBSET Nat, S # {} PROVE \E n \in S : \A m \in S : ~(m < n)
<1>1. IsWellFoundedOn(OpToRel(<, Nat), Nat)
  BY NatLessThanWellFounded
<1> DEFINE R == OpToRel(<, Nat)
<1>2. \A m, n \in Nat : <<m, n>> \in R <=> m < n
  BY DEF OpToRel
<1> HIDE DEF R
<1>3. \E n \in S : \A m \in S : ~(<<m, n>> \in R)
  BY <1>1, WFMin DEF R
<1> QED BY <1>2, <1>3

LEMMA SetInduction ==
  ASSUME NEW A, 0 \in A, \A n \in Nat : n \in A => n + 1 \in A PROVE Nat \subseteq A
<1> SUFFICES ASSUME Nat \ A # {} PROVE FALSE
  OBVIOUS
<1>1. PICK n \in Nat \ A : \A m \in Nat \ A : ~(m < n)
  BY LeastNatural
<1>2. n # 0 /\ n - 1 \in Nat /\ n - 1 < n
  BY <1>1
<1> QED BY <1>1, <1>2

\* One level of the walk down from S.
Deeper(T) == T \cup UNION {childrenOf(u) : u \in T}

\* The levels of the walk from S, down to n.
Levels(S, n, f) == f = [d \in 0..n |-> IF d = 0 THEN S ELSE Deeper(f[d - 1])]

(* There are such levels: the recursion in Down defines what it says.      *)
LEMMA LevelsExist == ASSUME NEW S PROVE \A n \in Nat : \E f : Levels(S, n, f)
<1> DEFINE A == {n \in Nat : \E f : Levels(S, n, f)}
<1>1. 0 \in A
  <2>1. Levels(S, 0, [d \in 0..0 |-> S])
    BY DEF Levels
  <2> QED BY <2>1
<1>2. ASSUME NEW n \in Nat, n \in A PROVE n + 1 \in A
  <2>1. PICK f : Levels(S, n, f)
    BY <1>2
  <2> DEFINE g == [d \in 0..(n + 1) |-> IF d = n + 1 THEN Deeper(f[n]) ELSE f[d]]
  <2>2. \A d \in 0..n : f[d] = IF d = 0 THEN S ELSE Deeper(f[d - 1])
    BY <2>1 DEF Levels
  <2>3. \A d \in 0..(n + 1) : g[d] = IF d = 0 THEN S ELSE Deeper(g[d - 1])
    <3> SUFFICES ASSUME NEW d \in 0..(n + 1) PROVE g[d] = IF d = 0 THEN S ELSE Deeper(g[d - 1])
      OBVIOUS
    <3>1. CASE d = n + 1
      <4>1. g[d] = Deeper(f[n])
        BY <3>1
      <4>2. g[d - 1] = f[n]
        BY <3>1
      <4> QED BY <3>1, <4>1, <4>2
    <3>2. CASE d # n + 1
      <4>1. g[d] = f[d] /\ d \in 0..n
        BY <3>2
      <4>2. d # 0 => g[d - 1] = f[d - 1]
        BY <3>2
      <4> QED BY <2>2, <4>1, <4>2
    <3> QED BY <3>1, <3>2
  <2>4. g = [d \in 0..(n + 1) |-> g[d]]
    OBVIOUS
  <2> HIDE DEF g
  <2>5. Levels(S, n + 1, g)
    BY <2>3, <2>4 DEF Levels
  <2> QED BY <2>5
<1> HIDE DEF A
<1>3. Nat \subseteq A
  BY <1>1, <1>2, SetInduction
<1> QED BY <1>3 DEF A

LEMMA DownIs ==
  ASSUME NEW S
  PROVE  \E f : /\ f[0] = S
                /\ \A d \in 1..MAX_DEPTH : f[d] = Deeper(f[d - 1])
                /\ Down(S) = f[MAX_DEPTH]
<1> DEFINE level == CHOOSE f : f = [d \in 0..MAX_DEPTH |->
             IF d = 0 THEN S
             ELSE f[d - 1] \cup UNION {childrenOf(u) : u \in f[d - 1]}]
<1>0. MAX_DEPTH \in Nat
  BY UnitsAssumption
<1>1. \E f : Levels(S, MAX_DEPTH, f)
  BY <1>0, LevelsExist
<1>2. \E f : f = [d \in 0..MAX_DEPTH |->
             IF d = 0 THEN S
             ELSE f[d - 1] \cup UNION {childrenOf(u) : u \in f[d - 1]}]
  BY <1>1 DEF Levels, Deeper
<1>3. level = [d \in 0..MAX_DEPTH |->
             IF d = 0 THEN S
             ELSE level[d - 1] \cup UNION {childrenOf(u) : u \in level[d - 1]}]
  BY <1>2
<1>4. Down(S) = level[MAX_DEPTH]
  BY Zenon DEF Down
<1> HIDE DEF level
<1>5. level[0] = S
  BY <1>0, <1>3
<1>6. ASSUME NEW d \in 1..MAX_DEPTH PROVE level[d] = Deeper(level[d - 1])
  BY <1>0, <1>3 DEF Deeper
<1> QED BY <1>4, <1>5, <1>6

(* A walk holds where it began.                                            *)
LEMMA DownHolds == ASSUME NEW S PROVE S \subseteq Down(S)
<1>1. PICK f : /\ f[0] = S
               /\ \A d \in 1..MAX_DEPTH : f[d] = Deeper(f[d - 1])
               /\ Down(S) = f[MAX_DEPTH]
  BY DownIs
<1> DEFINE A == {d \in Nat : d <= MAX_DEPTH => S \subseteq f[d]}
<1>2. 0 \in A
  BY <1>1
<1>3. ASSUME NEW d \in Nat, d \in A PROVE d + 1 \in A
  <2> SUFFICES ASSUME d + 1 <= MAX_DEPTH PROVE S \subseteq f[d + 1]
    OBVIOUS
  <2>1. d + 1 \in 1..MAX_DEPTH /\ (d + 1) - 1 = d /\ d <= MAX_DEPTH
    BY UnitsAssumption
  <2>2. f[d + 1] = Deeper(f[d])
    BY <1>1, <2>1
  <2> QED BY <1>3, <2>1, <2>2 DEF Deeper
<1>4. Nat \subseteq A
  <2> HIDE DEF A
  <2> QED BY <1>2, <1>3, SetInduction
<1> QED BY <1>1, <1>4, UnitsAssumption

\* The children of every unit of S are in S.
Closed(S) == \A e \in edges : e[1] \in S => e[2] \in S

LEMMA ClosedIs ==
  ASSUME edges \in SUBSET Pairs, NEW S
  PROVE  /\ Closed(S) <=> Deeper(S) = S
         /\ S \subseteq Deeper(S)
         /\ S \subseteq Nodes => Deeper(S) \subseteq Nodes
<1>1. \A u, v \in Nodes : v \in childrenOf(u) <=> <<u, v>> \in edges
  BY DEF childrenOf
<1>2. \A u : childrenOf(u) \subseteq Nodes
  BY DEF childrenOf
<1>3. ASSUME Closed(S), NEW u \in S, NEW v \in childrenOf(u) PROVE v \in S
  <2>1. <<u, v>> \in edges
    BY DEF childrenOf
  <2> QED BY <1>3, <2>1 DEF Closed
<1>4. ASSUME Deeper(S) = S, NEW e \in edges, e[1] \in S PROVE e[2] \in S
  <2>1. e[2] \in childrenOf(e[1])
    BY DEF childrenOf, Pairs
  <2>2. e[2] \in Deeper(S)
    BY <1>4, <2>1 DEF Deeper
  <2> QED BY <1>4, <2>2
<1>5. S \subseteq Deeper(S) /\ (S \subseteq Nodes => Deeper(S) \subseteq Nodes)
  BY <1>2 DEF Deeper
<1>6. Closed(S) => Deeper(S) \subseteq S
  BY <1>3 DEF Deeper
<1> QED BY <1>4, <1>5, <1>6 DEF Closed

\* Fewer units than levels.
FewUnits == IsFiniteSet(Nodes) /\ Cardinality(Nodes) <= MAX_DEPTH

(* A walk of as many levels as there are units reaches the bottom: each    *)
(* level that is not the last adds a unit.                                 *)
LEMMA DownClosed ==
  ASSUME FewUnits, edges \in SUBSET Pairs, NEW S \in SUBSET Nodes
  PROVE  Closed(Down(S))
<1>1. PICK f : /\ f[0] = S
               /\ \A d \in 1..MAX_DEPTH : f[d] = Deeper(f[d - 1])
               /\ Down(S) = f[MAX_DEPTH]
  BY DownIs
<1>0. /\ MAX_DEPTH \in Nat /\ IsFiniteSet(Nodes) /\ Cardinality(Nodes) \in Nat
      /\ \A T \in SUBSET Nodes : IsFiniteSet(T) /\ Cardinality(T) \in Nat
  BY UnitsAssumption, FS_Subset, FS_CardinalityType DEF FewUnits
<1> DEFINE A == {d \in Nat : d <= MAX_DEPTH => /\ f[d] \subseteq Nodes
                                               /\ Closed(f[d]) \/ Cardinality(f[d]) >= d}
<1>2. 0 \in A
  BY <1>0, <1>1
<1>3. ASSUME NEW d \in Nat, d \in A PROVE d + 1 \in A
  <2> SUFFICES ASSUME d + 1 <= MAX_DEPTH
               PROVE  /\ f[d + 1] \subseteq Nodes
                      /\ Closed(f[d + 1]) \/ Cardinality(f[d + 1]) >= d + 1
    OBVIOUS
  <2>1. d + 1 \in 1..MAX_DEPTH /\ (d + 1) - 1 = d /\ d <= MAX_DEPTH
    BY <1>0
  <2>2. f[d + 1] = Deeper(f[d])
    BY <1>1, <2>1
  <2>3. f[d] \subseteq Nodes /\ (Closed(f[d]) \/ Cardinality(f[d]) >= d)
    BY <1>3, <2>1
  <2>4. f[d] \subseteq f[d + 1] /\ f[d + 1] \subseteq Nodes
    BY <2>2, <2>3, ClosedIs
  <2>5. CASE Closed(f[d])
    BY <2>2, <2>4, <2>5, ClosedIs
  <2>6. CASE ~Closed(f[d])
    <3>1. f[d] # f[d + 1]
      BY <2>2, <2>6, ClosedIs
    <3>2. Cardinality(f[d]) < Cardinality(f[d + 1])
      <4>1. IsFiniteSet(f[d + 1])
        BY <1>0, <2>4
      <4>2. Cardinality(f[d]) \in Nat /\ Cardinality(f[d + 1]) \in Nat
        BY <1>0, <2>3, <2>4
      <4>3. Cardinality(f[d]) <= Cardinality(f[d + 1]) /\ Cardinality(f[d]) # Cardinality(f[d + 1])
        BY <2>4, <3>1, <4>1, FS_Subset
      <4> QED BY <4>2, <4>3
    <3>3. Cardinality(f[d]) \in Nat /\ Cardinality(f[d + 1]) \in Nat
      BY <1>0, <2>3, <2>4
    <3> QED BY <2>3, <2>4, <2>6, <3>2, <3>3
  <2> QED BY <2>4, <2>5, <2>6
<1>4. Nat \subseteq A
  <2> HIDE DEF A
  <2> QED BY <1>2, <1>3, SetInduction
<1>5. f[MAX_DEPTH] \subseteq Nodes /\ (Closed(f[MAX_DEPTH]) \/ Cardinality(f[MAX_DEPTH]) >= MAX_DEPTH)
  BY <1>0, <1>4
<1>6. CASE Cardinality(f[MAX_DEPTH]) >= MAX_DEPTH
  <2>1. f[MAX_DEPTH] = Nodes
    <3>1. f[MAX_DEPTH] # Nodes => Cardinality(f[MAX_DEPTH]) < Cardinality(Nodes)
      BY <1>0, <1>5, FS_Subset
    <3> QED BY <1>0, <1>5, <1>6, <3>1 DEF FewUnits
  <2> QED BY <1>1, <2>1 DEF Closed, Pairs
<1> QED BY <1>1, <1>5, <1>6


-----------------------------------------------------------------------------
\* What a transaction has written is a creation, a move or a deletion.
Makes(p) == pc[p] = "written" /\ work[p].new # {}
Moves(p) == pc[p] \in {"moving", "queued"} \/ (pc[p] = "written" /\ work[p].new = {} /\ work[p].drop = {})
Deletes(p) == pc[p] \in {"deleting", "reassigned"} \/ (pc[p] = "written" /\ work[p].drop # {})

\* Nothing but the new unit comes under another.
MakeShape(p) ==
  Makes(p) =>
    /\ work[p].del = {} /\ work[p].drop = {}
    /\ \A e \in work[p].add : e[1] \notin work[p].new /\ e[2] \in work[p].new

\* The edge above the unit is replaced, and if nobody came in between, all there is of it.
MoveShape(p) ==
  Moves(p) =>
    /\ p \in Movers
    /\ pc[p] = "written" =>
         /\ \A e \in work[p].del : e[2] = arg[p].unit
         /\ work[p].add = {<<to, arg[p].unit>> : to \in {arg[p].to} \ {None}}
         /\ ~arg[p].overtaken => \A e \in edges : e[2] = arg[p].unit => e \in work[p].del

\* Only edges at the unit go, and if nobody came in between, its children have another.
DeleteShape(p) ==
  Deletes(p) =>
    /\ p \in Deleters
    /\ arg[p].to # arg[p].unit
    /\ ~arg[p].overtaken /\ arg[p].to = None => \A e \in edges : e[1] # arg[p].unit
    /\ pc[p] \in {"reassigned", "written"} =>
         /\ \A e \in work[p].del : arg[p].unit \in {e[1], e[2]}
         /\ \A e \in work[p].add : e[1] = arg[p].to
         /\ ~arg[p].overtaken => \A e \in work[p].add : <<arg[p].unit, e[2]>> \in edges
         /\ ~arg[p].overtaken /\ arg[p].to # None =>
              \A e \in edges : e[1] = arg[p].unit /\ e[2] # arg[p].unit =>
                <<arg[p].to, e[2]>> \in work[p].add
    /\ pc[p] = "written" => work[p].drop = {arg[p].unit}

Shape(p) ==
  /\ work[p].new \cap units = {}
  /\ pc[p] = "idle" => arg[p] = NoArg
  /\ arg[p].stale => arg[p].overtaken
  /\ MakeShape(p) /\ MoveShape(p) /\ DeleteShape(p)

Shaped ==
  /\ \A p \in Procs : Shape(p)
  /\ \A p, q \in Procs : p # q => work[p].new \cap work[q].new = {}

\* A set of units that holds u and what is below it, and not t.
Apart(u, t) == \E S \in SUBSET Nodes : u \in S /\ t \notin S /\ Closed(S)

\* Where nobody has come in between, the new parent is not below the unit.
Check(p) ==
  (Moves(p) \/ Deletes(p)) /\ ~arg[p].overtaken /\ arg[p].to # None => Apart(arg[p].unit, arg[p].to)

Checked == \A p \in Procs : Check(p)

\* A step of p that nobody else sees.
Own(p) ==
  /\ UNCHANGED <<units, edges>>
  /\ \A q \in Procs \ {p} : pc'[q] = pc[q] /\ work'[q] = work[q] /\ arg'[q] = arg[q]

-----------------------------------------------------------------------------
(* The steps of one transaction.                                           *)

LEMMA OwnKeeps ==
  ASSUME NEW p \in Procs, Own(p), Shaped, Shape(p)',
         \A q \in Procs \ {p} : work[p].new' \cap work[q].new = {}
  PROVE  Shaped'
<1>1. ASSUME NEW q \in Procs PROVE Shape(q)'
  <2>1. CASE q = p
    BY <2>1
  <2>2. CASE q # p
    <3>1. Shape(q)
      BY DEF Shaped
    <3> QED BY <2>2, <3>1 DEF Own, Shape, MakeShape, MoveShape, DeleteShape, Makes, Moves, Deletes
  <2> QED BY <2>1, <2>2
<1>2. ASSUME NEW q \in Procs, NEW r \in Procs, q # r PROVE work[q].new' \cap work[r].new' = {}
  BY <1>2 DEF Own, Shaped
<1> QED BY <1>1, <1>2 DEF Shaped

LEMMA OwnChecked ==
  ASSUME NEW p \in Procs, Own(p), Checked, Check(p)'
  PROVE  Checked'
<1> SUFFICES ASSUME NEW q \in Procs PROVE Check(q)'
  BY DEF Checked
<1>1. CASE q = p
  BY <1>1
<1>2. CASE q # p
  <2>1. Check(q)
    BY DEF Checked
  <2> QED BY <1>2, <2>1 DEF Own, Check, Moves, Deletes, Apart, Closed
<1> QED BY <1>1, <1>2

LEMMA RefuseShape ==
  ASSUME IInv, NEW p \in Procs, Refuse(p)
  PROVE  Own(p) /\ Shape(p)' /\ Check(p)' /\ work[p].new' = {}
<1>1. pc'[p] = "idle" /\ work'[p] = Nothing /\ arg'[p] = NoArg /\ Own(p)
  BY TypeIs DEF IInv, Refuse, Own
<1> QED BY <1>1 DEF Shape, MakeShape, MoveShape, DeleteShape, Check, Makes, Moves, Deletes, Nothing, NoArg

\* What a request finds before its transaction.
LEMMA FindShape ==
  ASSUME IInv, Shaped, NEW p \in Procs, NEW u \in Nodes, NEW to \in Nodes \cup {None},
         \/ CreateFind(p, to)
         \/ p \in Movers /\ (MoveFind(p, u, to) \/ MoveBegin(p))
         \/ p \in Deleters /\ DeleteFind(p, u, to)
  PROVE  Own(p) /\ Shape(p)' /\ work[p].new' = {}
<1>0. work \in [Procs -> Works] /\ arg \in [Procs -> Arguments] /\ pc \in [Procs -> Steps]
  BY TypeIs DEF IInv
<1>1. /\ work[p] = Nothing /\ work' = work /\ UNCHANGED <<units, edges>>
      /\ pc'[p] # "idle" /\ pc'[p] # "written"
      /\ pc[p] \in {"idle", "moving"}
  BY <1>0 DEF IInv, Staged, CreateFind, MoveFind, MoveBegin, DeleteFind
<1>2. Own(p)
  BY <1>0 DEF Own, CreateFind, MoveFind, MoveBegin, DeleteFind
<1>3. work'[p].new = {} /\ work'[p].del = {} /\ work'[p].add = {}
  BY <1>1 DEF Nothing
<1>4. arg[p].stale => arg[p].overtaken
  BY DEF Shaped, Shape
<1>5. arg'[p].stale = arg[p].stale /\ arg'[p].overtaken = arg[p].overtaken
  BY <1>0 DEF CreateFind, MoveFind, MoveBegin, DeleteFind, Arguments
<1>6. MakeShape(p)'
  BY <1>1 DEF MakeShape, Makes
<1>7. MoveShape(p)'
  BY <1>0, <1>1 DEF MoveShape, Moves, CreateFind, MoveFind, MoveBegin, DeleteFind
<1>8. DeleteShape(p)'
  <2>1. CASE DeleteFind(p, u, to) /\ p \in Deleters
    <3>1. arg'[p].unit = u /\ arg'[p].to = to /\ u \in units
      BY <1>0, <2>1 DEF DeleteFind, Arguments
    <3>2. to # u
      <4>1. to # None => u \in Down({u} \cap units) /\ to \notin Down({u} \cap units)
        BY <2>1, <3>1, DownHolds DEF DeleteFind, unitSubtree
      <4> QED BY <4>1, UnitsAssumption
    <3>3. to = None => \A e \in edges : e[1] # u
      <4> SUFFICES ASSUME to = None, NEW e \in edges, e[1] = u PROVE FALSE
        OBVIOUS
      <4>1. e \in Pairs
        BY OthersAre
      <4>2. e[2] \in childrenOf(u)
        BY <4>1 DEF childrenOf, Pairs
      <4> QED BY <2>1, <4>2 DEF DeleteFind
    <3>4. pc'[p] = "reassigned" => to = None
      BY <1>0, <2>1 DEF DeleteFind
    <3> QED BY <1>1, <1>3, <2>1, <3>1, <3>2, <3>3, <3>4 DEF DeleteShape, Deletes
  <2>2. CASE CreateFind(p, to) \/ MoveFind(p, u, to) \/ MoveBegin(p)
    BY <1>0, <2>2 DEF DeleteShape, Deletes, CreateFind, MoveFind, MoveBegin
  <2> QED BY <2>1, <2>2
<1> QED BY <1>1, <1>2, <1>3, <1>4, <1>5, <1>6, <1>7, <1>8 DEF Shape

LEMMA CreateShape ==
  ASSUME IInv, Shaped, NEW p \in Procs, NEW u \in Nodes, CreateWrite(p, u)
  PROVE  /\ Own(p) /\ Shape(p)' /\ Check(p)'
         /\ \A q \in Procs \ {p} : work[p].new' \cap work[q].new = {}
<1> DEFINE to == arg[p].to
           add == {<<t, u>> : t \in {to} \ {None}}
<1>0. work \in [Procs -> Works] /\ arg \in [Procs -> Arguments] /\ pc \in [Procs -> Steps]
  BY TypeIs DEF IInv
<1>1. /\ pc[p] = "creating" /\ Known(to) /\ u \notin born
      /\ work' = [work EXCEPT ![p].new = {u}, ![p].add = add]
      /\ pc' = [pc EXCEPT ![p] = "written"] /\ UNCHANGED <<units, edges, arg>>
  BY DEF CreateWrite
<1>2. work[p] = Nothing
  BY <1>1 DEF IInv, Staged
<1>3. \A e \in add : e[1] = to /\ e[2] = u /\ to \in units
  BY <1>1 DEF Known
<1> HIDE DEF add
<1>4. /\ work'[p].new = {u} /\ work'[p].add = add /\ work'[p].del = {} /\ work'[p].drop = {}
      /\ pc'[p] = "written"
  BY <1>0, <1>1, <1>2 DEF Works, Nothing
<1>5. Own(p)
  BY <1>0, <1>1 DEF Own
<1>6. units \subseteq born
  BY DEF IInv
<1>7. MakeShape(p)'
  BY <1>1, <1>3, <1>4, <1>6 DEF MakeShape
<1>8. ~Moves(p)' /\ ~Deletes(p)'
  BY <1>4 DEF Moves, Deletes
<1>9. arg[p].stale => arg[p].overtaken
  BY DEF Shaped, Shape
<1>10. Shape(p)'
  BY <1>1, <1>4, <1>6, <1>7, <1>8, <1>9 DEF Shape, MoveShape, DeleteShape
<1>11. ASSUME NEW q \in Procs \ {p} PROVE u \notin work[q].new
  BY <1>1, OthersAre DEF Born
<1> QED BY <1>4, <1>5, <1>8, <1>10, <1>11 DEF Check

LEMMA MoveWriteShape ==
  ASSUME IInv, Shaped, NEW p \in Procs, MoveWrite(p)
  PROVE  /\ Own(p) /\ Shape(p)' /\ work[p].new' = {}
         /\ Moves(p) /\ arg'[p] = arg[p] /\ ~Deletes(p)'
<1> DEFINE add == {<<to, arg[p].unit>> : to \in {arg[p].to} \ {None}}
           del == Mine(p)
<1>0. work \in [Procs -> Works] /\ arg \in [Procs -> Arguments] /\ pc \in [Procs -> Steps]
  BY TypeIs DEF IInv
<1>1. /\ pc[p] = "queued" /\ work' = [work EXCEPT ![p].del = del, ![p].add = add]
      /\ pc' = [pc EXCEPT ![p] = "written"] /\ UNCHANGED <<units, edges, arg>>
  BY DEF MoveWrite, MoveReady
<1>2. work[p] = Nothing
  BY <1>1 DEF IInv, Staged
<1>3. arg[p].stale => arg[p].overtaken
  BY DEF Shaped, Shape
<1>4. /\ \A e \in del : e[2] = arg[p].unit
      /\ ~arg[p].overtaken => \A e \in edges : e[2] = arg[p].unit => e \in del
  BY <1>3 DEF Mine
<1> HIDE DEF add, del
<1>5. /\ work'[p].new = {} /\ work'[p].add = add /\ work'[p].del = del /\ work'[p].drop = {}
      /\ pc'[p] = "written" /\ arg'[p] = arg[p]
  BY <1>0, <1>1, <1>2 DEF Works, Nothing
<1>6. Own(p)
  BY <1>0, <1>1 DEF Own
<1>7. p \in Movers /\ Moves(p)
  BY <1>1 DEF Shaped, Shape, MoveShape, Moves
<1>8. MoveShape(p)'
  BY <1>1, <1>4, <1>5, <1>7 DEF MoveShape, add
<1>9. ~Makes(p)' /\ ~Deletes(p)'
  BY <1>5 DEF Makes, Deletes
<1> QED BY <1>1, <1>3, <1>5, <1>6, <1>7, <1>8, <1>9 DEF Shape, MakeShape, DeleteShape

LEMMA ReassignShape ==
  ASSUME IInv, Shaped, NEW p \in Procs, DeleteReassign(p)
  PROVE  /\ Own(p) /\ Shape(p)' /\ work[p].new' = {}
         /\ Deletes(p) /\ arg'[p] = arg[p] /\ ~Moves(p)'
<1> DEFINE to == arg[p].to
           unit == arg[p].unit
           moved == childrenOf(unit)
           del == {<<unit, c>> : c \in moved}
           add == {<<to, c>> : c \in moved}
<1>0. work \in [Procs -> Works] /\ arg \in [Procs -> Arguments] /\ pc \in [Procs -> Steps]
  BY TypeIs DEF IInv
<1>1. /\ pc[p] = "deleting" /\ work' = [work EXCEPT ![p].del = del, ![p].add = add]
      /\ pc' = [pc EXCEPT ![p] = "reassigned"] /\ UNCHANGED <<units, edges, arg>>
  BY DEF DeleteReassign
<1>2. work[p] = Nothing
  BY <1>1 DEF IInv, Staged
<1>3. Deletes(p) /\ DeleteShape(p) /\ (arg[p].stale => arg[p].overtaken)
  BY <1>1 DEF Shaped, Shape, Deletes
<1>4. /\ \A e \in del : unit \in {e[1], e[2]}
      /\ \A e \in add : e[1] = to /\ <<unit, e[2]>> \in edges
      /\ \A e \in edges : e[1] = unit => <<to, e[2]>> \in add
  <2>1. \A c \in moved : <<unit, c>> \in edges
    BY DEF childrenOf
  <2>2. ASSUME NEW e \in edges, e[1] = unit PROVE e[2] \in moved
    BY <2>2, OthersAre DEF childrenOf, Pairs
  <2> HIDE DEF moved
  <2> QED BY <2>1, <2>2
<1> HIDE DEF add, del
<1>5. /\ work'[p].new = {} /\ work'[p].add = add /\ work'[p].del = del /\ work'[p].drop = {}
      /\ pc'[p] = "reassigned" /\ arg'[p] = arg[p]
  BY <1>0, <1>1, <1>2 DEF Works, Nothing
<1>6. Own(p)
  BY <1>0, <1>1 DEF Own
<1>7. DeleteShape(p)'
  <2>1. /\ p \in Deleters /\ to # unit
        /\ ~arg[p].overtaken /\ to = None => \A e \in edges : e[1] # unit
    BY <1>3 DEF DeleteShape
  <2> QED BY <1>1, <1>4, <1>5, <2>1 DEF DeleteShape
<1>8. ~Makes(p)' /\ ~Moves(p)'
  BY <1>5 DEF Makes, Moves
<1> QED BY <1>1, <1>3, <1>5, <1>6, <1>7, <1>8 DEF Shape, MakeShape, MoveShape

LEMMA NodeShape ==
  ASSUME IInv, Shaped, NEW p \in Procs, DeleteNode(p)
  PROVE  /\ Own(p) /\ Shape(p)' /\ work[p].new' = {}
         /\ Deletes(p) /\ arg'[p] = arg[p] /\ ~Moves(p)'
<1> DEFINE to == arg[p].to
           unit == arg[p].unit
           del == work[p].del \cup {e \in edges : unit \in {e[1], e[2]}}
           add == {e \in work[p].add : unit \notin {e[1], e[2]}}
<1>0. work \in [Procs -> Works] /\ arg \in [Procs -> Arguments] /\ pc \in [Procs -> Steps]
  BY TypeIs DEF IInv
<1>1. /\ pc[p] = "reassigned"
      /\ work' = [work EXCEPT ![p].drop = {unit}, ![p].del = del, ![p].add = add]
      /\ pc' = [pc EXCEPT ![p] = "written"] /\ UNCHANGED <<units, edges, arg>>
  BY <1>0 DEF DeleteNode, Works
<1>2. work[p].new = {}
  BY <1>1 DEF IInv, Staged
<1>3. Deletes(p) /\ DeleteShape(p) /\ (arg[p].stale => arg[p].overtaken)
  BY <1>1 DEF Shaped, Shape, Deletes
<1>4. /\ p \in Deleters /\ to # unit
      /\ ~arg[p].overtaken /\ to = None => \A e \in edges : e[1] # unit
      /\ \A e \in work[p].del : unit \in {e[1], e[2]}
      /\ \A e \in work[p].add : e[1] = to
      /\ ~arg[p].overtaken => \A e \in work[p].add : <<unit, e[2]>> \in edges
      /\ ~arg[p].overtaken /\ to # None =>
           \A e \in edges : e[1] = unit /\ e[2] # unit => <<to, e[2]>> \in work[p].add
  BY <1>1, <1>3 DEF DeleteShape
<1>5. /\ \A e \in del : unit \in {e[1], e[2]}
      /\ \A e \in add : e[1] = to
      /\ ~arg[p].overtaken => \A e \in add : <<unit, e[2]>> \in edges
  BY <1>4
<1>6. ASSUME ~arg[p].overtaken, to # None, NEW e \in edges, e[1] = unit, e[2] # unit
      PROVE  <<to, e[2]>> \in add
  <2>1. <<to, e[2]>> \in work[p].add
    BY <1>4, <1>6
  <2> QED BY <1>4, <1>6, <2>1
<1> HIDE DEF add, del
<1>7. /\ work'[p].new = {} /\ work'[p].add = add /\ work'[p].del = del /\ work'[p].drop = {unit}
      /\ pc'[p] = "written" /\ arg'[p] = arg[p]
  BY <1>0, <1>1, <1>2 DEF Works
<1>8. Own(p)
  BY <1>0, <1>1 DEF Own
<1>9. DeleteShape(p)'
  BY <1>1, <1>4, <1>5, <1>6, <1>7 DEF DeleteShape
<1>10. ~Makes(p)' /\ ~Moves(p)'
  BY <1>7 DEF Makes, Moves
<1> QED BY <1>1, <1>3, <1>7, <1>8, <1>9, <1>10 DEF Shape, MakeShape, MoveShape

\* A commit overtakes everybody who is under way.
LEMMA CommitShape ==
  ASSUME IInv, Shaped, NEW p \in Procs, Commit(p)
  PROVE  Shaped' /\ Checked'
<1>0. work \in [Procs -> Works] /\ arg \in [Procs -> Arguments] /\ pc \in [Procs -> Steps]
  BY TypeIs DEF IInv
<1>1. /\ pc[p] = "written" /\ units' \subseteq units \cup work[p].new
      /\ work' = [work EXCEPT ![p] = Nothing] /\ pc' = [pc EXCEPT ![p] = "idle"]
  BY DEF Commit
<1>2. pc'[p] = "idle" /\ work'[p] = Nothing /\ arg'[p] = NoArg
  BY <1>0, <1>1 DEF Commit
<1>3. ASSUME NEW q \in Procs, q # p
      PROVE  /\ pc'[q] = pc[q] /\ work'[q] = work[q]
             /\ arg'[q].unit = arg[q].unit /\ arg'[q].to = arg[q].to
             /\ arg'[q].overtaken = (pc[q] # "idle")
             /\ pc[q] = "idle" => arg'[q] = NoArg
             /\ arg'[q].stale => pc[q] # "idle"
  <2>1. arg'[q] = [arg[q] EXCEPT !.stale = @ \/ (pc[q] = "queued" /\ arg[q].unit = arg[p].unit),
                                 !.overtaken = pc[q] # "idle"]
    BY <1>3 DEF Commit
  <2>2. pc'[q] = pc[q] /\ work'[q] = work[q]
    BY <1>0, <1>1, <1>3
  <2>3. pc[q] = "idle" => arg[q] = NoArg
    BY DEF Shaped, Shape
  <2>4. arg[q] \in Arguments
    BY <1>0
  <2>5. pc[q] = "idle" => arg'[q] = NoArg
    <3> SUFFICES ASSUME pc[q] = "idle" PROVE arg'[q] = NoArg
      OBVIOUS
    <3>1. arg[q] = NoArg /\ ~arg[q].stale
      BY <2>3 DEF NoArg
    <3>2. (arg[q].stale \/ (pc[q] = "queued" /\ arg[q].unit = arg[p].unit)) = FALSE
      BY <3>1
    <3>3. (pc[q] # "idle") = FALSE
      OBVIOUS
    <3>4. arg'[q] = [NoArg EXCEPT !.stale = FALSE, !.overtaken = FALSE]
      BY <2>1, <3>1, <3>2, <3>3
    <3> QED BY <3>4 DEF NoArg
  <2>6. arg'[q].stale => arg[q].stale \/ pc[q] = "queued"
    <3> DEFINE s == arg[q].stale \/ (pc[q] = "queued" /\ arg[q].unit = arg[p].unit)
    <3>1. arg'[q].stale = s
      BY <2>1, <2>4 DEF Arguments
    <3> QED BY <3>1
  <2>7. arg'[q].stale => pc[q] # "idle"
    BY <2>3, <2>6 DEF NoArg
  <2>8. arg'[q].overtaken = (pc[q] # "idle") /\ arg'[q].unit = arg[q].unit /\ arg'[q].to = arg[q].to
    BY <2>1, <2>4 DEF Arguments
  <2> QED BY <2>2, <2>5, <2>7, <2>8
<1>4. ASSUME NEW q \in Procs PROVE Shape(q)' /\ Check(q)'
  <2>1. CASE q = p
    BY <1>2, <2>1 DEF Shape, MakeShape, MoveShape, DeleteShape, Check, Makes, Moves, Deletes, Nothing, NoArg
  <2>2. CASE q # p
    <3>1. Shape(q) /\ work[q].new \cap work[p].new = {}
      BY <2>2 DEF Shaped
    <3>2. work'[q].new \cap units' = {}
      BY <1>1, <1>3, <2>2, <3>1 DEF Shape
    <3>3. Moves(q)' = Moves(q) /\ Makes(q)' = Makes(q) /\ Deletes(q)' = Deletes(q)
      BY <1>3, <2>2 DEF Moves, Makes, Deletes
    <3>4. Moves(q) \/ Deletes(q) => arg'[q].overtaken
      BY <1>3, <2>2 DEF Moves, Deletes
    <3>5. MakeShape(q)'
      BY <1>3, <2>2, <3>1, <3>3 DEF Shape, MakeShape
    <3>6. MoveShape(q)'
      BY <1>3, <2>2, <3>1, <3>3, <3>4 DEF Shape, MoveShape
    <3>7. DeleteShape(q)'
      BY <1>3, <2>2, <3>1, <3>3, <3>4 DEF Shape, DeleteShape
    <3>8. pc'[q] = "idle" => arg'[q] = NoArg
      BY <1>3, <2>2
    <3>9. arg'[q].stale => arg'[q].overtaken
      BY <1>3, <2>2
    <3> QED BY <3>2, <3>3, <3>4, <3>5, <3>6, <3>7, <3>8, <3>9 DEF Shape, Check
  <2> QED BY <2>1, <2>2
<1>5. ASSUME NEW q \in Procs, NEW r \in Procs, q # r PROVE work[q].new' \cap work[r].new' = {}
  <2>1. CASE q = p \/ r = p
    BY <1>2, <2>1 DEF Nothing
  <2>2. CASE q # p /\ r # p
    BY <1>3, <1>5, <2>2 DEF Shaped
  <2> QED BY <2>1, <2>2
<1> QED BY <1>4, <1>5 DEF Shaped, Checked

LEMMA InitShape == Init => Shaped /\ Checked
<1> SUFFICES ASSUME Init PROVE Shaped /\ Checked
  OBVIOUS
<1>1. \A p \in Procs : work[p] = Nothing /\ arg[p] = NoArg /\ pc[p] = "idle"
  BY DEF Init
<1>2. Nothing.new = {} /\ ~NoArg.stale
  BY DEF Nothing, NoArg
<1>3. ASSUME NEW p \in Procs PROVE Shape(p) /\ Check(p)
  BY <1>1, <1>2 DEF Shape, MakeShape, MoveShape, DeleteShape, Check, Makes, Moves, Deletes
<1>4. \A p, q \in Procs : work[p].new \cap work[q].new = {}
  BY <1>1, <1>2
<1> QED BY <1>3, <1>4 DEF Shaped, Checked

LEMMA ShapeKeeps == IInv /\ Shaped /\ [Next]_vars => Shaped'
<1> SUFFICES ASSUME IInv, Shaped, [Next]_vars PROVE Shaped'
  OBVIOUS
<1>0. \A p, q \in Procs : p # q => work[p].new \cap work[q].new = {}
  BY DEF Shaped
<1>1. CASE UNCHANGED vars
  BY <1>1 DEF vars, Shaped, Shape, MakeShape, MoveShape, DeleteShape, Makes, Moves, Deletes
<1>2. ASSUME NEW p \in Procs, Own(p), Shape(p)',
             \A q \in Procs \ {p} : work[p].new' \cap work[q].new = {}
      PROVE  Shaped'
  BY <1>2, OwnKeeps
<1>3. ASSUME NEW p \in Procs, Refuse(p) PROVE Shaped'
  BY <1>2, <1>3, RefuseShape
<1>4. ASSUME NEW p \in Creators, Create(p) PROVE Shaped'
  <2>1. p \in Procs
    BY DEF Procs
  <2>2. CASE CreateRefuse(p)
    BY <1>3, <2>1, <2>2 DEF CreateRefuse
  <2>3. ASSUME NEW to \in Nodes \cup {None}, CreateFind(p, to) PROVE Shaped'
    <3>1. Root \in Nodes
      BY UnitsAssumption
    <3> QED BY <1>2, <2>1, <2>3, <3>1, FindShape
  <2>4. ASSUME NEW u \in Nodes, CreateWrite(p, u) PROVE Shaped'
    BY <1>2, <2>1, <2>4, CreateShape
  <2> QED BY <1>4, <2>2, <2>3, <2>4 DEF Create
<1>5. ASSUME NEW p \in Movers, Move(p) PROVE Shaped'
  <2>1. p \in Procs
    BY DEF Procs
  <2>2. CASE MoveRefuse(p)
    BY <1>3, <2>1, <2>2 DEF MoveRefuse
  <2>3. CASE MoveBegin(p)
    <3>1. Root \in Nodes
      BY UnitsAssumption
    <3> QED BY <1>2, <2>1, <2>3, <3>1, FindShape
  <2>4. ASSUME NEW u \in Nodes, NEW to \in Nodes \cup {None}, MoveFind(p, u, to) PROVE Shaped'
    BY <1>2, <2>1, <2>4, FindShape
  <2>5. CASE MoveWrite(p)
    BY <1>2, <2>1, <2>5, MoveWriteShape
  <2> QED BY <1>5, <2>2, <2>3, <2>4, <2>5 DEF Move
<1>6. ASSUME NEW p \in Deleters, Delete(p) PROVE Shaped'
  <2>1. p \in Procs
    BY DEF Procs
  <2>2. CASE DeleteRefuse(p)
    BY <1>3, <2>1, <2>2 DEF DeleteRefuse
  <2>3. ASSUME NEW u \in Nodes, NEW to \in Nodes \cup {None}, DeleteFind(p, u, to) PROVE Shaped'
    BY <1>2, <2>1, <2>3, FindShape
  <2>4. CASE DeleteReassign(p)
    BY <1>2, <2>1, <2>4, ReassignShape
  <2>5. CASE DeleteNode(p)
    BY <1>2, <2>1, <2>5, NodeShape
  <2> QED BY <1>6, <2>2, <2>3, <2>4, <2>5 DEF Delete
<1>7. ASSUME NEW p \in Procs, Commit(p) \/ Rollback(p) PROVE Shaped'
  BY <1>3, <1>7, CommitShape DEF Rollback
<1> QED BY <1>1, <1>4, <1>5, <1>6, <1>7 DEF Next

LEMMA ShapeInvariance == Spec => [](IInv /\ Shaped)
<1> QED BY InitIInv, InitShape, StepKeeps, ShapeKeeps, PTL DEF Spec

\* Only a commit changes what is committed.
LEMMA WhoCommits ==
  ASSUME TypeOK, [Next]_vars
  PROVE  UNCHANGED <<units, edges>> \/ \E p \in Procs : Commit(p)
<1>1. CASE UNCHANGED vars
  BY <1>1 DEF vars
<1>2. ASSUME NEW p \in Creators, Create(p) PROVE UNCHANGED <<units, edges>>
  BY <1>2 DEF Create, CreateRefuse, Refuse, CreateFind, CreateWrite
<1>3. ASSUME NEW p \in Movers, Move(p) PROVE UNCHANGED <<units, edges>>
  BY <1>3 DEF Move, MoveBegin, MoveWrite, MoveRefuse, MoveFind, Refuse
<1>4. ASSUME NEW p \in Deleters, Delete(p) PROVE UNCHANGED <<units, edges>>
  BY <1>4 DEF Delete, DeleteReassign, DeleteNode, DeleteRefuse, DeleteFind, Refuse
<1>5. ASSUME NEW p \in Procs, Rollback(p) PROVE UNCHANGED <<units, edges>>
  BY <1>5 DEF Rollback, Refuse
<1> QED BY <1>1, <1>2, <1>3, <1>4, <1>5 DEF Next

\* A commit is a creation, a move or a deletion.
LEMMA CommitIs ==
  ASSUME IInv, Shaped, NEW p \in Procs, Commit(p)
  PROVE  /\ units' = (units \cup work[p].new) \ work[p].drop
         /\ edges' = (edges \ work[p].del) \cup work[p].add
         /\ Commits(p) /\ Shape(p) /\ pc[p] = "written"
         /\ Makes(p) \/ Moves(p) \/ Deletes(p)
<1>0. pc \in [Procs -> Steps]
  BY TypeIs DEF IInv
<1>1. pc[p] = "written" /\ pc'[p] = "idle"
  BY <1>0 DEF Commit
<1> QED BY <1>1 DEF Commit, Commits, Shaped, Makes, Moves, Deletes

-----------------------------------------------------------------------------
(* deleteUnit and reparentUnit orphan nobody by themselves: a unit that    *)
(* had a parent keeps one, unless it was moved to the top itself, or the   *)
(* parent's deletion was overtaken by another commit since its check.      *)
THEOREM NeverOrphansAlone == Spec => NoOrphans
<1>1. ASSUME IInv, Shaped, [Next]_vars
      PROVE  [\A e \in edges :
                \/ e[2] \notin units'
                \/ \E d \in edges' : d[2] = e[2]
                \/ \E p \in Movers : Commits(p) /\ arg[p].unit = e[2] /\ arg[p].to = None
                \/ \E p \in Deleters : Commits(p) /\ arg[p].overtaken /\ arg[p].unit = e[1]]_vars
  <2> SUFFICES ASSUME NEW e \in edges, e[2] \in units', e \notin edges'
               PROVE  \/ \E d \in edges' : d[2] = e[2]
                      \/ \E p \in Movers : Commits(p) /\ arg[p].unit = e[2] /\ arg[p].to = None
                      \/ \E p \in Deleters : Commits(p) /\ arg[p].overtaken /\ arg[p].unit = e[1]
    OBVIOUS
  <2>1. PICK p \in Procs : Commit(p)
    <3>1. TypeOK
      BY <1>1 DEF IInv
    <3> QED BY <1>1, <3>1, WhoCommits
  <2>2. /\ units' = (units \cup work[p].new) \ work[p].drop
        /\ edges' = (edges \ work[p].del) \cup work[p].add
        /\ Commits(p) /\ Shape(p) /\ pc[p] = "written"
        /\ Makes(p) \/ Moves(p) \/ Deletes(p)
    BY <1>1, <2>1, CommitIs
  <2>3. e \in work[p].del
    BY <2>2
  <2>4. CASE Makes(p)
    BY <2>2, <2>3, <2>4 DEF Shape, MakeShape
  <2>5. CASE Moves(p)
    <3>1. /\ p \in Movers /\ e[2] = arg[p].unit
          /\ work[p].add = {<<to, arg[p].unit>> : to \in {arg[p].to} \ {None}}
      BY <2>2, <2>3, <2>5 DEF Shape, MoveShape
    <3>2. CASE arg[p].to = None
      BY <2>2, <3>1, <3>2
    <3>3. CASE arg[p].to # None
      <4>1. <<arg[p].to, arg[p].unit>> \in edges'
        BY <2>2, <3>1, <3>3
      <4> QED BY <3>1, <4>1
    <3> QED BY <3>2, <3>3
  <2>6. CASE Deletes(p)
    <3>1. /\ p \in Deleters /\ arg[p].unit \in {e[1], e[2]} /\ work[p].drop = {arg[p].unit}
          /\ ~arg[p].overtaken /\ arg[p].to = None => e[1] # arg[p].unit
          /\ ~arg[p].overtaken /\ arg[p].to # None =>
               (e[1] = arg[p].unit /\ e[2] # arg[p].unit => <<arg[p].to, e[2]>> \in work[p].add)
      BY <2>2, <2>3, <2>6 DEF Shape, DeleteShape
    <3>2. e[2] # arg[p].unit /\ e[1] = arg[p].unit
      BY <2>2, <3>1
    <3>3. CASE arg[p].overtaken
      BY <2>2, <3>1, <3>2, <3>3
    <3>4. CASE ~arg[p].overtaken
      <4>1. <<arg[p].to, e[2]>> \in edges'
        BY <2>2, <3>1, <3>2, <3>4
      <4> QED BY <4>1
    <3> QED BY <3>3, <3>4
  <2> QED BY <2>2, <2>4, <2>5, <2>6
<1> QED BY <1>1, ShapeInvariance, PTL DEF Spec, NoOrphans

-----------------------------------------------------------------------------
(* Loops.                                                                  *)

\* The walks down reach the bottom.
WalksReach == \A u \in Nodes : Closed(Down({u}))

LEMMA FewUnitsReach == ASSUME FewUnits, TypeOK PROVE WalksReach
  BY DownClosed DEF WalksReach, TypeOK

\* Nothing is put below itself by a request that nobody overtook.
LEMMA FindChecked ==
  ASSUME IInv, Shaped, WalksReach, NEW p \in Procs, NEW u \in Nodes, NEW to \in Nodes \cup {None},
         MoveFind(p, u, to) \/ DeleteFind(p, u, to)
  PROVE  Check(p)'
<1>0. arg \in [Procs -> Arguments] /\ edges \in SUBSET Pairs
  BY TypeIs DEF IInv
<1>1. arg'[p].unit = u /\ arg'[p].to = to /\ u \in units /\ edges' = edges
  BY <1>0 DEF MoveFind, DeleteFind, Arguments
<1> SUFFICES ASSUME to # None PROVE Apart(u, to)'
  BY <1>1 DEF Check
<1> DEFINE S == Down({u})
<1>2. u \in S /\ Closed(S) /\ to \notin S
  <2>1. u \in S /\ Closed(S)
    BY DownHolds DEF WalksReach
  <2>2. CASE MoveFind(p, u, to)
    BY <2>1, <2>2 DEF MoveFind, wouldCreateCycle
  <2>3. CASE DeleteFind(p, u, to)
    <3>1. {u} \cap units = {u}
      BY <1>1
    <3> QED BY <2>1, <2>3, <3>1 DEF DeleteFind, unitSubtree
  <2> QED BY <2>1, <2>2, <2>3
<1> HIDE DEF S
<1>3. S \cap Nodes \in SUBSET Nodes /\ u \in S \cap Nodes /\ to \notin S \cap Nodes
  BY <1>2
<1>4. \A e \in edges : e[1] \in S \cap Nodes => e[2] \in S \cap Nodes
  <2>1. \A e \in edges : e[2] \in Nodes
    BY <1>0 DEF Pairs
  <2> QED BY <1>2, <2>1 DEF Closed
<1> QED BY <1>1, <1>3, <1>4 DEF Apart, Closed

LEMMA CheckedKeeps == IInv /\ Shaped /\ Checked /\ WalksReach /\ [Next]_vars => Checked'
<1> SUFFICES ASSUME IInv, Shaped, Checked, WalksReach, [Next]_vars PROVE Checked'
  OBVIOUS
<1>0. pc \in [Procs -> Steps] /\ Root \in Nodes
  BY TypeIs, UnitsAssumption DEF IInv
<1>1. CASE UNCHANGED vars
  BY <1>1 DEF vars, Checked, Check, Apart, Closed, Moves, Deletes
<1>2. ASSUME NEW p \in Procs, Own(p), Check(p)' PROVE Checked'
  BY <1>2, OwnChecked
<1>3. ASSUME NEW p \in Procs, Refuse(p) PROVE Checked'
  BY <1>2, <1>3, RefuseShape
<1>4. ASSUME NEW p \in Procs, Own(p), arg'[p] = arg[p], Moves(p) \/ Deletes(p) PROVE Checked'
  <2>1. Check(p)'
    BY <1>4 DEF Checked, Check, Apart, Closed, Own
  <2> QED BY <1>4, <2>1, OwnChecked
<1>5. ASSUME NEW p \in Creators, Create(p) PROVE Checked'
  <2>1. p \in Procs
    BY DEF Procs
  <2>2. CASE CreateRefuse(p)
    BY <1>3, <2>1, <2>2 DEF CreateRefuse
  <2>3. ASSUME NEW to \in Nodes \cup {None}, CreateFind(p, to) PROVE Checked'
    <3>1. pc'[p] = "creating"
      BY <1>0, <2>1, <2>3 DEF CreateFind
    <3>2. Check(p)'
      BY <3>1 DEF Check, Moves, Deletes
    <3>3. Own(p)
      BY <1>0, <2>1, <2>3, FindShape
    <3> QED BY <1>2, <2>1, <3>2, <3>3
  <2>4. ASSUME NEW u \in Nodes, CreateWrite(p, u) PROVE Checked'
    BY <1>2, <2>1, <2>4, CreateShape
  <2> QED BY <1>5, <2>2, <2>3, <2>4 DEF Create
<1>6. ASSUME NEW p \in Movers, Move(p) PROVE Checked'
  <2>1. p \in Procs
    BY DEF Procs
  <2>2. CASE MoveRefuse(p)
    BY <1>3, <2>1, <2>2 DEF MoveRefuse
  <2>3. CASE MoveBegin(p)
    <3>1. Own(p)
      BY <1>0, <2>1, <2>3, FindShape
    <3>2. arg'[p] = arg[p] /\ Moves(p)
      BY <2>3 DEF MoveBegin, Moves
    <3> QED BY <1>4, <2>1, <3>1, <3>2
  <2>4. ASSUME NEW u \in Nodes, NEW to \in Nodes \cup {None}, MoveFind(p, u, to) PROVE Checked'
    BY <1>2, <2>1, <2>4, FindShape, FindChecked
  <2>5. CASE MoveWrite(p)
    BY <1>4, <2>1, <2>5, MoveWriteShape
  <2> QED BY <1>6, <2>2, <2>3, <2>4, <2>5 DEF Move
<1>7. ASSUME NEW p \in Deleters, Delete(p) PROVE Checked'
  <2>1. p \in Procs
    BY DEF Procs
  <2>2. CASE DeleteRefuse(p)
    BY <1>3, <2>1, <2>2 DEF DeleteRefuse
  <2>3. ASSUME NEW u \in Nodes, NEW to \in Nodes \cup {None}, DeleteFind(p, u, to) PROVE Checked'
    BY <1>2, <2>1, <2>3, FindShape, FindChecked
  <2>4. CASE DeleteReassign(p)
    BY <1>4, <2>1, <2>4, ReassignShape
  <2>5. CASE DeleteNode(p)
    BY <1>4, <2>1, <2>5, NodeShape
  <2> QED BY <1>7, <2>2, <2>3, <2>4, <2>5 DEF Delete
<1>8. ASSUME NEW p \in Procs, Commit(p) \/ Rollback(p) PROVE Checked'
  BY <1>3, <1>8, CommitShape DEF Rollback
<1> QED BY <1>1, <1>5, <1>6, <1>7, <1>8 DEF Next

LEMMA CheckedInvariance == Spec /\ []WalksReach => [](IInv /\ Shaped /\ Checked)
<1> QED BY InitIInv, InitShape, StepKeeps, ShapeKeeps, CheckedKeeps, PTL DEF Spec

\* Edges are added above what lies apart from where they come from: there is no new loop.
LEMMA NoNewLoop ==
  ASSUME edges \in SUBSET Pairs, units \in SUBSET Nodes, Forest, NEW u \in Nodes, NEW t,
         Apart(u, t),
         NEW E, NEW T \in SUBSET units,
         \A e \in E : e \in edges \/ e[1] = t,
         \A e \in E : e \in edges \/ e[2] = u \/ <<u, e[2]>> \in edges
  PROVE  T # {} => \E v \in T : \A w \in T : <<w, v>> \notin E
<1> SUFFICES ASSUME T # {}, \A v \in T : \E w \in T : <<w, v>> \in E PROVE FALSE
  OBVIOUS
<1>1. PICK S \in SUBSET Nodes : u \in S /\ t \notin S /\ Closed(S)
  BY DEF Apart
\* Outside of S all edges are old, and lead back to the outside.
<1>2. ASSUME NEW v \in T \ S PROVE \E w \in T \ S : <<w, v>> \in edges
  <2>1. PICK w \in T : <<w, v>> \in E
    OBVIOUS
  <2>2. <<w, v>> \in edges
    BY <1>1, <2>1 DEF Closed
  <2>3. w \notin S
    BY <1>1, <2>2 DEF Closed
  <2> QED BY <2>2, <2>3
<1>3. T \ S = {}
  <2>1. T \ S \in SUBSET units
    OBVIOUS
  <2> QED BY <1>2, <2>1 DEF Forest
\* Inside of it nobody has the new parent.
<1>4. ASSUME NEW v \in T PROVE \E w \in T : <<w, v>> \in edges
  <2>1. PICK w \in T : <<w, v>> \in E
    OBVIOUS
  <2>2. w # t
    BY <1>1, <1>3
  <2> QED BY <2>1, <2>2
<1> QED BY <1>4 DEF Forest

LEMMA CommitLoops ==
  ASSUME IInv, Shaped, Checked, Forest, NEW p \in Procs, Commit(p)
  PROVE  Forest' \/ \E q \in Movers \cup Deleters : Commits(q) /\ arg[q].overtaken
<1>0. edges \in SUBSET Pairs /\ units \in SUBSET Nodes /\ arg \in [Procs -> Arguments]
  BY TypeIs DEF IInv
<1>1. /\ units' = (units \cup work[p].new) \ work[p].drop
      /\ edges' = (edges \ work[p].del) \cup work[p].add
      /\ Commits(p) /\ Shape(p) /\ pc[p] = "written"
      /\ Makes(p) \/ Moves(p) \/ Deletes(p)
  BY CommitIs
<1>2. CASE Makes(p)
  <2>1. /\ work[p].new \cap units = {}
        /\ \A e \in work[p].add : e[1] \notin work[p].new /\ e[2] \in work[p].new
    BY <1>1, <1>2 DEF Shape, MakeShape
  <2>2. ASSUME NEW T \in SUBSET units', T # {}, \A v \in T : \E w \in T : <<w, v>> \in edges'
        PROVE  FALSE
    <3>1. ASSUME NEW e \in edges' PROVE e[1] \notin work[p].new
      BY <1>1, <2>1, OthersAre
    <3>2. T \cap units # {}
      BY <1>1, <2>1, <2>2, <3>1
    <3>3. ASSUME NEW v \in T \cap units PROVE \E w \in T \cap units : <<w, v>> \in edges
      <4>1. PICK w \in T : <<w, v>> \in edges'
        BY <2>2
      <4>2. <<w, v>> \in edges
        BY <1>1, <2>1, <4>1
      <4> QED BY <1>1, <3>1, <4>1, <4>2
    <3> QED BY <3>2, <3>3 DEF Forest
  <2> QED BY <2>2 DEF Forest
<1>3. CASE Moves(p) /\ ~arg[p].overtaken
  <2> DEFINE u == arg[p].unit
             t == arg[p].to
  <2>1. /\ work[p].new = {}
        /\ work[p].add = {<<to, u>> : to \in {t} \ {None}}
    BY <1>1, <1>3 DEF Shape, MoveShape, Moves
  <2>2. CASE t = None
    <3>1. edges' \subseteq edges /\ units' \subseteq units
      BY <1>1, <2>1, <2>2
    <3> QED BY <3>1 DEF Forest
  <2>3. CASE t # None
    <3>1. Apart(u, t)
      BY <1>3, <2>3 DEF Checked, Check
    <3>2. u \in Nodes
      BY <3>1 DEF Apart
    <3>3. units' \subseteq units
      BY <1>1, <2>1
    <3>4. \A e \in edges' : e \in edges \/ (e[1] = t /\ e[2] = u)
      BY <1>1, <2>1
    <3> HIDE DEF u, t
    <3>5. ASSUME NEW T \in SUBSET units', T # {}
          PROVE  \E v \in T : \A w \in T : <<w, v>> \notin edges'
      <4>1. T \in SUBSET units
        BY <3>3
      <4>2. PICK E : E = edges'
        OBVIOUS
      <4>3. PICK uu, tt : uu = u /\ tt = t
        OBVIOUS
      <4>4. \E v \in T : \A w \in T : <<w, v>> \notin E
        BY <1>0, <3>1, <3>2, <3>4, <3>5, <4>1, <4>2, <4>3, NoNewLoop
      <4> QED BY <4>2, <4>4
    <3> QED BY <3>5 DEF Forest
  <2> QED BY <2>2, <2>3
<1>4. CASE Deletes(p) /\ ~arg[p].overtaken
  <2> DEFINE u == arg[p].unit
             t == arg[p].to
  <2>1. /\ t = None => \A e \in edges : e[1] # u
        /\ \A e \in work[p].add : e[1] = t /\ <<u, e[2]>> \in edges
    BY <1>1, <1>4 DEF Shape, DeleteShape
  <2>2. units' \subseteq units
    <3>1. work[p].drop # {} /\ (work[p].new # {} => work[p].drop = {})
      BY <1>1, <1>4 DEF Shape, MakeShape, Deletes, Makes
    <3> QED BY <1>1, <3>1
  <2>3. CASE t = None
    <3>1. work[p].add = {}
      BY <2>1, <2>3
    <3> QED BY <1>1, <2>2, <3>1 DEF Forest
  <2>4. CASE t # None
    <3>1. Apart(u, t)
      BY <1>4, <2>4 DEF Checked, Check
    <3>2. u \in Nodes
      BY <3>1 DEF Apart
    <3>3. \A e \in edges' : e \in edges \/ (e[1] = t /\ <<u, e[2]>> \in edges)
      BY <1>1, <2>1
    <3> HIDE DEF u, t
    <3>4. ASSUME NEW T \in SUBSET units', T # {}
          PROVE  \E v \in T : \A w \in T : <<w, v>> \notin edges'
      <4>1. T \in SUBSET units
        BY <2>2
      <4>2. PICK E : E = edges'
        OBVIOUS
      <4>3. PICK uu, tt : uu = u /\ tt = t
        OBVIOUS
      <4>4. /\ \A e \in E : e \in edges \/ e[1] = tt
            /\ \A e \in E : e \in edges \/ e[2] = uu \/ <<uu, e[2]>> \in edges
        BY <3>3, <4>2, <4>3
      <4>5. Apart(uu, tt) /\ uu \in Nodes
        BY <3>1, <3>2, <4>3
      <4>6. \E v \in T : \A w \in T : <<w, v>> \notin E
        BY <1>0, <3>4, <4>1, <4>4, <4>5, NoNewLoop
      <4> QED BY <4>2, <4>6
    <3> QED BY <3>4 DEF Forest
  <2> QED BY <2>3, <2>4
<1>5. CASE arg[p].overtaken /\ (Moves(p) \/ Deletes(p))
  <2>1. p \in Movers \cup Deleters
    BY <1>1, <1>5 DEF Shape, MoveShape, DeleteShape
  <2> QED BY <1>1, <1>5, <2>1
<1> QED BY <1>1, <1>2, <1>3, <1>4, <1>5

(* reparentUnit and deleteUnit close no loop by themselves: while the      *)
(* walks of wouldCreateCycle and unitSubtree reach the bottom, which their *)
(* cap of MAX_DEPTH levels may keep them from, a loop needs a request that *)
(* committed between the check and the write.                              *)
THEOREM LoopsAlwaysNeedARace == Spec /\ []WalksReach => LoopsNeedARace
<1>1. ASSUME IInv, Shaped, Checked, [Next]_vars
      PROVE  [Forest => Forest' \/ \E p \in Movers \cup Deleters : Commits(p) /\ arg[p].overtaken]_vars
  <2> SUFFICES ASSUME Forest
               PROVE  Forest' \/ \E p \in Movers \cup Deleters : Commits(p) /\ arg[p].overtaken
    OBVIOUS
  <2>1. TypeOK
    BY <1>1 DEF IInv
  <2>2. CASE UNCHANGED <<units, edges>>
    BY <2>2 DEF Forest
  <2>3. CASE \E p \in Procs : Commit(p)
    BY <1>1, <2>3, CommitLoops
  <2> QED BY <1>1, <2>1, <2>2, <2>3, WhoCommits
<1> QED BY <1>1, CheckedInvariance, PTL DEF Spec, LoopsNeedARace

(* And so, with nothing more assumed, in an organisation that never has    *)
(* more units than the walks have levels.                                  *)
THEOREM FewUnitsLoopOnlyInARace == ASSUME FewUnits PROVE Spec => LoopsNeedARace
<1>1. IInv => WalksReach
  BY FewUnitsReach DEF IInv
<1> QED BY <1>1, Invariance, LoopsAlwaysNeedARace, PTL
-----------------------------------------------------------------------------
(***************************************************************************)
(* What the grant cache promises while permission changes do not overlap,  *)
(* for any number of requests and changes and any time to live.            *)
(*                                                                         *)
(* The step that breaks it with two writers is BumpCommit: only if the     *)
(* version the writer read is still the current one does the version count *)
(* the changes, and only then is a key a lower bound of what it holds.     *)
(***************************************************************************)
\* Permission changes come one at a time.
OneWriter == \A v, w \in Writers : v = w

\* The version counts the changes, and a change in flight read the current one.
Counted ==
  /\ version = changes
  /\ \A w \in Writers : step[w] = "bumping" => base[w] = version

\* Under a key lie grants that are at least as new as the key.
Filed == \A k \in Keys : cache[k] # NoEntry => cache[k].grants \in k..changes

\* A request asks under the version it arrived at, and gets grants at least as new.
Served ==
  \A r \in Readers :
    /\ asked[r] = since[r]
    /\ asked[r] <= changes
    /\ got[r] <= changes
    /\ step[r] \in {"collected", "decided"} => got[r] >= asked[r]

CacheIInv == CacheTypeOK /\ Counted /\ Filed /\ Served

(* Nothing is cached and nobody has asked.                                 *)
LEMMA CacheInitIInv == CacheInit => CacheIInv
  BY GrantCacheAssumption DEF CacheInit, CacheIInv, CacheTypeOK, Counted, Filed, Served, Keys

(* Every step keeps the inductive invariant.                               *)
LEMMA CacheNextIInv == ASSUME OneWriter PROVE CacheIInv /\ [CacheNext]_cacheVars => CacheIInv'
<1> SUFFICES ASSUME CacheIInv, [CacheNext]_cacheVars PROVE CacheIInv'
  OBVIOUS
<1> USE GrantCacheAssumption DEF CacheIInv, CacheTypeOK, Counted, Filed, Served, Keys, Goto
<1> USE DEF writerVars, readerVars
<1>1. ASSUME NEW w \in Writers, BumpRead(w) PROVE CacheIInv'
  BY <1>1 DEF BumpRead
<1>2. ASSUME NEW w \in Writers, NEW after \in {"idle", "clearing"}, BumpCommit(w, after)
      PROVE CacheIInv'
  <2>1. /\ changes' = changes + 1 /\ changes' \in Keys
        /\ version' = changes' /\ step' \in [Writers \cup Readers -> {"idle", "bumping", "clearing",
                                     "resolved", "missed", "collected", "decided"}]
    BY <1>2 DEF BumpCommit
  <2>2. CacheTypeOK'
    BY <1>2, <2>1 DEF BumpCommit
  <2>3. Counted'
    BY <1>2, <2>1 DEF BumpCommit, OneWriter
  <2>4. Filed'
    BY <1>2, <2>1 DEF BumpCommit
  <2>5. Served'
    BY <1>2, <2>1 DEF BumpCommit
  <2> QED
    BY <2>2, <2>3, <2>4, <2>5
<1>3. ASSUME NEW w \in Writers, BumpRollback(w) PROVE CacheIInv'
  BY <1>3 DEF BumpRollback
<1>4. ASSUME NEW w \in Writers, clearGrantCache(w) PROVE CacheIInv'
  BY <1>4 DEF clearGrantCache
<1>5. ASSUME NEW r \in Readers, ResolveTenant(r) PROVE CacheIInv'
  BY <1>5 DEF ResolveTenant
<1>6. ASSUME NEW r \in Readers, getCachedGrants(r) PROVE CacheIInv'
  <2>1. CASE Fresh(asked[r])
    <3>1. cache[asked[r]].grants \in asked[r]..changes
      BY <2>1 DEF Fresh
    <3>2. cache[asked[r]].grants \in Keys /\ cache[asked[r]].grants \in 0..changes
      BY <2>1, <3>1 DEF Fresh
    <3>3. /\ got' = [got EXCEPT ![r] = cache[asked[r]].grants]
          /\ step' = [step EXCEPT ![r] = "decided"]
          /\ UNCHANGED <<writerVars, cache, now, asked, since>>
      BY <1>6, <2>1 DEF getCachedGrants
    <3>4. Served'
      BY <3>1, <3>2, <3>3
    <3> QED
      BY <3>2, <3>3, <3>4
  <2>2. CASE ~Fresh(asked[r])
    BY <1>6, <2>2 DEF getCachedGrants
  <2> QED
    BY <2>1, <2>2
<1>7. ASSUME NEW r \in Readers, collectGrants(r) PROVE CacheIInv'
  BY <1>7 DEF collectGrants
<1>8. ASSUME NEW r \in Readers, setCachedGrants(r) PROVE CacheIInv'
  BY <1>8 DEF setCachedGrants
<1>9. ASSUME NEW r \in Readers, Answer(r) PROVE CacheIInv'
  BY <1>9 DEF Answer
<1>10. CASE Tick
  BY <1>10 DEF Tick
<1>11. CASE Restart
  BY <1>11 DEF Restart
<1>12. CASE UNCHANGED cacheVars
  BY <1>12 DEF cacheVars
<1> QED
  BY <1>1, <1>2, <1>3, <1>4, <1>5, <1>6, <1>7, <1>8, <1>9, <1>10, <1>11, <1>12
     DEF CacheNext, WriterStep, ReaderStep

(* The inductive invariant holds throughout.                               *)
LEMMA Inductive == ASSUME OneWriter PROVE CacheSpec => []CacheIInv
  BY CacheInitIInv, CacheNextIInv, PTL DEF CacheSpec

(* While permission changes do not overlap, no decision rests on grants    *)
(* older than the request, whichever request filled the cache.             *)
THEOREM FreshWithOneWriter == ASSUME OneWriter PROVE CacheSpec => []DecisionsAreFresh
<1>1. CacheIInv => DecisionsAreFresh
  BY DEF CacheIInv, Served, DecisionsAreFresh
<1> QED
  BY Inductive, <1>1, PTL

(* And what is filed under the current version is what the database says.  *)
THEOREM CurrentWithOneWriter == ASSUME OneWriter PROVE CacheSpec => []CurrentKeyIsCurrent
<1>1. CacheIInv => CurrentKeyIsCurrent
  BY GrantCacheAssumption DEF CacheIInv, CacheTypeOK, Counted, Filed, Keys, CurrentKeyIsCurrent
<1> QED
  BY Inductive, <1>1, PTL
=============================================================================
