---------------------------- MODULE ImproveProofs ---------------------------
(***************************************************************************)
(* Proofs about Improve and Results, for any campaigns, subjects, people,  *)
(* requests and readers: what is final stays as it is, nobody assesses     *)
(* themselves having been shown the results, and nothing is shown of fewer *)
(* responses than the threshold.                                           *)
(*                                                                         *)
(* The loop rests on what a request found when it was checked being still  *)
(* there when it writes (Grounded): a plan or a reflection is never taken  *)
(* away.  The threshold rests on counts that only grow and on rows that    *)
(* stand still between the count and the page, unless a subject moves      *)
(* under the unit that selects them (Gated).  The two share no variable.   *)
(***************************************************************************)
EXTENDS Improve, FiniteSetTheorems, TLAPS

\* What a request under way is about.
Aimed ==
  \A p \in Requests :
    /\ req[p].op \in {"reflect", "plan", "finalise", "checkin"} =>
         req[p].who \in People /\ req[p].on \in Cells
    /\ req[p].op = "patch" => req[p].on \in CheckIns

\* What is final is there, and what is being made final is.
Grounded ==
  /\ \A cell \in Cells : plan[cell].final => Planned(cell)
  /\ \A k \in CheckIns : checkin[k].final => checkin[k].cell # None
  /\ \A p \in Requests : /\ req[p].op = "finalise" => Planned(req[p].on)
                         /\ req[p].op = "patch" => checkin[req[p].on].cell # None

\* A gap is read, and was ever shown, of an assessed cycle only.
Assessed ==
  /\ \A r \in Readers : gapOf[r].who # None => gapOf[r].cell \in Cells /\ Reflected(gapOf[r].cell)
  /\ \A pair \in seen : Reflected(pair[2])

IInv == LoopTypeOK /\ Aimed /\ Grounded /\ Assessed /\ AssessedBlind

\* A step of the loop's records that takes nothing back.
Kept ==
  /\ \A cell \in Cells : /\ plan[cell].final => plan'[cell] = plan[cell]
                         /\ Planned(cell) => Planned(cell)'
                         /\ Reflected(cell) => reflection'[cell] = reflection[cell]
  /\ \A k \in CheckIns : /\ checkin[k].final => checkin'[k] = checkin[k]
                         /\ checkin[k].cell # None => checkin'[k].cell # None

-----------------------------------------------------------------------------
LEMMA InitIInv == Init => IInv
<1> SUFFICES ASSUME Init PROVE IInv
  OBVIOUS
<1>1. LoopTypeOK
  BY ImproveAssumption DEF Init, LoopTypeOK, NoReflection, NoPlan, NoCheckin, Idle
<1>2. Aimed /\ Grounded /\ Assessed
  BY DEF Init, Aimed, Grounded, Assessed, NoPlan, NoCheckin, Idle
<1>3. AssessedBlind
  BY DEF Init, AssessedBlind, NoReflection
<1> QED BY <1>1, <1>2, <1>3 DEF IInv

\* The loop's records stand still.
LEMMA Still == ASSUME UNCHANGED cycleVars PROVE Kept
  BY DEF cycleVars, Kept, Planned

\* The checks.
LEMMA StartKeeps ==
  ASSUME IInv, NEW p \in Requests, NEW op \in {"reflect", "plan", "finalise", "checkin", "patch"},
         NEW who \in People, NEW on, NEW there \in BOOLEAN, Start(p, op, who, on, there),
         op # "patch" => on \in Cells,
         op = "patch" => on \in CheckIns /\ checkin[on].cell # None,
         op = "finalise" => Planned(on)
  PROVE  IInv' /\ Kept
<1> DEFINE a == [op |-> op, who |-> who, on |-> on, there |-> there]
<1>1. /\ req' = [req EXCEPT ![p] = a]
      /\ UNCHANGED <<linked, archived, reflection, plan, checkin, gapOf, seen>>
  BY DEF Start, cycleVars
<1>2. \A q \in Requests : req'[q] = IF q = p THEN a ELSE req[q]
  BY <1>1 DEF IInv, LoopTypeOK
<1>3. LoopTypeOK'
  BY <1>1 DEF IInv, LoopTypeOK
<1>4. Aimed'
  BY <1>2 DEF IInv, Aimed
<1>5. Grounded'
  BY <1>1, <1>2 DEF IInv, Grounded, Planned
<1>6. Assessed' /\ AssessedBlind'
  BY <1>1 DEF IInv, Assessed, AssessedBlind, Reflected
<1>7. Kept
  BY <1>1, Still DEF cycleVars
<1> QED BY <1>3, <1>4, <1>5, <1>6, <1>7 DEF IInv

LEMMA FindKeeps ==
  ASSUME IInv, NEW p \in Requests, NEW who \in People, Find(p, who)
  PROVE  IInv' /\ Kept
<1>1. ASSUME NEW cell \in Cells, ReflectFind(p, who, cell) PROVE IInv' /\ Kept
  BY <1>1, StartKeeps DEF ReflectFind
<1>2. ASSUME NEW cell \in Cells, PlanFind(p, who, cell) PROVE IInv' /\ Kept
  <2>1. Planned(cell) \in BOOLEAN
    BY DEF Planned
  <2>2. Start(p, "plan", who, cell, Planned(cell))
    BY <1>2 DEF PlanFind
  <2> QED BY <2>1, <2>2, StartKeeps
<1>3. ASSUME NEW cell \in Cells, FinaliseFind(p, who, cell) PROVE IInv' /\ Kept
  BY <1>3, StartKeeps DEF FinaliseFind
<1>4. ASSUME NEW cell \in Cells, CheckinFind(p, who, cell) PROVE IInv' /\ Kept
  BY <1>4, StartKeeps DEF CheckinFind
<1>5. ASSUME NEW k \in CheckIns, PatchFind(p, who, k) PROVE IInv' /\ Kept
  BY <1>5, StartKeeps DEF PatchFind
<1> QED BY <1>1, <1>2, <1>3, <1>4, <1>5 DEF Find

-----------------------------------------------------------------------------
(* The writes: each leaves well-typed records that take nothing back, and  *)
(* a reflection is not late.                                               *)

LEMMA FinishKeeps ==
  ASSUME IInv, NEW p \in Requests, Finish(p), Kept,
         reflection' \in [Cells -> [author : People \cup {None}, late : BOOLEAN]],
         plan' \in [Cells -> [items : Texts \cup {None}, final : BOOLEAN]],
         checkin' \in [CheckIns -> [cell : Cells \cup {None}, notes : Texts \cup {None},
                                   final : BOOLEAN]],
         \A cell \in Cells : plan'[cell].final => Planned(cell)',
         \A k \in CheckIns : checkin'[k].final => checkin'[k].cell # None,
         AssessedBlind'
  PROVE  IInv'
<1>1. /\ req' = [req EXCEPT ![p] = Idle]
      /\ UNCHANGED <<linked, archived, gapOf, seen>>
  BY DEF Finish
<1>2. \A q \in Requests : req'[q] = IF q = p THEN Idle ELSE req[q]
  BY <1>1 DEF IInv, LoopTypeOK
<1>3. LoopTypeOK'
  BY <1>1 DEF IInv, LoopTypeOK, Idle
<1>4. Aimed'
  BY <1>2 DEF IInv, Aimed, Idle
<1>5. Grounded'
  <2>1. ASSUME NEW q \in Requests
        PROVE  /\ req'[q].op = "finalise" => Planned(req[q].on)' /\ req'[q] = req[q]
               /\ req'[q].op = "patch" => checkin'[req[q].on].cell # None /\ req'[q] = req[q]
    <3>1. CASE q = p
      BY <3>1, <1>2 DEF Idle
    <3>2. CASE q # p
      <4>1. req'[q] = req[q]
        BY <3>2, <1>2
      <4>2. /\ req[q].op = "finalise" => req[q].on \in Cells /\ Planned(req[q].on)
            /\ req[q].op = "patch" => req[q].on \in CheckIns /\ checkin[req[q].on].cell # None
        BY DEF IInv, Aimed, Grounded
      <4> QED BY <4>1, <4>2 DEF Kept, Planned
    <3> QED BY <3>1, <3>2
  <2> QED BY <2>1 DEF Grounded, Planned
<1>6. \A cell \in Cells : Reflected(cell) => Reflected(cell)'
  BY DEF Kept, Reflected
<1>7. Assessed'
  <2>1. \A pair \in seen : pair[2] \in Cells
    BY DEF IInv, LoopTypeOK
  <2> QED BY <1>1, <1>6, <2>1 DEF IInv, Assessed, Reflected
<1> QED BY <1>3, <1>4, <1>5, <1>7 DEF IInv

\* A write that leaves a record alone keeps what is said of it.
LEMMA Typed ==
  ASSUME IInv
  PROVE  /\ reflection \in [Cells -> [author : People \cup {None}, late : BOOLEAN]]
         /\ plan \in [Cells -> [items : Texts \cup {None}, final : BOOLEAN]]
         /\ checkin \in [CheckIns -> [cell : Cells \cup {None}, notes : Texts \cup {None},
                                      final : BOOLEAN]]
         /\ \A cell \in Cells : plan[cell].final => Planned(cell)
         /\ \A k \in CheckIns : checkin[k].final => checkin[k].cell # None
  BY DEF IInv, LoopTypeOK, Grounded

LEMMA ReflectKeeps ==
  ASSUME IInv, NEW p \in Requests, ReflectWrite(p)
  PROVE  IInv' /\ Kept
<1> DEFINE cell == req[p].on
           who == req[p].who
           late == <<who, cell>> \in seen
<1>1. /\ reflection' = IF Reflected(cell) THEN reflection
                       ELSE [reflection EXCEPT ![cell] = [author |-> who, late |-> late]]
      /\ UNCHANGED <<plan, checkin>> /\ Finish(p)
  BY DEF ReflectWrite
<1>2. cell \in Cells /\ who \in People
  BY DEF IInv, Aimed, ReflectWrite
<1>3. ~Reflected(cell) => late = FALSE
  <2>1. late => Reflected(cell)
    BY DEF IInv, Assessed
  <2> QED BY <2>1
<1> HIDE DEF cell, who, late
<1>4. \/ reflection' = reflection
      \/ /\ ~Reflected(cell)
         /\ reflection' = [reflection EXCEPT ![cell] = [author |-> who, late |-> FALSE]]
  <2>1. CASE Reflected(cell)
    BY <1>1, <2>1
  <2>2. CASE ~Reflected(cell)
    <3>1. [author |-> who, late |-> late] = [author |-> who, late |-> FALSE]
      BY <1>3, <2>2, Zenon
    <3>2. reflection' = [reflection EXCEPT ![cell] = [author |-> who, late |-> late]]
      BY <1>1, <2>2, Zenon
    <3> QED BY <2>2, <3>1, <3>2, Zenon
  <2> QED BY <2>1, <2>2
<1>5. reflection' \in [Cells -> [author : People \cup {None}, late : BOOLEAN]]
  <2>1. [author |-> who, late |-> FALSE] \in [author : People \cup {None}, late : BOOLEAN]
    BY <1>2
  <2>2. reflection \in [Cells -> [author : People \cup {None}, late : BOOLEAN]]
    BY Typed
  <2> QED BY <1>4, <2>1, <2>2
<1>6. \A c \in Cells : Reflected(c) => reflection'[c] = reflection[c]
  BY <1>2, <1>4, Typed
<1>7. Kept
  BY <1>1, <1>6 DEF Kept, Planned
<1>8. AssessedBlind'
  BY <1>2, <1>4, Typed DEF IInv, AssessedBlind
<1>9. /\ \A c \in Cells : plan'[c].final => Planned(c)'
      /\ \A k \in CheckIns : checkin'[k].final => checkin'[k].cell # None
  BY <1>1, Typed DEF Planned
<1> QED BY <1>1, <1>5, <1>7, <1>8, <1>9, Typed, FinishKeeps

\* The plan's two writes.
LEMMA PlanKeeps ==
  ASSUME IInv, NEW p \in Requests, NEW cell \in Cells, Finish(p), UNCHANGED <<reflection, checkin>>,
         NEW now \in [items : Texts \cup {None}, final : BOOLEAN],
         plan' = [plan EXCEPT ![cell] = now],
         plan[cell].final => now = plan[cell],
         now.final \/ Planned(cell) => now.items # None
  PROVE  IInv' /\ Kept
<1>1. \A c \in Cells : plan'[c] = IF c = cell THEN now ELSE plan[c]
  BY Typed
<1>2. plan' \in [Cells -> [items : Texts \cup {None}, final : BOOLEAN]]
  BY Typed
<1>3. Kept
  BY <1>1 DEF Kept, Planned
<1>4. AssessedBlind'
  BY DEF IInv, AssessedBlind
<1>5. /\ \A c \in Cells : plan'[c].final => Planned(c)'
      /\ \A k \in CheckIns : checkin'[k].final => checkin'[k].cell # None
  BY <1>1, Typed DEF Planned
<1> QED BY <1>2, <1>3, <1>4, <1>5, Typed, FinishKeeps

LEMMA PlanWriteKeeps ==
  ASSUME IInv, NEW p \in Requests, NEW items \in Texts, PlanWrite(p, items)
  PROVE  IInv' /\ Kept
<1> DEFINE cell == req[p].on
           refused == IF req[p].there THEN plan[cell].final ELSE Planned(cell)
           now == IF refused THEN plan[cell] ELSE [plan[cell] EXCEPT !.items = items]
<1>1. /\ req[p].op = "plan" /\ Finish(p) /\ UNCHANGED <<reflection, checkin>>
      /\ plan' = IF refused THEN plan ELSE [plan EXCEPT ![cell].items = items]
  BY DEF PlanWrite
<1>2. cell \in Cells
  BY <1>1 DEF IInv, Aimed
<1>3. plan[cell].final => refused
  BY <1>2, Typed
<1> HIDE DEF refused, cell
<1>4. plan' = [plan EXCEPT ![cell] = now]
  BY <1>1, <1>2, Typed
<1>5. now \in [items : Texts \cup {None}, final : BOOLEAN] /\ (plan[cell].final => now = plan[cell])
  BY <1>2, <1>3, Typed
<1>6. now.final \/ Planned(cell) => now.items # None
  <2>1. items # None
    BY ImproveAssumption
  <2>2. plan[cell] \in [items : Texts \cup {None}, final : BOOLEAN]
    BY <1>2, Typed
  <2>3. CASE refused
    BY <2>3, <1>2, Typed DEF Planned
  <2>4. CASE ~refused
    BY <2>1, <2>2, <2>4
  <2> QED BY <2>3, <2>4
<1> HIDE DEF now
<1> QED BY <1>1, <1>2, <1>4, <1>5, <1>6, PlanKeeps

LEMMA FinaliseKeeps ==
  ASSUME IInv, NEW p \in Requests, FinaliseWrite(p)
  PROVE  IInv' /\ Kept
<1> DEFINE cell == req[p].on
           now == [plan[cell] EXCEPT !.final = TRUE]
<1>1. /\ req[p].op = "finalise" /\ Finish(p) /\ UNCHANGED <<reflection, checkin>>
      /\ plan' = [plan EXCEPT ![cell].final = TRUE]
  BY DEF FinaliseWrite
<1>2. cell \in Cells /\ Planned(cell)
  BY <1>1 DEF IInv, Aimed, Grounded
<1> HIDE DEF cell
<1>3. plan' = [plan EXCEPT ![cell] = now]
  BY <1>1, <1>2, Typed
<1>4. /\ now \in [items : Texts \cup {None}, final : BOOLEAN]
      /\ plan[cell].final => now = plan[cell]
      /\ now.items # None
  BY <1>2, Typed DEF Planned
<1> HIDE DEF now
<1> QED BY <1>1, <1>2, <1>3, <1>4, PlanKeeps

\* The check-in's two writes.
LEMMA CheckinKeeps ==
  ASSUME IInv, NEW p \in Requests, NEW k \in CheckIns, Finish(p), UNCHANGED <<reflection, plan>>,
         NEW now \in [cell : Cells \cup {None}, notes : Texts \cup {None}, final : BOOLEAN],
         checkin' = [checkin EXCEPT ![k] = now],
         checkin[k].final => now = checkin[k],
         now.cell # None
  PROVE  IInv' /\ Kept
<1>1. \A j \in CheckIns : checkin'[j] = IF j = k THEN now ELSE checkin[j]
  BY Typed
<1>2. checkin' \in [CheckIns -> [cell : Cells \cup {None}, notes : Texts \cup {None}, final : BOOLEAN]]
  BY Typed
<1>3. Kept
  BY <1>1 DEF Kept, Planned
<1>4. AssessedBlind'
  BY DEF IInv, AssessedBlind
<1>5. /\ \A c \in Cells : plan'[c].final => Planned(c)'
      /\ \A j \in CheckIns : checkin'[j].final => checkin'[j].cell # None
  BY <1>1, Typed DEF Planned
<1> QED BY <1>2, <1>3, <1>4, <1>5, Typed, FinishKeeps

LEMMA CheckinWriteKeeps ==
  ASSUME IInv, NEW p \in Requests, NEW k \in CheckIns, NEW notes \in Texts, CheckinWrite(p, k, notes)
  PROVE  IInv' /\ Kept
<1> DEFINE now == [cell |-> req[p].on, notes |-> notes, final |-> FALSE]
<1>1. /\ req[p].op = "checkin" /\ checkin[k].cell = None
      /\ checkin' = [checkin EXCEPT ![k] = now]
      /\ UNCHANGED <<reflection, plan>> /\ Finish(p)
  BY DEF CheckinWrite
<1>2. req[p].on \in Cells /\ req[p].on # None
  BY <1>1, ImproveAssumption DEF IInv, Aimed
<1>3. /\ now \in [cell : Cells \cup {None}, notes : Texts \cup {None}, final : BOOLEAN]
      /\ now.cell # None
  BY <1>2
<1>4. ~checkin[k].final
  BY <1>1, Typed
<1> HIDE DEF now
<1> QED BY <1>1, <1>3, <1>4, CheckinKeeps

LEMMA PatchKeeps ==
  ASSUME IInv, NEW p \in Requests, NEW notes \in Texts, NEW finalise \in BOOLEAN,
         PatchWrite(p, notes, finalise)
  PROVE  IInv' /\ Kept
<1> DEFINE k == req[p].on
           now == IF checkin[k].final THEN checkin[k]
                  ELSE [checkin[k] EXCEPT !.notes = notes, !.final = finalise]
<1>1. /\ req[p].op = "patch" /\ UNCHANGED <<reflection, plan>> /\ Finish(p)
      /\ checkin' = IF checkin[k].final THEN checkin
                    ELSE [checkin EXCEPT ![k].notes = notes, ![k].final = finalise]
  BY DEF PatchWrite
<1>2. k \in CheckIns /\ checkin[k].cell # None
  BY <1>1 DEF IInv, Aimed, Grounded
<1> HIDE DEF k
<1>3. checkin' = [checkin EXCEPT ![k] = now]
  BY <1>1, <1>2, Typed
<1>4. /\ now \in [cell : Cells \cup {None}, notes : Texts \cup {None}, final : BOOLEAN]
      /\ checkin[k].final => now = checkin[k]
      /\ now.cell # None
  BY <1>2, Typed
<1> HIDE DEF now
<1> QED BY <1>1, <1>2, <1>3, <1>4, CheckinKeeps

-----------------------------------------------------------------------------
(* The gap, and everything else.                                           *)

LEMMA GapKeeps ==
  ASSUME IInv, NEW r \in Readers, NEW who \in People, NEW cell \in Cells, GapFind(r, who, cell)
  PROVE  IInv' /\ Kept
<1>1. /\ Reflected(cell)
      /\ gapOf' = [gapOf EXCEPT ![r] = [who |-> who, cell |-> cell]]
      /\ UNCHANGED <<linked, archived, reflection, plan, checkin, req, seen>>
  BY DEF GapFind, cycleVars
<1>2. \A q \in Readers : gapOf'[q] = IF q = r THEN [who |-> who, cell |-> cell] ELSE gapOf[q]
  BY <1>1 DEF IInv, LoopTypeOK
<1>3. LoopTypeOK'
  BY <1>1 DEF IInv, LoopTypeOK
<1>4. Assessed'
  BY <1>1, <1>2 DEF IInv, Assessed, Reflected
<1>5. Aimed' /\ Grounded' /\ AssessedBlind' /\ Kept
  BY <1>1, Still DEF IInv, Aimed, Grounded, AssessedBlind, Planned, cycleVars
<1> QED BY <1>3, <1>4, <1>5 DEF IInv

LEMMA ReadKeeps ==
  ASSUME IInv, NEW r \in Readers, ReadOn(r)
  PROVE  IInv' /\ Kept
<1>1. /\ seen' = seen \/ (gapOf[r].who # None /\ seen' = seen \cup {<<gapOf[r].who, gapOf[r].cell>>})
      /\ gapOf' = gapOf \/ gapOf' = [gapOf EXCEPT ![r] = [who |-> None, cell |-> None]]
      /\ UNCHANGED <<linked, archived, reflection, plan, checkin, req>>
  BY DEF ReadOn, cycleVars
<1>2. gapOf[r].who # None => /\ gapOf[r].who \in People /\ gapOf[r].cell \in Cells
                            /\ Reflected(gapOf[r].cell)
  BY DEF IInv, LoopTypeOK, Assessed
<1>3. seen' \in SUBSET (People \X Cells) /\ \A pair \in seen' : Reflected(pair[2])
  BY <1>1, <1>2 DEF IInv, LoopTypeOK, Assessed
<1>4. LoopTypeOK'
  <2>1. gapOf' \in [Readers -> [who : People \cup {None}, cell : Cells \cup {None}]]
    BY <1>1 DEF IInv, LoopTypeOK
  <2> QED BY <1>1, <1>3, <2>1 DEF IInv, LoopTypeOK
<1>5. \A q \in Readers : gapOf'[q].who # None => gapOf'[q] = gapOf[q]
  BY <1>1 DEF IInv, LoopTypeOK
<1>6. Assessed'
  BY <1>1, <1>3, <1>5 DEF IInv, Assessed, Reflected
<1>7. Aimed' /\ Grounded' /\ AssessedBlind' /\ Kept
  BY <1>1, Still DEF IInv, Aimed, Grounded, AssessedBlind, Planned, cycleVars
<1> QED BY <1>4, <1>6, <1>7 DEF IInv

\* The loop does not depend on whom a subject is linked to, beyond its type.
LEMMA ChangeKeeps ==
  ASSUME IInv, Change, linked' \in [Subjects -> People \cup {None}], archived' \in SUBSET Subjects
  PROVE  IInv' /\ Kept
<1>1. UNCHANGED <<reflection, plan, checkin, req, gapOf, seen>>
  BY DEF Change, cycleVars
<1>2. LoopTypeOK'
  BY <1>1 DEF IInv, LoopTypeOK
<1>3. Aimed' /\ Grounded' /\ Assessed' /\ AssessedBlind' /\ Kept
  BY <1>1, Still DEF IInv, Aimed, Grounded, Assessed, AssessedBlind, Planned, Reflected, cycleVars
<1> QED BY <1>2, <1>3 DEF IInv

LEMMA StepKeeps == ASSUME IInv, [Next]_vars PROVE IInv' /\ Kept
<1>1. ASSUME UNCHANGED improveVars PROVE IInv' /\ Kept
  <2>1. UNCHANGED <<linked, archived, reflection, plan, checkin, req, gapOf, seen>>
    BY <1>1 DEF improveVars
  <2> QED BY <2>1, Still DEF IInv, LoopTypeOK, Aimed, Grounded, Assessed, AssessedBlind, Planned,
                             Reflected, cycleVars
<1>2. ASSUME NEW p \in Requests, Write(p) PROVE IInv' /\ Kept
  BY <1>2, ReflectKeeps, FinaliseKeeps, PlanWriteKeeps, CheckinWriteKeeps, PatchKeeps DEF Write
<1>3. ASSUME NEW s \in Subjects, Archive(s) PROVE IInv' /\ Kept
  BY <1>3, ChangeKeeps DEF Archive, IInv, LoopTypeOK
<1>4. ASSUME NEW s \in Subjects, NEW who \in People \cup {None}, Relink(s, who) PROVE IInv' /\ Kept
  BY <1>4, ChangeKeeps DEF Relink, IInv, LoopTypeOK
<1>5. CASE Elsewhere
  BY <1>5, <1>1 DEF Elsewhere
<1>6. CASE UNCHANGED vars
  BY <1>6, <1>1 DEF vars
<1> QED BY <1>2, <1>3, <1>4, <1>5, <1>6, FindKeeps, GapKeeps, ReadKeeps DEF Next

LEMMA Invariance == Spec => []IInv
<1>1. Init => IInv
  BY InitIInv
<1>2. IInv /\ [Next]_vars => IInv'
  BY StepKeeps
<1> QED BY <1>1, <1>2, PTL DEF Spec

-----------------------------------------------------------------------------
(* submitReflection and readGap: nobody writes the self-assessment of a    *)
(* cycle whose gap they have been shown.                                   *)
THEOREM AlwaysAssessedBlind == Spec => []AssessedBlind
<1>1. IInv => AssessedBlind
  BY DEF IInv
<1> QED BY <1>1, Invariance, PTL

(* createPlan, finalisePlan, patchCheckin and the triggers behind them: no *)
(* step changes a reflection, or a plan or a check-in that is final.       *)
THEOREM RecordsStayFinal == Spec => RecordsAreFinal
<1> DEFINE Stand == /\ \A cell \in Cells : /\ plan[cell].final => plan'[cell] = plan[cell]
                                           /\ Reflected(cell) => reflection'[cell] = reflection[cell]
                    /\ \A k \in CheckIns : checkin[k].final => checkin'[k] = checkin[k]
<1>1. IInv /\ [Next]_vars => [Stand]_vars
  BY StepKeeps DEF Kept
<1>2. IInv /\ [Next]_vars => IInv'
  BY StepKeeps
<1> QED BY <1>1, <1>2, InitIInv, PTL DEF Spec, RecordsAreFinal
-----------------------------------------------------------------------------
(* The threshold in front of the responses.  What is counted only grows,   *)
(* and the rows of a read stand still unless a subject moves under a unit. *)

\* How many responses a count f of the cells holds in the cells of S.
Total(f, S) == Cardinality({one \in S \X (1..MaxResponses) : one[2] <= f[one[1]]})

LEMMA CountIsTotal == \A S : Count(S) = Total(responses, S)
  BY DEF Count, Total

LEMMA CellsFinite == IsFiniteSet(Cells)
<1>1. IsFiniteSet(Campaigns \X Subjects)
  BY ResultsAssumption, FS_Product
<1>2. Cells \in SUBSET (Campaigns \X Subjects)
  BY DEF Cells
<1> QED BY <1>1, <1>2, FS_Subset

\* More cells, each with as many responses or more, hold as many or more.
LEMMA TotalGrows ==
  ASSUME NEW f, NEW g, NEW S \in SUBSET Cells, NEW T \in SUBSET Cells, S \subseteq T,
         \A cell \in S : f[cell] \in Nat /\ g[cell] \in Nat /\ f[cell] <= g[cell]
  PROVE  Total(f, S) <= Total(g, T) /\ Total(f, S) \in Nat /\ Total(g, T) \in Nat
<1> DEFINE A == {one \in S \X (1..MaxResponses) : one[2] <= f[one[1]]}
           B == {one \in T \X (1..MaxResponses) : one[2] <= g[one[1]]}
<1>1. IsFiniteSet(T \X (1..MaxResponses))
  <2>1. IsFiniteSet(T)
    BY CellsFinite, FS_Subset
  <2>2. IsFiniteSet(1..MaxResponses)
    BY ResultsAssumption, FS_Interval
  <2> QED BY <2>1, <2>2, FS_Product
<1>2. B \in SUBSET (T \X (1..MaxResponses))
  OBVIOUS
<1>3. IsFiniteSet(B)
  BY <1>1, <1>2, FS_Subset
<1>4. A \in SUBSET B
  <2>1. ASSUME NEW one \in A PROVE one \in B
    <3>1. one[1] \in S /\ one[2] \in 1..MaxResponses /\ one[2] <= f[one[1]] /\ one \in T \X (1..MaxResponses)
      OBVIOUS
    <3>2. one[2] <= g[one[1]]
      BY <3>1
    <3> QED BY <3>1, <3>2
  <2> QED BY <2>1
<1>5. IsFiniteSet(A) /\ Cardinality(A) <= Cardinality(B)
  BY <1>3, <1>4, FS_Subset
<1>6. Total(f, S) = Cardinality(A) /\ Total(g, T) = Cardinality(B)
  BY DEF Total
<1> QED BY <1>3, <1>5, <1>6, FS_CardinalityType

\* A cell holds no more than all of them.
LEMMA CellBelowAll ==
  ASSUME NEW f \in [Cells -> 0..MaxResponses], NEW cell \in Cells
  PROVE  f[cell] <= Total(f, Cells)
<1> DEFINE A == {one \in {cell} \X (1..MaxResponses) : one[2] <= f[one[1]]}
<1>1. Total(f, {cell}) <= Total(f, Cells) /\ Total(f, {cell}) \in Nat /\ Total(f, Cells) \in Nat
  BY TotalGrows, ResultsAssumption
<1>2. A = {cell} \X (1..f[cell])
  BY ResultsAssumption
<1>3. Cardinality(A) = f[cell]
  <2> DEFINE n == f[cell]
  <2>1. n \in Nat
    BY ResultsAssumption
  <2>2. A = {cell} \X (1..n)
    BY <1>2
  <2> HIDE DEF n, A
  <2>3. IsFiniteSet({cell}) /\ Cardinality({cell}) = 1
    BY FS_Singleton
  <2>4. IsFiniteSet(1..n) /\ Cardinality(1..n) = n
    <3>1. IsFiniteSet(1..n) /\ Cardinality(1..n) = IF 1 > n THEN 0 ELSE n - 1 + 1
      BY <2>1, FS_Interval
    <3> QED BY <2>1, <3>1
  <2>5. Cardinality({cell} \X (1..n)) = Cardinality({cell}) * Cardinality(1..n)
    BY <2>3, <2>4, FS_Product
  <2>6. Cardinality(A) = n
    BY <2>1, <2>2, <2>3, <2>4, <2>5
  <2> QED BY <2>6 DEF n
<1>4. Total(f, {cell}) = Cardinality(A)
  BY DEF Total
<1> QED BY <1>1, <1>3, <1>4, ResultsAssumption
-----------------------------------------------------------------------------
(* Every campaign of C has reached the threshold.                          *)
Open(C) == \A c \in C : Count(CellsOf({c}, Subjects)) >= Threshold

\* A read that was counted passed, and what it counted is still there.  Rows that are looked
\* up by unit may have changed since a subject moved; shown, they are looked up no more.
Gated(r) ==
  /\ read[r].stage # "idle" => read[r].shape # None
  /\ read[r].shape = "page" => /\ read[r].unit = None /\ ~read[r].moved
                               /\ \E c \in Campaigns : read[r].campaigns = {c}
  /\ read[r].stage \in {"readable", "counted", "shown"} /\ read[r].shape # "page" =>
       Open(read[r].campaigns)
  /\ read[r].stage \in {"counted", "shown"} /\ read[r].shape # "comments" /\ ~read[r].moved =>
       Count(Rows(r)) >= Threshold
  /\ read[r].stage = "shown" => read[r].unit = None

GateInv == ResultsTypeOK /\ \A r \in Readers : Gated(r)

LEMMA RowsAreCells == \A r \in Readers : Rows(r) \in SUBSET Cells
  BY DEF Rows, CellsOf

LEMMA Counted == ResultsTypeOK => \A cell \in Cells : responses[cell] \in Nat
<1> SUFFICES ASSUME ResultsTypeOK, NEW cell \in Cells PROVE responses[cell] \in Nat
  OBVIOUS
<1>1. responses[cell] \in 0..MaxResponses
  BY DEF ResultsTypeOK
<1> QED BY <1>1, ResultsAssumption

LEMMA CountIsNat ==
  ASSUME ResultsTypeOK, NEW S \in SUBSET Cells
  PROVE  Count(S) \in Nat
<1>1. \A cell \in S : responses[cell] \in Nat /\ responses[cell] <= responses[cell]
  BY Counted
<1>2. Total(responses, S) \in Nat
  BY <1>1, TotalGrows
<1> QED BY <1>2 DEF Count, Total

\* A page that passed is a slice of a campaign that passed.
LEMMA GatedHolds == GateInv => GateHolds
<1> SUFFICES ASSUME GateInv, NEW r \in Readers, read[r].stage = "shown"
             PROVE  /\ Open(read[r].campaigns)
                    /\ read[r].shape # "comments" /\ ~read[r].moved => Count(Rows(r)) >= Threshold
  BY DEF GateHolds, Open
<1>1. Gated(r) /\ ResultsTypeOK
  BY DEF GateInv
<1>2. CASE read[r].shape # "page"
  BY <1>1, <1>2 DEF Gated
<1>3. CASE read[r].shape = "page"
  <2>1. PICK c \in Campaigns : read[r].campaigns = {c}
    BY <1>1, <1>3 DEF Gated
  <2>2. Count(Rows(r)) >= Threshold
    BY <1>1, <1>3 DEF Gated
  <2>3. Rows(r) \subseteq CellsOf({c}, Subjects) /\ CellsOf({c}, Subjects) \in SUBSET Cells
    BY <2>1 DEF Rows, CellsOf, Cells
  <2>4. \A cell \in Rows(r) : responses[cell] \in Nat /\ responses[cell] <= responses[cell]
    BY <1>1, <2>3, Counted
  <2>5. /\ Total(responses, Rows(r)) <= Total(responses, CellsOf({c}, Subjects))
        /\ Total(responses, Rows(r)) \in Nat /\ Total(responses, CellsOf({c}, Subjects)) \in Nat
    BY <2>3, <2>4, RowsAreCells, TotalGrows
  <2>6. Count(CellsOf({c}, Subjects)) >= Threshold
    BY <2>2, <2>5, CountIsTotal, ResultsAssumption
  <2> QED BY <1>1, <1>3, <2>1, <2>2, <2>6 DEF Open
<1> QED BY <1>1, <1>2, <1>3 DEF Gated

-----------------------------------------------------------------------------
LEMMA InitGated == Init => GateInv
<1> SUFFICES ASSUME Init PROVE GateInv
  OBVIOUS
<1>1. ResultsTypeOK
  BY ResultsAssumption DEF Init, ResultsInit, ResultsTypeOK, NoRead
<1>2. \A r \in Readers : read[r] = NoRead
  BY DEF Init, ResultsInit
<1>3. \A r \in Readers : Gated(r)
  BY <1>2, ResultsAssumption DEF Gated, NoRead, Open
<1> QED BY <1>1, <1>3 DEF GateInv

\* A read whose record stands still, and whose rows do, stays gated while responses grow.
LEMMA ApartStays ==
  ASSUME ResultsTypeOK, ResultsTypeOK', NEW r \in Readers, Gated(r), read'[r] = read[r],
         \A cell \in Cells : responses[cell] <= responses'[cell],
         \/ UNCHANGED unitOf
         \/ read[r].unit = None
         \/ read[r].stage \notin {"counted", "shown"} \/ read[r].moved
  PROVE  Gated(r)'
<1>1. \A cell \in Cells : responses[cell] \in Nat /\ responses'[cell] \in Nat
  BY ResultsAssumption DEF ResultsTypeOK
<1>2. Open(read[r].campaigns) => Open(read[r].campaigns)'
  <2> SUFFICES ASSUME Open(read[r].campaigns), NEW c \in read'[r].campaigns
               PROVE  Count(CellsOf({c}, Subjects))' >= Threshold
    BY DEF Open
  <2>1. Count(CellsOf({c}, Subjects)) >= Threshold
    BY DEF Open
  <2>2. CellsOf({c}, Subjects) \in SUBSET Cells
    BY DEF CellsOf
  <2>3. /\ Total(responses, CellsOf({c}, Subjects)) <= Total(responses', CellsOf({c}, Subjects))
        /\ Total(responses, CellsOf({c}, Subjects)) \in Nat
        /\ Total(responses', CellsOf({c}, Subjects)) \in Nat
    BY <1>1, <2>2, TotalGrows
  <2>4. /\ Count(CellsOf({c}, Subjects)) = Total(responses, CellsOf({c}, Subjects))
        /\ Count(CellsOf({c}, Subjects))' = Total(responses', CellsOf({c}, Subjects))
    BY DEF Count, Total, CellsOf
  <2> QED BY <2>1, <2>3, <2>4, ResultsAssumption
<1>3. UNCHANGED unitOf \/ read[r].unit = None =>
        (Count(Rows(r)) >= Threshold => Count(Rows(r))' >= Threshold)
  <2> SUFFICES ASSUME UNCHANGED unitOf \/ read[r].unit = None, Count(Rows(r)) >= Threshold
               PROVE  Count(Rows(r))' >= Threshold
    OBVIOUS
  <2>1. /\ Total(responses, Rows(r)) <= Total(responses', Rows(r))
        /\ Total(responses, Rows(r)) \in Nat /\ Total(responses', Rows(r)) \in Nat
    BY <1>1, RowsAreCells, TotalGrows
  <2>2. Count(Rows(r)) = Total(responses, Rows(r))
    BY DEF Count, Total
  <2>3. Count(Rows(r))' = Total(responses', Rows(r)')
    BY DEF Count, Total
  <2>4. Rows(r)' = Rows(r)
    BY DEF Rows, inUnit, CellsOf
  <2> QED BY <2>1, <2>2, <2>3, <2>4, ResultsAssumption
<1> QED BY <1>2, <1>3 DEF Gated
-----------------------------------------------------------------------------
ReadRecord ==
  [shape : {"page", "comments", "corpus", None},
   stage : {"idle", "asked", "readable", "counted", "shown"},
   campaigns : SUBSET Campaigns, slice : SUBSET Subjects, unit : Units \cup {None},
   moved : BOOLEAN]

\* One read takes a step and is gated after it: the others are as they were.
LEMMA OneRead ==
  ASSUME GateInv, NEW r \in Readers, NEW now \in ReadRecord, read' = [read EXCEPT ![r] = now],
         UNCHANGED <<responses, unitOf, changes>>, Gated(r)'
  PROVE  GateInv'
<1>1. read \in [Readers -> ReadRecord] /\ ResultsTypeOK
  BY DEF GateInv, ResultsTypeOK, ReadRecord
<1>2. ResultsTypeOK'
  BY <1>1 DEF ResultsTypeOK, ReadRecord
<1>3. ASSUME NEW q \in Readers, q # r PROVE Gated(q)'
  <2>1. read'[q] = read[q]
    BY <1>1, <1>3
  <2>2. \A cell \in Cells : responses[cell] <= responses'[cell]
    BY <1>1, Counted
  <2>3. Gated(q)
    BY DEF GateInv
  <2> QED BY <1>1, <1>2, <2>1, <2>2, <2>3, ApartStays
<1> QED BY <1>2, <1>3 DEF GateInv

\* A read begins, or is over.
LEMMA FreshGated ==
  ASSUME GateInv, NEW r \in Readers, NEW now \in ReadRecord, read' = [read EXCEPT ![r] = now],
         UNCHANGED <<responses, unitOf, changes>>,
         \/ now = NoRead
         \/ now.stage = "asked" /\ now.shape \in {"comments", "corpus"} /\ ~now.moved
         \/ /\ now.stage = "asked" /\ now.shape = "page" /\ now.unit = None /\ ~now.moved
            /\ \E c \in Campaigns : now.campaigns = {c}
  PROVE  GateInv'
<1>1. read'[r] = now
  BY DEF GateInv, ResultsTypeOK
<1>2. Gated(r)'
  BY <1>1, ResultsAssumption DEF Gated, NoRead
<1> QED BY <1>2, OneRead

LEMMA NoReadTyped == NoRead \in ReadRecord
  BY DEF NoRead, ReadRecord

LEMMA AskPageGated ==
  ASSUME GateInv, NEW r \in Readers, NEW c \in Campaigns, AskPage(r, c)
  PROVE  GateInv'
<1>1. PICK S \in SUBSET Subjects :
        read' = [read EXCEPT ![r] = [NoRead EXCEPT !.shape = "page", !.stage = "asked",
                                                  !.campaigns = {c}, !.slice = S]]
  <2>1. Of[c] \in SUBSET Subjects
    BY ResultsAssumption
  <2> QED BY <2>1 DEF AskPage
<1> DEFINE now == [NoRead EXCEPT !.shape = "page", !.stage = "asked", !.campaigns = {c}, !.slice = S]
<1>2. /\ now \in ReadRecord /\ now.stage = "asked" /\ now.shape = "page" /\ now.unit = None
      /\ ~now.moved /\ now.campaigns = {c}
  BY DEF NoRead, ReadRecord
<1>3. UNCHANGED <<responses, unitOf, changes>>
  BY DEF AskPage
<1> HIDE DEF now
<1> QED BY <1>1, <1>2, <1>3, FreshGated DEF now

LEMMA AskManyGated ==
  ASSUME GateInv, NEW r \in Readers, NEW shape \in {"comments", "corpus"}, AskMany(r, shape)
  PROVE  GateInv'
<1>1. PICK C \in SUBSET Campaigns, S \in SUBSET Subjects, u \in Units \cup {None} :
        read' = [read EXCEPT ![r] = [NoRead EXCEPT !.shape = shape, !.stage = "asked",
                                        !.campaigns = C, !.slice = S, !.unit = u]]
  <2>1. PICK C \in {Campaigns} \cup {{c} : c \in Campaigns}, S \in {Subjects} \cup {{s} : s \in Subjects},
             u \in Units \cup {None} :
          read' = [read EXCEPT ![r] = [NoRead EXCEPT !.shape = shape, !.stage = "asked",
                     !.campaigns = {c \in C : campaignInScope(c, r)}, !.slice = S, !.unit = u]]
    BY DEF AskMany
  <2>2. {c \in C : campaignInScope(c, r)} \in SUBSET Campaigns /\ S \in SUBSET Subjects
        /\ u \in Units \cup {None}
    OBVIOUS
  <2> QED BY <2>1, <2>2
<1> DEFINE now == [NoRead EXCEPT !.shape = shape, !.stage = "asked", !.campaigns = C, !.slice = S,
                                 !.unit = u]
<1>2. now \in ReadRecord /\ now.stage = "asked" /\ now.shape \in {"comments", "corpus"} /\ ~now.moved
  BY DEF NoRead, ReadRecord
<1>3. UNCHANGED <<responses, unitOf, changes>>
  BY DEF AskMany
<1> HIDE DEF now
<1> QED BY <1>1, <1>2, <1>3, FreshGated DEF now

LEMMA StopGated ==
  ASSUME GateInv, NEW r \in Readers, Stop(r), UNCHANGED <<responses, unitOf, changes>>
  PROVE  GateInv'
  BY NoReadTyped, FreshGated DEF Stop
\* The first gate: what stays of the campaigns has passed.
LEMMA GateCampaignsGated ==
  ASSUME GateInv, NEW r \in Readers, GateCampaigns(r)
  PROVE  GateInv'
<1>1. /\ read[r].stage = "asked" /\ read[r].shape # "page"
      /\ UNCHANGED <<responses, unitOf, changes>>
  BY DEF GateCampaigns
<1>2. read \in [Readers -> ReadRecord] /\ Gated(r)
  BY DEF GateInv, ResultsTypeOK, ReadRecord
<1>3. PICK open \in SUBSET Campaigns : open = readableCampaigns(read[r].campaigns) /\ Open(open)
  <2>1. readableCampaigns(read[r].campaigns) \in SUBSET Campaigns
    BY <1>2 DEF readableCampaigns, ReadRecord
  <2>2. Open(readableCampaigns(read[r].campaigns))
    BY DEF readableCampaigns, Open
  <2> QED BY <2>1, <2>2
<1> DEFINE now == [read[r] EXCEPT !.campaigns = open,
                     !.stage = IF read[r].shape = "corpus" THEN "readable" ELSE "counted"]
<1>4. CASE open = {}
  BY <1>1, <1>3, <1>4, StopGated DEF GateCampaigns
<1>5. CASE open # {}
  <2>1. read' = [read EXCEPT ![r].campaigns = open,
                   ![r].stage = IF read[r].shape = "corpus" THEN "readable" ELSE "counted"]
    BY <1>3, <1>5 DEF GateCampaigns
  <2>2. read' = [read EXCEPT ![r] = now]
    BY <1>2, <2>1
  <2>3. /\ now \in ReadRecord /\ now.shape = read[r].shape /\ now.campaigns = open
        /\ now.stage = IF read[r].shape = "corpus" THEN "readable" ELSE "counted"
    BY <1>2, <1>3 DEF ReadRecord
  <2>4. read'[r] = now
    BY <1>2, <2>2
  <2>5. Open(open)'
    BY <1>1, <1>3 DEF Open, Count, CellsOf
  <2>6. read[r].shape \in {"comments", "corpus"}
    BY <1>1, <1>2, ResultsAssumption DEF Gated, ReadRecord
  <2> HIDE DEF now
  <2>7. Gated(r)'
    <3>1. read'[r].campaigns = open /\ read'[r].shape = read[r].shape
          /\ read'[r].stage = IF read[r].shape = "corpus" THEN "readable" ELSE "counted"
      BY <2>3, <2>4
    <3>2. Open(read[r].campaigns)'
      BY <2>5, <3>1 DEF Open
    <3> QED BY <2>6, <3>1, <3>2, ResultsAssumption DEF Gated
  <2> QED BY <1>1, <2>2, <2>3, <2>7, OneRead
<1> QED BY <1>4, <1>5

\* The second gate: the rows counted are the rows as they stand.
LEMMA GateSliceGated ==
  ASSUME GateInv, NEW r \in Readers, GateSlice(r)
  PROVE  GateInv'
<1> DEFINE now == [read[r] EXCEPT !.stage = "counted"]
<1>1. /\ <<read[r].shape, read[r].stage>> \in {<<"page", "asked">>, <<"corpus", "readable">>}
      /\ UNCHANGED <<responses, unitOf, changes>>
  BY DEF GateSlice
<1>2. read \in [Readers -> ReadRecord] /\ Gated(r) /\ ResultsTypeOK
  BY DEF GateInv, ResultsTypeOK, ReadRecord
<1>3. CASE Count(Rows(r)) < Threshold
  BY <1>1, <1>3, StopGated DEF GateSlice
<1>4. CASE ~(Count(Rows(r)) < Threshold)
  <2>1. read' = [read EXCEPT ![r].stage = "counted"]
    BY <1>4 DEF GateSlice
  <2>2. read' = [read EXCEPT ![r] = now]
    BY <1>2, <2>1
  <2>3. /\ now \in ReadRecord /\ now.stage = "counted"
        /\ now.shape = read[r].shape /\ now.campaigns = read[r].campaigns
        /\ now.slice = read[r].slice /\ now.unit = read[r].unit /\ now.moved = read[r].moved
    BY <1>2 DEF ReadRecord
  <2>4. read'[r] = now
    BY <1>2, <2>2
  <2> HIDE DEF now
  <2>5. Count(Rows(r)) >= Threshold
    <3>1. Count(Rows(r)) \in Nat
      BY <1>2, RowsAreCells, CountIsNat
    <3> QED BY <1>4, <3>1, ResultsAssumption
  <2>6. Count(Rows(r))' >= Threshold
    <3>1. Rows(r)' = Rows(r)
      BY <1>1, <2>3, <2>4 DEF Rows, inUnit, CellsOf
    <3> QED BY <1>1, <2>5, <3>1 DEF Count
  <2>7. Open(read[r].campaigns) => Open(read[r].campaigns)'
    BY <1>1, <2>3, <2>4 DEF Open, Count, CellsOf
  <2>8. Gated(r)'
    BY <1>1, <1>2, <2>3, <2>4, <2>6, <2>7 DEF Gated
  <2> QED BY <1>1, <2>2, <2>3, <2>8, OneRead
<1> QED BY <1>3, <1>4

\* What is shown is the rows as they are, settled: as many as were counted unless one moved.
LEMMA ShowGated ==
  ASSUME GateInv, NEW r \in Readers, Show(r)
  PROVE  GateInv'
<1> DEFINE now == [read[r] EXCEPT !.stage = "shown", !.unit = None,
                                  !.slice = {cell[2] : cell \in Rows(r)}]
<1>1. /\ read[r].stage = "counted"
      /\ read' = [read EXCEPT ![r].stage = "shown", ![r].unit = None,
                              ![r].slice = {cell[2] : cell \in Rows(r)}]
      /\ UNCHANGED <<responses, unitOf, changes>>
  BY DEF Show
<1>2. read \in [Readers -> ReadRecord] /\ Gated(r)
  BY DEF GateInv, ResultsTypeOK, ReadRecord
<1>3. {cell[2] : cell \in Rows(r)} \in SUBSET Subjects
  BY RowsAreCells DEF Cells
<1>4. read' = [read EXCEPT ![r] = now]
  BY <1>1, <1>2
<1>5. /\ now \in ReadRecord /\ now.stage = "shown" /\ now.unit = None
      /\ now.shape = read[r].shape /\ now.campaigns = read[r].campaigns
      /\ now.slice = {cell[2] : cell \in Rows(r)} /\ now.moved = read[r].moved
  BY <1>2, <1>3 DEF ReadRecord
<1>6. read'[r] = now
  BY <1>2, <1>4
<1> HIDE DEF now
<1>7. Rows(r)' = Rows(r)
  <2>1. Rows(r)' = CellsOf(read[r].campaigns, {cell[2] : cell \in Rows(r)})
    BY <1>5, <1>6 DEF Rows, CellsOf
  <2>2. CellsOf(read[r].campaigns, {cell[2] : cell \in Rows(r)}) = Rows(r)
    BY DEF Rows, CellsOf
  <2> QED BY <2>1, <2>2
<1>8. Count(Rows(r))' = Count(Rows(r))
  BY <1>1, <1>7 DEF Count
<1>9. Open(read[r].campaigns) => Open(read[r].campaigns)'
  BY <1>1, <1>5, <1>6 DEF Open, Count, CellsOf
<1>10. Gated(r)'
  BY <1>1, <1>2, <1>5, <1>6, <1>8, <1>9 DEF Gated
<1> QED BY <1>1, <1>4, <1>5, <1>10, OneRead
-----------------------------------------------------------------------------
(* What happens meanwhile.                                                 *)

\* Responses come in while every read stands still.
LEMMA RespondGated ==
  ASSUME GateInv, NEW cell \in Cells, Respond(cell)
  PROVE  GateInv'
<1>1. /\ Count(Cells) < MaxResponses /\ responses' = [responses EXCEPT ![cell] = @ + 1]
      /\ UNCHANGED <<unitOf, changes, read>>
  BY DEF Respond
<1>2. responses \in [Cells -> 0..MaxResponses] /\ ResultsTypeOK
  BY DEF GateInv, ResultsTypeOK
<1>3. responses[cell] < MaxResponses /\ responses[cell] \in Nat
  <2>1. responses[cell] <= Count(Cells)
    BY <1>2, CellBelowAll, CountIsTotal
  <2>2. Count(Cells) \in Nat /\ responses[cell] \in Nat
    BY <1>2, CountIsNat, Counted
  <2> QED BY <1>1, <2>1, <2>2, ResultsAssumption
<1>4. responses[cell] + 1 \in 0..MaxResponses
  BY <1>3, ResultsAssumption
<1>5. \A c \in Cells : responses'[c] = IF c = cell THEN responses[c] + 1 ELSE responses[c]
  BY <1>1, <1>2
<1>6. \A c \in Cells : responses[c] <= responses'[c]
  BY <1>2, <1>5, Counted
<1>7. responses' \in [Cells -> 0..MaxResponses]
  BY <1>1, <1>2, <1>4
<1>8. ResultsTypeOK'
  BY <1>1, <1>2, <1>7 DEF ResultsTypeOK
<1>9. ASSUME NEW r \in Readers PROVE Gated(r)'
  <2>1. Gated(r)
    BY DEF GateInv
  <2> QED BY <1>1, <1>2, <1>6, <1>8, <2>1, ApartStays
<1> QED BY <1>8, <1>9 DEF GateInv

\* A subject moves: a read that was counted by unit is marked.
LEMMA MoveGated ==
  ASSUME GateInv, NEW s \in Subjects, NEW u \in Units \cup {None}, MoveSubject(s, u)
  PROVE  GateInv'
<1>1. /\ changes < MaxChanges /\ unitOf' = [unitOf EXCEPT ![s] = u] /\ changes' = changes + 1
      /\ read' = [r \in Readers |->
           IF read[r].stage = "counted" /\ read[r].unit # None
             THEN [read[r] EXCEPT !.moved = TRUE] ELSE read[r]]
      /\ UNCHANGED responses
  BY DEF MoveSubject
<1>2. read \in [Readers -> ReadRecord] /\ ResultsTypeOK
  BY DEF GateInv, ResultsTypeOK, ReadRecord
<1>3. ASSUME NEW r \in Readers
      PROVE  /\ read'[r] \in ReadRecord
             /\ read[r].stage = "counted" /\ read[r].unit # None =>
                  /\ read'[r].moved /\ read'[r].stage = "counted" /\ read'[r].unit = read[r].unit
                  /\ read'[r].shape = read[r].shape /\ read'[r].campaigns = read[r].campaigns
             /\ ~(read[r].stage = "counted" /\ read[r].unit # None) => read'[r] = read[r]
  <2>1. read[r] \in ReadRecord
    BY <1>2
  <2> QED BY <1>1, <2>1 DEF ReadRecord
<1>4. changes' \in 0..MaxChanges
  BY <1>1, <1>2, ResultsAssumption DEF ResultsTypeOK
<1>5. ResultsTypeOK'
  <2>1. read' \in [Readers -> ReadRecord]
    BY <1>1, <1>3
  <2>2. unitOf' \in [Subjects -> Units \cup {None}]
    BY <1>1, <1>2 DEF ResultsTypeOK
  <2> QED BY <1>1, <1>2, <1>4, <2>1, <2>2 DEF ResultsTypeOK, ReadRecord
<1>6. ASSUME NEW r \in Readers PROVE Gated(r)'
  <2>1. Gated(r)
    BY DEF GateInv
  <2>2. CASE read[r].stage = "counted" /\ read[r].unit # None
    <3>1. read[r].shape # "page" /\ Open(read[r].campaigns)
      BY <2>1, <2>2 DEF Gated
    <3>2. Open(read[r].campaigns)'
      BY <1>1, <1>3, <2>2, <3>1 DEF Open, Count, CellsOf
    <3> QED BY <1>3, <2>1, <2>2, <3>1, <3>2 DEF Gated
  <2>3. CASE ~(read[r].stage = "counted" /\ read[r].unit # None)
    <3>1. read[r].unit = None \/ read[r].stage \notin {"counted", "shown"}
      BY <2>1, <2>3 DEF Gated
    <3>2. \A c \in Cells : responses[c] <= responses'[c]
      BY <1>1, <1>2, Counted
    <3> QED BY <1>2, <1>3, <1>5, <2>1, <2>3, <3>1, <3>2, ApartStays
  <2> QED BY <2>2, <2>3
<1> QED BY <1>5, <1>6 DEF GateInv

\* A gap is read as a page of one subject.
LEMMA GapFindGated ==
  ASSUME GateInv, NEW r \in Readers, NEW who \in People, NEW cell \in Cells, GapFind(r, who, cell)
  PROVE  GateInv'
<1> DEFINE now == [NoRead EXCEPT !.shape = "page", !.stage = "asked", !.campaigns = {cell[1]},
                                 !.slice = {cell[2]}]
<1>1. cell[1] \in Campaigns /\ cell[2] \in Subjects
  BY DEF Cells
<1>2. /\ now \in ReadRecord /\ now.stage = "asked" /\ now.shape = "page" /\ now.unit = None
      /\ ~now.moved /\ now.campaigns = {cell[1]}
  BY <1>1 DEF NoRead, ReadRecord
<1>3. read' = [read EXCEPT ![r] = now] /\ UNCHANGED <<responses, unitOf, changes>>
  BY DEF GapFind
<1> HIDE DEF now
<1> QED BY <1>1, <1>2, <1>3, FreshGated

\* Nothing the reads depend on, but for the number of changes.
LEMMA AsideGated ==
  ASSUME GateInv, UNCHANGED <<responses, unitOf, read>>, changes' \in 0..MaxChanges
  PROVE  GateInv'
<1>1. ResultsTypeOK'
  BY DEF GateInv, ResultsTypeOK
<1>2. ASSUME NEW r \in Readers PROVE Gated(r)'
  <2>1. Gated(r) /\ ResultsTypeOK
    BY DEF GateInv
  <2>2. \A c \in Cells : responses[c] <= responses'[c]
    BY <2>1, Counted
  <2> QED BY <1>1, <2>1, <2>2, ApartStays
<1> QED BY <1>1, <1>2 DEF GateInv

LEMMA StepGated == ASSUME GateInv, [Next]_vars PROVE GateInv'
<1>1. changes \in 0..MaxChanges
  BY DEF GateInv, ResultsTypeOK
<1>2. ASSUME UNCHANGED resultsVars PROVE GateInv'
  BY <1>1, <1>2, AsideGated DEF resultsVars
<1>3. ASSUME NEW p \in Requests, Write(p) PROVE GateInv'
  BY <1>3, <1>2 DEF Write, ReflectWrite, FinaliseWrite, PlanWrite, CheckinWrite, PatchWrite, Finish
<1>4. ASSUME NEW p \in Requests, NEW who \in People, Find(p, who) PROVE GateInv'
  BY <1>4, <1>2 DEF Find, ReflectFind, PlanFind, FinaliseFind, CheckinFind, PatchFind, Start
<1>5. ASSUME NEW r \in Readers, ReadOn(r) PROVE GateInv'
  <2>1. CASE Leave(r)
    BY <2>1, StopGated DEF Leave
  <2> QED BY <1>5, <2>1, GateCampaignsGated, GateSliceGated, ShowGated DEF ReadOn
<1>6. ASSUME Change PROVE GateInv'
  <2>1. changes' \in 0..MaxChanges
    BY <1>1, <1>6, ResultsAssumption DEF Change
  <2> QED BY <1>6, <2>1, AsideGated DEF Change
<1>7. ASSUME NEW s \in Subjects, Archive(s) \/ \E who \in People \cup {None} : Relink(s, who)
      PROVE  GateInv'
  BY <1>6, <1>7 DEF Archive, Relink
<1>8. CASE Elsewhere
  BY <1>8, AskPageGated, AskManyGated, RespondGated, MoveGated DEF Elsewhere
<1>9. CASE UNCHANGED vars
  BY <1>9, <1>2 DEF vars
<1> QED BY <1>3, <1>4, <1>5, <1>7, <1>8, <1>9, GapFindGated DEF Next

LEMMA GateInvariance == Spec => []GateInv
<1>1. Init => GateInv
  BY InitGated
<1>2. GateInv /\ [Next]_vars => GateInv'
  BY StepGated
<1> QED BY <1>1, <1>2, PTL DEF Spec

(* What is known of the responses, the units and the reads stays well      *)
(* typed, together with the records of the loop.                           *)
THEOREM TypeCorrect == Spec => []TypeOK
<1>1. IInv /\ GateInv => TypeOK
  BY DEF IInv, GateInv, TypeOK
<1> QED BY <1>1, Invariance, GateInvariance, PTL

(* readResults, readComments, readCorpus, readGap: nothing is shown of a   *)
(* campaign below the threshold, nor of a slice that was below it, however *)
(* many responses come in and subjects move between the count and the rows.*)
THEOREM GateAlwaysHolds == Spec => []GateHolds
<1> QED BY GatedHolds, GateInvariance, PTL
=============================================================================
