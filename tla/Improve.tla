------------------------------ MODULE Improve ------------------------------
(***************************************************************************)
(* The improve loop (src/src/backend/features/improve/service.ts): in each *)
(* campaign the person a subject is linked to writes a self-assessment,    *)
(* then sees the gap to what was received, plans, finalises the plan, and  *)
(* has check-ins with a supervisor.  What is final stays as it is, by the  *)
(* triggers of migrations/20260825170000_improve_loop.                     *)
(*                                                                         *)
(* A request decides on rows it read before its one write; the database    *)
(* has the last word.  The gap goes through the gate of Results, as a page *)
(* of one subject.  Every campaign here was launched (publicToken); the    *)
(* questions and the arithmetic of the gap are left out.                   *)
(***************************************************************************)
EXTENDS Results

CONSTANTS
  People,      \* accounts
  FirstLink,   \* Subjects -> the account it is linked to, or None
  Requests,    \* requests that write
  Supervises,  \* People -> the units their checkin.create reaches
  SupervisesAll, \* the people whose checkin.create reaches everything
  CheckIns,    \* the rows createCheckin may make
  Texts,       \* what can be written in a plan or a check-in
  MaxReflected \* bound on the reflections in all

ASSUME ImproveAssumption ==
  /\ FirstLink \in [Subjects -> People \cup {None}]
  /\ Supervises \in [People -> SUBSET Units]
  /\ SupervisesAll \subseteq People
  /\ None \notin People \cup Texts \cup CheckIns \cup Cells
  /\ MaxReflected \in Nat

VARIABLES
  linked,      \* Subjects -> linkedUserId
  archived,    \* the subjects archived
  reflection,  \* Cells -> its author; history: the author had already been shown the gap
  plan,        \* Cells -> the plan of its reflection
  checkin,     \* CheckIns -> the check-in
  req,         \* Requests -> what is being done, by whom, to which cell or check-in
  gapOf,       \* Readers -> who is reading the gap of which cell
  seen         \* history: who has been shown the gap of which cell

improveVars == <<linked, archived, reflection, plan, checkin, req, gapOf, seen>>
vars == <<resultsVars, improveVars>>
cycleVars == <<reflection, plan, checkin>>

NoReflection == [author |-> None, late |-> FALSE]
NoPlan == [items |-> None, final |-> FALSE]
NoCheckin == [cell |-> None, notes |-> None, final |-> FALSE]
Idle == [op |-> "idle", who |-> None, on |-> None, there |-> FALSE]

LoopTypeOK ==
  /\ linked \in [Subjects -> People \cup {None}]
  /\ archived \in SUBSET Subjects
  /\ reflection \in [Cells -> [author : People \cup {None}, late : BOOLEAN]]
  /\ plan \in [Cells -> [items : Texts \cup {None}, final : BOOLEAN]]
  /\ checkin \in [CheckIns -> [cell : Cells \cup {None}, notes : Texts \cup {None}, final : BOOLEAN]]
  /\ req \in [Requests -> [op : {"idle", "reflect", "plan", "finalise", "checkin", "patch"},
                           who : People \cup {None}, on : Cells \cup CheckIns \cup {None},
                           there : BOOLEAN]]
  /\ gapOf \in [Readers -> [who : People \cup {None}, cell : Cells \cup {None}]]
  /\ seen \in SUBSET (People \X Cells)

TypeOK == ResultsTypeOK /\ LoopTypeOK

Init ==
  /\ ResultsInit
  /\ linked = FirstLink
  /\ archived = {}
  /\ reflection = [cell \in Cells |-> NoReflection]
  /\ plan = [cell \in Cells |-> NoPlan]
  /\ checkin = [k \in CheckIns |-> NoCheckin]
  /\ req = [p \in Requests |-> Idle]
  /\ gapOf = [r \in Readers |-> [who |-> None, cell |-> None]]
  /\ seen = {}

-----------------------------------------------------------------------------
Reflected(cell) == reflection[cell].author # None
Planned(cell) == plan[cell].items # None

\* The self gate: a subject of the campaign linked to the caller and not archived - any of
\* them, the query names no order.
myCycle(who, cell) == linked[cell[2]] = who /\ cell[2] \notin archived

\* The plan hangs off a reflection, which hangs off a subject: its unit must be in reach, if
\* it has one, unless everything is.
assertSupervises(who, cell) ==
  Planned(cell) /\ (who \in SupervisesAll \/ unitOf[cell[2]] \in Supervises[who])

Start(p, op, who, on, there) ==
  /\ req[p] = Idle
  /\ req' = [req EXCEPT ![p] = [op |-> op, who |-> who, on |-> on, there |-> there]]
  /\ UNCHANGED <<resultsVars, linked, archived, cycleVars, gapOf, seen>>

Finish(p) ==
  /\ req' = [req EXCEPT ![p] = Idle]
  /\ UNCHANGED <<resultsVars, linked, archived, gapOf, seen>>

-----------------------------------------------------------------------------
(* What each request checks first.                                         *)

ReflectFind(p, who, cell) ==
  /\ Cardinality({c \in Cells : Reflected(c)}) < MaxReflected \/ Reflected(cell)
  /\ myCycle(who, cell)
  /\ Start(p, "reflect", who, cell, FALSE)

PlanFind(p, who, cell) ==
  /\ myCycle(who, cell) /\ Reflected(cell) /\ ~plan[cell].final
  /\ Start(p, "plan", who, cell, Planned(cell))

FinaliseFind(p, who, cell) ==
  /\ Planned(cell) /\ reflection[cell].author = who /\ ~plan[cell].final
  /\ Start(p, "finalise", who, cell, TRUE)

CheckinFind(p, who, cell) == assertSupervises(who, cell) /\ Start(p, "checkin", who, cell, FALSE)

\* Whoever supervises the plan may patch a check-in on it, also one that another held.
PatchFind(p, who, k) ==
  /\ checkin[k].cell # None /\ assertSupervises(who, checkin[k].cell) /\ ~checkin[k].final
  /\ Start(p, "patch", who, k, TRUE)

-----------------------------------------------------------------------------
(* The writes, and what the database makes of them.                        *)

\* The unique index: one reflection per campaign and subject, and no second version of it.
ReflectWrite(p) ==
  LET cell == req[p].on IN
  /\ req[p].op = "reflect"
  /\ reflection' = IF Reflected(cell) THEN reflection
       ELSE [reflection EXCEPT ![cell] =
              [author |-> req[p].who, late |-> <<req[p].who, cell>> \in seen]]
  /\ UNCHANGED <<plan, checkin>>
  /\ Finish(p)

\* Mutant: an upsert, with no trigger behind it.
PlanWriteUpsert(p, items) ==
  LET cell == req[p].on IN
  /\ req[p].op = "plan"
  /\ plan' = [plan EXCEPT ![cell].items = items]
  /\ UNCHANGED <<reflection, checkin>>
  /\ Finish(p)

\* An update if there was a plan, which the trigger refuses once it is final; else a create,
\* which the unique index refuses once there is one.
PlanWrite(p, items) ==
  LET cell == req[p].on
      refused == IF req[p].there THEN plan[cell].final ELSE Planned(cell)
  IN
  /\ req[p].op = "plan"
  /\ plan' = IF refused THEN plan ELSE [plan EXCEPT ![cell].items = items]
  /\ UNCHANGED <<reflection, checkin>>
  /\ Finish(p)

FinaliseWrite(p) ==
  /\ req[p].op = "finalise"
  /\ plan' = [plan EXCEPT ![req[p].on].final = TRUE]
  /\ UNCHANGED <<reflection, checkin>>
  /\ Finish(p)

CheckinWrite(p, k, notes) ==
  /\ req[p].op = "checkin"
  /\ checkin[k].cell = None
  /\ checkin' = [checkin EXCEPT ![k] = [cell |-> req[p].on, notes |-> notes, final |-> FALSE]]
  /\ UNCHANGED <<reflection, plan>>
  /\ Finish(p)

\* New notes, final from now on, or both.
PatchWrite(p, notes, finalise) ==
  LET k == req[p].on IN
  /\ req[p].op = "patch"
  /\ checkin' = IF checkin[k].final THEN checkin
                ELSE [checkin EXCEPT ![k].notes = notes, ![k].final = finalise]
  /\ UNCHANGED <<reflection, plan>>
  /\ Finish(p)

-----------------------------------------------------------------------------
(* readGap                                                                 *)

\* Mutant: the gap is there before the self-assessment is.
GapFindEarly(r, who, cell) ==
  /\ myCycle(who, cell)
  /\ read[r].stage = "idle"
  /\ read' = [read EXCEPT ![r] = [NoRead EXCEPT !.shape = "page", !.stage = "asked",
                                  !.campaigns = {cell[1]}, !.slice = {cell[2]}]]
  /\ gapOf' = [gapOf EXCEPT ![r] = [who |-> who, cell |-> cell]]
  /\ UNCHANGED <<responses, unitOf, changes, linked, archived, cycleVars, req, seen>>

GapFind(r, who, cell) ==
  /\ myCycle(who, cell) /\ Reflected(cell)
  /\ read[r].stage = "idle"
  /\ read' = [read EXCEPT ![r] = [NoRead EXCEPT !.shape = "page", !.stage = "asked",
                                  !.campaigns = {cell[1]}, !.slice = {cell[2]}]]
  /\ gapOf' = [gapOf EXCEPT ![r] = [who |-> who, cell |-> cell]]
  /\ UNCHANGED <<responses, unitOf, changes, linked, archived, cycleVars, req, seen>>

\* A read of Results takes its step; one of a gap that is shown is remembered.
ReadOn(r) ==
  /\ GateCampaigns(r) \/ GateSlice(r) \/ Show(r) \/ Leave(r)
  /\ seen' = IF read'[r].stage = "shown" /\ gapOf[r].who # None
               THEN seen \cup {<<gapOf[r].who, gapOf[r].cell>>} ELSE seen
  /\ gapOf' = IF read'[r].stage = "idle"
                THEN [gapOf EXCEPT ![r] = [who |-> None, cell |-> None]] ELSE gapOf
  /\ UNCHANGED <<linked, archived, cycleVars, req>>

-----------------------------------------------------------------------------
(* subjects/service.ts                                                     *)

Change ==
  /\ changes < MaxChanges
  /\ changes' = changes + 1
  /\ UNCHANGED <<responses, unitOf, read, cycleVars, req, gapOf, seen>>

\* updateSubject with a linkedUserId.
Relink(s, who) ==
  /\ linked[s] # who
  /\ linked' = [linked EXCEPT ![s] = who]
  /\ UNCHANGED archived
  /\ Change

\* archiveSubject: past results keep the subject, its cycles are gone for the reviewee.
Archive(s) ==
  /\ s \notin archived
  /\ archived' = archived \cup {s}
  /\ UNCHANGED linked
  /\ Change

-----------------------------------------------------------------------------
Find(p, who) ==
  \/ \E cell \in Cells : \/ ReflectFind(p, who, cell) \/ PlanFind(p, who, cell)
                         \/ FinaliseFind(p, who, cell) \/ CheckinFind(p, who, cell)
  \/ \E k \in CheckIns : PatchFind(p, who, k)

Write(p) ==
  \/ ReflectWrite(p) \/ FinaliseWrite(p)
  \/ \E t \in Texts : \/ PlanWrite(p, t)
                      \/ \E k \in CheckIns : CheckinWrite(p, k, t)
                      \/ \E finalise \in BOOLEAN : PatchWrite(p, t, finalise)

\* The reads of Results, and what changes under them, with the loop standing still.
Elsewhere ==
  /\ \/ \E r \in Readers :
          \/ \E c \in Campaigns : AskPage(r, c)
          \/ \E shape \in {"comments", "corpus"} : AskMany(r, shape)
     \/ \E cell \in Cells : Respond(cell)
     \/ \E s \in Subjects, u \in Units \cup {None} : MoveSubject(s, u)
  /\ UNCHANGED improveVars

Next ==
  \/ \E p \in Requests : Write(p) \/ \E who \in People : Find(p, who)
  \/ \E r \in Readers : ReadOn(r) \/ \E who \in People, cell \in Cells : GapFind(r, who, cell)
  \/ \E s \in Subjects : Archive(s) \/ \E who \in People \cup {None} : Relink(s, who)
  \/ Elsewhere

Spec == Init /\ [][Next]_vars

-----------------------------------------------------------------------------
(* A finalised plan or check-in and every reflection are evidence: no      *)
(* request changes one again, also one that found it open                  *)
(* (migrations/20260825170000_improve_loop: endur_finalised_is_immutable). *)
RecordsAreFinal ==
  [][/\ \A cell \in Cells : /\ plan[cell].final => plan'[cell] = plan[cell]
                            /\ Reflected(cell) => reflection'[cell] = reflection[cell]
     /\ \A k \in CheckIns : checkin[k].final => checkin'[k] = checkin[k]]_vars

(* The self-assessment comes before the results (service.ts:210): nobody   *)
(* writes one having been shown the gap of that cycle, through any order   *)
(* of linking, relinking, requests at once and two subjects of one person. *)
AssessedBlind == \A cell \in Cells : ~reflection[cell].late

(* What is shown as a person's gap was assessed by that person, as the     *)
(* reply says it is (GapRow.self): fails once the subject is relinked.     *)
GapIsOnesOwn ==
  \A pair \in seen : reflection[pair[2]].author = pair[1]

=============================================================================
