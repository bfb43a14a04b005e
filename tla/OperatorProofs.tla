--------------------------- MODULE OperatorProofs ---------------------------
(***************************************************************************)
(* The operator and the organisation that pays: proofs about the support   *)
(* doors of Support and, in the last section, the plan of Billing, for any *)
(* people, requests and limits. The two are not composed: a theorem speaks *)
(* of Spec or of PlanSpec.                                                 *)
(*                                                                         *)
(* Support: a row never changes but to end, and an entry never forgets its *)
(* door (Kept); what is cached for a door was minted from a row of that    *)
(* very door, which may be any but the newest by the time it is used       *)
(* (Cached); and whoever leaves holds a cookie whose entry has created its *)
(* row already, or never will (Carried).                                   *)
(***************************************************************************)
EXTENDS Support, Billing, FiniteSetTheorems, TLAPS

\* An entry that was admitted has a door; its row comes last, with the time it was closed at.
Entered ==
  \A p \in Entries :
    /\ pc[p] # "idle" => arg[p].browser \in Browsers /\ arg[p].org \in Orgs
    /\ rows[p] # None => pc[p] \in {"opened", "done"}
    /\ pc[p] = "closed" => arg[p].at \in 0..MaxTime

\* Of any rows one is the newest.
Ordered == \A P \in SUBSET {p \in Entries : rows[p] # None} : P # {} => NewestOf(P) # {}

\* A cookie is of an entry that is over.
Carried == \A b \in Browsers : cookie[b] # None => pc[cookie[b]] = "done"

\* Grants are minted from a row of the door, for its operator.
FromDoor(g, door) ==
  \/ g.allow = {}
  \/ \E p \in Entries :
       /\ rows[p] # None /\ Door(p) = door /\ g.validTo = rows[p].expires
       /\ "results.read" \in g.deny \/ Operator(p) \in everOwner

Cached == \A d \in Doors : cache[d] # None => FromDoor(cache[d].grants, d)

\* What was admitted came with a cookie, and what was allowed was conferred.
Conferring(q) ==
  \E p \in Entries :
    /\ rows[p] # None /\ Door(p) = Door(arg[q].sid) /\ arg[q].at < rows[p].expires
    /\ arg[q].cap = "results.read" => Operator(p) \in everOwner

AdmittedOk(q) ==
  /\ pc[q] \in {"admitted", "missed", "decided"} => arg[q].sid \in Entries /\ pc[arg[q].sid] = "done"
  /\ pc[q] = "decided" /\ arg[q].allowed => Conferring(q)

Admitted == \A q \in Requests : AdmittedOk(q)

\* A row that was left is over, and so is whatever made it.
Over(p) == p \in Entries /\ pc[p] = "done" /\ p \notin Unended

Left ==
  /\ \A l \in Leavers : pc[l] = "ended" => Over(arg[l].sid)
  /\ \A p \in dropped : Over(p)

\* The owners are in the history, and a change is of an operator.
Owned ==
  /\ \A o \in Operators : role[o] = "owner" => o \in everOwner
  /\ \A m \in Managers : pc[m] = "changing" => arg[m].target \in Operators

IInv == TypeOK /\ Entered /\ Ordered /\ Carried /\ Cached /\ Admitted /\ Left /\ Owned

-----------------------------------------------------------------------------
At == EntrySteps \cup {"idle", "admitted", "missed", "decided", "ended", "changing", "done"}
Entry == [grants : Grants, until : 0..(MaxTime + TTL)]

LEMMA Numbers ==
  /\ MaxTime \in Nat /\ TTL \in Nat /\ SUPPORT_SESSION_MINUTES \in Nat
  /\ 0..MaxTime \subseteq Times /\ 0 \in Times
  BY SupportAssumption DEF Times

LEMMA Kinds ==
  /\ Entries \subseteq Procs /\ Requests \subseteq Procs /\ Leavers \subseteq Procs
  /\ Managers \subseteq Procs
  /\ \A p \in Entries : p \notin Requests /\ p \notin Leavers /\ p \notin Managers
  /\ \A p \in Requests : p \notin Leavers /\ p \notin Managers
  /\ \A p \in Leavers : p \notin Managers
  /\ None \notin Entries /\ None \notin SessionRows
<1> DEFINE kind == <<Entries, Requests, Leavers, Managers>>
<1>1. \A i, j \in 1..4 : i # j => kind[i] \cap kind[j] = {}
  BY SupportAssumption
<1>2. /\ Entries \cap Requests = {} /\ Entries \cap Leavers = {} /\ Entries \cap Managers = {}
      /\ Requests \cap Leavers = {} /\ Requests \cap Managers = {} /\ Leavers \cap Managers = {}
  <2>1. kind[1] \cap kind[2] = {} /\ kind[1] \cap kind[3] = {} /\ kind[1] \cap kind[4] = {}
    BY <1>1
  <2>2. kind[2] \cap kind[3] = {} /\ kind[2] \cap kind[4] = {} /\ kind[3] \cap kind[4] = {}
    BY <1>1
  <2> QED BY <2>1, <2>2
<1> QED BY <1>2, SupportAssumption DEF Procs

LEMMA Typed ==
  ASSUME TypeOK
  PROVE  /\ role \in [Operators -> Roles] /\ status \in [Operators -> {"active", "disabled"}]
         /\ members \in SUBSET Doors /\ rows \in [Entries -> SessionRows \cup {None}]
         /\ store \in SUBSET Entries /\ cookie \in [Browsers -> Entries \cup {None}]
         /\ cache \in [Doors -> Entry \cup {None}] /\ now \in 0..MaxTime
         /\ arg \in [Procs -> Args] /\ pc \in [Procs -> At]
         /\ everOwner \in SUBSET Operators /\ dropped \in SUBSET Entries
  BY DEF TypeOK, At, Entry

LEMMA ToTypeOK ==
  ASSUME role' \in [Operators -> Roles], status' \in [Operators -> {"active", "disabled"}],
         members' \in SUBSET Doors, rows' \in [Entries -> SessionRows \cup {None}],
         store' \in SUBSET Entries, cookie' \in [Browsers -> Entries \cup {None}],
         cache' \in [Doors -> Entry \cup {None}], now' \in 0..MaxTime,
         arg' \in [Procs -> Args], pc' \in [Procs -> At],
         everOwner' \in SUBSET Operators, dropped' \in SUBSET Entries
  PROVE  TypeOK'
  BY DEF TypeOK, At, Entry

LEMMA ArgFields ==
  ASSUME NEW a \in Args
  PROVE  /\ a.browser \in Browsers \cup {None} /\ a.org \in Orgs \cup {None}
         /\ a.sid \in Entries \cup {None} /\ a.at \in Times /\ a.cap \in Capabilities
         /\ a.allowed \in BOOLEAN /\ a.owned \in BOOLEAN /\ a.crossed \in BOOLEAN
         /\ a.target \in Operators \cup {None} /\ a.patch \in Patches
  BY DEF Args

LEMMA NoArgTyped == NoArg \in Args
  BY Numbers DEF NoArg, Args, Capabilities, Patches, Roles

\* One request moves on.
LEMMA GotoIs ==
  ASSUME TypeOK, NEW p \in Procs, NEW next \in At, NEW a \in Args, Goto(p, next, a)
  PROVE  /\ arg' \in [Procs -> Args] /\ pc' \in [Procs -> At]
         /\ arg'[p] = a /\ pc'[p] = next
         /\ \A q \in Procs \ {p} : arg'[q] = arg[q] /\ pc'[q] = pc[q]
  BY Typed DEF Goto

-----------------------------------------------------------------------------
(* What no step takes back.                                                *)

Kept ==
  /\ \A p \in Entries :
       /\ pc[p] # "idle" => /\ pc'[p] # "idle"
                            /\ arg'[p].browser = arg[p].browser /\ arg'[p].org = arg[p].org
       /\ pc[p] = "done" => pc'[p] = "done"
       /\ rows[p] # None => /\ rows'[p] # None /\ rows'[p].expires = rows[p].expires
                            /\ rows'[p].order = rows[p].order
                            /\ rows[p].ended => rows'[p].ended
       /\ p \in Unended' => p \in Unended \/ pc'[p] # "done"
  /\ everOwner \subseteq everOwner'

LEMMA DoorsStay ==
  ASSUME Kept, NEW p \in Entries, pc[p] # "idle"
  PROVE  Operator(p)' = Operator(p) /\ Door(p)' = Door(p)
  BY DEF Kept, Operator, Door

LEMMA RowsHaveDoors ==
  ASSUME IInv, NEW p \in Entries, rows[p] # None
  PROVE  pc[p] # "idle" /\ rows[p] \in SessionRows /\ rows[p].expires \in Times
         /\ rows[p].order \in Nat
  BY Typed DEF IInv, Entered, SessionRows

LEMMA FromStays ==
  ASSUME IInv, Kept, NEW g, NEW door, FromDoor(g, door)
  PROVE  FromDoor(g, door)'
<1>1. CASE g.allow = {}
  BY <1>1 DEF FromDoor
<1>2. CASE g.allow # {}
  <2>1. PICK p \in Entries :
          /\ rows[p] # None /\ Door(p) = door /\ g.validTo = rows[p].expires
          /\ "results.read" \in g.deny \/ Operator(p) \in everOwner
    BY <1>2 DEF FromDoor
  <2>2. /\ rows'[p] # None /\ Door(p)' = door /\ g.validTo = rows'[p].expires
        /\ "results.read" \in g.deny \/ Operator(p)' \in everOwner'
    BY <2>1, RowsHaveDoors, DoorsStay DEF Kept
  <2> QED BY <2>2 DEF FromDoor
<1> QED BY <1>1, <1>2

LEMMA ConferringStays ==
  ASSUME IInv, Kept, NEW q \in Requests, arg'[q] = arg[q], arg[q].sid \in Entries,
         pc[arg[q].sid] # "idle", Conferring(q)
  PROVE  Conferring(q)'
<1>1. PICK p \in Entries :
        /\ rows[p] # None /\ Door(p) = Door(arg[q].sid) /\ arg[q].at < rows[p].expires
        /\ arg[q].cap = "results.read" => Operator(p) \in everOwner
  BY DEF Conferring
<1>2. Door(arg[q].sid)' = Door(arg[q].sid)
  <2>1. PICK s \in Entries : s = arg[q].sid
    OBVIOUS
  <2>2. Door(s)' = Door(s)
    BY <2>1, DoorsStay
  <2> QED BY <2>1, <2>2 DEF Door, Operator
<1>3. /\ rows'[p] # None /\ Door(p)' = Door(arg[q].sid)' /\ arg'[q].at < rows'[p].expires
      /\ arg'[q].cap = "results.read" => Operator(p)' \in everOwner'
  BY <1>1, <1>2, RowsHaveDoors, DoorsStay DEF Kept
<1> QED BY <1>3 DEF Conferring

LEMMA OverStays ==
  ASSUME IInv, Kept, NEW p, Over(p)
  PROVE  Over(p)'
  BY DEF Over, Kept

\* A step that takes nothing back has to answer for what it adds.
LEMMA Carry ==
  ASSUME IInv, Kept, TypeOK', Entered', Ordered', Owned',
         \A b \in Browsers :
           cookie'[b] = cookie[b] \/ cookie'[b] = None \/ pc'[cookie'[b]] = "done",
         \A d \in Doors : cache'[d] = cache[d] \/ cache'[d] = None \/ FromDoor(cache[d].grants, d)',
         \A q \in Requests :
           (arg'[q] = arg[q] /\ pc'[q] = pc[q]) \/ pc'[q] = "idle" \/ AdmittedOk(q)',
         \A l \in Leavers :
           (arg'[l] = arg[l] /\ pc'[l] = pc[l]) \/ pc'[l] # "ended" \/ Over(arg[l].sid)',
         \A p \in dropped' : p \in dropped \/ Over(p)'
  PROVE  IInv'
<1>1. Carried'
  <2> SUFFICES ASSUME NEW b \in Browsers, cookie'[b] # None PROVE pc'[cookie'[b]] = "done"
    BY DEF Carried
  <2>1. CASE cookie'[b] = cookie[b]
    BY <2>1, Typed DEF IInv, Carried, Kept
  <2> QED BY <2>1
<1>2. Cached'
  <2> SUFFICES ASSUME NEW d \in Doors, cache'[d] = cache[d], cache[d] # None
               PROVE  FromDoor(cache[d].grants, d)'
    BY DEF Cached, Doors
  <2>1. PICK g : g = cache[d].grants
    OBVIOUS
  <2>2. FromDoor(g, d)
    BY <2>1 DEF IInv, Cached
  <2>3. FromDoor(g, d)'
    BY <2>2, FromStays
  <2> QED BY <2>1, <2>3 DEF FromDoor
<1>3. Admitted'
  <2> SUFFICES ASSUME NEW q \in Requests, arg'[q] = arg[q], pc'[q] = pc[q]
               PROVE  AdmittedOk(q)'
    BY DEF Admitted, AdmittedOk
  <2>1. AdmittedOk(q)
    BY DEF IInv, Admitted
  <2>2. pc[q] \in {"admitted", "missed", "decided"} =>
          arg[q].sid \in Entries /\ pc[arg[q].sid] = "done" /\ pc'[arg[q].sid] = "done"
    BY <2>1 DEF AdmittedOk, Kept
  <2>3. pc[q] = "decided" /\ arg[q].allowed => Conferring(q)'
    BY <2>1, <2>2, ConferringStays DEF AdmittedOk
  <2> QED BY <2>2, <2>3 DEF AdmittedOk
<1>4. Left'
  <2>1. ASSUME NEW l \in Leavers, arg'[l] = arg[l], pc'[l] = pc[l], pc[l] = "ended"
        PROVE  Over(arg[l].sid)'
    <3>1. PICK s : s = arg[l].sid
      OBVIOUS
    <3>2. Over(s)
      BY <2>1, <3>1 DEF IInv, Left
    <3>3. Over(s)'
      BY <3>2, OverStays
    <3> QED BY <2>1, <3>1, <3>3 DEF Over
  <2>2. ASSUME NEW p \in dropped PROVE Over(p)'
    BY OverStays DEF IInv, Left
  <2> QED BY <2>1, <2>2 DEF Left
<1> QED BY <1>1, <1>2, <1>3, <1>4 DEF IInv

LEMMA OrderedStays ==
  ASSUME IInv,
         \A p \in Entries : rows'[p] # None <=> rows[p] # None,
         \A p \in Entries : rows[p] # None => rows'[p].order = rows[p].order
  PROVE  Ordered'
<1> SUFFICES ASSUME NEW P \in SUBSET {p \in Entries : rows[p] # None}, P # {}
             PROVE  NewestOf(P)' # {}
  BY DEF Ordered
<1>1. PICK p \in P : \A q \in P : rows[q].order <= rows[p].order
  BY DEF IInv, Ordered, NewestOf
<1> QED BY <1>1 DEF NewestOf

\* The rows of some entries end.
LEMMA EndingIs ==
  ASSUME TypeOK, NEW P, P \subseteq Unended, rows' = Ending(P)
  PROVE  /\ rows' \in [Entries -> SessionRows \cup {None}]
         /\ \A p \in Entries :
              /\ rows'[p] # None <=> rows[p] # None
              /\ rows[p] # None => /\ rows'[p].expires = rows[p].expires
                                   /\ rows'[p].order = rows[p].order
                                   /\ rows[p].ended => rows'[p].ended
              /\ p \in P => rows'[p].ended
              /\ p \notin P => rows'[p] = rows[p]
<1>1. \A p \in P : p \in Entries /\ rows[p] \in SessionRows
  BY Typed DEF Unended
<1>2. ASSUME NEW r \in SessionRows
      PROVE  /\ [r EXCEPT !.ended = TRUE] \in SessionRows
             /\ [r EXCEPT !.ended = TRUE].expires = r.expires
             /\ [r EXCEPT !.ended = TRUE].order = r.order
             /\ [r EXCEPT !.ended = TRUE].ended
             /\ [r EXCEPT !.ended = TRUE] # None
  <2>1. [r EXCEPT !.ended = TRUE] \in SessionRows
    BY DEF SessionRows
  <2> QED BY <2>1, Kinds DEF SessionRows
<1>3. rows' = [p \in Entries |-> IF p \in P THEN [rows[p] EXCEPT !.ended = TRUE] ELSE rows[p]]
  BY DEF Ending
<1>4. ASSUME NEW p \in Entries
      PROVE  /\ p \in P => rows'[p] = [rows[p] EXCEPT !.ended = TRUE]
             /\ p \notin P => rows'[p] = rows[p]
  BY <1>3
<1>5. rows' \in [Entries -> SessionRows \cup {None}]
  BY <1>1, <1>2, <1>3, Typed
<1>6. ASSUME NEW p \in Entries
      PROVE  /\ rows'[p] # None <=> rows[p] # None
             /\ rows[p] # None => /\ rows'[p].expires = rows[p].expires
                                  /\ rows'[p].order = rows[p].order
                                  /\ rows[p].ended => rows'[p].ended
             /\ p \in P => rows'[p].ended
             /\ p \notin P => rows'[p] = rows[p]
  <2>1. CASE p \in P
    <3>1. rows[p] \in SessionRows /\ rows[p] # None /\ rows'[p] = [rows[p] EXCEPT !.ended = TRUE]
      BY <2>1, <1>1, <1>4 DEF Unended
    <3> QED BY <2>1, <3>1, <1>2
  <2>2. CASE p \notin P
    BY <2>2, <1>4
  <2> QED BY <2>1, <2>2
<1> QED BY <1>5, <1>6

-----------------------------------------------------------------------------
(* Entering.                                                               *)

LEMMA EntryMoves ==
  ASSUME IInv, NEW p \in Entries, NEW next \in EntrySteps \cup {"done"}, NEW a \in Args,
         Goto(p, next, a), UNCHANGED <<role, status, rows, cache, now, everOwner, dropped>>,
         pc[p] # "done", a.browser \in Browsers, a.org \in Orgs,
         pc[p] # "idle" => a.browser = arg[p].browser /\ a.org = arg[p].org,
         rows[p] # None => next \in {"opened", "done"},
         next = "closed" => a.at \in 0..MaxTime,
         members' \in SUBSET Doors, store' \in SUBSET Entries,
         cookie' \in [Browsers -> Entries \cup {None}],
         \A b \in Browsers : cookie'[b] = cookie[b] \/ (cookie'[b] = p /\ next = "done")
  PROVE  IInv'
<1>1. /\ arg' \in [Procs -> Args] /\ pc' \in [Procs -> At]
      /\ arg'[p] = a /\ pc'[p] = next
      /\ \A q \in Procs \ {p} : arg'[q] = arg[q] /\ pc'[q] = pc[q]
  BY GotoIs, Kinds DEF IInv, At
<1>2. TypeOK'
  BY <1>1, Typed, ToTypeOK DEF IInv
<1>3. Kept
  BY <1>1, Kinds DEF Kept, EntrySteps, Unended
<1>4. Entered'
  BY <1>1, Kinds DEF IInv, Entered, EntrySteps
<1>5. Ordered' /\ Owned'
  BY <1>1, OrderedStays, Kinds DEF IInv, Owned
<1>6. \A q \in Requests \cup Leavers : arg'[q] = arg[q] /\ pc'[q] = pc[q]
  BY <1>1, Kinds
<1> QED BY <1>1, <1>2, <1>3, <1>4, <1>5, <1>6, Carry

LEMMA EntryBasics ==
  ASSUME IInv, NEW p \in Entries, pc[p] \in EntrySteps
  PROVE  /\ arg[p] \in Args /\ arg[p].browser \in Browsers /\ arg[p].org \in Orgs
         /\ arg[p].at \in Times /\ pc[p] \notin {"idle", "done"} /\ Door(p) \in Doors
<1>1. arg[p] \in Args /\ arg[p].browser \in Browsers /\ arg[p].org \in Orgs
  BY Typed, Kinds DEF IInv, Entered, EntrySteps
<1>2. By[arg[p].browser] \in Operators
  BY <1>1, SupportAssumption
<1> QED BY <1>1, <1>2, ArgFields DEF EntrySteps, Door, Doors, Operator

LEMMA EnterKeeps ==
  ASSUME IInv, NEW p \in Entries, NEW b \in Browsers, NEW org \in Orgs, EnterCheck(p, b, org)
  PROVE  IInv'
<1> DEFINE a == [NoArg EXCEPT !.browser = b, !.org = org, !.sid = cookie[b]]
<1>1. pc[p] = "idle" /\ Goto(p, "entering", a) /\ UNCHANGED <<tables, memory, now, history>>
  BY DEF EnterCheck
<1>2. cookie[b] \in Entries \cup {None}
  BY Typed DEF IInv
<1>3. a \in Args /\ a.browser = b /\ a.org = org
  BY <1>2, NoArgTyped DEF NoArg, Args
<1> HIDE DEF a
<1>4. rows[p] = None
  BY <1>1 DEF IInv, Entered
<1>5. /\ UNCHANGED <<role, status, rows, cache, now, everOwner, dropped>>
      /\ members' = members /\ store' = store /\ cookie' = cookie
  BY <1>1 DEF tables, memory, history
<1> QED BY <1>1, <1>3, <1>4, <1>5, Typed, EntryMoves DEF IInv, EntrySteps

LEMMA RegenerateKeeps ==
  ASSUME IInv, NEW p \in Entries, Regenerate(p)
  PROVE  IInv'
<1> DEFINE a == [arg[p] EXCEPT !.sid = None]
<1>1. /\ pc[p] = "entering" /\ store' = (store \ {arg[p].sid}) \cup {p}
      /\ Goto(p, "regenerated", a)
      /\ UNCHANGED <<tables, cookie, cache, now, history>>
  BY DEF Regenerate
<1>2. arg[p] \in Args /\ arg[p].browser \in Browsers /\ arg[p].org \in Orgs
  BY <1>1, EntryBasics DEF EntrySteps
<1>3. a \in Args /\ a.browser = arg[p].browser /\ a.org = arg[p].org
  BY <1>2 DEF Args
<1> HIDE DEF a
<1>4. rows[p] = None
  BY <1>1 DEF IInv, Entered
<1>5. /\ UNCHANGED <<role, status, rows, cache, now, everOwner, dropped>>
      /\ members' = members /\ cookie' = cookie
  BY <1>1 DEF tables, history
<1>6. store' \in SUBSET Entries
  BY <1>1, Typed DEF IInv
<1> QED BY <1>1, <1>2, <1>3, <1>4, <1>5, <1>6, Typed, EntryMoves DEF IInv, EntrySteps

LEMMA MemberKeeps ==
  ASSUME IInv, NEW p \in Entries, ensureSupportUser(p)
  PROVE  IInv'
<1>1. /\ pc[p] = "regenerated" /\ members' = members \cup {Door(p)}
      /\ Goto(p, "member", arg[p])
      /\ UNCHANGED <<role, status, rows, memory, now, history>>
  BY DEF ensureSupportUser
<1>2. arg[p] \in Args /\ arg[p].browser \in Browsers /\ arg[p].org \in Orgs /\ Door(p) \in Doors
  BY <1>1, EntryBasics DEF EntrySteps
<1>3. rows[p] = None
  BY <1>1 DEF IInv, Entered
<1>4. /\ UNCHANGED <<role, status, rows, cache, now, everOwner, dropped>>
      /\ store' = store /\ cookie' = cookie
  BY <1>1 DEF memory, history
<1>5. members' \in SUBSET Doors
  BY <1>1, <1>2, Typed DEF IInv
<1> QED BY <1>1, <1>2, <1>3, <1>4, <1>5, Typed, EntryMoves DEF IInv, EntrySteps

LEMMA CloseKeeps ==
  ASSUME IInv, NEW p \in Entries, CloseEarlier(p)
  PROVE  IInv'
<1> DEFINE a == [arg[p] EXCEPT !.at = now]
<1>1. /\ pc[p] = "member" /\ rows' = Ending({q \in Unended : Door(q) = Door(p)})
      /\ Goto(p, "closed", a)
      /\ UNCHANGED <<role, status, members, memory, now, history>>
  BY DEF CloseEarlier
<1>2. /\ arg[p] \in Args /\ arg[p].browser \in Browsers /\ arg[p].org \in Orgs
      /\ now \in 0..MaxTime /\ now \in Times
  BY <1>1, EntryBasics, Typed, Numbers DEF EntrySteps, IInv
<1>3. a \in Args /\ a.browser = arg[p].browser /\ a.org = arg[p].org /\ a.at = now
  BY <1>2 DEF Args
<1> HIDE DEF a
<1>4. /\ arg' \in [Procs -> Args] /\ pc' \in [Procs -> At]
      /\ arg'[p] = a /\ pc'[p] = "closed"
      /\ \A q \in Procs \ {p} : arg'[q] = arg[q] /\ pc'[q] = pc[q]
  BY <1>1, <1>3, GotoIs, Kinds DEF IInv, At, EntrySteps
<1>5. /\ rows' \in [Entries -> SessionRows \cup {None}]
      /\ \A q \in Entries :
           /\ rows'[q] # None <=> rows[q] # None
           /\ rows[q] # None => /\ rows'[q].expires = rows[q].expires
                                /\ rows'[q].order = rows[q].order
                                /\ rows[q].ended => rows'[q].ended
  BY <1>1, EndingIs DEF IInv
<1>6. UNCHANGED <<role, status, members, store, cookie, cache, now, everOwner, dropped>>
  BY <1>1 DEF memory, history
<1>7. TypeOK'
  BY <1>4, <1>5, <1>6, Typed, ToTypeOK DEF IInv
<1>8. Kept
  BY <1>1, <1>3, <1>4, <1>5, <1>6, Kinds DEF Kept, Unended
<1>9. Entered'
  BY <1>1, <1>2, <1>3, <1>4, <1>5, Kinds DEF IInv, Entered
<1>10. Ordered' /\ Owned'
  BY <1>4, <1>5, <1>6, OrderedStays, Kinds DEF IInv, Owned
<1>11. \A q \in Requests \cup Leavers : arg'[q] = arg[q] /\ pc'[q] = pc[q]
  BY <1>4, Kinds
<1> QED BY <1>6, <1>7, <1>8, <1>9, <1>10, <1>11, Carry

\* The row comes after every other, and there was none of this entry.
LEMMA CreateKeeps ==
  ASSUME IInv, NEW p \in Entries, CreateRow(p)
  PROVE  IInv'
<1> DEFINE earlier == {q \in Entries : rows[q] # None}
           orders == {0} \cup {rows[q].order : q \in earlier}
           last == CHOOSE n \in orders : \A q \in earlier : rows[q].order <= n
           new == [expires |-> arg[p].at + SUPPORT_SESSION_MINUTES, ended |-> FALSE, order |-> last + 1]
<1>1. /\ pc[p] = "closed" /\ rows' = [rows EXCEPT ![p] = new]
      /\ arg' = [q \in Procs |->
                   IF q \in Entries \ {p} /\ pc[q] = "closed" /\ Door(q) = Door(p)
                     THEN [arg[q] EXCEPT !.crossed = TRUE]
                     ELSE IF q = p THEN [arg[q] EXCEPT !.at = 0] ELSE arg[q]]
      /\ pc' = [pc EXCEPT ![p] = "opened"]
      /\ UNCHANGED <<role, status, members, memory, now, history>>
  BY DEF CreateRow
<1>2. rows[p] = None /\ arg[p].at \in 0..MaxTime /\ TypeOK /\ p \in Procs
  BY <1>1, Kinds DEF IInv, Entered
<1>3. \A q \in earlier : rows[q].order \in Nat
  BY RowsHaveDoors
<1>4. last \in Nat /\ \A q \in earlier : rows[q].order <= last
  <2>1. \E n \in orders : \A q \in earlier : rows[q].order <= n
    <3>1. CASE earlier = {}
      BY <3>1
    <3>2. CASE earlier # {}
      <4>1. NewestOf(earlier) # {}
        BY <3>2 DEF IInv, Ordered
      <4>2. PICK m \in earlier : \A q \in earlier : rows[q].order <= rows[m].order
        BY <4>1 DEF NewestOf
      <4> QED BY <4>2
    <3> QED BY <3>1, <3>2
  <2>2. last \in orders /\ \A q \in earlier : rows[q].order <= last
    BY <2>1
  <2>3. \A n \in orders : n \in Nat
    BY <1>3
  <2> HIDE DEF orders, last
  <2> QED BY <2>2, <2>3
<1> HIDE DEF orders, last
<1>5. /\ new \in SessionRows /\ new # None /\ new.order = last + 1
  <2>1. arg[p].at + SUPPORT_SESSION_MINUTES \in Times
    BY <1>2, Numbers DEF Times
  <2>2. new \in SessionRows
    BY <2>1, <1>4 DEF SessionRows
  <2> QED BY <2>2, Kinds
<1> HIDE DEF new
<1>6. /\ rows' \in [Entries -> SessionRows \cup {None}] /\ rows'[p] = new
      /\ \A q \in Entries \ {p} : rows'[q] = rows[q]
      /\ pc' \in [Procs -> At] /\ pc'[p] = "opened" /\ \A q \in Procs \ {p} : pc'[q] = pc[q]
  BY <1>1, <1>2, <1>5, Typed DEF At, EntrySteps
<1>7. ASSUME NEW q \in Procs
      PROVE  /\ arg'[q] \in Args /\ arg'[q].browser = arg[q].browser /\ arg'[q].org = arg[q].org
             /\ q # p => arg'[q].at = arg[q].at
             /\ q \notin Entries => arg'[q] = arg[q]
  <2>1. arg[q] \in Args
    BY <1>2, Typed
  <2>2. ASSUME NEW a \in Args
        PROVE  /\ [a EXCEPT !.crossed = TRUE] \in Args /\ [a EXCEPT !.at = 0] \in Args
               /\ [a EXCEPT !.crossed = TRUE].browser = a.browser
               /\ [a EXCEPT !.crossed = TRUE].org = a.org
               /\ [a EXCEPT !.crossed = TRUE].at = a.at
               /\ [a EXCEPT !.at = 0].browser = a.browser /\ [a EXCEPT !.at = 0].org = a.org
    BY Numbers DEF Args
  <2>3. \/ q \in Entries \ {p} /\ arg'[q] = [arg[q] EXCEPT !.crossed = TRUE]
        \/ q = p /\ arg'[q] = [arg[q] EXCEPT !.at = 0]
        \/ arg'[q] = arg[q]
    BY <1>1
  <2> QED BY <2>1, <2>2, <2>3
<1>8. arg' \in [Procs -> Args]
  <2>1. arg' = [q \in Procs |-> arg'[q]]
    BY <1>1
  <2> QED BY <2>1, <1>7
<1>9. UNCHANGED <<role, status, members, store, cookie, cache, now, everOwner, dropped>>
  BY <1>1 DEF memory, history
<1>10. TypeOK'
  BY <1>2, <1>6, <1>8, <1>9, Typed, ToTypeOK
<1>11. Kept
  BY <1>1, <1>2, <1>6, <1>7, <1>9, Kinds DEF Kept, Unended
<1>12. Entered'
  BY <1>1, <1>6, <1>7, Kinds DEF IInv, Entered
<1>13. Ordered'
  <2> SUFFICES ASSUME NEW P \in SUBSET {q \in Entries : rows'[q] # None}, P # {}
               PROVE  NewestOf(P)' # {}
    BY DEF Ordered
  <2>1. P \ {p} \subseteq earlier
    BY <1>6
  <2>2. CASE p \in P
    <3>1. \A q \in P \ {p} : rows'[q].order <= rows'[p].order
      BY <2>1, <1>3, <1>4, <1>5, <1>6
    <3>2. rows'[p].order <= rows'[p].order
      BY <1>4, <1>5, <1>6
    <3> QED BY <2>2, <3>1, <3>2 DEF NewestOf
  <2>3. CASE p \notin P
    <3>1. PICK m \in P : \A q \in P : rows[q].order <= rows[m].order
      BY <2>1, <2>3 DEF IInv, Ordered, NewestOf
    <3> QED BY <2>1, <2>3, <3>1, <1>6 DEF NewestOf
  <2> QED BY <2>2, <2>3
<1>14. Owned'
  BY <1>6, <1>7, <1>9, Kinds DEF IInv, Owned
<1>15. \A q \in Requests \cup Leavers : arg'[q] = arg[q] /\ pc'[q] = pc[q]
  BY <1>6, <1>7, Kinds
<1> QED BY <1>9, <1>10, <1>11, <1>12, <1>13, <1>14, <1>15, Carry

LEMMA AnswerKeeps ==
  ASSUME IInv, NEW p \in Entries, AnswerEntry(p) \/ FailEntry(p)
  PROVE  IInv'
<1>1. /\ pc[p] \in EntrySteps /\ Goto(p, "done", arg[p])
      /\ cookie' = cookie \/ cookie' = [cookie EXCEPT ![arg[p].browser] = p]
      /\ UNCHANGED <<tables, store, cache, now, history>>
  BY DEF AnswerEntry, FailEntry, EntrySteps
<1>2. arg[p] \in Args /\ arg[p].browser \in Browsers /\ arg[p].org \in Orgs
      /\ pc[p] \notin {"idle", "done"}
  BY <1>1, EntryBasics
<1>3. /\ cookie' \in [Browsers -> Entries \cup {None}]
      /\ \A b \in Browsers : cookie'[b] = cookie[b] \/ cookie'[b] = p
  BY <1>1, Typed DEF IInv
<1>4. UNCHANGED <<role, status, rows, cache, now, everOwner, dropped>>
      /\ members' = members /\ store' = store
  BY <1>1 DEF tables, history
<1> QED BY <1>1, <1>2, <1>3, <1>4, Typed, EntryMoves DEF IInv

-----------------------------------------------------------------------------
(* Working inside.                                                         *)

\* A step of a request: the entries, and whoever leaves, know nothing of it.
LEMMA RequestMoves ==
  ASSUME IInv, NEW q \in Requests, NEW next \in At, NEW a \in Args, Goto(q, next, a),
         UNCHANGED <<tables, store, cookie, now, history>>,
         cache' \in [Doors -> Entry \cup {None}],
         \A d \in Doors : cache'[d] = cache[d] \/ FromDoor(cache'[d].grants, d),
         next \in {"admitted", "missed", "decided"} => a.sid \in Entries /\ pc[a.sid] = "done",
         next = "decided" /\ a.allowed =>
           \E p \in Entries :
             /\ rows[p] # None /\ Door(p) = Door(a.sid) /\ a.at < rows[p].expires
             /\ a.cap = "results.read" => Operator(p) \in everOwner
  PROVE  IInv'
<1>1. /\ arg' \in [Procs -> Args] /\ pc' \in [Procs -> At]
      /\ arg'[q] = a /\ pc'[q] = next
      /\ \A r \in Procs \ {q} : arg'[r] = arg[r] /\ pc'[r] = pc[r]
  BY GotoIs, Kinds DEF IInv
<1>2. UNCHANGED <<role, status, members, rows, store, cookie, now, everOwner, dropped>>
  BY DEF tables, history
<1>3. TypeOK'
  BY <1>1, <1>2, Typed, ToTypeOK DEF IInv
<1>4. \A p \in Procs : p \notin Requests => arg'[p] = arg[p] /\ pc'[p] = pc[p]
  BY <1>1
<1>5. Kept
  BY <1>2, <1>4, Kinds DEF Kept, Unended
<1>6. Entered' /\ Owned'
  BY <1>2, <1>4, Kinds DEF IInv, Entered, Owned
<1>7. Ordered'
  BY <1>2, OrderedStays
<1>8. \A p \in Entries : Door(p)' = Door(p) /\ Operator(p)' = Operator(p)
  BY <1>4, Kinds DEF Door, Operator
<1>9. AdmittedOk(q)'
  <2>1. pc'[q] \in {"admitted", "missed", "decided"} =>
          arg'[q].sid \in Entries /\ pc'[arg'[q].sid] = "done"
    BY <1>1, <1>4, Kinds
  <2>2. ASSUME pc'[q] = "decided", arg'[q].allowed PROVE Conferring(q)'
    <3>1. PICK p \in Entries :
            /\ rows[p] # None /\ Door(p) = Door(a.sid) /\ a.at < rows[p].expires
            /\ a.cap = "results.read" => Operator(p) \in everOwner
      BY <1>1, <2>2
    <3>2. a.sid \in Entries /\ arg'[q] = a
      BY <1>1, <2>2
    <3>3. Door(p)' = Door(p) /\ Operator(p)' = Operator(p) /\ Door(a.sid)' = Door(a.sid)
      BY <1>8, <3>2
    <3>4. Door(arg[q].sid)' = Door(a.sid)'
      BY <3>2 DEF Door, Operator
    <3> QED BY <1>2, <3>1, <3>2, <3>3, <3>4 DEF Conferring
  <2> QED BY <2>1, <2>2 DEF AdmittedOk
<1>10. ASSUME NEW d \in Doors, cache'[d] # cache[d] PROVE FromDoor(cache[d].grants, d)'
  <2>1. PICK g : g = cache'[d].grants
    OBVIOUS
  <2>2. FromDoor(g, d)'
    BY <1>5, <1>10, <2>1, FromStays
  <2> QED BY <2>1, <2>2 DEF FromDoor
<1>11. \A r \in Requests : (arg'[r] = arg[r] /\ pc'[r] = pc[r]) \/ AdmittedOk(r)'
  BY <1>1, <1>9, Kinds
<1>12. \A l \in Leavers : arg'[l] = arg[l] /\ pc'[l] = pc[l]
  BY <1>4, Kinds
<1> QED BY <1>2, <1>3, <1>5, <1>6, <1>7, <1>10, <1>11, <1>12, Carry

LEMMA MintedFrom ==
  ASSUME IInv, NEW door \in Doors, NEW at_
  PROVE  /\ supportGrantWindow(door, at_) \in Grants
         /\ FromDoor(supportGrantWindow(door, at_), door)
<1> DEFINE open == {p \in Open(at_) : Door(p) = door}
<1>1. CASE open = {}
  <2>1. supportGrantWindow(door, at_) = NoGrants
    BY <1>1 DEF supportGrantWindow, Conferred
  <2>2. NoGrants \in Grants /\ NoGrants.allow = {}
    BY Numbers DEF NoGrants, Grants
  <2> QED BY <2>1, <2>2 DEF FromDoor
<1>2. CASE open # {}
  <2> DEFINE p == CHOOSE r \in NewestOf(open) : TRUE
  <2>1. open \subseteq {r \in Entries : rows[r] # None}
    BY DEF Open, Unended
  <2>2. supportGrantWindow(door, at_) = Mint(role[Operator(p)], rows[p].expires)
    BY <1>2 DEF supportGrantWindow, Conferred
  <2>3. NewestOf(open) # {}
    BY <1>2, <2>1 DEF IInv, Ordered
  <2>4. p \in open
    BY <2>3 DEF NewestOf
  <2> HIDE DEF p
  <2>5. p \in Entries /\ rows[p] # None /\ Door(p) = door /\ rows[p].expires \in Times
    BY <2>1, <2>4, RowsHaveDoors
  <2>6. Operator(p) \in Operators /\ role[Operator(p)] \in Roles
    BY <2>5, Typed DEF Door, Doors, IInv
  <2>7. "results.read" \in supportDeniedFor(role[Operator(p)]) \/ Operator(p) \in everOwner
    BY <2>6 DEF supportDeniedFor, IInv, Owned
  <2>8. /\ Mint(role[Operator(p)], rows[p].expires) \in Grants
        /\ Mint(role[Operator(p)], rows[p].expires).validTo = rows[p].expires
        /\ Mint(role[Operator(p)], rows[p].expires).deny = supportDeniedFor(role[Operator(p)])
    BY <2>5 DEF Mint, Grants, Capabilities, supportDeniedFor
  <2> QED BY <2>2, <2>5, <2>7, <2>8 DEF FromDoor
<1> QED BY <1>1, <1>2

\* Grants of a door that allow something were conferred by a row of it.
LEMMA AllowedIsConferred ==
  ASSUME NEW g \in Grants, NEW door, NEW cap, NEW at_, FromDoor(g, door), Allows(g, cap, at_)
  PROVE  \E p \in Entries :
           /\ rows[p] # None /\ Door(p) = door /\ at_ < rows[p].expires
           /\ cap = "results.read" => Operator(p) \in everOwner
<1>1. /\ g.validTo > at_ /\ cap \in g.allow /\ cap \notin g.deny
  BY DEF Allows
<1>2. PICK p \in Entries :
        /\ rows[p] # None /\ Door(p) = door /\ g.validTo = rows[p].expires
        /\ "results.read" \in g.deny \/ Operator(p) \in everOwner
  BY <1>1 DEF FromDoor
<1>3. at_ < rows[p].expires /\ (cap = "results.read" => Operator(p) \in everOwner)
  BY <1>1, <1>2
<1> QED BY <1>2, <1>3

LEMMA RequestBasics ==
  ASSUME IInv, NEW q \in Requests, pc[q] \in {"admitted", "missed"}
  PROVE  /\ arg[q] \in Args /\ arg[q].sid \in Entries /\ pc[arg[q].sid] = "done"
         /\ Door(arg[q].sid) \in Doors
<1>1. arg[q] \in Args /\ arg[q].sid \in Entries /\ pc[arg[q].sid] = "done"
  BY Typed, Kinds DEF IInv, Admitted, AdmittedOk
<1>2. arg[arg[q].sid].browser \in Browsers /\ arg[arg[q].sid].org \in Orgs
  BY <1>1 DEF IInv, Entered
<1>3. By[arg[arg[q].sid].browser] \in Operators
  BY <1>2, SupportAssumption
<1> QED BY <1>1, <1>2, <1>3 DEF Door, Doors, Operator

LEMMA AdmitKeeps ==
  ASSUME IInv, NEW q \in Requests, NEW b \in Browsers, NEW cap \in Capabilities, Admit(q, b, cap)
  PROVE  IInv'
<1> DEFINE a == [NoArg EXCEPT !.sid = cookie[b], !.cap = cap]
<1>1. Inside(b) /\ Goto(q, "admitted", a) /\ UNCHANGED <<tables, memory, now, history>>
  BY DEF Admit
<1>2. cookie[b] \in Entries /\ pc[cookie[b]] = "done"
  BY <1>1, Typed, Kinds DEF IInv, Inside, Carried
<1>3. a \in Args /\ a.sid = cookie[b]
  BY <1>2, NoArgTyped DEF NoArg, Args
<1> HIDE DEF a
<1>4. UNCHANGED <<tables, store, cookie, now, history>> /\ cache' = cache
  BY <1>1 DEF memory
<1> QED BY <1>1, <1>2, <1>3, <1>4, Typed, RequestMoves DEF IInv, At

LEMMA CachedKeeps ==
  ASSUME IInv, NEW q \in Requests, CheckCached(q)
  PROVE  IInv'
<1> DEFINE door == Door(arg[q].sid)
           a == [arg[q] EXCEPT !.at = now, !.owned = OwnerAt(q),
                               !.allowed = Allows(cache[door].grants, arg[q].cap, now)]
<1>1. /\ pc[q] = "admitted" /\ Fresh(door) /\ Goto(q, "decided", a)
      /\ UNCHANGED <<tables, memory, now, history>>
  BY DEF CheckCached
<1>2. /\ arg[q] \in Args /\ arg[q].sid \in Entries /\ pc[arg[q].sid] = "done" /\ door \in Doors
  BY <1>1, RequestBasics
<1>3. cache[door].grants \in Grants /\ FromDoor(cache[door].grants, door)
  BY <1>1, <1>2, Typed DEF IInv, Cached, Fresh, Entry
<1>4. /\ a \in Args /\ a.sid = arg[q].sid /\ a.at = now /\ a.cap = arg[q].cap
      /\ a.allowed = Allows(cache[door].grants, arg[q].cap, now)
  <2>1. now \in Times
    BY Typed, Numbers DEF IInv
  <2>2. OwnerAt(q) \in BOOLEAN /\ Allows(cache[door].grants, arg[q].cap, now) \in BOOLEAN
    BY DEF OwnerAt, Allows
  <2> QED BY <1>2, <2>1, <2>2 DEF Args
<1> HIDE DEF a, door
<1>5. a.allowed =>
        \E p \in Entries :
          /\ rows[p] # None /\ Door(p) = door /\ a.at < rows[p].expires
          /\ a.cap = "results.read" => Operator(p) \in everOwner
  BY <1>3, <1>4, AllowedIsConferred
<1>6. UNCHANGED <<tables, store, cookie, now, history>> /\ cache' = cache
  BY <1>1 DEF memory
<1> QED BY <1>1, <1>2, <1>4, <1>5, <1>6, Typed, RequestMoves DEF IInv, At, door

LEMMA MissedKeeps ==
  ASSUME IInv, NEW q \in Requests, CheckMissed(q)
  PROVE  IInv'
<1> DEFINE a == [arg[q] EXCEPT !.at = now, !.owned = OwnerAt(q)]
<1>1. /\ pc[q] = "admitted" /\ Goto(q, "missed", a) /\ UNCHANGED <<tables, memory, now, history>>
  BY DEF CheckMissed
<1>2. arg[q] \in Args /\ arg[q].sid \in Entries /\ pc[arg[q].sid] = "done"
  BY <1>1, RequestBasics
<1>3. a \in Args /\ a.sid = arg[q].sid
  <2>1. now \in Times /\ OwnerAt(q) \in BOOLEAN
    BY Typed, Numbers DEF IInv, OwnerAt
  <2> QED BY <1>2, <2>1 DEF Args
<1> HIDE DEF a
<1>4. UNCHANGED <<tables, store, cookie, now, history>> /\ cache' = cache
  BY <1>1 DEF memory
<1> QED BY <1>1, <1>2, <1>3, <1>4, Typed, RequestMoves DEF IInv, At

LEMMA CollectKeeps ==
  ASSUME IInv, NEW q \in Requests, Collect(q)
  PROVE  IInv'
<1> DEFINE door == Door(arg[q].sid)
           grants == supportGrantWindow(door, arg[q].at)
           a == [arg[q] EXCEPT !.allowed = Allows(grants, arg[q].cap, arg[q].at),
                               !.owned = arg[q].owned \/ OwnerAt(q)]
<1>1. /\ pc[q] = "missed"
      /\ cache' = [cache EXCEPT ![door] = [grants |-> grants, until |-> now + TTL]]
      /\ Goto(q, "decided", a)
      /\ UNCHANGED <<tables, store, cookie, now, history>>
  BY DEF Collect
<1>2. /\ arg[q] \in Args /\ arg[q].sid \in Entries /\ pc[arg[q].sid] = "done" /\ door \in Doors
  BY <1>1, RequestBasics
<1>3. grants \in Grants /\ FromDoor(grants, door)
  BY <1>2, MintedFrom
<1>4. /\ a \in Args /\ a.sid = arg[q].sid /\ a.at = arg[q].at /\ a.cap = arg[q].cap
      /\ a.allowed = Allows(grants, arg[q].cap, arg[q].at)
  <2>1. /\ (arg[q].owned \/ OwnerAt(q)) \in BOOLEAN
        /\ Allows(grants, arg[q].cap, arg[q].at) \in BOOLEAN
    BY DEF OwnerAt, Allows
  <2> QED BY <1>2, <2>1 DEF Args
<1> HIDE DEF a, grants, door
<1>5. a.allowed =>
        \E p \in Entries :
          /\ rows[p] # None /\ Door(p) = door /\ a.at < rows[p].expires
          /\ a.cap = "results.read" => Operator(p) \in everOwner
  <2>1. PICK g \in Grants : g = grants
    BY <1>3
  <2>2. PICK cap, at_ : cap = arg[q].cap /\ at_ = arg[q].at
    OBVIOUS
  <2>3. FromDoor(g, door) /\ (a.allowed => Allows(g, cap, at_))
    BY <1>3, <1>4, <2>1, <2>2
  <2>4. a.allowed =>
          \E p \in Entries :
            /\ rows[p] # None /\ Door(p) = door /\ at_ < rows[p].expires
            /\ cap = "results.read" => Operator(p) \in everOwner
    BY <2>3, AllowedIsConferred
  <2> QED BY <1>4, <2>2, <2>4
<1>6. /\ cache' \in [Doors -> Entry \cup {None}]
      /\ \A d \in Doors : cache'[d] = cache[d] \/ FromDoor(cache'[d].grants, d)
  <2>1. [grants |-> grants, until |-> now + TTL] \in Entry
    BY <1>3, Typed, Numbers DEF Entry, IInv
  <2> QED BY <1>1, <1>2, <1>3, <2>1, Typed DEF IInv
<1> QED BY <1>1, <1>2, <1>4, <1>5, <1>6, RequestMoves DEF At, door

LEMMA AnsweredKeeps ==
  ASSUME IInv, NEW q \in Requests, Answer(q)
  PROVE  IInv'
<1>1. Goto(q, "idle", NoArg) /\ UNCHANGED <<tables, store, cookie, now, history>> /\ cache' = cache
  BY DEF Answer, memory
<1> QED BY <1>1, NoArgTyped, Typed, RequestMoves DEF IInv, At

-----------------------------------------------------------------------------
(* Leaving, updateOperator, the clock and the restart.                     *)

LEMMA RefuseKeeps ==
  ASSUME IInv, NEW b \in Browsers, Refuse(b)
  PROVE  IInv'
<1>1. /\ UNCHANGED <<role, status, members, rows, cookie, cache, now, arg, pc, everOwner, dropped>>
      /\ store' = store \ {cookie[b]}
  BY DEF Refuse, tables, history
<1>2. TypeOK'
  BY <1>1, Typed, ToTypeOK DEF IInv
<1>3. Kept
  BY <1>1 DEF Kept, Unended
<1>4. Entered' /\ Owned'
  BY <1>1 DEF IInv, Entered, Owned
<1>5. Ordered'
  BY <1>1, OrderedStays
<1> QED BY <1>1, <1>2, <1>3, <1>4, <1>5, Carry

\* The row of the cookie is ended, and its entry is over.
LEMMA LeaveEndKeeps ==
  ASSUME IInv, NEW l \in Leavers, NEW b \in Browsers, LeaveEnd(l, b)
  PROVE  IInv'
<1> DEFINE a == [NoArg EXCEPT !.browser = b, !.sid = cookie[b]]
           P == Unended \cap {cookie[b]}
<1>1. /\ pc[l] = "idle" /\ cookie[b] # None /\ rows' = Ending(P) /\ Goto(l, "ended", a)
      /\ UNCHANGED <<role, status, members, store, cookie, cache, now, everOwner, dropped>>
  BY DEF LeaveEnd, memory, history
<1>2. cookie[b] \in Entries /\ pc[cookie[b]] = "done"
  BY <1>1, Typed DEF IInv, Carried
<1>3. a \in Args /\ a.sid = cookie[b]
  BY <1>2, NoArgTyped DEF NoArg, Args
<1>4. /\ rows' \in [Entries -> SessionRows \cup {None}]
      /\ \A p \in Entries :
           /\ rows'[p] # None <=> rows[p] # None
           /\ rows[p] # None => /\ rows'[p].expires = rows[p].expires
                                /\ rows'[p].order = rows[p].order
                                /\ rows[p].ended => rows'[p].ended
           /\ p \in P => rows'[p].ended
           /\ p \notin P => rows'[p] = rows[p]
  <2>1. P \subseteq Unended
    OBVIOUS
  <2> QED BY <1>1, <2>1, EndingIs DEF IInv
<1> HIDE DEF a
<1>5. /\ arg' \in [Procs -> Args] /\ pc' \in [Procs -> At]
      /\ arg'[l] = a /\ pc'[l] = "ended"
      /\ \A q \in Procs \ {l} : arg'[q] = arg[q] /\ pc'[q] = pc[q]
  BY <1>1, <1>3, GotoIs, Kinds DEF IInv, At
<1>6. TypeOK'
  BY <1>1, <1>4, <1>5, Typed, ToTypeOK DEF IInv
<1>7. \A q \in Procs : q \notin Leavers => arg'[q] = arg[q] /\ pc'[q] = pc[q]
  BY <1>5
<1>8. Kept
  BY <1>1, <1>4, <1>7, Kinds DEF Kept, Unended
<1>9. Entered' /\ Owned'
  BY <1>1, <1>4, <1>7, Kinds DEF IInv, Entered, Owned
<1>10. Ordered'
  BY <1>4, OrderedStays
<1>11. Over(cookie[b])'
  <2>1. PICK s \in Entries : s = cookie[b]
    BY <1>2
  <2>2. s \notin Unended' /\ pc'[s] = "done"
    BY <1>2, <1>4, <1>7, <2>1, Kinds DEF Unended
  <2>3. cookie'[b] = s
    BY <1>1, <2>1
  <2> QED BY <2>1, <2>2, <2>3 DEF Over
<1>12. Over(arg[l].sid)'
  <2>1. arg'[l].sid = cookie'[b]
    BY <1>1, <1>3, <1>5
  <2> QED BY <1>11, <2>1 DEF Over
<1>13. \A r \in Requests : arg'[r] = arg[r] /\ pc'[r] = pc[r]
  BY <1>7, Kinds
<1>14. \A k \in Leavers : (arg'[k] = arg[k] /\ pc'[k] = pc[k]) \/ Over(arg[k].sid)'
  BY <1>5, <1>12, Kinds
<1> QED BY <1>1, <1>6, <1>8, <1>9, <1>10, <1>13, <1>14, Carry

LEMMA LeaveDestroyKeeps ==
  ASSUME IInv, NEW l \in Leavers, LeaveDestroy(l)
  PROVE  IInv'
<1>1. /\ pc[l] = "ended" /\ Goto(l, "done", NoArg)
      /\ store' = store \ {arg[l].sid}
      /\ cookie' = [cookie EXCEPT ![arg[l].browser] = None]
      /\ dropped' = dropped \cup {arg[l].sid}
      /\ UNCHANGED <<role, status, members, rows, cache, now, everOwner>>
  BY DEF LeaveDestroy, tables
<1>2. PICK s \in Entries : s = arg[l].sid /\ Over(s)
  BY <1>1 DEF IInv, Left, Over
<1>3. /\ arg' \in [Procs -> Args] /\ pc' \in [Procs -> At]
      /\ arg'[l] = NoArg /\ pc'[l] = "done"
      /\ \A q \in Procs \ {l} : arg'[q] = arg[q] /\ pc'[q] = pc[q]
  BY <1>1, NoArgTyped, GotoIs, Kinds DEF IInv, At
<1>4. /\ cookie' \in [Browsers -> Entries \cup {None}]
      /\ \A b \in Browsers : cookie'[b] = cookie[b] \/ cookie'[b] = None
  BY <1>1, Typed DEF IInv
<1>5. TypeOK'
  BY <1>1, <1>2, <1>3, <1>4, Typed, ToTypeOK DEF IInv
<1>6. \A q \in Procs : q \notin Leavers => arg'[q] = arg[q] /\ pc'[q] = pc[q]
  BY <1>3
<1>7. Kept
  BY <1>1, <1>6, Kinds DEF Kept, Unended
<1>8. Entered' /\ Owned'
  BY <1>1, <1>6, Kinds DEF IInv, Entered, Owned
<1>9. Ordered'
  BY <1>1, OrderedStays
<1>10. Over(s)'
  BY <1>2, <1>7, OverStays
<1>11. \A p \in dropped' : p \in dropped \/ Over(p)'
  BY <1>1, <1>2, <1>10
<1>12. \A r \in Requests : arg'[r] = arg[r] /\ pc'[r] = pc[r]
  BY <1>6, Kinds
<1>13. \A k \in Leavers : (arg'[k] = arg[k] /\ pc'[k] = pc[k]) \/ pc'[k] # "ended"
  BY <1>3, Kinds
<1> QED BY <1>1, <1>4, <1>5, <1>7, <1>8, <1>9, <1>11, <1>12, <1>13, Carry

\* A step of updateOperator: only the operators' columns, and who was ever an owner, change.
LEMMA ManageMoves ==
  ASSUME IInv, NEW m \in Managers, NEW next \in {"changing", "done"}, NEW a \in Args,
         Goto(m, next, a),
         UNCHANGED <<members, rows, store, cookie, cache, now, dropped>>,
         role' \in [Operators -> Roles], status' \in [Operators -> {"active", "disabled"}],
         everOwner' \in SUBSET Operators, everOwner \subseteq everOwner',
         \A o \in Operators : role'[o] = "owner" => o \in everOwner',
         next = "changing" => a.target \in Operators
  PROVE  IInv'
<1>1. /\ arg' \in [Procs -> Args] /\ pc' \in [Procs -> At]
      /\ arg'[m] = a /\ pc'[m] = next
      /\ \A q \in Procs \ {m} : arg'[q] = arg[q] /\ pc'[q] = pc[q]
  BY GotoIs, Kinds DEF IInv, At
<1>2. TypeOK'
  BY <1>1, Typed, ToTypeOK DEF IInv
<1>3. \A q \in Procs : q \notin Managers => arg'[q] = arg[q] /\ pc'[q] = pc[q]
  BY <1>1
<1>4. Kept
  BY <1>3, Kinds DEF Kept, Unended
<1>5. Entered'
  BY <1>3, Kinds DEF IInv, Entered
<1>6. Owned'
  BY <1>1, Kinds DEF IInv, Owned
<1>7. Ordered'
  BY OrderedStays
<1>8. \A r \in Requests \cup Leavers : arg'[r] = arg[r] /\ pc'[r] = pc[r]
  BY <1>3, Kinds
<1> QED BY <1>2, <1>4, <1>5, <1>6, <1>7, <1>8, Carry

LEMMA ManageCheckKeeps ==
  ASSUME IInv, NEW m \in Managers, NEW actor \in Operators, NEW target \in Operators,
         NEW patch \in Patches, ManageCheck(m, actor, target, patch)
  PROVE  IInv'
<1> DEFINE a == [NoArg EXCEPT !.target = target, !.patch = patch]
<1>1. Goto(m, "changing", a) /\ UNCHANGED <<tables, memory, now, history>>
  BY DEF ManageCheck
<1>2. a \in Args /\ a.target = target
  BY NoArgTyped DEF NoArg, Args
<1> HIDE DEF a
<1>3. UNCHANGED <<role, status, members, rows, store, cookie, cache, now, everOwner, dropped>>
  BY <1>1 DEF tables, memory, history
<1> QED BY <1>1, <1>2, <1>3, Typed, ManageMoves DEF IInv, Owned

LEMMA ManageCommitKeeps ==
  ASSUME IInv, NEW m \in Managers, ManageCommit(m)
  PROVE  IInv'
<1> DEFINE target == arg[m].target
           patch == arg[m].patch
<1>1. /\ pc[m] = "changing" /\ Goto(m, "done", NoArg)
      /\ IF patch \in Roles
           THEN role' = [role EXCEPT ![target] = patch] /\ UNCHANGED status
           ELSE status' = [status EXCEPT ![target] = patch] /\ UNCHANGED role
      /\ everOwner' = IF patch = "owner" THEN everOwner \cup {target} ELSE everOwner
      /\ UNCHANGED <<members, rows, store, cookie, cache, now, dropped>>
  BY DEF ManageCommit, memory
<1>2. target \in Operators /\ patch \in Patches
  <2>1. arg[m] \in Args
    BY Typed, Kinds DEF IInv
  <2> QED BY <1>1, <2>1 DEF IInv, Owned, Args
<1> HIDE DEF target, patch
<1>3. role' \in [Operators -> Roles] /\ status' \in [Operators -> {"active", "disabled"}]
  BY <1>1, <1>2, Typed DEF IInv, Patches
<1>4. everOwner' \in SUBSET Operators /\ everOwner \subseteq everOwner'
  BY <1>1, <1>2, Typed DEF IInv
<1>5. \A o \in Operators : role'[o] = "owner" => o \in everOwner'
  BY <1>1, <1>2, Typed DEF IInv, Owned, Roles
<1> QED BY <1>1, <1>3, <1>4, <1>5, NoArgTyped, ManageMoves

LEMMA TickKeeps ==
  ASSUME IInv, Tick
  PROVE  IInv'
<1>1. /\ now < MaxTime /\ now' = now + 1
      /\ UNCHANGED <<role, status, members, rows, store, cookie, cache, arg, pc, everOwner, dropped>>
  BY DEF Tick, tables, memory, history
<1>2. now' \in 0..MaxTime
  BY <1>1, Typed, Numbers DEF IInv
<1>3. TypeOK'
  BY <1>1, <1>2, Typed, ToTypeOK DEF IInv
<1>4. Kept
  BY <1>1 DEF Kept, Unended
<1>5. Entered' /\ Owned'
  BY <1>1 DEF IInv, Entered, Owned
<1>6. Ordered'
  BY <1>1, OrderedStays
<1> QED BY <1>1, <1>3, <1>4, <1>5, <1>6, Carry

LEMMA RestartKeeps ==
  ASSUME IInv, Restart
  PROVE  IInv'
<1>1. /\ cache' = [d \in Doors |-> None]
      /\ pc' = [p \in Procs |-> IF p \in Requests THEN "idle"
                                ELSE IF pc[p] = "idle" THEN "idle" ELSE "done"]
      /\ arg' = [p \in Procs |-> IF p \in Entries THEN arg[p] ELSE NoArg]
      /\ UNCHANGED <<role, status, members, rows, store, cookie, now, everOwner, dropped>>
  BY DEF Restart, tables, history
<1>2. arg' \in [Procs -> Args] /\ pc' \in [Procs -> At]
  BY <1>1, NoArgTyped, Typed DEF IInv, At
<1>3. TypeOK'
  BY <1>1, <1>2, Typed, ToTypeOK DEF IInv
<1>4. \A p \in Procs : pc'[p] \in {"idle", "done"}
  BY <1>1
<1>5. \A p \in Entries :
        arg'[p] = arg[p] /\ pc'[p] = IF pc[p] = "idle" THEN "idle" ELSE "done"
  BY <1>1, Kinds
<1>6. Kept
  BY <1>1, <1>5 DEF Kept, Unended
<1>7. Entered'
  BY <1>1, <1>5 DEF IInv, Entered
<1>8. Owned'
  BY <1>1, <1>4, Kinds DEF IInv, Owned
<1>9. Ordered'
  BY <1>1, OrderedStays
<1>10. \A q \in Requests : pc'[q] = "idle"
  BY <1>1, Kinds
<1>11. \A l \in Leavers : pc'[l] # "ended"
  BY <1>4, Kinds
<1>12. \A d \in Doors : cache'[d] = None
  BY <1>1
<1> QED BY <1>1, <1>3, <1>6, <1>7, <1>8, <1>9, <1>10, <1>11, <1>12, Carry

LEMMA StutterKeeps ==
  ASSUME IInv, UNCHANGED vars
  PROVE  IInv'
<1>1. UNCHANGED <<role, status, members, rows, store, cookie, cache, now, arg, pc, everOwner, dropped>>
  BY DEF vars, tables, memory, history
<1>2. TypeOK'
  BY <1>1, Typed, ToTypeOK DEF IInv
<1>3. Kept
  BY <1>1 DEF Kept, Unended
<1>4. Entered' /\ Owned'
  BY <1>1 DEF IInv, Entered, Owned
<1>5. Ordered'
  BY <1>1, OrderedStays
<1> QED BY <1>1, <1>2, <1>3, <1>4, <1>5, Carry

-----------------------------------------------------------------------------
(* The invariant and the theorems.                                         *)

LEMMA InitIInv == Init => IInv
<1> SUFFICES ASSUME Init PROVE IInv
  OBVIOUS
<1>1. TypeOK
  <2>1. By \in [Browsers -> Operators] /\ Owners \subseteq Operators
    BY SupportAssumption
  <2>2. now \in 0..MaxTime
    BY Numbers DEF Init
  <2>3. role \in [Operators -> Roles]
    BY DEF Init, Roles
  <2>4. arg \in [Procs -> Args]
    BY NoArgTyped DEF Init
  <2> QED BY <2>1, <2>2, <2>3, <2>4 DEF Init, TypeOK
<1>2. Entered /\ Ordered /\ Carried /\ Cached /\ Admitted /\ Left
  BY Kinds DEF Init, Entered, Ordered, Carried, Cached, Admitted, AdmittedOk, Left
<1>3. Owned
  BY Kinds, SupportAssumption DEF Init, Owned
<1> QED BY <1>1, <1>2, <1>3 DEF IInv

LEMMA EntryStepKeeps ==
  ASSUME IInv, NEW p \in Entries, EntryStep(p)
  PROVE  IInv'
<1>1. ASSUME NEW b \in Browsers, NEW org \in Orgs, EnterCheck(p, b, org) PROVE IInv'
  BY <1>1, EnterKeeps
<1>2. CASE Regenerate(p)
  BY <1>2, RegenerateKeeps
<1>3. CASE ensureSupportUser(p)
  BY <1>3, MemberKeeps
<1>4. CASE CloseEarlier(p)
  BY <1>4, CloseKeeps
<1>5. CASE CreateRow(p)
  BY <1>5, CreateKeeps
<1>6. CASE AnswerEntry(p) \/ FailEntry(p)
  BY <1>6, AnswerKeeps
<1> QED BY <1>1, <1>2, <1>3, <1>4, <1>5, <1>6 DEF EntryStep

LEMMA RequestStepKeeps ==
  ASSUME IInv, NEW q \in Requests, RequestStep(q)
  PROVE  IInv'
<1>1. ASSUME NEW b \in Browsers, NEW cap \in Capabilities, Admit(q, b, cap) PROVE IInv'
  BY <1>1, AdmitKeeps
<1>2. CASE CheckCached(q)
  BY <1>2, CachedKeeps
<1>3. CASE CheckMissed(q)
  BY <1>3, MissedKeeps
<1>4. CASE Collect(q)
  BY <1>4, CollectKeeps
<1>5. CASE Answer(q)
  BY <1>5, AnsweredKeeps
<1> QED BY <1>1, <1>2, <1>3, <1>4, <1>5 DEF RequestStep

LEMMA NextIInv == IInv /\ [Next]_vars => IInv'
<1> SUFFICES ASSUME IInv, [Next]_vars PROVE IInv'
  OBVIOUS
<1>1. ASSUME NEW p \in Entries, EntryStep(p) PROVE IInv'
  BY <1>1, EntryStepKeeps
<1>2. ASSUME NEW q \in Requests, RequestStep(q) PROVE IInv'
  BY <1>2, RequestStepKeeps
<1>3. ASSUME NEW b \in Browsers, Refuse(b) PROVE IInv'
  BY <1>3, RefuseKeeps
<1>4. ASSUME NEW l \in Leavers, LeaveDestroy(l) PROVE IInv'
  BY <1>4, LeaveDestroyKeeps
<1>5. ASSUME NEW l \in Leavers, NEW b \in Browsers, LeaveEnd(l, b) PROVE IInv'
  BY <1>5, LeaveEndKeeps
<1>6. ASSUME NEW m \in Managers, ManageCommit(m) PROVE IInv'
  BY <1>6, ManageCommitKeeps
<1>7. ASSUME NEW m \in Managers, NEW actor \in Operators, NEW target \in Operators,
             NEW patch \in Patches, ManageCheck(m, actor, target, patch)
      PROVE  IInv'
  BY <1>7, ManageCheckKeeps
<1>8. CASE Tick
  BY <1>8, TickKeeps
<1>9. CASE Restart
  BY <1>9, RestartKeeps
<1>10. CASE UNCHANGED vars
  BY <1>10, StutterKeeps
<1> QED BY <1>1, <1>2, <1>3, <1>4, <1>5, <1>6, <1>7, <1>8, <1>9, <1>10 DEF Next

LEMMA Invariant == Spec => []IInv
  BY InitIInv, NextIInv, PTL DEF Spec

\* Every variable keeps its type: a cookie names an entry, a grant expires within the
\* longest session, a request is at one of its steps.
THEOREM SupportTypeCorrect == Spec => []TypeOK
<1>1. IInv => TypeOK
  BY DEF IInv
<1> QED BY <1>1, Invariant, PTL

\* Nothing is allowed at a time that no entry of that operator to that organisation
\* reached, whatever is cached, re-entered, restarted or slow.
THEOREM AlwaysAllowedInTime == Spec => []AllowedInTime
<1>1. IInv => AllowedInTime
  BY DEF IInv, Admitted, AdmittedOk, Conferring, AllowedInTime, Allowed
<1> QED BY <1>1, Invariant, PTL

\* Who was never an owner reads no feedback, whoever else is inside the same
\* organisation and whatever is cached for them.
THEOREM StaffAlwaysReadNoFeedback == Spec => []StaffReadNoFeedback
<1>1. IInv => StaffReadNoFeedback
  <2> SUFFICES ASSUME IInv, NEW q \in Allowed, arg[q].cap = "results.read"
               PROVE  Operator(arg[q].sid) \in everOwner
    BY DEF StaffReadNoFeedback
  <2>1. Conferring(q)
    BY DEF IInv, Admitted, AdmittedOk, Allowed
  <2>2. PICK p \in Entries : Door(p) = Door(arg[q].sid) /\ Operator(p) \in everOwner
    BY <2>1 DEF Conferring
  <2>3. Operator(p) = Operator(arg[q].sid)
    BY <2>2 DEF Door
  <2> QED BY <2>2, <2>3
<1> QED BY <1>1, Invariant, PTL

\* A session that Leave has destroyed has no open row behind it, even when the
\* process stopped between ending the row and destroying the session.
THEOREM LeftAlwaysMeansOver == Spec => []LeftMeansOver
<1>1. IInv => LeftMeansOver
  BY DEF IInv, Left, Over, LeftMeansOver
<1> QED BY <1>1, Invariant, PTL

-----------------------------------------------------------------------------
(* One open session at each door, of the entries that did not cross.       *)

\* No two uncrossed rows of a door are open, and none is while an uncrossed entry is between
\* closing the earlier ones and creating its own.
OneOpen ==
  /\ \A p, q \in Unended :
       Door(p) = Door(q) /\ ~arg[p].crossed /\ ~arg[q].crossed => p = q
  /\ \A p \in Entries :
       pc[p] = "closed" /\ ~arg[p].crossed => \A q \in Unended : Door(q) # Door(p)

\* A step that opens nothing, takes no entry to "closed" and leaves what the entries are about.
LEMMA OpenStays ==
  ASSUME IInv, OneOpen, Unended' \subseteq Unended,
         \A p \in Entries : pc'[p] = "closed" => pc[p] = "closed",
         \A p \in Entries : pc[p] # "idle" =>
           /\ arg'[p].browser = arg[p].browser /\ arg'[p].org = arg[p].org
           /\ arg'[p].crossed = arg[p].crossed
  PROVE  OneOpen'
<1>1. ASSUME NEW p \in Unended PROVE p \in Entries /\ pc[p] # "idle"
  BY DEF Unended, IInv, Entered
<1>2. ASSUME NEW p \in Entries, pc[p] # "idle" PROVE Door(p)' = Door(p)
  BY <1>2 DEF Door, Operator
<1>3. ASSUME NEW p \in Unended', NEW q \in Unended', Door(p)' = Door(q)',
             ~arg'[p].crossed, ~arg'[q].crossed
      PROVE  p = q
  BY <1>1, <1>2, <1>3 DEF OneOpen
<1>4. ASSUME NEW p \in Entries, pc'[p] = "closed", ~arg'[p].crossed, NEW q \in Unended'
      PROVE  Door(q)' # Door(p)'
  BY <1>1, <1>2, <1>4 DEF OneOpen
<1> QED BY <1>3, <1>4 DEF OneOpen

\* An entry that moves to another step than "closed", and touches no row.
LEMMA EntryOpens ==
  ASSUME IInv, OneOpen, NEW p \in Entries, NEW next \in EntrySteps \cup {"done"}, NEW a,
         Goto(p, next, a), rows' = rows, next # "closed",
         pc[p] # "idle" => /\ a.browser = arg[p].browser /\ a.org = arg[p].org
                           /\ a.crossed = arg[p].crossed
  PROVE  OneOpen'
<1>1. /\ arg'[p] = a /\ pc'[p] = next
      /\ \A q \in Procs \ {p} : arg'[q] = arg[q] /\ pc'[q] = pc[q]
  BY Typed, Kinds DEF IInv, Goto
<1>2. Unended' = Unended
  BY DEF Unended
<1> QED BY <1>1, <1>2, Kinds, OpenStays

LEMMA CloseOpens ==
  ASSUME IInv, OneOpen, NEW p \in Entries, CloseEarlier(p)
  PROVE  OneOpen'
<1> DEFINE a == [arg[p] EXCEPT !.at = now]
           P == {q \in Unended : Door(q) = Door(p)}
<1>1. /\ pc[p] = "member" /\ rows' = Ending(P) /\ Goto(p, "closed", a)
  BY DEF CloseEarlier
<1>2. arg[p] \in Args
  BY Typed, Kinds DEF IInv
<1>3. a.browser = arg[p].browser /\ a.org = arg[p].org /\ a.crossed = arg[p].crossed
  BY <1>2 DEF Args
<1> HIDE DEF a
<1>4. /\ arg'[p] = a /\ pc'[p] = "closed"
      /\ \A q \in Procs \ {p} : arg'[q] = arg[q] /\ pc'[q] = pc[q]
  BY <1>1, Typed, Kinds DEF IInv, Goto
<1>5. Unended' = Unended \ P
  <2>1. P \subseteq Unended
    OBVIOUS
  <2>2. \A q \in Entries : /\ rows'[q] # None <=> rows[q] # None
                           /\ q \in P => rows'[q].ended
                           /\ q \notin P => rows'[q] = rows[q]
    BY <1>1, <2>1, EndingIs DEF IInv
  <2> HIDE DEF P
  <2> QED BY <2>2 DEF Unended
<1>6. \A q \in Entries : /\ Door(q)' = Door(q) /\ arg'[q].crossed = arg[q].crossed
                         /\ q # p => pc'[q] = pc[q]
  BY <1>3, <1>4, Kinds DEF Door, Operator
<1>7. \A q \in Unended : q \in Entries
  BY DEF Unended
<1>8. ASSUME NEW q \in Unended', NEW r \in Unended', Door(q)' = Door(r)',
             ~arg'[q].crossed, ~arg'[r].crossed
      PROVE  q = r
  BY <1>5, <1>6, <1>7, <1>8 DEF OneOpen
<1>9. ASSUME NEW q \in Entries, pc'[q] = "closed", ~arg'[q].crossed, NEW r \in Unended'
      PROVE  Door(r)' # Door(q)'
  <2>1. r \in Unended /\ Door(r) # Door(p)
    BY <1>5
  <2>2. CASE q = p
    BY <1>6, <1>7, <2>1, <2>2
  <2>3. CASE q # p
    BY <1>6, <1>7, <1>9, <2>1, <2>3 DEF OneOpen
  <2> QED BY <2>2, <2>3
<1> QED BY <1>8, <1>9 DEF OneOpen

\* Who was about to create a row at the same door is crossed by this one.
LEMMA CreateOpens ==
  ASSUME IInv, OneOpen, NEW p \in Entries, CreateRow(p)
  PROVE  OneOpen'
<1>1. /\ pc[p] = "closed"
      /\ arg' = [q \in Procs |->
                   IF q \in Entries \ {p} /\ pc[q] = "closed" /\ Door(q) = Door(p)
                     THEN [arg[q] EXCEPT !.crossed = TRUE]
                     ELSE IF q = p THEN [arg[q] EXCEPT !.at = 0] ELSE arg[q]]
      /\ pc' = [pc EXCEPT ![p] = "opened"]
      /\ \A q \in Entries \ {p} : rows'[q] = rows[q]
  <2>1. \E r : rows' = [rows EXCEPT ![p] = r]
    BY DEF CreateRow
  <2>2. \A q \in Entries \ {p} : rows'[q] = rows[q]
    BY <2>1, Typed DEF IInv
  <2> QED BY <2>2 DEF CreateRow
<1>2. p \in Procs /\ \A q \in Procs : arg[q] \in Args
  BY Typed, Kinds DEF IInv
<1>3. ASSUME NEW q \in Entries
      PROVE  /\ arg'[q].browser = arg[q].browser /\ arg'[q].org = arg[q].org
             /\ arg[q].crossed => arg'[q].crossed
             /\ q = p => arg'[q].crossed = arg[q].crossed
             /\ q # p /\ pc[q] = "closed" /\ Door(q) = Door(p) => arg'[q].crossed
  <2>1. ASSUME NEW a \in Args
        PROVE  /\ [a EXCEPT !.crossed = TRUE].crossed
               /\ [a EXCEPT !.crossed = TRUE].browser = a.browser
               /\ [a EXCEPT !.crossed = TRUE].org = a.org
               /\ [a EXCEPT !.at = 0].crossed = a.crossed
               /\ [a EXCEPT !.at = 0].browser = a.browser /\ [a EXCEPT !.at = 0].org = a.org
    BY DEF Args
  <2>2. q \in Procs /\ arg[q] \in Args
    BY <1>2, Kinds
  <2>3. \/ q # p /\ arg'[q] = [arg[q] EXCEPT !.crossed = TRUE]
        \/ q = p /\ arg'[q] = [arg[q] EXCEPT !.at = 0]
        \/ /\ q # p /\ arg'[q] = arg[q]
           /\ ~(pc[q] = "closed" /\ Door(q) = Door(p))
    BY <1>1, <2>2
  <2>4. CASE q = p
    BY <2>1, <2>2, <2>3, <2>4
  <2>5. CASE q # p /\ arg'[q] = [arg[q] EXCEPT !.crossed = TRUE]
    <3> DEFINE b == [arg[q] EXCEPT !.crossed = TRUE]
    <3>1. b.crossed /\ b.browser = arg[q].browser /\ b.org = arg[q].org
      BY <2>1, <2>2
    <3>2. arg'[q] = b
      BY <2>5
    <3> HIDE DEF b
    <3>3. arg'[q].crossed
      BY <3>1, <3>2, Zenon
    <3> QED BY <2>5, <3>1, <3>2, <3>3
  <2>6. CASE q # p /\ arg'[q] = arg[q] /\ ~(pc[q] = "closed" /\ Door(q) = Door(p))
    BY <2>6
  <2> QED BY <2>3, <2>4, <2>5, <2>6
<1>4. \A q \in Entries : Door(q)' = Door(q)
  BY <1>3 DEF Door, Operator
<1>5. \A q \in Unended : q \in Entries
  BY DEF Unended
<1>6. \A q \in Unended' : q \in Entries /\ (q = p \/ q \in Unended)
  BY <1>1 DEF Unended
<1>7. \A q \in Entries : pc'[q] = "closed" => pc[q] = "closed" /\ q # p
  BY <1>1, <1>2, Kinds, Typed DEF IInv
<1>8. ASSUME NEW q \in Unended', q # p, ~arg'[p].crossed PROVE Door(q) # Door(p)
  BY <1>1, <1>3, <1>6, <1>8 DEF OneOpen
<1>9. ASSUME NEW q \in Unended', NEW r \in Unended', Door(q)' = Door(r)',
             ~arg'[q].crossed, ~arg'[r].crossed
      PROVE  q = r
  BY <1>3, <1>4, <1>6, <1>8, <1>9 DEF OneOpen
<1>10. ASSUME NEW q \in Entries, pc'[q] = "closed", ~arg'[q].crossed, NEW r \in Unended'
       PROVE  Door(r)' # Door(q)'
  <2>1. pc[q] = "closed" /\ q # p /\ ~arg[q].crossed /\ Door(q) # Door(p)
    BY <1>3, <1>7, <1>10
  <2>2. r = p \/ Door(r) # Door(q)
    BY <1>6, <2>1 DEF OneOpen
  <2> QED BY <1>4, <1>6, <2>1, <2>2
<1> QED BY <1>9, <1>10 DEF OneOpen

LEMMA EntryStepOpens ==
  ASSUME IInv, OneOpen, NEW p \in Entries, EntryStep(p)
  PROVE  OneOpen'
<1>1. arg[p] \in Args
  BY Typed, Kinds DEF IInv
<1>2. ASSUME NEW b \in Browsers, NEW org \in Orgs, EnterCheck(p, b, org) PROVE OneOpen'
  <2> DEFINE a == [NoArg EXCEPT !.browser = b, !.org = org, !.sid = cookie[b]]
  <2>1. pc[p] = "idle" /\ Goto(p, "entering", a) /\ rows' = rows
    BY <1>2 DEF EnterCheck, tables
  <2> HIDE DEF a
  <2> QED BY <2>1, EntryOpens DEF EntrySteps
<1>3. CASE Regenerate(p)
  <2> DEFINE a == [arg[p] EXCEPT !.sid = None]
  <2>1. Goto(p, "regenerated", a) /\ rows' = rows
    BY <1>3 DEF Regenerate, tables
  <2>2. a.browser = arg[p].browser /\ a.org = arg[p].org /\ a.crossed = arg[p].crossed
    BY <1>1 DEF Args
  <2> HIDE DEF a
  <2> QED BY <2>1, <2>2, EntryOpens DEF EntrySteps
<1>4. CASE ensureSupportUser(p)
  <2>1. Goto(p, "member", arg[p]) /\ rows' = rows
    BY <1>4 DEF ensureSupportUser
  <2> QED BY <2>1, EntryOpens DEF EntrySteps
<1>5. CASE AnswerEntry(p) \/ FailEntry(p)
  <2>1. Goto(p, "done", arg[p]) /\ rows' = rows
    BY <1>5 DEF AnswerEntry, FailEntry, tables
  <2> QED BY <2>1, EntryOpens
<1> QED BY <1>2, <1>3, <1>4, <1>5, CloseOpens, CreateOpens DEF EntryStep

\* What is no step of an entry.
LEMMA OtherOpens ==
  ASSUME IInv, OneOpen, Unended' \subseteq Unended,
         \A p \in Entries : arg'[p] = arg[p] /\ (pc'[p] = pc[p] \/ pc'[p] \in {"idle", "done"})
  PROVE  OneOpen'
  BY OpenStays

LEMMA AsideOpens ==
  ASSUME IInv, OneOpen, NEW p \in Procs, p \notin Entries, NEW next, NEW a, Goto(p, next, a),
         Unended' \subseteq Unended
  PROVE  OneOpen'
<1>1. \A q \in Entries : arg'[q] = arg[q] /\ pc'[q] = pc[q]
  BY Kinds, Typed DEF IInv, Goto
<1> QED BY <1>1, OtherOpens

LEMMA StepOpens == ASSUME IInv, OneOpen, [Next]_vars PROVE OneOpen'
<1>1. rows' = rows => Unended' = Unended
  BY DEF Unended
<1>2. ASSUME NEW p \in Entries, EntryStep(p) PROVE OneOpen'
  BY <1>2, EntryStepOpens
<1>3. ASSUME NEW q \in Requests, RequestStep(q) PROVE OneOpen'
  <2>1. rows' = rows /\ \E next, a : Goto(q, next, a)
    BY <1>3 DEF RequestStep, Admit, CheckCached, CheckMissed, Collect, Answer, tables
  <2>2. PICK next, a : Goto(q, next, a)
    BY <2>1
  <2> QED BY <1>1, <2>1, <2>2, Kinds, AsideOpens
<1>4. ASSUME NEW l \in Leavers, LeaveDestroy(l) PROVE OneOpen'
  BY <1>1, <1>4, Kinds, AsideOpens DEF LeaveDestroy, tables
<1>5. ASSUME NEW l \in Leavers, NEW b \in Browsers, LeaveEnd(l, b) PROVE OneOpen'
  <2> DEFINE P == Unended \cap {cookie[b]}
             a == [NoArg EXCEPT !.browser = b, !.sid = cookie[b]]
  <2>1. rows' = Ending(P) /\ Goto(l, "ended", a)
    BY <1>5 DEF LeaveEnd
  <2>2. P \subseteq Unended
    OBVIOUS
  <2> HIDE DEF P, a
  <2>3. Unended' \subseteq Unended
    BY <2>1, <2>2, EndingIs DEF IInv, Unended
  <2> QED BY <2>1, <2>3, Kinds, AsideOpens
<1>6. ASSUME NEW m \in Managers,
             \/ ManageCommit(m)
             \/ \E actor, target \in Operators, patch \in Patches : ManageCheck(m, actor, target, patch)
      PROVE  OneOpen'
  <2>1. rows' = rows /\ \E next, a : Goto(m, next, a)
    BY <1>6 DEF ManageCommit, ManageCheck, tables
  <2>2. PICK next, a : Goto(m, next, a)
    BY <2>1
  <2> QED BY <1>1, <2>1, <2>2, Kinds, AsideOpens
<1>7. CASE Restart
  <2>1. \A p \in Entries : arg'[p] = arg[p] /\ pc'[p] \in {"idle", "done"}
    BY <1>7, Kinds DEF Restart
  <2> QED BY <1>1, <1>7, <2>1, OtherOpens DEF Restart, tables
<1>8. CASE Tick \/ UNCHANGED vars \/ \E b \in Browsers : Refuse(b)
  <2>1. UNCHANGED <<rows, arg, pc>>
    BY <1>8 DEF Tick, vars, tables, Refuse
  <2> QED BY <1>1, <2>1, OtherOpens
<1> QED BY <1>2, <1>3, <1>4, <1>5, <1>6, <1>7, <1>8 DEF Next

\* enterSupport ends every earlier row of its operator and organisation before it creates
\* its own: of the entries that did not cross, at most one is open at each door.
THEOREM AlwaysOneDoor == Spec => []OneDoor
<1>1. Init => OneOpen
  BY Kinds DEF Init, OneOpen, Unended
<1>2. IInv /\ OneOpen /\ [Next]_vars => OneOpen'
  BY StepOpens
<1>3. OneOpen => OneDoor
  BY DEF OneOpen, OneDoor, Open
<1> QED BY <1>1, <1>2, <1>3, Invariant, PTL DEF Spec

-----------------------------------------------------------------------------
(***************************************************************************)
(* The safety properties of Billing for any number of overlapping          *)
(* requests, any length of a period and any number of days.                *)
(*                                                                         *)
(* NeverOvercharged is not inductive: a join adds its price to what was    *)
(* paid already, so a full price must be known to meet an empty account    *)
(* and a difference the tier it was taken from.  Both rest on the row that *)
(* was read, which may be long gone; Remembered says what still holds.     *)
(***************************************************************************)
\* What a request was asked agrees with the step it is at.
Asked ==
  \A p \in PlanRequests :
    /\ job[p].op = "join" => job[p].what \in Selectable
    /\ job[p].op = "schedule" => job[p].what \in Tiers
    /\ stage[p] \in {"join", "schedule"} => job[p].op = stage[p]
    /\ stage[p] \in {"applying", "join"} =>
         mem[p] \in Row /\ (mem[p].status = "trialing" => mem[p].pending = Nothing)

\* Nothing was paid for a trial, nor since the lapse that a notice is about.
Unpaid ==
  /\ sub.status = "trialing" => spent = 0 /\ sub.lapsed = Nothing /\ sub.pending = Nothing
  /\ sub.lapsed # Nothing => sub.tier = "bronze" /\ spent = 0

\* What a request decided from the row it read, and how much of it lasts: a trial
\* does not come back, and bronze is not paid for once the trial is over.
Remembered ==
  \A p \in PlanRequests :
    /\ stage[p] = "join" =>
         /\ mem[p].status = "trialing" \/ tierRank[mem[p].tier] < tierRank[job[p].what]
         /\ mem[p].lapsed # Nothing =>
              /\ mem[p].tier = "bronze" /\ sub.status = "active"
              /\ sub.tier = "bronze" => spent = 0
         /\ mem[p].status = "active" => sub.status = "active"
    /\ stage[p] = "schedule" => sub.status = "active"

PlanIInv == PlanTypeOK /\ Asked /\ Unpaid /\ Remembered /\ NeverOvercharged

-----------------------------------------------------------------------------
(* The catalogue: every tier has a price and a rank, and a higher tier costs more. *)
LEMMA Catalogue ==
  /\ \A t \in Tiers : priceOf[t] \in Nat /\ tierRank[t] \in Nat
  /\ \A s, t \in Tiers : tierRank[s] < tierRank[t] => priceOf[s] < priceOf[t]
  BY DEF Tiers, priceOf, tierRank

(* A tier is not the absence of one. *)
LEMMA NothingIsNoTier == Nothing \notin Tiers
  BY NoneAssumption DEF Tiers

(* The tier in force is a tier. *)
LEMMA EffectiveType == ASSUME NEW row \in Row PROVE effectiveTier(row) \in Tiers
  BY DEF effectiveTier, Row, Tiers

(* What applying a row leaves is a row: active, with nothing pending, and with a notice only on bronze. *)
LEMMA RowAfterType ==
  ASSUME PlanTypeOK, NEW row \in Row, row.status = "trialing" => row.pending = Nothing
  PROVE  /\ RowAfter(row) \in Row
         /\ RowAfter(row).status = "active"
         /\ RowAfter(row).pending = Nothing
         /\ RowAfter(row).lapsed # Nothing => RowAfter(row).tier = "bronze"
<1>1. newPeriod \in Nat
  BY PeriodAssumption DEF PlanTypeOK, newPeriod
<1> DEFINE rolled == [sub EXCEPT !.pending = Nothing, !.status = "active", !.ends = newPeriod]
<1>2. rolled \in Row /\ rolled.status = "active" /\ rolled.pending = Nothing
  BY <1>1 DEF PlanTypeOK, Row
<1> HIDE DEF rolled
<1>3. effectiveTier(row) \in Tiers
  BY EffectiveType
<1>4. effectiveTier(row) # row.tier /\ effectiveTier(row) # row.pending => effectiveTier(row) = "bronze"
  BY DEF effectiveTier
<1>5. RowAfter(row) = IF effectiveTier(row) = row.tier THEN [rolled EXCEPT !.lapsed = Nothing]
       ELSE [rolled EXCEPT !.tier = effectiveTier(row),
                           !.lapsed = IF row.status # "trialing" /\ effectiveTier(row) = row.pending
                                        THEN Nothing ELSE row.tier]
  BY DEF RowAfter, rolled
<1> QED
  BY <1>2, <1>3, <1>4, <1>5, NothingIsNoTier DEF Row

(* A paid month or a trial of a tier: nothing is owed and nothing remembered. *)
LEMMA PlanInitIInv == PlanInit => PlanIInv
<1> SUFFICES ASSUME PlanInit PROVE PlanIInv
  OBVIOUS
<1> USE NothingIsNoTier
<1>1. PICK tier \in Selectable, trial \in BOOLEAN :
        /\ sub = [tier |-> tier, status |-> IF trial THEN "trialing" ELSE "active",
                  ends |-> IF trial THEN TRIAL_DAYS ELSE BILLING_PERIOD,
                  pending |-> Nothing, lapsed |-> Nothing]
        /\ spent = IF trial THEN 0 ELSE priceOf[tier]
  BY DEF PlanInit
<1>2. tier \in Tiers
  BY DEF Selectable
<1>3. PlanTypeOK
  BY <1>1, <1>2, PeriodAssumption, Catalogue DEF PlanInit, PlanTypeOK, Row, Job, Reading
<1>4. Asked /\ Remembered
  BY DEF PlanInit, Asked, Remembered, Reading
<1>5. Unpaid
  BY <1>1 DEF Unpaid
<1>6. NeverOvercharged
  BY <1>1, <1>2, Catalogue DEF NeverOvercharged
<1> QED
  BY <1>3, <1>4, <1>5, <1>6 DEF PlanIInv

(* Going to the next step keeps the types, and what is known of the others. *)
LEMMA GoesToKeeps ==
  ASSUME PlanTypeOK, Asked, NEW p \in PlanRequests, NEW step, NEW j \in Job, NEW row,
         GoesTo(p, step, j, row),
         step \in {"idle", "applying", "join", "schedule", "cancel", "approve", "again"},
         step \in {"applying", "join"} =>
           row \in Row /\ (row.status = "trialing" => row.pending = Nothing),
         j.op = "join" => j.what \in Selectable,
         j.op = "schedule" => j.what \in Tiers,
         step \in {"join", "schedule"} => j.op = step
  PROVE  /\ stage' \in [PlanRequests ->
                          {"idle", "applying", "join", "schedule", "cancel", "approve", "again"}]
         /\ mem' \in [PlanRequests -> Row \cup {Nothing}]
         /\ job' \in [PlanRequests -> Job]
         /\ stage'[p] = step
         /\ step \in {"applying", "join"} => mem'[p] = row /\ job'[p] = j
         /\ \A q \in PlanRequests \ {p} : stage'[q] = stage[q] /\ mem'[q] = mem[q] /\ job'[q] = job[q]
         /\ Asked'
<1>1. Reading \in Job /\ Reading.op = "read"
  BY DEF Reading, Job
<1>2. /\ stage' = [stage EXCEPT ![p] = step]
      /\ mem' = [mem EXCEPT ![p] = IF step \in {"applying", "join"} THEN row ELSE Nothing]
      /\ job' = [job EXCEPT ![p] = IF step = "idle" THEN Reading ELSE j]
  BY DEF GoesTo
<1>3. /\ stage' \in [PlanRequests -> {"idle", "applying", "join", "schedule", "cancel", "approve", "again"}]
      /\ mem' \in [PlanRequests -> Row \cup {Nothing}]
      /\ job' \in [PlanRequests -> Job]
  BY <1>1, <1>2 DEF PlanTypeOK
<1>4. stage'[p] = step /\ mem'[p] = (IF step \in {"applying", "join"} THEN row ELSE Nothing)
      /\ job'[p] = (IF step = "idle" THEN Reading ELSE j)
  BY <1>2 DEF PlanTypeOK
<1>5. \A q \in PlanRequests \ {p} : stage'[q] = stage[q] /\ mem'[q] = mem[q] /\ job'[q] = job[q]
  BY <1>2 DEF PlanTypeOK
<1>6. Asked'
  <2> SUFFICES ASSUME NEW q \in PlanRequests
      PROVE /\ job'[q].op = "join" => job'[q].what \in Selectable
            /\ job'[q].op = "schedule" => job'[q].what \in Tiers
            /\ stage'[q] \in {"join", "schedule"} => job'[q].op = stage'[q]
            /\ stage'[q] \in {"applying", "join"} =>
                 mem'[q] \in Row /\ (mem'[q].status = "trialing" => mem'[q].pending = Nothing)
    BY DEF Asked
  <2>1. CASE q = p
    BY <2>1, <1>1, <1>4
  <2>2. CASE q # p
    BY <2>2, <1>5 DEF Asked
  <2> QED
    BY <2>1, <2>2
<1> QED
  BY <1>3, <1>4, <1>5, <1>6

(* A request writes only what it was asked, and only when the row it read admits it. *)
LEMMA AfterFacts ==
  ASSUME NEW j \in Job, NEW row
  PROVE  /\ After(j, row) \in {"idle", "join", "schedule", "cancel"}
         /\ After(j, row) # "idle" => j.op = After(j, row)
         /\ After(j, row) = "join" =>
              row.status = "trialing" \/ tierRank[j.what] > tierRank[row.tier]
         /\ After(j, row) = "schedule" => row.status # "trialing"
  BY DEF After, Admits, Job

(* A read changes nothing but what its request knows. *)
LEMMA ReadKeeps ==
  ASSUME PlanIInv, NEW p \in PlanRequests, NEW j \in Job, Read(p, j),
         j.op = "join" => j.what \in Selectable,
         j.op = "schedule" => j.what \in Tiers
  PROVE  PlanIInv'
<1> DEFINE step == IF periodHasEnded(sub) THEN "applying" ELSE After(j, sub)
<1>1. GoesTo(p, step, j, sub) /\ UNCHANGED <<sub, today, spent, ask>>
  BY DEF Read
<1>2. /\ step \in {"idle", "applying", "join", "schedule", "cancel", "approve", "again"}
      /\ step \in {"join", "schedule"} => j.op = step
      /\ step = "join" => sub.status = "trialing" \/ tierRank[sub.tier] < tierRank[j.what]
      /\ step = "schedule" => sub.status = "active"
  <2>1. sub.status \in {"active", "trialing"} /\ sub.tier \in Tiers
    BY DEF PlanIInv, PlanTypeOK, Row
  <2>2. j.op = "join" => j.what \in Tiers
    BY DEF Selectable
  <2>3. After(j, sub) = "join" => sub.status = "trialing" \/ tierRank[sub.tier] < tierRank[j.what]
    BY <2>1, <2>2, AfterFacts, Catalogue
  <2> QED
    BY <2>1, <2>3, AfterFacts
<1>3. sub \in Row /\ (sub.status = "trialing" => sub.pending = Nothing)
  BY DEF PlanIInv, PlanTypeOK, Unpaid
<1> HIDE DEF step
<1>4. /\ stage' \in [PlanRequests -> {"idle", "applying", "join", "schedule", "cancel", "approve", "again"}]
      /\ mem' \in [PlanRequests -> Row \cup {Nothing}]
      /\ job' \in [PlanRequests -> Job]
      /\ stage'[p] = step
      /\ step \in {"applying", "join"} => mem'[p] = sub /\ job'[p] = j
      /\ \A q \in PlanRequests \ {p} : stage'[q] = stage[q] /\ mem'[q] = mem[q] /\ job'[q] = job[q]
      /\ Asked'
  BY <1>1, <1>2, <1>3, GoesToKeeps DEF PlanIInv
<1>5. PlanTypeOK'
  BY <1>1, <1>4 DEF PlanIInv, PlanTypeOK
<1>6. Unpaid' /\ NeverOvercharged'
  BY <1>1 DEF PlanIInv, Unpaid, NeverOvercharged
<1>7. Remembered'
  <2> SUFFICES ASSUME NEW q \in PlanRequests
      PROVE /\ stage'[q] = "join" =>
                 /\ mem'[q].status = "trialing" \/ tierRank[mem'[q].tier] < tierRank[job'[q].what]
                 /\ mem'[q].lapsed # Nothing =>
                      /\ mem'[q].tier = "bronze" /\ sub'.status = "active"
                      /\ sub'.tier = "bronze" => spent' = 0
                 /\ mem'[q].status = "active" => sub'.status = "active"
            /\ stage'[q] = "schedule" => sub'.status = "active"
    BY DEF Remembered
  <2>1. CASE q = p
    <3>1. sub.lapsed # Nothing => sub.tier = "bronze" /\ sub.status = "active" /\ spent = 0
      BY <1>3 DEF PlanIInv, Unpaid, Row
    <3> QED
      BY <2>1, <3>1, <1>1, <1>2, <1>4
  <2>2. CASE q # p
    BY <2>2, <1>1, <1>4 DEF PlanIInv, Remembered
  <2> QED
    BY <2>1, <2>2
<1> QED
  BY <1>4, <1>5, <1>6, <1>7 DEF PlanIInv

(* Applying a period that ended empties the account, whatever row it goes by. *)
LEMMA ApplyKeeps ==
  ASSUME PlanIInv, NEW p \in PlanRequests, applyExpiredPeriod(p)
  PROVE  PlanIInv'
<1>1. /\ stage[p] = "applying" /\ sub' = RowAfter(mem[p]) /\ spent' = 0
      /\ GoesTo(p, After(job[p], sub'), job[p], sub') /\ UNCHANGED <<today, ask>>
  BY DEF applyExpiredPeriod
<1>2. mem[p] \in Row /\ (mem[p].status = "trialing" => mem[p].pending = Nothing)
  BY <1>1 DEF PlanIInv, Asked
<1>3. /\ sub' \in Row /\ sub'.status = "active" /\ sub'.pending = Nothing
      /\ sub'.lapsed # Nothing => sub'.tier = "bronze"
  BY <1>1, <1>2, RowAfterType DEF PlanIInv
<1>4. job[p] \in Job
  BY DEF PlanIInv, PlanTypeOK
<1> DEFINE step == After(job[p], sub')
<1>5. /\ step \in {"idle", "applying", "join", "schedule", "cancel", "approve", "again"}
      /\ step \in {"join", "schedule"} => job[p].op = step
      /\ step = "join" => tierRank[sub'.tier] < tierRank[job[p].what]
  <2>1. job[p].op = "join" => job[p].what \in Tiers
    BY DEF PlanIInv, Asked, Selectable
  <2>2. sub'.tier \in Tiers
    BY <1>3 DEF Row
  <2> QED
    BY <2>1, <2>2, <1>3, <1>4, AfterFacts, Catalogue
<1> HIDE DEF step
<1>6. job[p].op = "join" => job[p].what \in Selectable
  BY DEF PlanIInv, Asked
<1>7. job[p].op = "schedule" => job[p].what \in Tiers
  BY DEF PlanIInv, Asked
<1>8. /\ stage' \in [PlanRequests -> {"idle", "applying", "join", "schedule", "cancel", "approve", "again"}]
      /\ mem' \in [PlanRequests -> Row \cup {Nothing}]
      /\ job' \in [PlanRequests -> Job]
      /\ stage'[p] = step
      /\ step \in {"applying", "join"} => mem'[p] = sub' /\ job'[p] = job[p]
      /\ \A q \in PlanRequests \ {p} : stage'[q] = stage[q] /\ mem'[q] = mem[q] /\ job'[q] = job[q]
      /\ Asked'
  <2>1. GoesTo(p, step, job[p], sub')
    BY <1>1 DEF step
  <2> QED
    BY <2>1, <1>3, <1>4, <1>5, <1>6, <1>7, GoesToKeeps DEF PlanIInv
<1>9. PlanTypeOK'
  BY <1>1, <1>3, <1>8 DEF PlanIInv, PlanTypeOK
<1>10. Unpaid'
  BY <1>1, <1>3 DEF Unpaid
<1>11. NeverOvercharged'
  BY <1>1, <1>3, Catalogue DEF NeverOvercharged, Row
<1>12. Remembered'
  <2> SUFFICES ASSUME NEW q \in PlanRequests
      PROVE /\ stage'[q] = "join" =>
                 /\ mem'[q].status = "trialing" \/ tierRank[mem'[q].tier] < tierRank[job'[q].what]
                 /\ mem'[q].lapsed # Nothing => mem'[q].tier = "bronze"
    BY <1>1, <1>3 DEF Remembered
  <2>1. CASE q = p
    BY <2>1, <1>3, <1>5, <1>8
  <2>2. CASE q # p
    BY <2>2, <1>8 DEF PlanIInv, Remembered
  <2> QED
    BY <2>1, <2>2
<1> QED
  BY <1>8, <1>9, <1>10, <1>11, <1>12 DEF PlanIInv

(* A join pays for what it adds, and nothing else was paid: a full price meets *)
(* an empty account, a difference the very tier it was taken from.             *)
LEMMA JoinKeeps ==
  ASSUME PlanIInv, NEW p \in PlanRequests, JoinCommit(p)
  PROVE  PlanIInv'
<1> USE NothingIsNoTier
<1>1. /\ stage[p] = "join" /\ StillAsRead(p) /\ sub' = Joined(p)
      /\ spent' = spent + changeCost(joinPricedFrom(mem[p]), job[p].what)
      /\ GoesTo(p, "again", Reading, Nothing) /\ UNCHANGED <<today, ask>>
  BY DEF JoinCommit
<1>2. /\ mem[p] \in Row /\ job[p].what \in Tiers
      /\ mem[p].tier = sub.tier /\ mem[p].status = sub.status
      /\ sub \in Row /\ spent \in Nat
  BY <1>1 DEF PlanIInv, PlanTypeOK, Asked, StillAsRead, Selectable
<1>3. /\ sub' \in Row /\ sub'.tier = job[p].what /\ sub'.status = "active"
      /\ sub'.lapsed = Nothing
  <2>1. newPeriod \in Nat
    BY PeriodAssumption DEF PlanIInv, PlanTypeOK, newPeriod
  <2> QED
    BY <1>1, <1>2, <2>1 DEF Joined, Row
<1>4. sub.status = "trialing" \/ tierRank[sub.tier] < tierRank[job[p].what]
  BY <1>1, <1>2 DEF PlanIInv, Remembered
<1>5. spent' \in Nat /\ spent' <= priceOf[job[p].what]
  <2>1. CASE joinPricedFrom(mem[p]) = Nothing
    <3>1. mem[p].status = "trialing" \/ mem[p].lapsed # Nothing
      BY <1>2, <2>1 DEF joinPricedFrom, Row
    <3>2. spent = 0
      BY <1>1, <1>2, <3>1 DEF PlanIInv, Unpaid, Remembered
    <3>3. spent' = spent + priceOf[job[p].what]
      BY <1>1, <2>1 DEF changeCost
    <3> QED
      BY <1>2, <3>2, <3>3, Catalogue
  <2>2. CASE joinPricedFrom(mem[p]) # Nothing
    <3>1. joinPricedFrom(mem[p]) = sub.tier /\ sub.status = "active"
      BY <1>2, <2>2 DEF joinPricedFrom, Row
    <3>2. priceOf[sub.tier] < priceOf[job[p].what]
      BY <1>2, <1>4, <3>1, Catalogue DEF Row
    <3>3. spent' = spent + (priceOf[job[p].what] - priceOf[sub.tier])
      BY <1>1, <1>2, <2>2, <3>1, <3>2, Catalogue DEF changeCost, Row
    <3>4. spent <= priceOf[sub.tier]
      BY DEF PlanIInv, NeverOvercharged
    <3> QED
      BY <1>2, <3>2, <3>3, <3>4, Catalogue DEF Row
  <2> QED
    BY <2>1, <2>2
<1>6. /\ stage' \in [PlanRequests -> {"idle", "applying", "join", "schedule", "cancel", "approve", "again"}]
      /\ mem' \in [PlanRequests -> Row \cup {Nothing}]
      /\ job' \in [PlanRequests -> Job]
      /\ stage'[p] = "again"
      /\ \A q \in PlanRequests \ {p} : stage'[q] = stage[q] /\ mem'[q] = mem[q] /\ job'[q] = job[q]
      /\ Asked'
  <2>1. Reading \in Job /\ Reading.op = "read"
    BY DEF Reading, Job
  <2> QED
    BY <1>1, <2>1, GoesToKeeps DEF PlanIInv
<1>7. PlanTypeOK'
  BY <1>1, <1>3, <1>5, <1>6 DEF PlanIInv, PlanTypeOK
<1>8. Unpaid' /\ NeverOvercharged'
  BY <1>3, <1>5 DEF Unpaid, NeverOvercharged
<1>9. Remembered'
  <2>1. ASSUME NEW q \in PlanRequests \ {p}, stage[q] = "join", mem[q].lapsed # Nothing
        PROVE  sub'.tier # "bronze"
    <3>1. sub.status = "active"
      BY <2>1 DEF PlanIInv, Remembered
    <3>2. tierRank[sub.tier] \in Nat /\ tierRank["bronze"] = 0
      BY <1>2, Catalogue DEF Row, tierRank
    <3> QED
      BY <1>3, <1>4, <3>1, <3>2
  <2> QED
    BY <1>3, <1>6, <2>1 DEF PlanIInv, Remembered
<1> QED
  BY <1>6, <1>7, <1>8, <1>9 DEF PlanIInv

(* A move down is written only once the trial is over. *)
LEMMA PendingKeeps ==
  ASSUME PlanIInv, NEW p \in PlanRequests, PendingCommit(p)
  PROVE  PlanIInv'
<1>1. /\ stage[p] \in {"schedule", "cancel"}
      /\ sub' = [sub EXCEPT !.pending = IF stage[p] = "schedule" THEN job[p].what ELSE Nothing]
      /\ GoesTo(p, "again", Reading, Nothing) /\ UNCHANGED <<today, spent, ask>>
  BY DEF PendingCommit
<1>2. stage[p] = "schedule" => job[p].what \in Tiers /\ sub.status = "active"
  BY DEF PlanIInv, Asked, Remembered
<1>3. /\ sub' \in Row /\ sub'.tier = sub.tier /\ sub'.status = sub.status
      /\ sub'.lapsed = sub.lapsed
      /\ sub'.pending = IF stage[p] = "schedule" THEN job[p].what ELSE Nothing
  BY <1>1, <1>2 DEF PlanIInv, PlanTypeOK, Row
<1>4. /\ stage' \in [PlanRequests -> {"idle", "applying", "join", "schedule", "cancel", "approve", "again"}]
      /\ mem' \in [PlanRequests -> Row \cup {Nothing}]
      /\ job' \in [PlanRequests -> Job]
      /\ stage'[p] = "again"
      /\ \A q \in PlanRequests \ {p} : stage'[q] = stage[q] /\ mem'[q] = mem[q] /\ job'[q] = job[q]
      /\ Asked'
  <2>1. Reading \in Job /\ Reading.op = "read"
    BY DEF Reading, Job
  <2> QED
    BY <1>1, <2>1, GoesToKeeps DEF PlanIInv
<1>5. PlanTypeOK'
  BY <1>1, <1>3, <1>4 DEF PlanIInv, PlanTypeOK
<1>6. Unpaid' /\ NeverOvercharged'
  BY <1>1, <1>2, <1>3 DEF PlanIInv, Unpaid, NeverOvercharged
<1>7. Remembered'
  BY <1>1, <1>3, <1>4 DEF PlanIInv, Remembered
<1> QED
  BY <1>4, <1>5, <1>6, <1>7 DEF PlanIInv

(* What the operator gives or sells starts from an empty account. *)
LEMMA GrantedFacts ==
  ASSUME PlanTypeOK, NEW t \in Tiers
  PROVE  /\ Granted(t) \in Row /\ Granted(t).status = "active"
         /\ Granted(t).lapsed = Nothing /\ Granted(t).pending = Nothing
  BY PeriodAssumption DEF Granted, Row, PlanTypeOK, newPeriod

(* Without a request that moves, only an empty account under an active row is safe to remember. *)
LEMMA OverrideKeeps ==
  ASSUME PlanIInv, NEW t \in Tiers, overridePlan(t)
  PROVE  PlanIInv'
<1>1. sub' = Granted(t) /\ spent' = 0 /\ UNCHANGED <<today, ask, stage, mem, job>>
  BY DEF overridePlan
<1>2. /\ sub' \in Row /\ sub'.status = "active" /\ sub'.lapsed = Nothing
  BY <1>1, GrantedFacts DEF PlanIInv
<1>3. PlanTypeOK' /\ Asked'
  BY <1>1, <1>2 DEF PlanIInv, PlanTypeOK, Asked
<1>4. Unpaid' /\ Remembered'
  BY <1>1, <1>2 DEF PlanIInv, Unpaid, Remembered
<1>5. NeverOvercharged'
  BY <1>1, <1>2, Catalogue DEF NeverOvercharged, Row
<1> QED
  BY <1>3, <1>4, <1>5 DEF PlanIInv

LEMMA ApproveKeeps ==
  ASSUME PlanIInv, NEW p \in PlanRequests, ApproveCommit(p)
  PROVE  PlanIInv'
<1>1. /\ sub' = Granted("enterprise") /\ spent' = 0
      /\ ask' = [ask EXCEPT ![job[p].what] = "closed"]
      /\ GoesTo(p, "idle", Reading, Nothing) /\ UNCHANGED today
  BY DEF ApproveCommit
<1>2. /\ sub' \in Row /\ sub'.status = "active" /\ sub'.lapsed = Nothing
  BY <1>1, GrantedFacts DEF PlanIInv, Tiers
<1>3. /\ stage' \in [PlanRequests -> {"idle", "applying", "join", "schedule", "cancel", "approve", "again"}]
      /\ mem' \in [PlanRequests -> Row \cup {Nothing}]
      /\ job' \in [PlanRequests -> Job]
      /\ stage'[p] = "idle"
      /\ \A q \in PlanRequests \ {p} : stage'[q] = stage[q] /\ mem'[q] = mem[q] /\ job'[q] = job[q]
      /\ Asked'
  <2>1. Reading \in Job /\ Reading.op = "read"
    BY DEF Reading, Job
  <2> QED
    BY <1>1, <2>1, GoesToKeeps DEF PlanIInv
<1>4. PlanTypeOK'
  BY <1>1, <1>2, <1>3 DEF PlanIInv, PlanTypeOK
<1>5. Unpaid' /\ Remembered'
  BY <1>1, <1>2, <1>3 DEF PlanIInv, Unpaid, Remembered
<1>6. NeverOvercharged'
  BY <1>1, <1>2, Catalogue DEF NeverOvercharged, Row
<1> QED
  BY <1>3, <1>4, <1>5, <1>6 DEF PlanIInv

(* Every step keeps the inductive invariant. *)
LEMMA PlanNextIInv == PlanIInv /\ [PlanNext]_planVars => PlanIInv'
<1> SUFFICES ASSUME PlanIInv, [PlanNext]_planVars PROVE PlanIInv'
  OBVIOUS
<1> USE NothingIsNoTier
<1>1. ASSUME NEW p \in PlanRequests, readBilling(p) \/ ReadAgain(p) PROVE PlanIInv'
  <2>1. Reading \in Job /\ Reading.op = "read"
    BY DEF Reading, Job
  <2>2. Read(p, Reading)
    BY <1>1 DEF readBilling, ReadAgain
  <2> QED
    BY <2>1, <2>2, ReadKeeps
<1>2. ASSUME NEW p \in PlanRequests, NEW t \in Selectable, joinTier(p, t) PROVE PlanIInv'
  <2> DEFINE j == [op |-> "join", what |-> t]
  <2>1. j \in Job /\ j.op = "join" /\ j.what \in Selectable
    BY DEF Job, Selectable
  <2>2. Read(p, j)
    BY <1>2 DEF joinTier
  <2> HIDE DEF j
  <2> QED
    BY <2>1, <2>2, ReadKeeps
<1>3. ASSUME NEW p \in PlanRequests, NEW t \in Tiers, scheduleDowngrade(p, t) PROVE PlanIInv'
  <2> DEFINE j == [op |-> "schedule", what |-> t]
  <2>1. j \in Job /\ j.op = "schedule" /\ j.what \in Tiers
    BY DEF Job
  <2>2. Read(p, j)
    BY <1>3 DEF scheduleDowngrade
  <2> HIDE DEF j
  <2> QED
    BY <2>1, <2>2, ReadKeeps
<1>4. ASSUME NEW p \in PlanRequests, cancelDowngrade(p) PROVE PlanIInv'
  <2> DEFINE j == [op |-> "cancel", what |-> Nothing]
  <2>1. j \in Job /\ j.op = "cancel"
    BY DEF Job
  <2>2. Read(p, j)
    BY <1>4 DEF cancelDowngrade
  <2> HIDE DEF j
  <2> QED
    BY <2>1, <2>2, ReadKeeps
<1>5. ASSUME NEW p \in PlanRequests,
             (\E a \in Asks : ApproveFind(p, a)) \/ JoinConflict(p)
      PROVE PlanIInv'
  <2>1. PICK step \in {"approve", "idle"}, j \in Job :
          /\ GoesTo(p, step, j, Nothing) /\ j.op \in {"read", "approve"}
          /\ UNCHANGED <<sub, today, spent, ask>>
    <3>1. Reading \in Job /\ Reading.op = "read"
      BY DEF Reading, Job
    <3>2. CASE JoinConflict(p)
      BY <3>1, <3>2 DEF JoinConflict
    <3>3. CASE \E a \in Asks : ApproveFind(p, a)
      <4>1. PICK a \in Asks : ApproveFind(p, a)
        BY <3>3
      <4> DEFINE j == [op |-> "approve", what |-> a]
      <4>2. j \in Job /\ j.op = "approve"
        BY DEF Job
      <4>3. GoesTo(p, "approve", j, Nothing) /\ UNCHANGED <<sub, today, spent, ask>>
        BY <4>1 DEF ApproveFind
      <4> HIDE DEF j
      <4> QED
        BY <4>2, <4>3
    <3> QED
      BY <1>5, <3>2, <3>3
  <2>2. /\ stage' \in [PlanRequests ->
                         {"idle", "applying", "join", "schedule", "cancel", "approve", "again"}]
        /\ mem' \in [PlanRequests -> Row \cup {Nothing}]
        /\ job' \in [PlanRequests -> Job]
        /\ stage'[p] = step
        /\ \A q \in PlanRequests \ {p} : stage'[q] = stage[q] /\ mem'[q] = mem[q] /\ job'[q] = job[q]
        /\ Asked'
    BY <2>1, GoesToKeeps DEF PlanIInv
  <2>3. PlanTypeOK' /\ Unpaid' /\ NeverOvercharged'
    BY <2>1, <2>2 DEF PlanIInv, PlanTypeOK, Unpaid, NeverOvercharged
  <2>4. Remembered'
    BY <2>1, <2>2 DEF PlanIInv, Remembered
  <2> QED
    BY <2>2, <2>3, <2>4 DEF PlanIInv
<1>6. ASSUME \/ \E a \in Asks : requestEnterprise(a)
             \/ \E a \in Asks, to \in {"open", "contacted", "closed"} :
                   updateEnterpriseRequest(a, to)
      PROVE PlanIInv'
  <2>1. ask' \in [Asks -> {"none", "open", "contacted", "closed"}]
        /\ UNCHANGED <<sub, today, spent, stage, mem, job>>
    BY <1>6 DEF requestEnterprise, updateEnterpriseRequest, PlanIInv, PlanTypeOK
  <2> QED
    BY <2>1 DEF PlanIInv, PlanTypeOK, Asked, Unpaid, Remembered, NeverOvercharged
<1>7. CASE NextDay
  <2>1. today' \in 0..MaxDay /\ UNCHANGED <<sub, spent, ask, stage, mem, job>>
    BY <1>7, PeriodAssumption DEF NextDay, PlanIInv, PlanTypeOK
  <2> QED
    BY <2>1 DEF PlanIInv, PlanTypeOK, Asked, Unpaid, Remembered, NeverOvercharged
<1>8. CASE UNCHANGED planVars
  BY <1>8 DEF planVars, PlanIInv, PlanTypeOK, Asked, Unpaid, Remembered, NeverOvercharged
<1> QED
  BY <1>1, <1>2, <1>3, <1>4, <1>5, <1>6, <1>7, <1>8,
     ApplyKeeps, JoinKeeps, PendingKeeps, ApproveKeeps, OverrideKeeps DEF PlanNext

LEMMA Inductive == PlanSpec => []PlanIInv
<1>1. PlanInit => PlanIInv
  BY PlanInitIInv
<1>2. PlanIInv /\ [PlanNext]_planVars => PlanIInv'
  BY PlanNextIInv
<1> QED
  BY <1>1, <1>2, PTL DEF PlanSpec

-----------------------------------------------------------------------------
(* The subscription row, the ledger and every request have their types. *)
THEOREM BillingTypeCorrect == PlanSpec => []PlanTypeOK
<1>1. PlanIInv => PlanTypeOK
  BY DEF PlanIInv
<1> QED
  BY <1>1, Inductive, PTL

(* However many tabs press Pay, and whatever expiries, overrides and approvals they  *)
(* overlap with, the customer pays no more than the plan they hold costs (joinTier). *)
THEOREM NobodyOvercharged == PlanSpec => []NeverOvercharged
<1>1. PlanIInv => NeverOvercharged
  BY DEF PlanIInv
<1> QED
  BY <1>1, Inductive, PTL

(* The notice that a plan ran out stands only beside the bronze it left. *)
THEOREM NoticesAreOnBronze == PlanSpec => []NoticeOnBronze
<1>1. PlanIInv => NoticeOnBronze
  BY DEF PlanIInv, Unpaid, NoticeOnBronze
<1> QED
  BY <1>1, Inductive, PTL

(* Nothing is ever scheduled during a trial (scheduleDowngrade's refusal). *)
THEOREM TrialsHaveNothingScheduled == PlanSpec => []TrialHasNothingScheduled
<1>1. PlanIInv => TrialHasNothingScheduled
  BY DEF PlanIInv, Unpaid, TrialHasNothingScheduled
<1> QED
  BY <1>1, Inductive, PTL

-----------------------------------------------------------------------------
(* Which step takes a request on from a join, or from an expiry. *)
LEMMA WhoseStep ==
  ASSUME PlanTypeOK, PlanNext, NEW p \in PlanRequests, stage'[p] # stage[p]
  PROVE  /\ stage[p] = "join" => JoinCommit(p) \/ JoinConflict(p)
         /\ stage[p] = "applying" => applyExpiredPeriod(p)
<1> DEFINE Elsewhere(q) ==
      \/ readBilling(q) \/ cancelDowngrade(q)
      \/ \E t \in Selectable : joinTier(q, t)
      \/ \E t \in Tiers : scheduleDowngrade(q, t)
      \/ \E a \in Asks : ApproveFind(q, a)
      \/ ReadAgain(q) \/ PendingCommit(q) \/ ApproveCommit(q)
<1>1. ASSUME NEW q \in PlanRequests, q # p, NEW step, NEW j, NEW row, GoesTo(q, step, j, row)
      PROVE  FALSE
  BY <1>1 DEF GoesTo, PlanTypeOK
<1>2. ASSUME NEW q \in PlanRequests, NEW j, Read(q, j)
      PROVE  q = p
  BY <1>1, <1>2 DEF Read
<1>3. ASSUME NEW q \in PlanRequests, Elsewhere(q)
      PROVE  stage[p] \notin {"join", "applying"}
  <2>1. q = p
    BY <1>1, <1>2, <1>3
       DEF readBilling, cancelDowngrade, joinTier, scheduleDowngrade, ApproveFind, ReadAgain,
           PendingCommit, ApproveCommit
  <2> QED
    BY <2>1, <1>3
       DEF readBilling, cancelDowngrade, joinTier, scheduleDowngrade, ApproveFind, ReadAgain,
           PendingCommit, ApproveCommit
<1>4. ASSUME NEW q \in PlanRequests, applyExpiredPeriod(q) \/ JoinCommit(q) \/ JoinConflict(q)
      PROVE  q = p
  BY <1>1, <1>4 DEF applyExpiredPeriod, JoinCommit, JoinConflict
<1>5. ASSUME NEW q \in PlanRequests, applyExpiredPeriod(q) PROVE stage[q] = "applying"
  BY <1>5 DEF applyExpiredPeriod
<1>6. ASSUME NEW q \in PlanRequests, JoinCommit(q) \/ JoinConflict(q) PROVE stage[q] = "join"
  BY <1>6 DEF JoinCommit, JoinConflict
<1>7. ASSUME \/ \E a \in Asks : requestEnterprise(a)
             \/ \E a \in Asks, to \in {"open", "contacted", "closed"} :
                   updateEnterpriseRequest(a, to)
             \/ \E t \in Tiers : overridePlan(t)
             \/ NextDay
      PROVE  FALSE
  BY <1>7 DEF requestEnterprise, updateEnterpriseRequest, overridePlan, NextDay
<1>8. PICK q \in PlanRequests :
        Elsewhere(q) \/ applyExpiredPeriod(q) \/ JoinCommit(q) \/ JoinConflict(q)
  BY <1>7 DEF PlanNext
<1> HIDE DEF Elsewhere
<1>9. CASE applyExpiredPeriod(q) \/ JoinCommit(q) \/ JoinConflict(q)
  BY <1>4, <1>5, <1>6, <1>9
<1>10. CASE Elsewhere(q)
  BY <1>3, <1>10
<1> QED
  BY <1>8, <1>9, <1>10

(* A customer's join never takes them off a tier that was paid for: the update *)
(* repeats the tier and the status its refusal of a move down was decided on.  *)
THEOREM JoinsClimb == PlanSpec => JoinsOnlyClimb
<1> DEFINE Climbs ==
      \A p \in PlanRequests :
        stage[p] = "join" /\ sub' # sub /\ stage'[p] = "again" =>
          sub.status = "trialing" \/ tierRank[sub.tier] < tierRank[sub'.tier]
<1>1. PlanIInv /\ [PlanNext]_planVars => [Climbs]_planVars
  <2> SUFFICES ASSUME PlanIInv, PlanNext, NEW p \in PlanRequests, stage[p] = "join", stage'[p] = "again"
      PROVE  sub.status = "trialing" \/ tierRank[sub.tier] < tierRank[sub'.tier]
    OBVIOUS
  <2>1. JoinCommit(p) \/ JoinConflict(p)
    BY WhoseStep DEF PlanIInv
  <2>2. ~JoinConflict(p)
    BY DEF JoinConflict, GoesTo, PlanIInv, PlanTypeOK
  <2>3. StillAsRead(p) /\ sub' = Joined(p)
    BY <2>1, <2>2 DEF JoinCommit
  <2>4. sub'.tier = job[p].what
    BY <2>3 DEF Joined, PlanIInv, PlanTypeOK, Row
  <2> QED
    BY <2>3, <2>4 DEF PlanIInv, Remembered, StillAsRead
<1> QED
  BY <1>1, Inductive, PTL DEF PlanSpec, JoinsOnlyClimb

(* The row catches up while the decision never lags: applying an ended period *)
(* to the row it was read from changes no answer of the gate.                 *)
THEOREM RowsCatchUp == PlanSpec => RowCatchesUpUndisturbed
<1> DEFINE CatchesUp ==
      \A p \in PlanRequests :
        stage[p] = "applying" /\ stage'[p] # "applying" /\ mem[p] = sub =>
          effectiveTier(sub)' = effectiveTier(sub)
<1>1. PlanIInv /\ [PlanNext]_planVars => [CatchesUp]_planVars
  <2> SUFFICES ASSUME PlanIInv, PlanNext, NEW p \in PlanRequests,
                      stage[p] = "applying", stage'[p] # "applying", mem[p] = sub
      PROVE  effectiveTier(sub)' = effectiveTier(sub)
    OBVIOUS
  <2>1. applyExpiredPeriod(p)
    BY WhoseStep DEF PlanIInv
  <2>2. sub' = RowAfter(sub) /\ today' = today
    BY <2>1 DEF applyExpiredPeriod
  <2>3. sub \in Row /\ today \in Nat /\ newPeriod \in Nat /\ newPeriod >= today
    BY PeriodAssumption DEF PlanIInv, PlanTypeOK, newPeriod
  <2>4. effectiveTier(sub) \in Tiers
    BY <2>3, EffectiveType
  <2>5. sub'.tier = effectiveTier(sub) /\ sub'.ends = newPeriod
    BY <2>2, <2>3, <2>4 DEF RowAfter, Row
  <2> QED
    BY <2>2, <2>3, <2>5 DEF effectiveTier, periodHasEnded
<1> QED
  BY <1>1, Inductive, PTL DEF PlanSpec, RowCatchesUpUndisturbed
=============================================================================
