------------------------------ MODULE Support -------------------------------
(***************************************************************************)
(* Support access (src/src/backend/db/support.ts, authz/support.ts and the *)
(* support and operator handlers of features/platform): an Endur operator  *)
(* enters a customer's organisation for a while, works there through the   *)
(* ordinary permission check, and leaves or runs out of time.              *)
(*                                                                         *)
(* Three things outlive a request: the session record behind the browser's *)
(* cookie, the row in support_sessions, which is what confers power, and   *)
(* the process's cache of grants.  Entering and leaving write them one by  *)
(* one, in no transaction.  The customer's own permission changes, which   *)
(* also empty the cache, are in GrantCache; suspension does not stop       *)
(* support and is left out.                                                *)
(***************************************************************************)
EXTENDS Naturals

CONSTANTS
  Operators,  \* platform_users
  Owners,     \* those who are owners to start with
  Browsers,
  By,         \* browser -> the operator signed in to the console in it
  Orgs,
  Entries,    \* enterSupport; a session id is named after the request that made it
  Requests,   \* requests to a customer's console, one after another
  Leavers,    \* leaveSupport, and the logout that ends the same row
  Managers,   \* updateOperator
  SUPPORT_SESSION_MINUTES,  \* in ticks
  TTL,                      \* TTL_MS of the cache, in ticks
  MaxTime,                  \* the clock stops here
  None

Procs == Entries \cup Requests \cup Leavers \cup Managers
Doors == Operators \X Orgs
Roles == {"owner", "staff"}
Patches == Roles \cup {"active", "disabled"}

Times == 0..(MaxTime + SUPPORT_SESSION_MINUTES)
SessionRows == [expires : Times, ended : BOOLEAN, order : Nat]

ASSUME SupportAssumption ==
  /\ Owners \subseteq Operators
  /\ By \in [Browsers -> Operators]
  /\ SUPPORT_SESSION_MINUTES \in Nat \ {0}
  /\ TTL \in Nat \ {0}
  /\ MaxTime \in Nat
  /\ LET kind == <<Entries, Requests, Leavers, Managers>>
     IN \A i, j \in 1..4 : i # j => kind[i] \cap kind[j] = {}
  /\ None \notin Operators \cup Browsers \cup Orgs \cup Procs \cup SessionRows

\* Stands for every capability, and for the ones of SUPPORT_DENIED_CAPABILITIES.
Capabilities == {"unit.create", "results.read"}
supportDeniedFor(r) == IF r = "owner" THEN {} ELSE {"results.read"}

VARIABLES
  role, status,  \* Operators -> the columns of platform_users
  members,       \* the doors with a support member behind them
  rows,          \* Entries -> the support_sessions row the entry made: [expires, ended, order], or None
  store,         \* the session records that carry the support flag
  cookie,        \* Browsers -> the session id the browser sends, or None
  cache,         \* Doors -> the cached grants of the member: [grants, until], or None
  now,           \* the clock
  arg,           \* Procs -> what the request is about and has read
  pc,            \* Procs -> the next step
  everOwner,     \* history: who has ever been an owner
  dropped        \* history: the sessions a Leave has destroyed

tables == <<role, status, members, rows>>
memory == <<store, cookie, cache>>
history == <<everOwner, dropped>>
vars == <<tables, memory, now, arg, pc, history>>

\* What mintSupportGrants makes: every capability, less what the role is denied, until validTo.
Mint(r, validTo) == [allow |-> Capabilities, deny |-> supportDeniedFor(r), validTo |-> validTo]
NoGrants == [allow |-> {}, deny |-> {}, validTo |-> 0]
Grants == [allow : SUBSET Capabilities, deny : SUBSET Capabilities, validTo : Times]

NoArg == [browser |-> None, org |-> None, sid |-> None, at |-> 0, cap |-> "unit.create",
          allowed |-> FALSE, owned |-> FALSE, crossed |-> FALSE,
          target |-> None, patch |-> "active"]
Args == [browser : Browsers \cup {None}, org : Orgs \cup {None}, sid : Entries \cup {None},
         at : Times, cap : Capabilities, allowed : BOOLEAN, owned : BOOLEAN, crossed : BOOLEAN,
         target : Operators \cup {None}, patch : Patches]
EntrySteps == {"entering", "regenerated", "member", "closed", "opened"}

TypeOK ==
  /\ role \in [Operators -> Roles]
  /\ status \in [Operators -> {"active", "disabled"}]
  /\ members \in SUBSET Doors
  /\ rows \in [Entries -> SessionRows \cup {None}]
  /\ store \in SUBSET Entries
  /\ cookie \in [Browsers -> Entries \cup {None}]
  /\ cache \in [Doors -> [grants : Grants, until : 0..(MaxTime + TTL)] \cup {None}]
  /\ now \in 0..MaxTime
  /\ arg \in [Procs -> Args]
  /\ pc \in [Procs -> EntrySteps \cup
              {"idle", "admitted", "missed", "decided", "ended", "changing", "done"}]
  /\ everOwner \in SUBSET Operators
  /\ dropped \in SUBSET Entries

Init ==
  /\ role = [o \in Operators |-> IF o \in Owners THEN "owner" ELSE "staff"]
  /\ status = [o \in Operators |-> "active"]
  /\ members = {}
  /\ rows = [p \in Entries |-> None]
  /\ store = {}
  /\ cookie = [b \in Browsers |-> None]
  /\ cache = [d \in Doors |-> None]
  /\ now = 0
  /\ arg = [p \in Procs |-> NoArg]
  /\ pc = [p \in Procs |-> "idle"]
  /\ everOwner = Owners
  /\ dropped = {}

Goto(p, at, a) ==
  /\ arg' = [arg EXCEPT ![p] = a]
  /\ pc' = [pc EXCEPT ![p] = at]

\* The operator and organisation of an entry.
Operator(p) == By[arg[p].browser]
Door(p) == <<Operator(p), arg[p].org>>

-----------------------------------------------------------------------------
(* support_sessions.                                                       *)

Unended == {p \in Entries : rows[p] # None /\ ~rows[p].ended}
Open(at) == {p \in Unended : rows[p].expires > at}
NewestOf(P) == {p \in P : \A q \in P : rows[q].order <= rows[p].order}

Ending(P) == [p \in Entries |-> IF p \in P THEN [rows[p] EXCEPT !.ended = TRUE] ELSE rows[p]]

\* The session of this cookie lets a request in.
loadSupportSession(sid) == sid \in Open(now) /\ status[Operator(sid)] = "active"
Inside(b) == cookie[b] \in store /\ loadSupportSession(cookie[b])

\* What the customer's staff are told: the newest open row, if its operator is active.
activeSupportFor(org) ==
  \E p \in NewestOf({q \in Open(now) : arg[q].org = org}) : status[Operator(p)] = "active"

\* What the newest of these rows confers.
Conferred(open) ==
  IF open = {} THEN NoGrants
  ELSE LET p == CHOOSE q \in NewestOf(open) : TRUE IN Mint(role[Operator(p)], rows[p].expires)

\* Mutant: the newest open row of the organisation, whoever opened it.
WindowOfAnybody(door, at) == Conferred({p \in Open(at) : arg[p].org = door[2]})

\* The grants of a support member at a time, from the newest open row of the door.
supportGrantWindow(door, at) == Conferred({p \in Open(at) : Door(p) = door})

-----------------------------------------------------------------------------
(* enterSupport: a new session, the member, the row.                       *)

EnterCheck(p, b, org) ==
  /\ pc[p] = "idle"
  /\ status[By[b]] = "active"
  /\ Goto(p, "entering", [NoArg EXCEPT !.browser = b, !.org = org, !.sid = cookie[b]])
  /\ UNCHANGED <<tables, memory, now, history>>

\* The record of the session the request came with is destroyed.
Regenerate(p) ==
  /\ pc[p] = "entering"
  /\ store' = (store \ {arg[p].sid}) \cup {p}
  /\ Goto(p, "regenerated", [arg[p] EXCEPT !.sid = None])
  /\ UNCHANGED <<tables, cookie, cache, now, history>>

\* Found or created.  Of two requests that find none, the second creation meets the unique
\* email and fails (FailEntry).
ensureSupportUser(p) ==
  /\ pc[p] = "regenerated"
  /\ members' = members \cup {Door(p)}
  /\ Goto(p, "member", arg[p])
  /\ UNCHANGED <<role, status, rows, memory, now, history>>

CloseEarlier(p) ==
  /\ pc[p] = "member"
  /\ rows' = Ending({q \in Unended : Door(q) = Door(p)})
  /\ Goto(p, "closed", [arg[p] EXCEPT !.at = now])
  /\ UNCHANGED <<role, status, members, memory, now, history>>

\* Whoever has closed and not created is crossed by this row.
CreateRow(p) ==
  /\ pc[p] = "closed"
  /\ LET earlier == {q \in Entries : rows[q] # None}
         last == CHOOSE n \in {0} \cup {rows[q].order : q \in earlier} :
                   \A q \in earlier : rows[q].order <= n
     IN rows' = [rows EXCEPT ![p] = [expires |-> arg[p].at + SUPPORT_SESSION_MINUTES,
                                     ended |-> FALSE, order |-> last + 1]]
  /\ arg' = [q \in Procs |->
               IF q \in Entries \ {p} /\ pc[q] = "closed" /\ Door(q) = Door(p)
                 THEN [arg[q] EXCEPT !.crossed = TRUE]
                 ELSE IF q = p THEN [arg[q] EXCEPT !.at = 0] ELSE arg[q]]
  /\ pc' = [pc EXCEPT ![p] = "opened"]
  /\ UNCHANGED <<role, status, members, memory, now, history>>

\* The session is given its user, which no support request reads; the entry is written to
\* the operators' audit, and the browser has the cookie.
AnswerEntry(p) ==
  /\ pc[p] = "opened"
  /\ cookie' = [cookie EXCEPT ![arg[p].browser] = p]
  /\ Goto(p, "done", arg[p])
  /\ UNCHANGED <<tables, store, cache, now, history>>

\* A statement fails.  The error goes out with the cookie of the new session.
FailEntry(p) ==
  /\ pc[p] \in EntrySteps
  /\ cookie' = IF pc[p] = "entering" THEN cookie ELSE [cookie EXCEPT ![arg[p].browser] = p]
  /\ Goto(p, "done", arg[p])
  /\ UNCHANGED <<tables, store, cache, now, history>>

-----------------------------------------------------------------------------
(* A request to the customer's console: attachSupport, then run() of       *)
(* authz/resolve.ts with the clock it started with.                        *)

Admit(q, b, cap) ==
  /\ pc[q] = "idle"
  /\ Inside(b)
  /\ Goto(q, "admitted", [NoArg EXCEPT !.sid = cookie[b], !.cap = cap])
  /\ UNCHANGED <<tables, memory, now, history>>

\* A session that is over is cleared of its marks and works no more.
Refuse(b) ==
  /\ cookie[b] \in store /\ ~Inside(b)
  /\ store' = store \ {cookie[b]}
  /\ UNCHANGED <<tables, cookie, cache, now, arg, pc, history>>

\* Mutant: the decision does not look at how long a grant is valid.
AllowsForever(g, cap, at) == cap \in g.allow \ g.deny

Allows(g, cap, at) == g.validTo > at /\ cap \in g.allow \ g.deny

OwnerAt(q) == role[Operator(arg[q].sid)] = "owner"

Fresh(door) == cache[door] # None /\ cache[door].until > now

\* The cached grants decide at once.
CheckCached(q) ==
  LET door == Door(arg[q].sid) IN
  /\ pc[q] = "admitted"
  /\ Fresh(door)
  /\ Goto(q, "decided", [arg[q] EXCEPT !.at = now, !.owned = OwnerAt(q),
                                       !.allowed = Allows(cache[door].grants, arg[q].cap, now)])
  /\ UNCHANGED <<tables, memory, now, history>>

CheckMissed(q) ==
  /\ pc[q] = "admitted"
  /\ ~Fresh(Door(arg[q].sid))
  /\ Goto(q, "missed", [arg[q] EXCEPT !.at = now, !.owned = OwnerAt(q)])
  /\ UNCHANGED <<tables, memory, now, history>>

\* collectGrants finds no person behind a support member; what it mints is cached and decides.
Collect(q) ==
  LET door == Door(arg[q].sid)
      grants == supportGrantWindow(door, arg[q].at)
  IN /\ pc[q] = "missed"
     /\ cache' = [cache EXCEPT ![door] = [grants |-> grants, until |-> now + TTL]]
     /\ Goto(q, "decided", [arg[q] EXCEPT !.allowed = Allows(grants, arg[q].cap, arg[q].at),
                                          !.owned = arg[q].owned \/ OwnerAt(q)])
     /\ UNCHANGED <<tables, store, cookie, now, history>>

Answer(q) ==
  /\ pc[q] = "decided"
  /\ Goto(q, "idle", NoArg)
  /\ UNCHANGED <<tables, memory, now, history>>

-----------------------------------------------------------------------------
(* Leaving: the row first, then the session.                               *)

\* Mutant: only the session is destroyed.
LeaveEndsNothing(l, b) ==
  /\ pc[l] = "idle" /\ cookie[b] # None
  /\ Goto(l, "ended", [NoArg EXCEPT !.browser = b, !.sid = cookie[b]])
  /\ UNCHANGED <<tables, memory, now, history>>

LeaveEnd(l, b) ==
  /\ pc[l] = "idle" /\ cookie[b] # None
  /\ rows' = Ending(Unended \cap {cookie[b]})
  /\ Goto(l, "ended", [NoArg EXCEPT !.browser = b, !.sid = cookie[b]])
  /\ UNCHANGED <<role, status, members, memory, now, history>>

LeaveDestroy(l) ==
  /\ pc[l] = "ended"
  /\ store' = store \ {arg[l].sid}
  /\ cookie' = [cookie EXCEPT ![arg[l].browser] = None]
  /\ dropped' = dropped \cup {arg[l].sid}
  /\ Goto(l, "done", NoArg)
  /\ UNCHANGED <<tables, cache, now, everOwner>>

-----------------------------------------------------------------------------
(* updateOperator                                                          *)

ActiveOwners == {o \in Operators : role[o] = "owner" /\ status[o] = "active"}
AtMostTwo(S) == \A x, y, z \in S : x = y \/ y = z \/ x = z

ManageCheck(m, actor, target, patch) ==
  /\ pc[m] = "idle"
  /\ actor \in ActiveOwners /\ target # actor
  /\ role[target] = "owner" /\ patch \in {"staff", "disabled"} => ~AtMostTwo(ActiveOwners)
  /\ Goto(m, "changing", [NoArg EXCEPT !.target = target, !.patch = patch])
  /\ UNCHANGED <<tables, memory, now, history>>

ManageCommit(m) ==
  LET target == arg[m].target
      patch == arg[m].patch
  IN /\ pc[m] = "changing"
     /\ IF patch \in Roles
          THEN role' = [role EXCEPT ![target] = patch] /\ UNCHANGED status
          ELSE status' = [status EXCEPT ![target] = patch] /\ UNCHANGED role
     /\ everOwner' = IF patch = "owner" THEN everOwner \cup {target} ELSE everOwner
     /\ Goto(m, "done", NoArg)
     /\ UNCHANGED <<members, rows, memory, now, dropped>>

-----------------------------------------------------------------------------
Tick ==
  /\ now < MaxTime
  /\ now' = now + 1
  /\ UNCHANGED <<tables, memory, arg, pc, history>>

\* The process is restarted: its memory and every request under way are gone, unanswered.
Restart ==
  /\ cache' = [d \in Doors |-> None]
  /\ pc' = [p \in Procs |-> IF p \in Requests THEN "idle"
                            ELSE IF pc[p] = "idle" THEN "idle" ELSE "done"]
  /\ arg' = [p \in Procs |-> IF p \in Entries THEN arg[p] ELSE NoArg]
  /\ UNCHANGED <<tables, store, cookie, now, history>>

EntryStep(p) ==
  \/ \E b \in Browsers, org \in Orgs : EnterCheck(p, b, org)
  \/ Regenerate(p) \/ ensureSupportUser(p) \/ CloseEarlier(p) \/ CreateRow(p)
  \/ AnswerEntry(p) \/ FailEntry(p)

RequestStep(q) ==
  \/ \E b \in Browsers, cap \in Capabilities : Admit(q, b, cap)
  \/ CheckCached(q) \/ CheckMissed(q) \/ Collect(q) \/ Answer(q)

Next ==
  \/ \E p \in Entries : EntryStep(p)
  \/ \E q \in Requests : RequestStep(q)
  \/ \E b \in Browsers : Refuse(b)
  \/ \E l \in Leavers : LeaveDestroy(l) \/ \E b \in Browsers : LeaveEnd(l, b)
  \/ \E m \in Managers :
       \/ ManageCommit(m)
       \/ \E actor, target \in Operators, patch \in Patches : ManageCheck(m, actor, target, patch)
  \/ Tick
  \/ Restart

Spec == Init /\ [][Next]_vars

-----------------------------------------------------------------------------
(* Properties.                                                             *)

Allowed == {q \in Requests : pc[q] = "decided" /\ arg[q].allowed}

\* "Remember to press Leave is not a control": whatever is cached, re-entered or
\* slow, nothing is allowed at a time that no entry of that operator reached.
AllowedInTime ==
  \A q \in Allowed : \E p \in Entries :
    /\ rows[p] # None /\ Door(p) = Door(arg[q].sid)
    /\ arg[q].at < rows[p].expires

\* An operator who was never an owner reads no feedback, whoever else is inside
\* the same organisation and whatever is cached for them.
StaffReadNoFeedback ==
  \A q \in Allowed : arg[q].cap = "results.read" => Operator(arg[q].sid) \in everOwner

\* A session that Leave has destroyed has no open row behind it, even when the
\* process stopped between the two: a kept cookie is worth nothing.
LeftMeansOver == \A p \in dropped : p \notin Unended

\* "First closing any earlier open one for the same operator and organization":
\* of the entries that did not cross, one is open at each door.
OneDoor ==
  \A p, q \in Open(now) :
    Door(p) = Door(q) /\ ~arg[p].crossed /\ ~arg[q].crossed => p = q

(* What the code says and does not keep; see the README.                   *)

\* "The organization is told, always": while an operator is inside, its staff
\* are told that somebody is.
AlwaysTold == \A b \in Browsers : Inside(b) => activeSupportFor(arg[cookie[b]].org)

\* "Re-roling somebody takes effect on their next permission check": a check that
\* began and read after an owner became staff allows no feedback.
ReroleBites ==
  \A q \in Allowed : arg[q].cap = "results.read" => arg[q].owned

\* "The last owner cannot be demoted or disabled."
SomeOwnerRemains == ActiveOwners # {}
=============================================================================
