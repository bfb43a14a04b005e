--------------------------- MODULE AccountsProofs ---------------------------
(***************************************************************************)
(* Proofs about Accounts, for any people, requests and limits.             *)
(*                                                                         *)
(* The argument: a link is held by one transaction at a time (Held), and   *)
(* whoever has claimed one has a live link of the person it is about       *)
(* (Claimed), so that a link sets one password; a revocation that nothing  *)
(* overtook has found every live link of its person (Swept), and whoever   *)
(* proved a password before it knows that it was overtaken (Out).          *)
(***************************************************************************)
EXTENDS Accounts, FiniteSetTheorems, TLAPS

Holding == {"cleared", "swept", "claimed"}

\* A request under way is about somebody.
Aimed == \A p \in Procs : pc[p] \in Steps => arg[p].user \in Users

\* A link belongs to one invite, of a request that is over, and no two unaccepted ones to one
\* person.
Single ==
  /\ \A i \in invites : pc[i.link] = "done"
  /\ \A i, j \in invites :
       i.link = j.link \/ (i.user = j.user /\ ~i.accepted /\ ~j.accepted) => i = j

\* No two transactions have written the same link.
Held ==
  \A p, q \in Procs : p # q /\ pc[p] \in Holding /\ pc[q] \in Holding =>
    arg[p].found \cap arg[q].found = {}

\* What is being activated is a live link of the person, and nobody else takes it away.
Claimed ==
  \A p \in Procs : pc[p] = "claimed" =>
    \E i \in invites : arg[p].found = {i.link} /\ i.user = arg[p].user /\ ~i.accepted

\* A link that set a password is spent, and set no other.
Spent ==
  /\ \A a \in used : pc[a.link] = "done" /\ \A i \in invites : i.link = a.link => i.accepted
  /\ \A a, b \in used : a.link = b.link => a.by = b.by

\* A revocation that nothing overtook has found every live link.
Swept ==
  \A p \in Procs : pc[p] = "swept" /\ ~arg[p].stale =>
    \A i \in Unaccepted(arg[p].user) : i.link \in arg[p].found

\* Who is out is disabled, has nothing to come in with, and whoever is about to sign in as
\* them was overtaken.
Out ==
  \A u \in out :
    /\ password[u] = None /\ status[u] = "disabled" /\ Unaccepted(u) = {}
    /\ \A s \in sessions : s.user = u => s.late
    /\ \A p \in Procs : pc[p] = "proved" /\ arg[p].user = u => arg[p].stale

\* Nobody here has a password on a disabled account.
Usable == \A u \in people : password[u] # None => status[u] # "disabled"

IInv == TypeOK /\ Aimed /\ Single /\ Held /\ Claimed /\ Spent /\ Swept /\ Out /\ Usable

-----------------------------------------------------------------------------
Arg == [user : Users \cup {None}, found : SUBSET Links, stale : BOOLEAN]
Invite == [link : Links, user : Users, accepted : BOOLEAN, expired : BOOLEAN]
Session == [sid : Procs \cup Founders, user : Users, late : BOOLEAN]
At == Steps \cup {"idle", "done"}

LEMMA Typed ==
  ASSUME TypeOK
  PROVE  /\ status \in [Users -> {"active", "invited", "disabled"}]
         /\ password \in [Users -> Passwords \cup {None}]
         /\ people \in SUBSET Users /\ invites \in SUBSET Invite /\ sessions \in SUBSET Session
         /\ arg \in [Procs -> Arg] /\ pc \in [Procs -> At]
         /\ out \in SUBSET Users /\ used \in SUBSET [link : Links, by : Activators]
         /\ \A i \in invites : i.link \in Procs /\ i.user \in Users
         /\ \A a \in used : a.link \in Procs
  BY DEF TypeOK, Arg, Invite, Session, At, Links, Procs

LEMMA NoArgTyped ==
  ASSUME NEW u \in Users, NEW l \in Links
  PROVE  /\ NoArg \in Arg /\ [NoArg EXCEPT !.user = u] \in Arg
         /\ [NoArg EXCEPT !.user = u].user = u
         /\ [NoArg EXCEPT !.user = u, !.found = {l}] \in Arg
         /\ [NoArg EXCEPT !.user = u, !.found = {l}].user = u
         /\ [NoArg EXCEPT !.user = u, !.found = {l}].found = {l}
  BY DEF NoArg, Arg

\* One request moves on.
LEMMA GotoIs ==
  ASSUME TypeOK, NEW p \in Procs, NEW next \in At, NEW a \in Arg, Goto(p, next, a)
  PROVE  /\ arg' \in [Procs -> Arg] /\ pc' \in [Procs -> At]
         /\ arg'[p] = a /\ pc'[p] = next
         /\ \A q \in Procs \ {p} : arg'[q] = arg[q] /\ pc'[q] = pc[q]
  BY Typed DEF Goto

\* A commit changes of the others only whether they are overtaken.
LEMMA CommitsIs ==
  ASSUME TypeOK, NEW p \in Procs, NEW next \in At, NEW u \in Users, Commits(p, next, u)
  PROVE  /\ arg' \in [Procs -> Arg] /\ pc' \in [Procs -> At]
         /\ arg'[p] = arg[p] /\ pc'[p] = next
         /\ \A q \in Procs \ {p} :
              /\ pc'[q] = pc[q] /\ arg'[q].user = arg[q].user /\ arg'[q].found = arg[q].found
              /\ arg[q].stale => arg'[q].stale
              /\ pc[q] \in Steps /\ arg[q].user = u => arg'[q].stale
<1> DEFINE hit(q) == /\ q # p /\ pc[q] \in Steps
                     /\ arg[q].user = u \/ (q \in DOMAIN By /\ By[q] = u)
<1>1. /\ arg' = [q \in Procs |-> IF hit(q) THEN [arg[q] EXCEPT !.stale = TRUE] ELSE arg[q]]
      /\ pc' = [pc EXCEPT ![p] = next]
  BY DEF Commits
<1>2. ASSUME NEW q \in Procs
      PROVE  /\ [arg[q] EXCEPT !.stale = TRUE] \in Arg
             /\ [arg[q] EXCEPT !.stale = TRUE].user = arg[q].user
             /\ [arg[q] EXCEPT !.stale = TRUE].found = arg[q].found
             /\ [arg[q] EXCEPT !.stale = TRUE].stale
  <2>1. arg[q] \in Arg
    BY Typed
  <2> QED BY <2>1 DEF Arg
<1>3. \A q \in Procs : arg'[q] = IF hit(q) THEN [arg[q] EXCEPT !.stale = TRUE] ELSE arg[q]
  BY <1>1
<1>4. ~hit(p) /\ \A q \in Procs \ {p} : pc[q] \in Steps /\ arg[q].user = u => hit(q)
  OBVIOUS
<1> HIDE DEF hit
<1>5. arg' \in [Procs -> Arg]
  BY <1>1, <1>2, Typed
<1>6. pc' \in [Procs -> At] /\ pc'[p] = next /\ \A q \in Procs \ {p} : pc'[q] = pc[q]
  BY <1>1, Typed
<1> QED BY <1>2, <1>3, <1>4, <1>5, <1>6

\* A request that changes nothing but what it knows.
LEMMA QuietKeeps ==
  ASSUME IInv, NEW p \in Procs, NEW next \in At, NEW a \in Arg, Goto(p, next, a),
         UNCHANGED <<status, password, people, invites, sessions, out, used>>,
         pc[p] # "done", next \in Steps => a.user \in Users,
         next \in Holding => a.found \cap LockedLinks(p) = {},
         next = "claimed" => \E i \in invites : a.found = {i.link} /\ i.user = a.user /\ ~i.accepted,
         next = "swept" /\ ~a.stale => \A i \in Unaccepted(a.user) : i.link \in a.found,
         next = "proved" => a.user \notin out
  PROVE  IInv'
<1>1. /\ TypeOK /\ arg' \in [Procs -> Arg] /\ pc' \in [Procs -> At]
      /\ arg'[p] = a /\ pc'[p] = next
      /\ \A q \in Procs \ {p} : arg'[q] = arg[q] /\ pc'[q] = pc[q]
  BY GotoIs DEF IInv
<1>2. TypeOK'
  BY <1>1 DEF TypeOK, Arg, At
<1>3. Aimed'
  BY <1>1 DEF IInv, Aimed
<1>4. \A q \in Procs : pc[q] = "done" => pc'[q] = "done"
  BY <1>1
<1>5. Single' /\ Spent'
  BY <1>1, <1>4, Typed DEF IInv, Single, Spent
<1>6. Held'
  <2>1. \A q \in Procs \ {p} : next \in Holding /\ pc[q] \in Holding => a.found \cap arg[q].found = {}
    BY DEF LockedLinks, Holding
  <2> QED BY <1>1, <2>1 DEF IInv, Held
<1>7. Claimed'
  BY <1>1 DEF IInv, Claimed
<1>8. Swept'
  BY <1>1 DEF IInv, Swept, Unaccepted
<1>9. Out'
  BY <1>1 DEF IInv, Out, Unaccepted
<1>10. Usable'
  BY DEF IInv, Usable
<1> QED BY <1>2, <1>3, <1>5, <1>6, <1>7, <1>8, <1>9, <1>10 DEF IInv

LEMMA ProcKinds ==
  /\ Provisioners \subseteq Procs /\ Revokers \subseteq Procs /\ Activators \subseteq Procs
  /\ Logins \subseteq Procs /\ Leavers \subseteq Procs /\ Links = Provisioners
  BY DEF Procs, Links

LEMMA FoundTyped ==
  ASSUME TypeOK, NEW u
  PROVE  LinksOf(Unaccepted(u)) \in SUBSET Links
  BY Typed DEF LinksOf, Unaccepted, Invite

\* A request that has read and locked nothing new but the links in S.
LEMMA ArgTyped ==
  ASSUME TypeOK, NEW p \in Procs, NEW S \in SUBSET Links
  PROVE  /\ arg[p] \in Arg /\ [arg[p] EXCEPT !.found = S] \in Arg
         /\ [arg[p] EXCEPT !.found = S].user = arg[p].user
         /\ [arg[p] EXCEPT !.found = S].found = S
<1>1. arg[p] \in Arg
  BY Typed
<1> QED BY <1>1 DEF Arg

LEMMA ChecksKeep ==
  ASSUME IInv, NEW p \in Procs, NEW u \in Users,
         \/ \E mode \in Modes : ProvisionCheck(p, u, mode)
         \/ RevokeCheck(p, u) \/ LoginCheck(p, u) \/ LeaveCheck(p, u)
  PROVE  IInv'
<1>1. PICK next \in {"provisioning", "revoking", "proved", "leaving"} :
        /\ pc[p] = "idle" /\ Goto(p, next, [NoArg EXCEPT !.user = u])
        /\ UNCHANGED <<status, password, people, invites, sessions, out, used>>
        /\ next = "proved" => CanLogIn(u)
  BY DEF ProvisionCheck, RevokeCheck, LoginCheck, LeaveCheck, Arrives
<1>2. [NoArg EXCEPT !.user = u] \in Arg /\ [NoArg EXCEPT !.user = u].user = u
  BY DEF NoArg, Arg
<1>3. next = "proved" => u \notin out
  BY <1>1 DEF IInv, Out, CanLogIn
<1>4. next \in At /\ next \notin Holding
  BY DEF At, Steps, Holding
<1> QED BY <1>1, <1>2, <1>3, <1>4, QuietKeeps DEF Holding

LEMMA FindsKeep ==
  ASSUME IInv, NEW p \in Procs, ProvisionClear(p) \/ RevokeSweep(p)
  PROVE  IInv'
<1> DEFINE live == LinksOf(Unaccepted(arg[p].user))
           a == [arg[p] EXCEPT !.found = live]
<1>1. PICK next \in {"cleared", "swept"} :
        /\ pc[p] \in {"provisioning", "disabled"} /\ live \cap LockedLinks(p) = {}
        /\ Goto(p, next, a)
        /\ UNCHANGED <<status, password, people, invites, sessions, out, used>>
  BY DEF ProvisionClear, RevokeSweep
<1>2. a \in Arg /\ a.user = arg[p].user /\ a.found = live
  BY FoundTyped, ArgTyped DEF IInv
<1>3. \A i \in Unaccepted(arg[p].user) : i.link \in live
  BY DEF LinksOf
<1>4. arg[p].user \in Users
  BY <1>1 DEF IInv, Aimed, Steps
<1>5. next \in At /\ next \notin {"claimed", "proved"}
  BY DEF At, Steps
<1> HIDE DEF live, a
<1> QED BY <1>1, <1>2, <1>3, <1>4, <1>5, QuietKeeps

LEMMA DisableKeeps ==
  ASSUME IInv, NEW p \in Procs, RevokeDisable(p)
  PROVE  IInv'
<1>1. /\ pc[p] = "revoking" /\ Goto(p, "disabled", arg[p])
      /\ UNCHANGED <<status, password, people, invites, sessions, out, used>>
  BY DEF RevokeDisable
<1>2. arg[p] \in Arg /\ arg[p].user \in Users
  BY <1>1, Typed DEF IInv, Aimed, Steps
<1> QED BY <1>1, <1>2, QuietKeeps DEF At, Steps, Holding

LEMMA RollbackKeeps ==
  ASSUME IInv, NEW p \in Procs, Rollback(p)
  PROVE  IInv'
<1>1. /\ pc[p] \in Steps /\ Goto(p, "done", NoArg)
      /\ UNCHANGED <<status, password, people, invites, sessions, out, used>>
  BY DEF Rollback
<1>2. NoArg \in Arg /\ "done" \notin Steps /\ "done" \notin Holding
  BY DEF NoArg, Arg, Steps, Holding
<1> QED BY <1>1, <1>2, QuietKeeps DEF At, Steps

LEMMA ClaimKeeps ==
  ASSUME IInv, NEW p \in Procs, NEW i \in invites, ActivateClaim(p, i)
  PROVE  IInv'
<1> DEFINE a == [NoArg EXCEPT !.user = i.user, !.found = {i.link}]
<1>1. /\ pc[p] = "idle" /\ i.link \notin LockedLinks(p) /\ ~i.accepted
      /\ Goto(p, "claimed", a)
      /\ UNCHANGED <<status, password, people, invites, sessions, out, used>>
  BY DEF ActivateClaim, Arrives
<1>2. i.user \in Users /\ i.link \in Links
  BY Typed DEF IInv, Invite
<1>3. a \in Arg /\ a.user = i.user /\ a.found = {i.link}
  BY <1>2 DEF NoArg, Arg
<1> HIDE DEF a
<1>4. a.found \cap LockedLinks(p) = {}
  BY <1>1, <1>3
<1> QED BY <1>1, <1>2, <1>3, <1>4, QuietKeeps DEF At, Steps, Holding

-----------------------------------------------------------------------------
(* The commits.                                                            *)

LEMMA ProvisionKeeps ==
  ASSUME IInv, NEW p \in Provisioners, ProvisionCommit(p)
  PROVE  IInv'
<1> DEFINE u == arg[p].user
           new == [link |-> p, user |-> u, accepted |-> FALSE, expired |-> FALSE]
<1>1. /\ pc[p] = "cleared"
      /\ \A i \in Unaccepted(u) : i.link \in arg[p].found
      /\ invites' = {i \in invites : i.link \notin arg[p].found} \cup {new}
      /\ out' = out \ {u} /\ Commits(p, "done", u)
      /\ UNCHANGED <<status, password, people, sessions, used>>
  BY DEF ProvisionCommit, LinksOf
<1>2. p \in Procs /\ u \in Users /\ TypeOK
  BY <1>1, ProcKinds DEF IInv, Aimed, Steps
<1>3. new \in Invite /\ new.link = p /\ new.user = u /\ ~new.accepted
  BY <1>2, ProcKinds DEF Invite
<1> HIDE DEF u, new
<1>4. /\ arg' \in [Procs -> Arg] /\ pc' \in [Procs -> At]
      /\ arg'[p] = arg[p] /\ pc'[p] = "done"
      /\ \A q \in Procs \ {p} :
           /\ pc'[q] = pc[q] /\ arg'[q].user = arg[q].user /\ arg'[q].found = arg[q].found
           /\ arg[q].stale => arg'[q].stale
           /\ pc[q] \in Steps /\ arg[q].user = u => arg'[q].stale
  BY <1>1, <1>2, CommitsIs DEF At
<1>5. TypeOK'
  BY <1>1, <1>2, <1>3, <1>4, Typed DEF TypeOK, Arg, Invite, Session, At
<1>6. Aimed' /\ Held'
  BY <1>4 DEF IInv, Aimed, Held, Steps, Holding
<1>7. \A i \in invites : i.link # p /\ (i.user = u /\ ~i.accepted => i.link \in arg[p].found)
  BY <1>1 DEF IInv, Single, Unaccepted
<1>8. \A q \in Procs : pc[q] = "done" => pc'[q] = "done"
  BY <1>4
<1>9. Single'
  BY <1>1, <1>2, <1>3, <1>4, <1>7, <1>8, Typed DEF IInv, Single
<1>10. Claimed'
  <2> SUFFICES ASSUME NEW q \in Procs, pc'[q] = "claimed"
               PROVE  \E i \in invites' :
                        arg'[q].found = {i.link} /\ i.user = arg'[q].user /\ ~i.accepted
    BY DEF Claimed
  <2>1. q # p /\ pc[q] = "claimed" /\ arg'[q].found = arg[q].found /\ arg'[q].user = arg[q].user
    BY <1>4
  <2>2. PICK i \in invites : arg[q].found = {i.link} /\ i.user = arg[q].user /\ ~i.accepted
    BY <2>1 DEF IInv, Claimed
  <2>3. i.link \notin arg[p].found
    BY <1>1, <1>2, <2>1, <2>2 DEF IInv, Held, Holding
  <2> QED BY <1>1, <2>1, <2>2, <2>3
<1>11. Spent'
  BY <1>1, <1>3, <1>8, Typed DEF IInv, Spent
<1>12. Swept'
  <2> SUFFICES ASSUME NEW q \in Procs, pc'[q] = "swept", ~arg'[q].stale,
                      NEW i \in invites', i.user = arg'[q].user, ~i.accepted
               PROVE  i.link \in arg'[q].found
    BY DEF Swept, Unaccepted
  <2>1. q # p /\ pc[q] = "swept" /\ ~arg[q].stale /\ arg[q].user # u
        /\ arg'[q].found = arg[q].found /\ arg'[q].user = arg[q].user
    BY <1>4 DEF Steps
  <2>2. i \in invites
    BY <1>1, <1>3, <2>1
  <2> QED BY <2>1, <2>2 DEF IInv, Swept, Unaccepted
<1>13. Out'
  <2> SUFFICES ASSUME NEW w \in out, w # u
               PROVE  /\ password[w] = None /\ status[w] = "disabled" /\ Unaccepted(w)' = {}
                      /\ \A s \in sessions : s.user = w => s.late
                      /\ \A q \in Procs : pc'[q] = "proved" /\ arg'[q].user = w => arg'[q].stale
    BY <1>1 DEF Out
  <2>1. Unaccepted(w)' = {}
    BY <1>1, <1>3 DEF IInv, Out, Unaccepted
  <2>2. \A q \in Procs : pc'[q] = "proved" /\ arg'[q].user = w => arg'[q].stale
    BY <1>4 DEF IInv, Out
  <2> QED BY <2>1, <2>2 DEF IInv, Out
<1>14. Usable'
  BY <1>1 DEF IInv, Usable
<1> QED BY <1>5, <1>6, <1>9, <1>10, <1>11, <1>12, <1>13, <1>14 DEF IInv

LEMMA RevokeKeeps ==
  ASSUME IInv, NEW p \in Procs, RevokeCommit(p)
  PROVE  IInv'
<1> DEFINE u == arg[p].user
<1>1. /\ pc[p] = "swept"
      /\ status' = [status EXCEPT ![u] = "disabled"]
      /\ password' = [password EXCEPT ![u] = None]
      /\ invites' = {i \in invites : i.link \notin arg[p].found}
      /\ sessions' = {s \in sessions : s.user # u}
      /\ out' = IF arg[p].stale THEN out ELSE out \cup {u}
      /\ Commits(p, "done", u)
      /\ UNCHANGED <<people, used>>
  BY DEF RevokeCommit
<1>2. u \in Users /\ TypeOK
  BY <1>1 DEF IInv, Aimed, Steps
<1>3. ~arg[p].stale => \A i \in invites : i.user = u /\ ~i.accepted => i.link \in arg[p].found
  BY <1>1 DEF IInv, Swept, Unaccepted
<1> HIDE DEF u
<1>4. /\ arg' \in [Procs -> Arg] /\ pc' \in [Procs -> At]
      /\ arg'[p] = arg[p] /\ pc'[p] = "done"
      /\ \A q \in Procs \ {p} :
           /\ pc'[q] = pc[q] /\ arg'[q].user = arg[q].user /\ arg'[q].found = arg[q].found
           /\ arg[q].stale => arg'[q].stale
           /\ pc[q] \in Steps /\ arg[q].user = u => arg'[q].stale
  BY <1>1, <1>2, CommitsIs DEF At
<1>5. /\ status' \in [Users -> {"active", "invited", "disabled"}]
      /\ password' \in [Users -> Passwords \cup {None}]
      /\ status'[u] = "disabled" /\ password'[u] = None
      /\ \A w \in Users \ {u} : status'[w] = status[w] /\ password'[w] = password[w]
  BY <1>1, <1>2, Typed
<1>6. TypeOK'
  BY <1>1, <1>2, <1>4, <1>5, Typed DEF TypeOK, Arg, Invite, Session, At
<1>7. Aimed' /\ Held'
  BY <1>4 DEF IInv, Aimed, Held, Steps, Holding
<1>8. \A q \in Procs : pc[q] = "done" => pc'[q] = "done"
  BY <1>4
<1>9. Single' /\ Spent'
  BY <1>1, <1>8, Typed DEF IInv, Single, Spent
<1>10. Claimed'
  <2> SUFFICES ASSUME NEW q \in Procs, pc'[q] = "claimed"
               PROVE  \E i \in invites' :
                        arg'[q].found = {i.link} /\ i.user = arg'[q].user /\ ~i.accepted
    BY DEF Claimed
  <2>1. q # p /\ pc[q] = "claimed" /\ arg'[q].found = arg[q].found /\ arg'[q].user = arg[q].user
    BY <1>4
  <2>2. PICK i \in invites : arg[q].found = {i.link} /\ i.user = arg[q].user /\ ~i.accepted
    BY <2>1 DEF IInv, Claimed
  <2>3. i.link \notin arg[p].found
    BY <1>1, <2>1, <2>2 DEF IInv, Held, Holding
  <2> QED BY <1>1, <2>1, <2>2, <2>3
<1>11. Swept'
  BY <1>1, <1>4 DEF IInv, Swept, Unaccepted, Steps
<1>12. Out'
  <2> SUFFICES ASSUME NEW w \in out'
               PROVE  /\ password'[w] = None /\ status'[w] = "disabled" /\ Unaccepted(w)' = {}
                      /\ \A s \in sessions' : s.user = w => s.late
                      /\ \A q \in Procs : pc'[q] = "proved" /\ arg'[q].user = w => arg'[q].stale
    BY DEF Out
  <2>1. w \in Users
    BY <1>1, <1>2, Typed
  <2>2. CASE w \in out
    BY <2>1, <2>2, <1>1, <1>4, <1>5 DEF IInv, Out, Unaccepted
  <2>3. CASE w \notin out
    <3>1. w = u /\ ~arg[p].stale
      BY <1>1, <2>3
    <3>2. Unaccepted(w)' = {}
      BY <3>1, <1>1, <1>3 DEF Unaccepted
    <3>3. \A q \in Procs : pc'[q] = "proved" /\ arg'[q].user = w => arg'[q].stale
      BY <3>1, <1>4 DEF Steps
    <3> QED BY <3>1, <3>2, <3>3, <1>1, <1>5
  <2> QED BY <2>2, <2>3
<1>13. Usable'
  BY <1>1, <1>2, <1>5, Typed DEF IInv, Usable
<1> QED BY <1>6, <1>7, <1>9, <1>10, <1>11, <1>12, <1>13 DEF IInv

LEMMA ActivateKeeps ==
  ASSUME IInv, NEW p \in Activators, ActivateCommit(p)
  PROVE  IInv'
<1> DEFINE u == arg[p].user
           spend(i) == IF i.link \in arg[p].found THEN [i EXCEPT !.accepted = TRUE] ELSE i
<1>1. /\ pc[p] = "claimed"
      /\ status' = [status EXCEPT ![u] = "active"]
      /\ password' = [password EXCEPT ![u] = p]
      /\ invites' = {spend(i) : i \in invites}
      /\ used' = used \cup {[link |-> l, by |-> p] : l \in arg[p].found}
      /\ Commits(p, "proved", u)
      /\ UNCHANGED <<people, sessions, out>>
  BY DEF ActivateCommit
<1>2. p \in Procs /\ u \in Users /\ TypeOK
  BY <1>1, ProcKinds DEF IInv, Aimed, Steps
<1>3. PICK mine \in invites : arg[p].found = {mine.link} /\ mine.user = u /\ ~mine.accepted
  BY <1>1, <1>2 DEF IInv, Claimed
<1>4. u \notin out
  BY <1>3 DEF IInv, Out, Unaccepted
<1>5. ASSUME NEW i \in invites
      PROVE  /\ spend(i) \in Invite /\ spend(i).link = i.link /\ spend(i).user = i.user
             /\ i.accepted => spend(i) = i
             /\ i.link # mine.link => spend(i) = i
             /\ i.link = mine.link => spend(i).accepted
  <2>1. i \in Invite
    BY <1>2, Typed
  <2>2. \A x \in Invite : x.accepted = TRUE => [x EXCEPT !.accepted = TRUE] = x
    BY DEF Invite
  <2>3. i.accepted \in BOOLEAN
    BY <2>1 DEF Invite
  <2> QED BY <1>3, <2>1, <2>2, <2>3 DEF Invite
<1> HIDE DEF u, spend
<1>6. /\ arg' \in [Procs -> Arg] /\ pc' \in [Procs -> At]
      /\ arg'[p] = arg[p] /\ pc'[p] = "proved"
      /\ \A q \in Procs \ {p} :
           /\ pc'[q] = pc[q] /\ arg'[q].user = arg[q].user /\ arg'[q].found = arg[q].found
           /\ arg[q].stale => arg'[q].stale
           /\ pc[q] \in Steps /\ arg[q].user = u => arg'[q].stale
  BY <1>1, <1>2, CommitsIs DEF At, Steps
<1>7. /\ status' \in [Users -> {"active", "invited", "disabled"}]
      /\ password' \in [Users -> Passwords \cup {None}]
      /\ status'[u] = "active"
      /\ \A w \in Users \ {u} : status'[w] = status[w] /\ password'[w] = password[w]
  BY <1>1, <1>2, Typed DEF Passwords
<1>8. /\ used' = used \cup {[link |-> mine.link, by |-> p]} /\ mine.link \in Links
      /\ invites' \subseteq Invite
  <2>1. mine.link \in Links
    BY <1>2, Typed DEF Invite
  <2> QED BY <1>1, <1>3, <1>5, <2>1
<1>9. TypeOK'
  <2>1. used' \in SUBSET [link : Links, by : Activators]
    BY <1>2, <1>8, Typed
  <2> QED BY <1>1, <1>2, <1>6, <1>7, <1>8, <2>1, Typed DEF TypeOK, Arg, Invite, Session, At
<1>10. Aimed' /\ Held'
  BY <1>1, <1>2, <1>6 DEF IInv, Aimed, Held, Steps, Holding, u
<1>11. \A q \in Procs : pc[q] = "done" => pc'[q] = "done"
  BY <1>1, <1>6
<1>12. Single'
  <2>1. ASSUME NEW i \in invites
        PROVE  spend(i).link = i.link /\ pc'[i.link] = "done"
               /\ (~spend(i).accepted => ~i.accepted /\ spend(i) = i)
    BY <1>2, <1>5, <1>11, Typed DEF IInv, Single
  <2>2. \A i \in invites' : \E j \in invites : i = spend(j)
    BY <1>1
  <2> SUFFICES ASSUME NEW i \in invites, NEW j \in invites,
                      \/ spend(i).link = spend(j).link
                      \/ /\ spend(i).user = spend(j).user
                         /\ ~spend(i).accepted /\ ~spend(j).accepted
               PROVE  spend(i) = spend(j)
    BY <2>1, <2>2 DEF Single
  <2>3. i.link = j.link \/ (i.user = j.user /\ ~i.accepted /\ ~j.accepted)
    BY <1>5, <2>1
  <2> QED BY <2>3 DEF IInv, Single
<1>13. Claimed'
  <2> SUFFICES ASSUME NEW q \in Procs, pc'[q] = "claimed"
               PROVE  \E i \in invites' :
                        arg'[q].found = {i.link} /\ i.user = arg'[q].user /\ ~i.accepted
    BY DEF Claimed
  <2>1. q # p /\ pc[q] = "claimed" /\ arg'[q].found = arg[q].found /\ arg'[q].user = arg[q].user
    BY <1>6
  <2>2. PICK i \in invites : arg[q].found = {i.link} /\ i.user = arg[q].user /\ ~i.accepted
    BY <2>1 DEF IInv, Claimed
  <2>3. i.link # mine.link
    BY <1>1, <1>2, <1>3, <2>1, <2>2 DEF IInv, Held, Holding
  <2>4. i \in invites'
    BY <1>1, <1>5, <2>3
  <2> QED BY <2>1, <2>2, <2>4
<1>14. Spent'
  <2>1. \A a \in used : a.link # mine.link
    BY <1>3 DEF IInv, Spent
  <2>2. ASSUME NEW a \in used' PROVE pc'[a.link] = "done"
    <3>1. CASE a \in used
      BY <3>1, <1>2, <1>11, Typed DEF IInv, Spent
    <3>2. CASE a.link = mine.link
      BY <3>2, <1>2, <1>11, Typed DEF IInv, Single
    <3> QED BY <3>1, <3>2, <1>8
  <2>3. ASSUME NEW a \in used', NEW i \in invites, i.link = a.link PROVE spend(i).accepted
    BY <1>5, <1>8, <2>3 DEF IInv, Spent
  <2>4. \A a, b \in used' : a.link = b.link => a.by = b.by
    BY <1>8, <2>1 DEF IInv, Spent
  <2> QED BY <1>1, <1>5, <2>2, <2>3, <2>4 DEF Spent
<1>15. Swept'
  <2> SUFFICES ASSUME NEW q \in Procs, pc'[q] = "swept", ~arg'[q].stale,
                      NEW i \in invites, spend(i).user = arg'[q].user, ~spend(i).accepted
               PROVE  spend(i).link \in arg'[q].found
    BY <1>1 DEF Swept, Unaccepted
  <2>1. q # p /\ pc[q] = "swept" /\ ~arg[q].stale
        /\ arg'[q].found = arg[q].found /\ arg'[q].user = arg[q].user
    BY <1>6
  <2> QED BY <1>5, <2>1 DEF IInv, Swept, Unaccepted
<1>16. Out'
  <2> SUFFICES ASSUME NEW w \in out
               PROVE  /\ password'[w] = None /\ status'[w] = "disabled" /\ Unaccepted(w)' = {}
                      /\ \A s \in sessions : s.user = w => s.late
                      /\ \A q \in Procs : pc'[q] = "proved" /\ arg'[q].user = w => arg'[q].stale
    BY <1>1 DEF Out
  <2>1. w # u /\ w \in Users
    BY <1>2, <1>4, Typed
  <2>2. Unaccepted(w)' = {}
    BY <1>1, <1>5 DEF IInv, Out, Unaccepted
  <2>3. \A q \in Procs : pc'[q] = "proved" /\ arg'[q].user = w => arg'[q].stale
    BY <1>6, <2>1 DEF IInv, Out, u
  <2> QED BY <1>7, <2>1, <2>2, <2>3 DEF IInv, Out
<1>17. Usable'
  BY <1>1, <1>2, <1>7, Typed DEF IInv, Usable
<1> QED BY <1>9, <1>10, <1>12, <1>13, <1>14, <1>15, <1>16, <1>17 DEF IInv

LEMMA LeaveKeeps ==
  ASSUME IInv, NEW p \in Procs, LeaveCommit(p)
  PROVE  IInv'
<1> DEFINE u == arg[p].user
<1>1. /\ pc[p] = "leaving" /\ people' = people \ {u}
      /\ status' = [status EXCEPT ![u] = "disabled"]
      /\ Commits(p, "done", u)
      /\ UNCHANGED <<password, invites, sessions, out, used>>
  BY DEF LeaveCommit
<1>2. u \in Users /\ TypeOK
  BY <1>1 DEF IInv, Aimed, Steps
<1> HIDE DEF u
<1>3. /\ arg' \in [Procs -> Arg] /\ pc' \in [Procs -> At]
      /\ arg'[p] = arg[p] /\ pc'[p] = "done"
      /\ \A q \in Procs \ {p} :
           /\ pc'[q] = pc[q] /\ arg'[q].user = arg[q].user /\ arg'[q].found = arg[q].found
           /\ arg[q].stale => arg'[q].stale
  BY <1>1, <1>2, CommitsIs DEF At
<1>4. /\ status' \in [Users -> {"active", "invited", "disabled"}]
      /\ status'[u] = "disabled" /\ \A w \in Users \ {u} : status'[w] = status[w]
  BY <1>1, <1>2, Typed
<1>5. TypeOK'
  BY <1>1, <1>2, <1>3, <1>4, Typed DEF TypeOK, Arg, Invite, Session, At
<1>6. Aimed' /\ Held'
  BY <1>3 DEF IInv, Aimed, Held, Steps, Holding
<1>7. Single' /\ Spent'
  BY <1>1, <1>2, <1>3, Typed DEF IInv, Single, Spent
<1>8. Claimed' /\ Swept'
  BY <1>1, <1>3 DEF IInv, Claimed, Swept, Unaccepted
<1>9. Out'
  BY <1>1, <1>2, <1>3, <1>4, Typed DEF IInv, Out, Unaccepted
<1>10. Usable'
  BY <1>1, <1>2, <1>4, Typed DEF IInv, Usable
<1> QED BY <1>5, <1>6, <1>7, <1>8, <1>9, <1>10 DEF IInv

\* Who signs in had proved a password; somebody out since was overtaken.
LEMMA SignInKeeps ==
  ASSUME IInv, NEW p \in Activators \cup Logins, SignIn(p)
  PROVE  IInv'
<1> DEFINE new == [sid |-> p, user |-> arg[p].user, late |-> arg[p].stale]
<1>1. /\ pc[p] = "proved" /\ sessions' = sessions \cup {new} /\ Goto(p, "done", NoArg)
      /\ UNCHANGED <<status, password, people, invites, out, used>>
  BY DEF SignIn
<1>2. p \in Procs /\ TypeOK /\ arg[p] \in Arg /\ arg[p].user \in Users
  BY <1>1, ProcKinds, Typed DEF IInv, Aimed, Steps
<1>3. new \in Session /\ (new.user \in out => new.late)
  BY <1>1, <1>2 DEF Arg, Session, IInv, Out
<1> HIDE DEF new
<1>4. /\ arg' \in [Procs -> Arg] /\ pc' \in [Procs -> At] /\ pc'[p] = "done"
      /\ \A q \in Procs \ {p} : arg'[q] = arg[q] /\ pc'[q] = pc[q]
  <2>1. NoArg \in Arg /\ "done" \in At
    BY DEF NoArg, Arg, At
  <2> QED BY <1>1, <1>2, <2>1, GotoIs
<1>5. TypeOK'
  BY <1>1, <1>2, <1>3, <1>4, Typed DEF TypeOK, Arg, Invite, Session, At
<1>6. Aimed' /\ Held'
  BY <1>4 DEF IInv, Aimed, Held, Steps, Holding
<1>7. Single' /\ Spent'
  BY <1>1, <1>2, <1>4, Typed DEF IInv, Single, Spent
<1>8. Claimed' /\ Swept'
  BY <1>1, <1>4 DEF IInv, Claimed, Swept, Unaccepted
<1>9. Out'
  BY <1>1, <1>3, <1>4 DEF IInv, Out, Unaccepted
<1>10. Usable'
  BY <1>1 DEF IInv, Usable
<1> QED BY <1>5, <1>6, <1>7, <1>8, <1>9, <1>10 DEF IInv

LEMMA ExpireKeeps ==
  ASSUME IInv, NEW e \in invites, Expire(e)
  PROVE  IInv'
<1> DEFINE old == [e EXCEPT !.expired = TRUE]
<1>1. /\ invites' = (invites \ {e}) \cup {old}
      /\ UNCHANGED <<status, password, people, sessions, arg, pc, out, used>>
  BY DEF Expire
<1>2. TypeOK /\ e \in Invite
  BY Typed DEF IInv
<1>3. old \in Invite /\ old.link = e.link /\ old.user = e.user /\ old.accepted = e.accepted
  BY <1>2 DEF Invite
<1> HIDE DEF old
<1>4. TypeOK'
  BY <1>1, <1>2, <1>3, Typed DEF TypeOK, Arg, Invite, Session, At
<1>5. Aimed' /\ Held'
  BY <1>1 DEF IInv, Aimed, Held
<1>6. Single'
  BY <1>1, <1>3 DEF IInv, Single
<1>7. Spent'
  BY <1>1, <1>3 DEF IInv, Spent
<1>8. Claimed'
  <2> SUFFICES ASSUME NEW q \in Procs, pc[q] = "claimed"
               PROVE  \E i \in invites' : arg[q].found = {i.link} /\ i.user = arg[q].user /\ ~i.accepted
    BY <1>1 DEF Claimed
  <2>1. PICK i \in invites : arg[q].found = {i.link} /\ i.user = arg[q].user /\ ~i.accepted
    BY DEF IInv, Claimed
  <2>2. CASE i = e
    BY <2>1, <2>2, <1>1, <1>3
  <2>3. CASE i # e
    BY <2>1, <2>3, <1>1
  <2> QED BY <2>2, <2>3
<1>9. Swept'
  <2> SUFFICES ASSUME NEW q \in Procs, pc[q] = "swept", ~arg[q].stale,
                      NEW i \in invites', i.user = arg[q].user, ~i.accepted
               PROVE  i.link \in arg[q].found
    BY <1>1 DEF Swept, Unaccepted
  <2>1. \A j \in invites : j.user = arg[q].user /\ ~j.accepted => j.link \in arg[q].found
    BY DEF IInv, Swept, Unaccepted
  <2> QED BY <2>1, <1>1, <1>3
<1>10. Out'
  <2> SUFFICES ASSUME NEW w \in out PROVE Unaccepted(w)' = {}
    BY <1>1 DEF IInv, Out
  <2>1. \A j \in invites : j.user = w => j.accepted
    BY DEF IInv, Out, Unaccepted
  <2> QED BY <2>1, <1>1, <1>3 DEF Unaccepted
<1>11. Usable'
  BY <1>1 DEF IInv, Usable
<1> QED BY <1>4, <1>5, <1>6, <1>7, <1>8, <1>9, <1>10, <1>11 DEF IInv

LEMMA SignOutKeeps ==
  ASSUME IInv, (\E s \in sessions : SignOut(s)) \/ UNCHANGED vars
  PROVE  IInv'
<1>1. /\ sessions' \subseteq sessions
      /\ UNCHANGED <<status, password, people, invites, arg, pc, out, used>>
  BY DEF SignOut, vars
<1> QED BY <1>1 DEF IInv, TypeOK, Aimed, Single, Held, Claimed, Spent, Swept, Out, Usable, Unaccepted

-----------------------------------------------------------------------------
(* The theorems.                                                           *)

LEMMA InitIInv == Init => IInv
<1> SUFFICES ASSUME Init PROVE IInv
  OBVIOUS
<1>1. /\ status = [u \in Users |-> IF u \in Founders THEN "active" ELSE "invited"]
      /\ password = [u \in Users |-> IF u \in Founders THEN u ELSE None]
      /\ people = Users /\ invites = {}
      /\ sessions = {[sid |-> u, user |-> u, late |-> FALSE] : u \in Founders}
      /\ arg = [p \in Procs |-> NoArg] /\ pc = [p \in Procs |-> "idle"]
      /\ out = {} /\ used = {}
  BY DEF Init
<1>2. TypeOK
  <2>1. sessions \in SUBSET [sid : Procs \cup Founders, user : Users, late : BOOLEAN]
    <3>1. \A u \in Founders : u \in Users
      BY AccountsAssumption
    <3>2. \A u \in Founders : [sid |-> u, user |-> u, late |-> FALSE]
                                 \in [sid : Procs \cup Founders, user : Users, late : BOOLEAN]
      BY <3>1
    <3> QED BY <1>1, <3>2
  <2>2. arg \in [Procs -> [user : Users \cup {None}, found : SUBSET Links, stale : BOOLEAN]]
    BY <1>1 DEF NoArg
  <2> QED BY <1>1, <2>1, <2>2 DEF TypeOK, Passwords
<1>3. Aimed /\ Single /\ Held /\ Claimed /\ Spent /\ Swept /\ Out /\ Usable
  BY <1>1 DEF Aimed, Steps, Single, Held, Holding, Claimed, Spent, Swept, Out, Usable
<1> QED BY <1>2, <1>3 DEF IInv

LEMMA NextIInv == IInv /\ [Next]_vars => IInv'
<1> SUFFICES ASSUME IInv, [Next]_vars PROVE IInv'
  OBVIOUS
<1>1. CASE \E p \in Provisioners :
             ProvisionClear(p) \/ ProvisionCommit(p)
               \/ \E u \in Users, mode \in Modes : ProvisionCheck(p, u, mode)
  BY <1>1, ProcKinds, FindsKeep, ProvisionKeeps, ChecksKeep
<1>2. CASE \E p \in Revokers :
             RevokeDisable(p) \/ RevokeSweep(p) \/ RevokeCommit(p) \/ \E u \in Users : RevokeCheck(p, u)
  BY <1>2, ProcKinds, DisableKeeps, FindsKeep, RevokeKeeps, ChecksKeep
<1>3. CASE \E p \in Activators : ActivateCommit(p) \/ \E i \in invites : ActivateClaim(p, i)
  BY <1>3, ProcKinds, ActivateKeeps, ClaimKeeps
<1>4. CASE \E p \in Logins, u \in Users : LoginCheck(p, u)
  BY <1>4, ProcKinds, ChecksKeep
<1>5. CASE \E p \in Activators \cup Logins : SignIn(p)
  BY <1>5, SignInKeeps
<1>6. CASE \E p \in Leavers : LeaveCommit(p) \/ \E u \in Users : LeaveCheck(p, u)
  BY <1>6, ProcKinds, LeaveKeeps, ChecksKeep
<1>7. CASE \E p \in Procs : Rollback(p)
  BY <1>7, RollbackKeeps
<1>8. CASE \E i \in invites : Expire(i)
  BY <1>8, ExpireKeeps
<1>9. CASE (\E s \in sessions : SignOut(s)) \/ UNCHANGED vars
  BY <1>9, SignOutKeeps
<1> QED BY <1>1, <1>2, <1>3, <1>4, <1>5, <1>6, <1>7, <1>8, <1>9 DEF Next

LEMMA Invariant == Spec => []IInv
BY InitIInv, NextIInv, PTL DEF Spec

\* Every variable of the accounts keeps its type.
THEOREM AccountsTypeCorrect == Spec => []TypeOK
<1>1. IInv => TypeOK
  BY DEF IInv
<1> QED BY <1>1, Invariant, PTL

\* Whatever races, a person has one live link, and a link sets one password.
THEOREM LinksAlwaysSingle == Spec => []LinksAreSingle
<1>1. IInv => LinksAreSingle
  <2> SUFFICES ASSUME IInv, NEW u \in Users PROVE Cardinality(Unaccepted(u)) <= 1
    BY DEF IInv, Spent, LinksAreSingle
  <2>1. CASE Unaccepted(u) = {}
    BY <2>1, FS_EmptySet
  <2>2. CASE Unaccepted(u) # {}
    <3>1. PICK i \in Unaccepted(u) : TRUE
      BY <2>2
    <3>2. Unaccepted(u) = {i}
      BY <3>1 DEF Unaccepted, IInv, Single
    <3> QED BY <3>2, FS_Singleton
  <2> QED BY <2>1, <2>2
<1> QED BY <1>1, Invariant, PTL

\* Somebody revoked by a request that nothing overtook has no way in until a new link is out.
THEOREM RevokedAlwaysOut == Spec => []RevokedStaysOut
<1>1. IInv => RevokedStaysOut
  BY DEF IInv, Out, RevokedStaysOut
<1> QED BY <1>1, Invariant, PTL

\* The console says active of exactly those login accepts, and "never given a key" of nobody
\* whose key was taken away.
THEOREM StatusAlwaysTrue == Spec => []StatusTellsTheTruth
<1>1. IInv => StatusTellsTheTruth
  <2> SUFFICES ASSUME IInv, NEW u \in people
               PROVE  /\ accountStatusOf(u) = "active" <=> CanLogIn(u)
                      /\ accountStatusOf(u) = "none" => u \notin out
    BY DEF StatusTellsTheTruth
  <2>1. accountStatusOf(u) = IF password[u] # None THEN "active"
                             ELSE IF Unaccepted(u) # {} THEN "invited"
                             ELSE IF status[u] = "disabled" THEN "disabled" ELSE "none"
    BY DEF accountStatusOf
  <2>2. password[u] # None => status[u] # "disabled"
    BY DEF IInv, Usable
  <2>3. u \in out => status[u] = "disabled" /\ password[u] = None /\ Unaccepted(u) = {}
    BY DEF IInv, Out
  <2> QED BY <2>1, <2>2, <2>3 DEF CanLogIn
<1> QED BY <1>1, Invariant, PTL
=============================================================================
