------------------------------ MODULE Accounts ------------------------------
(***************************************************************************)
(* Sign-ins: how they are handed out, used, revoked and told about         *)
(* (src/src/backend/features/accounts, the login of features/auth, and the *)
(* part deletePerson has in it).                                           *)
(*                                                                         *)
(* An administrator hands out a one-time link; whoever opens it chooses a  *)
(* password and is signed in.  Each request is checked on what is          *)
(* committed, then runs one transaction at READ COMMITTED, statement by    *)
(* statement: a written row stays locked until the commit, and a statement *)
(* waits for the locks of others.  Signing in is not part of any of them:  *)
(* the session row is written afterwards, by the session library.  The     *)
(* reach of each administrator (Authz, Roster), rate limits and what the   *)
(* activation page shows are left out.                                     *)
(***************************************************************************)
EXTENDS Naturals, FiniteSets

CONSTANTS
  Users,         \* the people, each with an account row
  Founders,      \* those who have a password and a session to start with
  By,            \* administrator's request -> who sends it
  Provisioners,  \* provisionAccount
  Revokers,      \* revokeAccount
  Activators,    \* activateAccount, each with a password of its own
  Logins,        \* login
  Leavers,       \* deletePerson
  None,
  MaxRequests    \* bound on the requests that arrive

Procs == Provisioners \cup Revokers \cup Activators \cup Logins \cup Leavers
Passwords == Founders \cup Activators
\* A link is named after the request that minted it.
Links == Provisioners
Modes == {"account.create", "account.reset"}

ASSUME AccountsAssumption ==
  /\ Founders \subseteq Users
  /\ By \in [Provisioners \cup Revokers \cup Leavers -> Users]
  /\ None \notin Users \cup Procs
  /\ Users \cap Procs = {}
  /\ MaxRequests \in Nat

VARIABLES
  status,    \* Users -> users.status
  password,  \* Users -> users.password_hash
  people,    \* the users whose person node is there
  invites,   \* account_invites, [link, user, accepted, expired]
  sessions,  \* [sid, user, late]; late: proved before a commit it was saved after
  arg,       \* Procs -> what the request is about and what its transaction has found
  pc,        \* Procs -> the next step
  out,       \* history: the users revoked, by a request nothing overtook, and not invited since
  used       \* history: which requests have activated an account, [link, by]

vars == <<status, password, people, invites, sessions, arg, pc, out, used>>

NoArg == [user |-> None, found |-> {}, stale |-> FALSE]
Steps == {"provisioning", "cleared", "revoking", "disabled", "swept", "claimed", "proved", "leaving"}

TypeOK ==
  /\ status \in [Users -> {"active", "invited", "disabled"}]
  /\ password \in [Users -> Passwords \cup {None}]
  /\ people \in SUBSET Users
  /\ invites \in SUBSET [link : Links, user : Users, accepted : BOOLEAN, expired : BOOLEAN]
  /\ sessions \in SUBSET [sid : Procs \cup Founders, user : Users, late : BOOLEAN]
  /\ arg \in [Procs -> [user : Users \cup {None}, found : SUBSET Links, stale : BOOLEAN]]
  /\ pc \in [Procs -> Steps \cup {"idle", "done"}]
  /\ out \in SUBSET Users
  /\ used \in SUBSET [link : Links, by : Activators]

Init ==
  /\ status = [u \in Users |-> IF u \in Founders THEN "active" ELSE "invited"]
  /\ password = [u \in Users |-> IF u \in Founders THEN u ELSE None]
  /\ people = Users
  /\ invites = {}
  /\ sessions = {[sid |-> u, user |-> u, late |-> FALSE] : u \in Founders}
  /\ arg = [p \in Procs |-> NoArg]
  /\ pc = [p \in Procs |-> "idle"]
  /\ out = {}
  /\ used = {}

-----------------------------------------------------------------------------
Unaccepted(u) == {i \in invites : i.user = u /\ ~i.accepted}
LinksOf(I) == {i.link : i \in I}

\* The rows other transactions have written and not committed.
LockedLinks(p) ==
  UNION {arg[q].found : q \in {r \in Procs \ {p} : pc[r] \in {"cleared", "swept", "claimed"}}}
UserLocked(p, u) == \E q \in Procs \ {p} : pc[q] \in {"disabled", "swept"} /\ arg[q].user = u

Arrives(p) == pc[p] = "idle" /\ Cardinality({q \in Procs : pc[q] # "idle"}) < MaxRequests
SignedIn(u) == u \in people /\ \E s \in sessions : s.user = u
CanLogIn(u) == password[u] # None /\ status[u] # "disabled"

Goto(p, at, a) ==
  /\ arg' = [arg EXCEPT ![p] = a]
  /\ pc' = [pc EXCEPT ![p] = at]

\* A commit; every request under way about u, or sent by u, is overtaken.
Commits(p, at, u) ==
  /\ arg' = [q \in Procs |->
               IF q # p /\ pc[q] \in Steps /\ (arg[q].user = u \/ (q \in DOMAIN By /\ By[q] = u))
                 THEN [arg[q] EXCEPT !.stale = TRUE] ELSE arg[q]]
  /\ pc' = [pc EXCEPT ![p] = at]

-----------------------------------------------------------------------------
(* provisionAccount, for both of its capabilities                          *)

ProvisionCheck(p, u, mode) ==
  /\ Arrives(p) /\ SignedIn(By[p])
  /\ u \in people
  /\ mode = "account.create" => password[u] = None
  /\ Goto(p, "provisioning", [NoArg EXCEPT !.user = u])
  /\ UNCHANGED <<status, password, people, invites, sessions, out, used>>

ProvisionClear(p) ==
  LET live == LinksOf(Unaccepted(arg[p].user)) IN
  /\ pc[p] = "provisioning"
  /\ live \cap LockedLinks(p) = {}
  /\ Goto(p, "cleared", [arg[p] EXCEPT !.found = live])
  /\ UNCHANGED <<status, password, people, invites, sessions, out, used>>

\* Mutant: no partial unique index on the unaccepted invites of a user.
ProvisionCommitUnindexed(p) ==
  LET u == arg[p].user
      kept == {i \in invites : i.link \notin arg[p].found}
  IN
  /\ pc[p] = "cleared"
  /\ invites' = kept \cup {[link |-> p, user |-> u, accepted |-> FALSE, expired |-> FALSE]}
  /\ out' = out \ {u}
  /\ Commits(p, "done", u)
  /\ UNCHANGED <<status, password, people, sessions, used>>

\* The insert fails on account_invites_one_live_per_user if another is there.
ProvisionCommit(p) ==
  LET u == arg[p].user
      kept == {i \in invites : i.link \notin arg[p].found}
  IN
  /\ pc[p] = "cleared"
  /\ LinksOf(Unaccepted(u)) \subseteq arg[p].found
  /\ invites' = kept \cup {[link |-> p, user |-> u, accepted |-> FALSE, expired |-> FALSE]}
  /\ out' = out \ {u}
  /\ Commits(p, "done", u)
  /\ UNCHANGED <<status, password, people, sessions, used>>

-----------------------------------------------------------------------------
(* revokeAccount                                                           *)

RevokeCheck(p, u) ==
  /\ Arrives(p) /\ SignedIn(By[p])
  /\ u \in people /\ u # By[p]
  /\ Goto(p, "revoking", [NoArg EXCEPT !.user = u])
  /\ UNCHANGED <<status, password, people, invites, sessions, out, used>>

RevokeDisable(p) ==
  /\ pc[p] = "revoking"
  /\ ~UserLocked(p, arg[p].user)
  /\ Goto(p, "disabled", arg[p])
  /\ UNCHANGED <<status, password, people, invites, sessions, out, used>>

\* Mutant: the link that is out stays out.
RevokeSweepNothing(p) ==
  /\ pc[p] = "disabled"
  /\ Goto(p, "swept", arg[p])
  /\ UNCHANGED <<status, password, people, invites, sessions, out, used>>

RevokeSweep(p) ==
  LET live == LinksOf(Unaccepted(arg[p].user)) IN
  /\ pc[p] = "disabled"
  /\ live \cap LockedLinks(p) = {}
  /\ Goto(p, "swept", [arg[p] EXCEPT !.found = live])
  /\ UNCHANGED <<status, password, people, invites, sessions, out, used>>

\* Mutant: the password is left on the disabled account.
RevokeCommitHashKept(p) ==
  LET u == arg[p].user IN
  /\ pc[p] = "swept"
  /\ status' = [status EXCEPT ![u] = "disabled"]
  /\ invites' = {i \in invites : i.link \notin arg[p].found}
  /\ sessions' = {s \in sessions : s.user # u}
  /\ out' = IF arg[p].stale THEN out ELSE out \cup {u}
  /\ Commits(p, "done", u)
  /\ UNCHANGED <<password, people, used>>

\* Last statement and commit: the sessions go too.
RevokeCommit(p) ==
  LET u == arg[p].user IN
  /\ pc[p] = "swept"
  /\ status' = [status EXCEPT ![u] = "disabled"]
  /\ password' = [password EXCEPT ![u] = None]
  /\ invites' = {i \in invites : i.link \notin arg[p].found}
  /\ sessions' = {s \in sessions : s.user # u}
  /\ out' = IF arg[p].stale THEN out ELSE out \cup {u}
  /\ Commits(p, "done", u)
  /\ UNCHANGED <<people, used>>

-----------------------------------------------------------------------------
(* activateAccount and login; both then sign the browser in.               *)

\* Mutant: the invite is read, and the claim does not ask again.
ActivateClaimUnchecked(p, i) ==
  /\ Arrives(p)
  /\ ~i.accepted /\ ~i.expired
  /\ Goto(p, "claimed", [NoArg EXCEPT !.user = i.user, !.found = {i.link}])
  /\ UNCHANGED <<status, password, people, invites, sessions, out, used>>

\* The conditional UPDATE, which waits for whoever holds the row.
ActivateClaim(p, i) ==
  /\ Arrives(p)
  /\ i.link \notin LockedLinks(p)
  /\ ~i.accepted /\ ~i.expired
  /\ Goto(p, "claimed", [NoArg EXCEPT !.user = i.user, !.found = {i.link}])
  /\ UNCHANGED <<status, password, people, invites, sessions, out, used>>

ActivateCommit(p) ==
  LET u == arg[p].user IN
  /\ pc[p] = "claimed"
  /\ ~UserLocked(p, u)
  /\ status' = [status EXCEPT ![u] = "active"]
  /\ password' = [password EXCEPT ![u] = p]
  /\ invites' = {IF i.link \in arg[p].found THEN [i EXCEPT !.accepted = TRUE] ELSE i : i \in invites}
  /\ used' = used \cup {[link |-> l, by |-> p] : l \in arg[p].found}
  /\ Commits(p, "proved", u)
  /\ UNCHANGED <<people, sessions, out>>

\* The account is read and its password compared.
LoginCheck(p, u) ==
  /\ Arrives(p)
  /\ CanLogIn(u)
  /\ Goto(p, "proved", [NoArg EXCEPT !.user = u])
  /\ UNCHANGED <<status, password, people, invites, sessions, out, used>>

\* regenerate and save: a new session, whatever became of the account meanwhile.
SignIn(p) ==
  /\ pc[p] = "proved"
  /\ sessions' = sessions \cup {[sid |-> p, user |-> arg[p].user, late |-> arg[p].stale]}
  /\ Goto(p, "done", NoArg)
  /\ UNCHANGED <<status, password, people, invites, out, used>>

\* logout, or the cookie's time is up.
SignOut(s) ==
  /\ sessions' = sessions \ {s}
  /\ UNCHANGED <<status, password, people, invites, arg, pc, out, used>>

-----------------------------------------------------------------------------
LeaveCheck(p, u) ==
  /\ Arrives(p) /\ SignedIn(By[p])
  /\ u \in people
  /\ Goto(p, "leaving", [NoArg EXCEPT !.user = u])
  /\ UNCHANGED <<status, password, people, invites, sessions, out, used>>

\* deletePerson: the status, and nothing else of the account.
LeaveCommit(p) ==
  LET u == arg[p].user IN
  /\ pc[p] = "leaving"
  /\ u \in people
  /\ ~UserLocked(p, u)
  /\ people' = people \ {u}
  /\ status' = [status EXCEPT ![u] = "disabled"]
  /\ Commits(p, "done", u)
  /\ UNCHANGED <<password, invites, sessions, out, used>>

\* An error, or the database broke a wait cycle; an activation that has
\* committed is not undone by it.
Rollback(p) ==
  /\ pc[p] \in Steps
  /\ Goto(p, "done", NoArg)
  /\ UNCHANGED <<status, password, people, invites, sessions, out, used>>

Expire(i) ==
  /\ ~i.expired
  /\ invites' = (invites \ {i}) \cup {[i EXCEPT !.expired = TRUE]}
  /\ UNCHANGED <<status, password, people, sessions, arg, pc, out, used>>

Next ==
  \/ \E p \in Provisioners :
       ProvisionClear(p) \/ ProvisionCommit(p)
         \/ \E u \in Users, mode \in Modes : ProvisionCheck(p, u, mode)
  \/ \E p \in Revokers :
       RevokeDisable(p) \/ RevokeSweep(p) \/ RevokeCommit(p) \/ \E u \in Users : RevokeCheck(p, u)
  \/ \E p \in Activators : ActivateCommit(p) \/ \E i \in invites : ActivateClaim(p, i)
  \/ \E p \in Logins, u \in Users : LoginCheck(p, u)
  \/ \E p \in Activators \cup Logins : SignIn(p)
  \/ \E s \in sessions : SignOut(s)
  \/ \E p \in Leavers : LeaveCommit(p) \/ \E u \in Users : LeaveCheck(p, u)
  \/ \E p \in Procs : Rollback(p)
  \/ \E i \in invites : Expire(i)

Spec == Init /\ [][Next]_vars
-----------------------------------------------------------------------------
\* accountStatusOf: what the console shows of somebody.
accountStatusOf(u) ==
  CASE password[u] # None                                -> "active"
    [] password[u] = None /\ Unaccepted(u) # {}          -> "invited"
    [] OTHER -> IF status[u] = "disabled" THEN "disabled" ELSE "none"

(* "There is no window in which two links work", and "two devices racing   *)
(* the same link cannot both succeed": whatever provisioning, revoking and *)
(* activating race, a user has at most one unaccepted link, and no link    *)
(* has set a password twice.                                               *)
LinksAreSingle ==
  /\ \A u \in Users : Cardinality(Unaccepted(u)) <= 1
  /\ \A a, b \in used : a.link = b.link => a.by = b.by

(* "No new sign-in, no live sessions, no usable invite": somebody revoked  *)
(* by a request that nothing overtook has no password, no link and no      *)
(* session until a new link is issued, except the session of a sign-in     *)
(* that had proved its password before.                                    *)
RevokedStaysOut ==
  \A u \in out : /\ password[u] = None
                 /\ Unaccepted(u) = {}
                 /\ \A s \in sessions : s.user = u => s.late

(* Worked out in one place so that no two screens disagree: of everybody   *)
(* still here, the console says active of exactly those login accepts, and *)
(* whoever it says was never given a key never was.                        *)
StatusTellsTheTruth ==
  \A u \in people : /\ accountStatusOf(u) = "active" <=> CanLogIn(u)
                    /\ accountStatusOf(u) = "none" => u \notin out

(* "There is no password reset in this product, so an owner doing that     *)
(* would lock the org for good": a revoke that nothing overtook never      *)
(* takes its own sender's sign-in.                                         *)
SenderStaysIn ==
  [][\A p \in Revokers :
       pc[p] = "swept" /\ pc'[p] = "done" /\ status' # status /\ ~arg[p].stale /\ CanLogIn(By[p])
         => CanLogIn(By[p])']_vars

(* What the code says and does not keep; see the README.                   *)

\* Somebody who is here can always sign in, and hand out a new link.
SomebodyCanSignIn == \E u \in people : CanLogIn(u)

\* "Deletes live sessions so access ends immediately" (revokeAccount).
RevokedHasNoSession == \A u \in out : \A s \in sessions : s.user # u
=============================================================================
