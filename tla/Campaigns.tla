----------------------------- MODULE Campaigns -----------------------------
(***************************************************************************)
(* One campaign of src/src/backend/features/campaigns, the template it     *)
(* points at (features/templates) and the answers its public link collects *)
(* (features/public), driven by requests that run at the same time.        *)
(*                                                                         *)
(* A request is a process; a step is a read it makes before its            *)
(* transaction, a statement another request can meet half-way, or the      *)
(* commit.  Transactions run at READ COMMITTED: a statement sees what was  *)
(* committed when it started, and waits for the rows others have locked.   *)
(* The questions of one save (putQuestions) come and go together, so the   *)
(* form is a set of saves.                                                 *)
(***************************************************************************)
EXTENDS Naturals, FiniteSets

CONSTANTS
  Launchers,    \* console requests that launch the campaign
  Closers,      \* console requests that close it
  Updaters,     \* console requests that edit it (updateCampaign)
  Savers,       \* console requests that save the template's questions (putQuestions)
  Respondents,  \* submissions of the public form
  Members,      \* the organisation's people with a session
  MemberOf,     \* Respondents -> the member signed in on that phone, or None
  Original,     \* the save the template had when the campaign was created
  MaxTime,      \* the clock stops here
  None

Saves == Savers \cup {Original}
Procs == Launchers \cup Closers \cup Updaters \cup Savers \cup Respondents
Times == 0..MaxTime

ASSUME RequestsAssumption ==
  /\ IsFiniteSet(Respondents)
  /\ LET kind == <<Launchers, Closers, Updaters, Savers, Respondents>>
     IN \A i, j \in 1..5 : i # j => kind[i] \cap kind[j] = {}
  /\ Original \notin Savers

ASSUME MembersAssumption ==
  /\ MemberOf \in [Respondents -> Members \cup {None}]
  /\ None \notin Members
  /\ MaxTime \in Nat
  /\ None \notin Times

VARIABLES
  row,           \* the campaigns row; token 0 is NULL
  minted,        \* how many tokens mintToken has handed out
  now,           \* the clock
  form,          \* the committed questions, as the saves they came from
  want,          \* Savers -> the rows the running DELETE has still to reach
  removed,       \* Savers -> the rows its transaction has deleted
  responses,     \* the submissions recorded
  answers,       \* Respondents -> the saves whose questions its answers refer to
  participants,  \* the committed rows of campaign_participants
  seen,          \* Respondents -> the questions its request resolved
  gate,          \* Respondents -> the access its request resolved
  shown,         \* Respondents -> the count the thank-you page shows
  pc             \* Procs -> the next step

formVars   == <<form, want, removed>>
tallyVars  == <<responses, answers, participants>>
submitVars == <<seen, gate, shown>>
vars == <<row, minted, now, formVars, tallyVars, submitVars, pc>>

Rows == [token : Nat, closed : BOOLEAN, access : {"public", "organization"},
         startsAt : Times \cup {None}, endsAt : Times \cup {None}]

TypeOK ==
  /\ row \in Rows
  /\ minted \in Nat
  /\ now \in Times
  /\ form \in SUBSET Saves
  /\ want \in [Savers -> SUBSET Saves]
  /\ removed \in [Savers -> SUBSET Saves]
  /\ responses \in SUBSET Respondents
  /\ answers \in [Respondents -> SUBSET Saves]
  /\ participants \in SUBSET Members
  /\ seen \in [Respondents -> SUBSET Saves]
  /\ gate \in [Respondents -> {"public", "organization"}]
  /\ shown \in [Respondents -> Nat]
  /\ pc \in [Procs -> {"idle", "minting", "closing", "updating", "saving", "deleting",
                       "resolved", "joined", "answered", "counted", "done", "refused"}]

Goto(p, at) == pc' = [pc EXCEPT ![p] = at]

\* The steps of a submission that is under way.
Filling == {"resolved", "joined", "answered", "counted"}

-----------------------------------------------------------------------------
(* status.ts                                                               *)

Statuses == {"draft", "scheduled", "open", "closed"}

statusOf(c) ==
  CASE c.closed                                     -> "closed"
    [] ~c.closed /\ c.token = 0                     -> "draft"
    [] ~c.closed /\ c.token # 0 /\ c.startsAt # None /\ c.startsAt > now -> "scheduled"
    [] OTHER -> IF c.endsAt # None /\ c.endsAt < now THEN "closed" ELSE "open"

\* Mutant: the list filter forgets the explicit close.
whereStatusDatesOnly(c, status) ==
  CASE status = "draft"     -> c.token = 0
    [] status = "scheduled" -> c.token # 0 /\ c.startsAt # None /\ c.startsAt > now
    [] status = "closed"    -> c.token # 0 /\ c.endsAt # None /\ c.endsAt < now
    [] status = "open"      -> /\ c.token # 0
                               /\ c.startsAt = None \/ c.startsAt <= now
                               /\ c.endsAt = None \/ c.endsAt >= now

\* The same rule as a filter over rows.
whereStatus(c, status) ==
  CASE status = "draft"     -> c.token = 0 /\ ~c.closed
    [] status = "scheduled" -> c.token # 0 /\ ~c.closed /\ c.startsAt # None /\ c.startsAt > now
    [] status = "closed"    -> c.closed \/ (c.token # 0 /\ c.endsAt # None /\ c.endsAt < now)
    [] status = "open"      -> /\ c.token # 0 /\ ~c.closed
                               /\ c.startsAt = None \/ c.startsAt <= now
                               /\ c.endsAt = None \/ c.endsAt >= now

isAccepting(c) == statusOf(c) = "open"

-----------------------------------------------------------------------------
\* createCampaign leaves a draft whose window is in order, over a template that
\* has questions; quickCreate leaves a public campaign that is already launched.
Init ==
  /\ row \in [token : {0, 1}, closed : {FALSE}, access : {"public", "organization"},
              startsAt : Times \cup {None}, endsAt : Times \cup {None}]
  /\ row.startsAt # None /\ row.endsAt # None => row.endsAt > row.startsAt
  /\ row.token # 0 => row.access = "public" /\ row.startsAt = None
  /\ minted = row.token
  /\ now = 0
  /\ form = {Original}
  /\ want = [s \in Savers |-> {}]
  /\ removed = [s \in Savers |-> {}]
  /\ responses = {}
  /\ answers = [r \in Respondents |-> {}]
  /\ participants = {}
  /\ seen = [r \in Respondents |-> {}]
  /\ gate = [r \in Respondents |-> "public"]
  /\ shown = [r \in Respondents |-> 0]
  /\ pc = [p \in Procs |-> "idle"]

-----------------------------------------------------------------------------
(* The console: launchCampaign, closeCampaign and updateCampaign each read *)
(* the row, decide, and write it in a transaction of their own.            *)

LaunchFind(l) ==
  /\ pc[l] = "idle"
  /\ row.token = 0 /\ ~row.closed
  /\ Goto(l, "minting")
  /\ UNCHANGED <<row, minted, now, formVars, tallyVars, submitVars>>

LaunchMint(l) ==
  /\ pc[l] = "minting"
  /\ minted' = minted + 1
  /\ row' = [row EXCEPT !.token = minted + 1]
  /\ Goto(l, "done")
  /\ UNCHANGED <<now, formVars, tallyVars, submitVars>>

CloseFind(c) ==
  /\ pc[c] = "idle"
  /\ statusOf(row) # "closed" /\ row.token # 0
  /\ Goto(c, "closing")
  /\ UNCHANGED <<row, minted, now, formVars, tallyVars, submitVars>>

CloseCommit(c) ==
  /\ pc[c] = "closing"
  /\ row' = [row EXCEPT !.closed = TRUE]
  /\ Goto(c, "done")
  /\ UNCHANGED <<minted, now, formVars, tallyVars, submitVars>>

UpdateFind(u) ==
  /\ pc[u] = "idle"
  /\ statusOf(row) = "draft"
  /\ Goto(u, "updating")
  /\ UNCHANGED <<row, minted, now, formVars, tallyVars, submitVars>>

\* Mutant: the database no longer guards the promises.
UpdateCommitUnguarded(u, access, startsAt, endsAt) ==
  /\ pc[u] = "updating"
  /\ row' = [row EXCEPT !.access = access, !.startsAt = startsAt, !.endsAt = endsAt]
  /\ Goto(u, "done")
  /\ UNCHANGED <<minted, now, formVars, tallyVars, submitVars>>

\* The fields the body leaves out keep their value.  The trigger on the table
\* refuses a change of access (or of anonymous) once there is a token.
UpdateCommit(u, access, startsAt, endsAt) ==
  /\ pc[u] = "updating"
  /\ IF row.token # 0 /\ access # row.access
       THEN Goto(u, "refused") /\ UNCHANGED row
       ELSE /\ row' = [row EXCEPT !.access = access, !.startsAt = startsAt, !.endsAt = endsAt]
            /\ Goto(u, "done")
  /\ UNCHANGED <<minted, now, formVars, tallyVars, submitVars>>

-----------------------------------------------------------------------------
(* putQuestions: refused when a launched campaign uses the template, then  *)
(* one transaction deletes every question and inserts the new document.    *)

SaveFind(s) ==
  /\ pc[s] = "idle"
  /\ row.token = 0
  /\ Goto(s, "saving")
  /\ UNCHANGED <<row, minted, now, formVars, tallyVars, submitVars>>

SaveDeleteBegin(s) ==
  /\ pc[s] = "saving"
  /\ want' = [want EXCEPT ![s] = form]
  /\ Goto(s, "deleting")
  /\ UNCHANGED <<row, minted, now, form, removed, tallyVars, submitVars>>

\* The answers of a submission in flight hold their questions through the foreign key.
AnsweringHolds(q) == \E r \in Respondents : pc[r] \in {"answered", "counted"} /\ q \in seen[r]
DeletingHolds(q, s) == \E t \in Savers \ {s} : q \in removed[t]

\* Mutant: the deletion takes a question an answer is being written to.
SaveDeleteNextUnlocked(s, q) ==
  /\ pc[s] = "deleting" /\ q \in want[s]
  /\ want' = [want EXCEPT ![s] = @ \ {q}]
  /\ removed' = IF q \in form THEN [removed EXCEPT ![s] = @ \cup {q}] ELSE removed
  /\ UNCHANGED <<row, minted, now, form, tallyVars, submitVars, pc>>

SaveDeleteNext(s, q) ==
  /\ pc[s] = "deleting" /\ q \in want[s]
  /\ ~AnsweringHolds(q) /\ ~DeletingHolds(q, s)
  /\ want' = [want EXCEPT ![s] = @ \ {q}]
  /\ removed' = IF q \in form THEN [removed EXCEPT ![s] = @ \cup {q}] ELSE removed
  /\ UNCHANGED <<row, minted, now, form, tallyVars, submitVars, pc>>

\* The new document, which may be empty, and the answers that cascade away.
SaveCommit(s, new) ==
  /\ pc[s] = "deleting" /\ want[s] = {}
  /\ form' = (form \ removed[s]) \cup new
  /\ answers' = [r \in Respondents |-> answers[r] \ removed[s]]
  /\ removed' = [removed EXCEPT ![s] = {}]
  /\ Goto(s, "done")
  /\ UNCHANGED <<row, minted, now, want, responses, participants, submitVars>>

-----------------------------------------------------------------------------
(* The public form: resolveCampaign and requireMembership, then the        *)
(* transaction of submitResponse.                                          *)

\* Mutant: the membership gate is missing from the route.
SubmitResolveUngated(r) ==
  /\ pc[r] = "idle"
  /\ isAccepting(row)
  /\ seen' = [seen EXCEPT ![r] = form]
  /\ gate' = [gate EXCEPT ![r] = row.access]
  /\ Goto(r, "resolved")
  /\ UNCHANGED <<row, minted, now, formVars, tallyVars, shown>>

\* The body is checked against the questions this request has resolved.
SubmitResolve(r) ==
  /\ pc[r] = "idle"
  /\ isAccepting(row)
  /\ row.access = "organization" => MemberOf[r] # None
  /\ seen' = [seen EXCEPT ![r] = form]
  /\ gate' = [gate EXCEPT ![r] = row.access]
  /\ Goto(r, "resolved")
  /\ UNCHANGED <<row, minted, now, formVars, tallyVars, shown>>

\* An uncommitted participant row of the same member makes the insert wait.
JoiningHolds(m) ==
  \E q \in Respondents : /\ gate[q] = "organization" /\ MemberOf[q] = m
                         /\ pc[q] \in {"joined", "answered", "counted"}

\* Mutant: looks for the participant row instead of relying on its key.
SubmitJoinUnchecked(r) ==
  /\ pc[r] = "resolved" /\ gate[r] = "organization"
  /\ Goto(r, IF MemberOf[r] \in participants THEN "refused" ELSE "joined")
  /\ UNCHANGED <<row, minted, now, formVars, tallyVars, submitVars>>

\* Members only: the participant row first, whose primary key refuses a second.
SubmitJoin(r) ==
  /\ pc[r] = "resolved" /\ gate[r] = "organization"
  /\ ~JoiningHolds(MemberOf[r])
  /\ Goto(r, IF MemberOf[r] \in participants THEN "refused" ELSE "joined")
  /\ UNCHANGED <<row, minted, now, formVars, tallyVars, submitVars>>

\* The response and its answers.  The foreign key waits for a deletion in
\* flight, and fails when a question has gone.
SubmitAnswer(r) ==
  /\ pc[r] = IF gate[r] = "organization" THEN "joined" ELSE "resolved"
  /\ \A s \in Savers : removed[s] \cap seen[r] = {}
  /\ Goto(r, IF seen[r] \subseteq form THEN "answered" ELSE "refused")
  /\ UNCHANGED <<row, minted, now, formVars, tallyVars, submitVars>>

\* Counts what is committed, and its own.
SubmitCount(r) ==
  /\ pc[r] = "answered"
  /\ shown' = [shown EXCEPT ![r] = Cardinality(responses) + 1]
  /\ Goto(r, "counted")
  /\ UNCHANGED <<row, minted, now, formVars, tallyVars, seen, gate>>

SubmitCommit(r) ==
  /\ pc[r] = "counted"
  /\ responses' = responses \cup {r}
  /\ answers' = [answers EXCEPT ![r] = seen[r]]
  /\ participants' = IF gate[r] = "organization" THEN participants \cup {MemberOf[r]} ELSE participants
  /\ Goto(r, "done")
  /\ UNCHANGED <<row, minted, now, formVars, submitVars>>

-----------------------------------------------------------------------------
(* The environment.                                                        *)

Tick ==
  /\ now < MaxTime
  /\ now' = now + 1
  /\ UNCHANGED <<row, minted, formVars, tallyVars, submitVars, pc>>

\* The client goes away, or the transaction is ended to break a deadlock or by
\* its timeout: nothing of it remains.
Rollback(p) ==
  /\ \/ p \in Savers /\ pc[p] \in {"saving", "deleting"}
     \/ p \in Respondents /\ pc[p] \in Filling
  /\ want' = [s \in Savers |-> IF s = p THEN {} ELSE want[s]]
  /\ removed' = [s \in Savers |-> IF s = p THEN {} ELSE removed[s]]
  /\ Goto(p, "refused")
  /\ UNCHANGED <<row, minted, now, form, tallyVars, submitVars>>

-----------------------------------------------------------------------------
UpdateStep(u) ==
  \/ UpdateFind(u)
  \/ \E access \in {"public", "organization"}, startsAt, endsAt \in Times \cup {None} :
       UpdateCommit(u, access, startsAt, endsAt)

SaveStep(s) ==
  \/ SaveFind(s)
  \/ SaveDeleteBegin(s)
  \/ \E q \in Saves : SaveDeleteNext(s, q)
  \/ \E new \in {{}, {s}} : SaveCommit(s, new)

SubmitStep(r) ==
  \/ SubmitResolve(r) \/ SubmitJoin(r) \/ SubmitAnswer(r) \/ SubmitCount(r) \/ SubmitCommit(r)

Next ==
  \/ \E l \in Launchers : LaunchFind(l) \/ LaunchMint(l)
  \/ \E c \in Closers : CloseFind(c) \/ CloseCommit(c)
  \/ \E u \in Updaters : UpdateStep(u)
  \/ \E s \in Savers : SaveStep(s)
  \/ \E r \in Respondents : SubmitStep(r)
  \/ \E p \in Procs : Rollback(p)
  \/ Tick

Spec == Init /\ [][Next]_vars

-----------------------------------------------------------------------------
(* Properties.                                                             *)

\* The participant rows of a members-only campaign and its responses, which
\* nothing joins, agree all the same: one response each, and no response
\* without one, whatever edits, launches and double submissions raced
\* (submitResponse and the trigger endur_campaign_promises_are_immutable).
OneResponsePerMember ==
  row.token # 0 /\ row.access = "organization" =>
    /\ Cardinality(responses) = Cardinality(participants)
    /\ \A r \in responses : MemberOf[r] \in participants

\* The promise a respondent was shown is the promise the campaign still makes:
\* access is never changed under an answer, not even by an edit that read the
\* row while it was a draft.
PromiseKept == \A r \in responses : gate[r] = row.access

\* An answer is never recorded to a question that is gone, although the
\* questions were read before the transaction: the submission is refused.
AnswersAsked ==
  [][\A r \in Respondents : r \notin responses /\ r \in responses' => answers'[r] \subseteq form']_vars

\* The list filter and the derived status are one rule (status.ts, "they cannot
\* drift apart"): at every moment of its life a campaign is in the list of its
\* status and in no other, but for one whose window is reversed.  Between its end
\* and its start that one is scheduled, and the list of the closed has it too.
StatusFiltersAgree ==
  \A status \in Statuses :
    whereStatus(row, status) <=>
      \/ statusOf(row) = status
      \/ /\ status = "closed" /\ statusOf(row) = "scheduled"
         /\ row.endsAt # None /\ row.endsAt < now

\* A double-click must not mint a second token: the link never changes.
LinkIsFinal == [][row.token # 0 => row'.token = row.token]_vars

\* Once launched a campaign can be closed but not edited.
DraftOnlyEdits ==
  [][row.token # 0 => row'.startsAt = row.startsAt /\ row'.endsAt = row.endsAt]_vars

\* A template used by a launched campaign is read-only: every respondent
\* answers the same form.
FormFrozen == [][row.token # 0 => form' = form]_vars

\* A campaign that is collecting answers has questions to ask.
LaunchedHasQuestions == row.token # 0 => form # {}

\* Saving replaces the whole question set: what is stored is one save.
FormIsOneSave == Cardinality(form) <= 1

\* The count on the thank-you page agrees with the results.
CountAgrees ==
  [][\A r \in Respondents : r \notin responses /\ r \in responses'
       => shown[r] = Cardinality(responses')]_vars

-----------------------------------------------------------------------------
(* What all of this promises.                                              *)

Survey == INSTANCE CampaignSurvey WITH
  phase  <- IF row.closed THEN "shut" ELSE IF row.token # 0 THEN "live" ELSE "draft",
  access <- row.access,
  inHand <- {r \in Respondents : pc[r] \in Filling},
  cast   <- responses

\* Seen from the row and the responses, the requests are a survey: forms are
\* handed out while it is live, and a form in hand counts once for each member.
ImplementsSurvey == Survey!Spec
=============================================================================
