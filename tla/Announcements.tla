--------------------------- MODULE Announcements ---------------------------
(***************************************************************************)
(* One announcement, from its draft to its receipts                        *)
(* (src/src/backend/features/announcements/service.ts), and the audience   *)
(* it is sent to (audienceUsers of features/campaigns/audience.ts).        *)
(*                                                                         *)
(* Publishing freezes the words and writes one receipt per recipient.      *)
(* Every request reads what it decides on before its transaction opens,    *)
(* and other requests commit in between: the words, the audience rule and  *)
(* the organisation itself may change.  The cap of 500 recipients, the     *)
(* composer's preview and what each list shows are left out.               *)
(***************************************************************************)
EXTENDS Naturals, FiniteSets

CONSTANTS
  Users,       \* the accounts of the organisation
  Support,     \* those of them that are an operator's, with no person
  Rules,       \* the audience rules that name a unit or a role
  Everyone,    \* the rule 'anyone'
  FirstPosts,  \* who each rule reaches to begin with
  Editors,     \* updateAnnouncement
  Publishers,  \* publishAnnouncement
  Deleters,    \* deleteAnnouncement
  Readers,     \* markRead
  By,          \* Readers -> who reads
  Nobody,
  MaxChanges   \* bound on the changes to the organisation

Handlers == Editors \cup Publishers \cup Deleters \cup Readers
Receipts == {"none", "unread", "read"}

ASSUME AnnouncementsAssumption ==
  /\ Support \subseteq Users
  /\ Everyone \notin Rules
  /\ FirstPosts \in [Rules -> SUBSET (Users \ Support)]
  /\ By \in [Readers -> Users]
  /\ Nobody \notin Handlers \cup Rules \cup {Everyone}
  /\ MaxChanges \in Nat

VARIABLES
  account,   \* Users -> whether it is of a person still there, and is dated as disabled
  posts,     \* Rules -> who holds a position it names
  notice,    \* its row: whether it is there, its words (the edit that wrote them), rule, state
  receipt,   \* Users -> their receipt
  arg,       \* Handlers -> what the request has read; draft: there was something still to publish
  step,      \* Handlers -> the next step
  sent,      \* history: words, rule and recipients as first published
  overtaken, \* history: two requests that found a draft have crossed
  changes    \* how often the organisation has changed

noticeVars == <<account, posts, notice, receipt, arg, step, sent, overtaken, changes>>

NoArg == [rule |-> Nobody, to |-> {}, draft |-> FALSE]
Unsent == [words |-> Nobody, rule |-> Nobody, to |-> {}]

NoticeTypeOK ==
  /\ account \in [Users -> [person : BOOLEAN, dated : BOOLEAN]]
  /\ posts \in [Rules -> SUBSET Users]
  /\ notice \in [here : BOOLEAN, words : Editors \cup {Nobody}, rule : Rules \cup {Everyone},
              published : BOOLEAN]
  /\ receipt \in [Users -> Receipts]
  /\ arg \in [Handlers -> [rule : Rules \cup {Everyone, Nobody}, to : SUBSET Users,
                      draft : BOOLEAN]]
  /\ step \in [Handlers -> {"idle", "editing", "resolving", "publishing", "deleting", "reading", "done"}]
  /\ sent \in [words : Editors \cup {Nobody}, rule : Rules \cup {Everyone, Nobody}, to : SUBSET Users]
  /\ overtaken \in BOOLEAN
  /\ changes \in 0..MaxChanges

NoticeInit ==
  /\ account = [u \in Users |-> [person |-> u \notin Support, dated |-> FALSE]]
  /\ posts = FirstPosts
  /\ notice \in [here : {TRUE}, words : {Nobody}, rule : Rules \cup {Everyone}, published : {FALSE}]
  /\ receipt = [u \in Users |-> "none"]
  /\ arg = [p \in Handlers |-> NoArg]
  /\ step = [p \in Handlers |-> "idle"]
  /\ sent = Unsent
  /\ overtaken = FALSE
  /\ changes = 0

-----------------------------------------------------------------------------
\* The accounts with no disabledAt.  deletePerson takes the posts and leaves that date as
\* it is, so an account whose person is gone is still one of everyone's if it had none.
audienceUsers(rule) ==
  {u \in IF rule = Everyone THEN Users ELSE posts[rule] : ~account[u].dated}

Recipients == {u \in Users : receipt[u] # "none"}

Goes(p, at, a) ==
  /\ arg' = [arg EXCEPT ![p] = a]
  /\ step' = [step EXCEPT ![p] = at]

Asks(p, at, a) ==
  /\ step[p] = "idle"
  /\ Goes(p, at, [a EXCEPT !.draft = ~notice.published])
  /\ UNCHANGED <<account, posts, notice, receipt, sent, overtaken, changes>>

-----------------------------------------------------------------------------
(* updateAnnouncement                                                      *)

\* Mutant: published ones are edited too.
EditFindAny(p) == notice.here /\ Asks(p, "editing", NoArg)

EditFind(p) == notice.here /\ ~notice.published /\ Asks(p, "editing", NoArg)

EditCommit(p, words, rule) ==
  /\ step[p] = "editing"
  /\ notice.here
  /\ notice' = [notice EXCEPT !.words = words, !.rule = rule]
  /\ overtaken' = (overtaken \/ (notice.published /\ arg[p].draft))
  /\ Goes(p, "done", NoArg)
  /\ UNCHANGED <<account, posts, receipt, sent, changes>>

-----------------------------------------------------------------------------
(* publishAnnouncement                                                     *)

\* Mutant: resolves and sends again what has been sent.
PublishFindAgain(p) == notice.here /\ Asks(p, "resolving", [NoArg EXCEPT !.rule = notice.rule])

\* One already published is answered with what it is.
PublishFind(p) ==
  notice.here /\ ~notice.published /\ Asks(p, "resolving", [NoArg EXCEPT !.rule = notice.rule])

PublishResolve(p) ==
  /\ step[p] = "resolving"
  /\ Goes(p, "publishing", [arg[p] EXCEPT !.to = audienceUsers(arg[p].rule)])
  /\ UNCHANGED <<account, posts, notice, receipt, sent, overtaken, changes>>

\* The mutant and the code differ in what becomes of a receipt that is there.
Publishes(p, receipts) ==
  /\ step[p] = "publishing"
  /\ notice.here
  /\ notice' = [notice EXCEPT !.published = TRUE]
  /\ receipt' = receipts
  /\ sent' = IF notice.published THEN sent
             ELSE [words |-> notice.words, rule |-> notice.rule, to |-> arg[p].to]
  /\ overtaken' = (overtaken \/ (arg[p].draft /\ (notice.published \/ notice.rule # arg[p].rule)))
  /\ Goes(p, "done", NoArg)
  /\ UNCHANGED <<account, posts, changes>>

\* Mutant: the receipts are written over.
PublishCommitAnew(p) ==
  Publishes(p, [u \in Users |-> IF u \in arg[p].to THEN "unread" ELSE receipt[u]])

\* The stamp and the receipts in one transaction; receipts that are there stay (skipDuplicates).
PublishCommit(p) ==
  Publishes(p, [u \in Users |-> IF u \in arg[p].to /\ receipt[u] = "none" THEN "unread"
                                ELSE receipt[u]])

-----------------------------------------------------------------------------
DeleteFind(p) == notice.here /\ Asks(p, "deleting", NoArg)

\* The receipts go with it, by the cascade.
DeleteCommit(p) ==
  /\ step[p] = "deleting"
  /\ notice.here
  /\ notice' = [notice EXCEPT !.here = FALSE]
  /\ receipt' = [u \in Users |-> "none"]
  /\ Goes(p, "done", NoArg)
  /\ UNCHANGED <<account, posts, sent, overtaken, changes>>

ReadFind(p) == receipt[By[p]] = "unread" /\ Asks(p, "reading", NoArg)

ReadCommit(p) ==
  /\ step[p] = "reading"
  /\ receipt[By[p]] # "none"
  /\ receipt' = [receipt EXCEPT ![By[p]] = "read"]
  /\ Goes(p, "done", NoArg)
  /\ UNCHANGED <<account, posts, notice, sent, overtaken, changes>>

\* The row it was about is gone, or the database broke it off.
BreakOff(p) ==
  /\ step[p] \notin {"idle", "done"}
  /\ Goes(p, "done", NoArg)
  /\ UNCHANGED <<account, posts, notice, receipt, sent, overtaken, changes>>

-----------------------------------------------------------------------------
(* The organisation meanwhile: revokeAccount, activateAccount,             *)
(* deletePerson, and an assignment made or ended.                          *)

Changes == changes < MaxChanges /\ changes' = changes + 1
                /\ UNCHANGED <<notice, receipt, arg, step, sent, overtaken>>

AccountChanges(u) ==
  /\ account[u].person
  /\ account' = [account EXCEPT ![u].dated = ~@]
  /\ Changes
  /\ UNCHANGED posts

PersonGoes(u) ==
  /\ account[u].person
  /\ account' = [account EXCEPT ![u].person = FALSE]
  /\ posts' = [r \in Rules |-> posts[r] \ {u}]
  /\ Changes

PostChanges(u, rule) ==
  /\ account[u].person
  /\ posts' = [posts EXCEPT ![rule] = IF u \in @ THEN @ \ {u} ELSE @ \cup {u}]
  /\ Changes
  /\ UNCHANGED account

NoticeNext ==
  \/ \E p \in Editors :
       \/ EditFind(p)
       \/ \E words \in {p, notice.words}, rule \in Rules \cup {Everyone} :
            EditCommit(p, words, rule)
  \/ \E p \in Publishers : PublishFind(p) \/ PublishResolve(p) \/ PublishCommit(p)
  \/ \E p \in Deleters : DeleteFind(p) \/ DeleteCommit(p)
  \/ \E p \in Readers : ReadFind(p) \/ ReadCommit(p)
  \/ \E p \in Handlers : BreakOff(p)
  \/ \E u \in Users : AccountChanges(u) \/ PersonGoes(u)
  \/ \E u \in Users, rule \in Rules : PostChanges(u, rule)

NoticeSpec == NoticeInit /\ [][NoticeNext]_noticeVars
-----------------------------------------------------------------------------
(* "Resolving the audience twice would run against a different org graph   *)
(* and silently change who was sent it", and "words people have already    *)
(* read must not change under them": unless two of its requests ran at     *)
(* once, what is published keeps its words and its rule, and its receipts  *)
(* are the people that rule named then, whoever joins or leaves later.     *)
PublishedIsFrozen ==
  notice.here /\ notice.published /\ ~overtaken =>
    notice.words = sent.words /\ notice.rule = sent.rule /\ Recipients = sent.to

(* "An honest denominator taken when the notice was sent": whatever        *)
(* races, receipts are there only with the stamp, and while the notice is  *)
(* there nobody loses theirs, and one that says read never says unread.    *)
ReceiptsStand ==
  [][/\ Recipients' # {} => notice'.here /\ notice'.published
     /\ notice'.here => \A u \in Users : /\ receipt[u] # "none" => receipt'[u] # "none"
                                     /\ receipt[u] = "read" => receipt'[u] = "read"]_noticeVars

(* What the code says and does not keep; see the README.                   *)

\* The same, with nothing excused.
PublishedStands == notice.here /\ notice.published => notice.words = sent.words /\ Recipients = sent.to

\* "People with no account, or a disabled one, are skipped" (audienceUsers), and a
\* support account "never appears in people lists, audiences" (db/support.ts).
OnlyPeopleHere ==
  \A p \in Publishers : step[p] = "publishing" /\ changes = 0 =>
    \A u \in arg[p].to : u \notin Support
=============================================================================
