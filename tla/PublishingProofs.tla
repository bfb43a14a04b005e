-------------------------- MODULE PublishingProofs --------------------------
(***************************************************************************)
(* What is published, to whom, and what may still change: proofs about     *)
(* Campaigns and, in the last section, Announcements, for any people,      *)
(* rules and requests. The two are not composed: a theorem speaks of Spec  *)
(* or of NoticeSpec.                                                       *)
(*                                                                         *)
(* Campaigns: one response for each member, the promise of who may answer, *)
(* the answers and the questions they refer to, the one rule of the        *)
(* status; and that the requests implement CampaignSurvey.                 *)
(*                                                                         *)
(* The argument: nobody is asked before there is a token, and from then on *)
(* the access stands still (Launched, Gates). A member who has joined has  *)
(* no participant row yet and is alone (OneEach), and the questions of an  *)
(* answer being written are neither gone nor going (Asked).                *)
(***************************************************************************)
EXTENDS Campaigns, Announcements, FiniteSetTheorems, TLAPS

\* A respondent whose participant row, if members only, is written and not committed.
Joining == {"joined", "answered", "counted"}

\* Only a campaign with a token is closed or answered.
Launched ==
  /\ row.closed => row.token # 0
  /\ \A c \in Closers : pc[c] = "closing" => row.token # 0
  /\ \A r \in Respondents : pc[r] \in Filling \cup {"done"} => row.token # 0

\* The responses are of the requests that are through.
Recorded == \A r \in Respondents : r \in responses <=> pc[r] = "done"

\* The access a request resolved is still the campaign's.
Gates ==
  \A r \in Respondents : pc[r] \in Filling \cup {"done"} =>
    gate[r] = row.access /\ (gate[r] = "organization" => MemberOf[r] \in Members)

\* The questions of an answer are there, and no transaction has deleted one.
Asked ==
  \A r \in Respondents : pc[r] \in {"answered", "counted"} =>
    seen[r] \subseteq form /\ \A s \in Savers : removed[s] \cap seen[r] = {}

\* The participant rows are of the members who have responded, each by one response or about to.
OneEach ==
  /\ \A r \in Respondents : pc[r] = "joined" => gate[r] = "organization"
  /\ \A r \in Respondents : pc[r] \in Joining /\ gate[r] = "organization" =>
       /\ MemberOf[r] \notin participants
       /\ \A q \in Respondents :
            pc[q] \in Joining /\ gate[q] = "organization" /\ MemberOf[q] = MemberOf[r] => q = r
  /\ participants = {MemberOf[r] : r \in {q \in responses : gate[q] = "organization"}}
  /\ \A r, q \in responses :
       gate[r] = "organization" /\ gate[q] = "organization" /\ MemberOf[r] = MemberOf[q] => r = q

IInv == TypeOK /\ Launched /\ Recorded /\ Gates /\ Asked /\ OneEach

-----------------------------------------------------------------------------
LEMMA KindsApart ==
  /\ \A r \in Respondents : r \notin Launchers \cup Closers \cup Updaters \cup Savers
  /\ \A s \in Savers : s \notin Launchers \cup Closers \cup Updaters
<1> DEFINE kind == <<Launchers, Closers, Updaters, Savers, Respondents>>
<1>1. \A i, j \in 1..5 : i # j => kind[i] \cap kind[j] = {}
  BY RequestsAssumption
<1>2. kind[1] = Launchers /\ kind[2] = Closers /\ kind[3] = Updaters /\ kind[4] = Savers
      /\ kind[5] = Respondents
  OBVIOUS
<1> HIDE DEF kind
<1>3. /\ kind[5] \cap kind[1] = {} /\ kind[5] \cap kind[2] = {} /\ kind[5] \cap kind[3] = {}
      /\ kind[5] \cap kind[4] = {} /\ kind[4] \cap kind[1] = {} /\ kind[4] \cap kind[2] = {}
      /\ kind[4] \cap kind[3] = {}
  BY <1>1
<1> QED BY <1>2, <1>3

LEMMA InitIInv == Init => IInv
<1> SUFFICES ASSUME Init PROVE IInv
  OBVIOUS
<1>1. TypeOK
  <2>1. row \in Rows
    <3>1. row \in [token : {0, 1}, closed : {FALSE}, access : {"public", "organization"},
                   startsAt : Times \cup {None}, endsAt : Times \cup {None}]
      BY DEF Init
    <3>2. row = [token |-> row.token, closed |-> row.closed, access |-> row.access,
                 startsAt |-> row.startsAt, endsAt |-> row.endsAt]
      BY <3>1
    <3>3. /\ row.token \in Nat /\ row.closed \in BOOLEAN /\ row.access \in {"public", "organization"}
          /\ row.startsAt \in Times \cup {None} /\ row.endsAt \in Times \cup {None}
      <4>1. row.token \in {0, 1}
        BY <3>1
      <4>2. row.closed \in {FALSE}
        BY <3>1
      <4>3. /\ row.access \in {"public", "organization"}
            /\ row.startsAt \in Times \cup {None} /\ row.endsAt \in Times \cup {None}
        BY <3>1
      <4>4. row.token \in Nat
        BY <4>1
      <4>5. row.closed \in BOOLEAN
        BY <4>2
      <4> QED BY <4>3, <4>4, <4>5
    <3>4. [token |-> row.token, closed |-> row.closed, access |-> row.access,
           startsAt |-> row.startsAt, endsAt |-> row.endsAt] \in Rows
      BY <3>3 DEF Rows
    <3> QED BY <3>2, <3>4, Zenon
  <2>2. now \in Times /\ minted \in Nat
    BY MembersAssumption, <2>1 DEF Init, Times, Rows
  <2> QED BY <2>1, <2>2 DEF Init, TypeOK, Saves
<1>2. \A p \in Procs : pc[p] = "idle"
  BY DEF Init
<1>3. Launched /\ Recorded /\ Gates /\ Asked
  BY <1>2 DEF Init, Launched, Recorded, Gates, Asked, Filling, Procs
<1>4. OneEach
  BY <1>2 DEF Init, OneEach, Joining, Procs
<1> QED BY <1>1, <1>3, <1>4 DEF IInv

\* The next step of one request.
PcSteps == {"idle", "minting", "closing", "updating", "saving", "deleting",
            "resolved", "joined", "answered", "counted", "done", "refused"}

LEMMA GotoIs ==
  ASSUME TypeOK, NEW p \in Procs, NEW at \in PcSteps, Goto(p, at)
  PROVE  /\ pc' \in [Procs -> PcSteps]
         /\ \A q \in Procs : pc'[q] = IF q = p THEN at ELSE pc[q]
  BY DEF Goto, TypeOK, PcSteps

-----------------------------------------------------------------------------
(* The console: a token, once there, stays, and so does the access.        *)

LEMMA ConsoleKeeps ==
  ASSUME IInv, NEW p \in Procs \ Respondents, NEW at \in PcSteps, Goto(p, at),
         row' \in Rows, minted' \in Nat,
         row.token # 0 => row'.token # 0 /\ row'.access = row.access,
         row'.closed => row'.token # 0,
         at = "closing" => row'.token # 0,
         UNCHANGED <<now, formVars, tallyVars, submitVars>>
  PROVE  IInv'
<1>1. /\ pc' \in [Procs -> PcSteps]
      /\ \A q \in Procs : pc'[q] = IF q = p THEN at ELSE pc[q]
  BY GotoIs DEF IInv
<1>2. \A r \in Respondents : pc'[r] = pc[r]
  BY <1>1 DEF Procs
<1>3. UNCHANGED <<now, form, want, removed, responses, answers, participants, seen, gate, shown>>
  BY DEF formVars, tallyVars, submitVars
<1>4. TypeOK'
  BY <1>1, <1>3 DEF IInv, TypeOK, PcSteps
<1>5. Launched'
  <2>1. \A c \in Closers : pc'[c] = "closing" => row'.token # 0
    BY <1>1 DEF IInv, Launched, Procs
  <2>2. \A r \in Respondents : pc'[r] \in Filling \cup {"done"} => row'.token # 0
    BY <1>2 DEF IInv, Launched
  <2> QED BY <2>1, <2>2 DEF Launched
<1>6. Recorded' /\ Asked'
  BY <1>2, <1>3 DEF IInv, Recorded, Asked
<1>7. Gates'
  BY <1>2, <1>3 DEF IInv, Gates, Launched
<1>8. OneEach'
  BY <1>2, <1>3 DEF IInv, OneEach
<1> QED BY <1>4, <1>5, <1>6, <1>7, <1>8 DEF IInv

LEMMA LaunchKeeps ==
  ASSUME IInv, NEW l \in Launchers, LaunchFind(l) \/ LaunchMint(l)
  PROVE  IInv'
<1>1. l \in Procs \ Respondents
  BY KindsApart DEF Procs
<1>2. row \in Rows /\ minted \in Nat /\ (row.closed => row.token # 0)
  BY DEF IInv, TypeOK, Launched
<1>3. CASE LaunchFind(l)
  BY <1>1, <1>2, <1>3, ConsoleKeeps DEF LaunchFind, PcSteps
<1>4. CASE LaunchMint(l)
  <2>1. row' = [row EXCEPT !.token = minted + 1] /\ minted' = minted + 1
    BY <1>4 DEF LaunchMint
  <2>2. row' \in Rows /\ row'.token # 0 /\ row'.access = row.access /\ minted' \in Nat
    BY <1>2, <2>1 DEF Rows
  <2> QED BY <1>1, <1>4, <2>2, ConsoleKeeps DEF LaunchMint, PcSteps
<1> QED BY <1>3, <1>4

LEMMA CloseKeeps ==
  ASSUME IInv, NEW c \in Closers, CloseFind(c) \/ CloseCommit(c)
  PROVE  IInv'
<1>1. c \in Procs \ Respondents
  BY KindsApart DEF Procs
<1>2. row \in Rows /\ minted \in Nat /\ (row.closed => row.token # 0)
  BY DEF IInv, TypeOK, Launched
<1>3. CASE CloseFind(c)
  BY <1>1, <1>2, <1>3, ConsoleKeeps DEF CloseFind, PcSteps
<1>4. CASE CloseCommit(c)
  <2>1. row' = [row EXCEPT !.closed = TRUE] /\ row.token # 0 /\ minted' = minted
    BY <1>4 DEF CloseCommit, IInv, Launched
  <2>2. row' \in Rows /\ row'.token # 0 /\ row'.access = row.access
    BY <1>2, <2>1 DEF Rows
  <2> QED BY <1>1, <1>2, <1>4, <2>1, <2>2, ConsoleKeeps DEF CloseCommit, PcSteps
<1> QED BY <1>3, <1>4

LEMMA UpdateKeeps ==
  ASSUME IInv, NEW u \in Updaters, UpdateStep(u)
  PROVE  IInv'
<1>1. u \in Procs \ Respondents
  BY KindsApart DEF Procs
<1>2. row \in Rows /\ minted \in Nat /\ (row.closed => row.token # 0)
  BY DEF IInv, TypeOK, Launched
<1>3. CASE UpdateFind(u)
  BY <1>1, <1>2, <1>3, ConsoleKeeps DEF UpdateFind, PcSteps
<1>4. ASSUME NEW access \in {"public", "organization"}, NEW startsAt \in Times \cup {None},
             NEW endsAt \in Times \cup {None}, UpdateCommit(u, access, startsAt, endsAt)
      PROVE  IInv'
  <2>1. CASE row.token # 0 /\ access # row.access
    BY <1>1, <1>2, <1>4, <2>1, ConsoleKeeps DEF UpdateCommit, PcSteps
  <2>2. CASE ~(row.token # 0 /\ access # row.access)
    <3>1. /\ row' = [row EXCEPT !.access = access, !.startsAt = startsAt, !.endsAt = endsAt]
          /\ Goto(u, "done") /\ UNCHANGED <<minted, now, formVars, tallyVars, submitVars>>
      BY <1>4, <2>2 DEF UpdateCommit
    <3>2. /\ row' \in Rows /\ row'.token = row.token /\ row'.closed = row.closed
          /\ row'.access = access
      BY <1>2, <3>1 DEF Rows
    <3> QED BY <1>1, <1>2, <2>2, <3>1, <3>2, ConsoleKeeps DEF PcSteps
  <2> QED BY <2>1, <2>2
<1> QED BY <1>3, <1>4 DEF UpdateStep

-----------------------------------------------------------------------------
(* Saving the questions: a deletion waits for the answers that hold them.  *)

\* A step of a saver leaves the campaign and the submissions alone.
LEMMA SaverKeeps ==
  ASSUME IInv, NEW s \in Savers, pc' \in [Procs -> PcSteps],
         \A q \in Procs : q # s => pc'[q] = pc[q],
         pc'[s] # "closing",
         form' \in SUBSET Saves, want' \in [Savers -> SUBSET Saves],
         removed' \in [Savers -> SUBSET Saves], answers' \in [Respondents -> SUBSET Saves],
         \A r \in Respondents : pc[r] \in {"answered", "counted"} =>
           seen[r] \subseteq form' /\ \A t \in Savers : removed'[t] \cap seen[r] = {},
         UNCHANGED <<row, minted, now, responses, participants, submitVars>>
  PROVE  IInv'
<1>1. \A r \in Respondents : pc'[r] = pc[r]
  BY KindsApart DEF Procs
<1>2. UNCHANGED <<row, minted, now, responses, participants, seen, gate, shown>>
  BY DEF submitVars
<1>3. TypeOK'
  BY <1>2 DEF IInv, TypeOK, PcSteps
<1>4. Launched'
  <2>1. \A c \in Closers : pc'[c] = "closing" => pc[c] = "closing"
    BY DEF Procs
  <2> QED BY <1>1, <1>2, <2>1 DEF IInv, Launched
<1>5. Recorded' /\ Gates'
  BY <1>1, <1>2 DEF IInv, Recorded, Gates
<1>6. Asked'
  BY <1>1, <1>2 DEF Asked
<1>7. OneEach'
  BY <1>1, <1>2 DEF IInv, OneEach
<1> QED BY <1>3, <1>4, <1>5, <1>6, <1>7 DEF IInv

LEMMA SaveStepKeeps ==
  ASSUME IInv, NEW s \in Savers, SaveStep(s)
  PROVE  IInv'
<1>1. s \in Procs
  BY DEF Procs
<1>2. /\ pc \in [Procs -> PcSteps] /\ form \in SUBSET Saves /\ want \in [Savers -> SUBSET Saves]
      /\ removed \in [Savers -> SUBSET Saves] /\ answers \in [Respondents -> SUBSET Saves]
      /\ row \in Rows /\ minted \in Nat
  BY DEF IInv, TypeOK, PcSteps
<1>3. \A r \in Respondents : pc[r] \in {"answered", "counted"} =>
        seen[r] \subseteq form /\ \A t \in Savers : removed[t] \cap seen[r] = {}
  BY DEF IInv, Asked
<1>4. CASE SaveFind(s)
  <2>1. s \in Procs \ Respondents /\ (row.closed => row.token # 0)
    BY <1>1, KindsApart DEF IInv, Launched
  <2> QED BY <1>2, <1>4, <2>1, ConsoleKeeps DEF SaveFind, PcSteps
<1>5. CASE SaveDeleteBegin(s)
  <2>1. /\ pc' = [pc EXCEPT ![s] = "deleting"] /\ want' = [want EXCEPT ![s] = form]
        /\ UNCHANGED <<row, minted, now, form, removed, responses, answers, participants, submitVars>>
    BY <1>5 DEF SaveDeleteBegin, Goto, tallyVars
  <2>2. pc' \in [Procs -> PcSteps] /\ pc'[s] # "closing" /\ \A q \in Procs : q # s => pc'[q] = pc[q]
    BY <1>1, <1>2, <2>1 DEF PcSteps
  <2>3. want' \in [Savers -> SUBSET Saves]
    BY <1>2, <2>1
  <2> QED BY <1>2, <1>3, <2>1, <2>2, <2>3, SaverKeeps
<1>6. ASSUME NEW q \in Saves, SaveDeleteNext(s, q) PROVE IInv'
  <2>1. /\ want' = [want EXCEPT ![s] = @ \ {q}]
        /\ removed' = removed \/ removed' = [removed EXCEPT ![s] = @ \cup {q}]
        /\ ~AnsweringHolds(q) /\ pc[s] = "deleting"
        /\ UNCHANGED <<row, minted, now, form, responses, answers, participants, submitVars, pc>>
    BY <1>6 DEF SaveDeleteNext, tallyVars
  <2>2. want' \in [Savers -> SUBSET Saves] /\ removed' \in [Savers -> SUBSET Saves]
    BY <1>2, <2>1
  <2>3. \A t \in Savers : removed'[t] \subseteq removed[t] \cup {q}
    BY <1>2, <2>1
  <2>4. ASSUME NEW r \in Respondents, pc[r] \in {"answered", "counted"}
        PROVE  seen[r] \subseteq form' /\ \A t \in Savers : removed'[t] \cap seen[r] = {}
    <3>1. q \notin seen[r]
      BY <2>1, <2>4 DEF AnsweringHolds
    <3> QED BY <1>3, <2>1, <2>3, <2>4, <3>1
  <2> QED BY <1>1, <1>2, <2>1, <2>2, <2>4, SaverKeeps
<1>7. ASSUME NEW new \in {{}, {s}}, SaveCommit(s, new) PROVE IInv'
  <2>1. /\ form' = (form \ removed[s]) \cup new
        /\ answers' = [r \in Respondents |-> answers[r] \ removed[s]]
        /\ removed' = [removed EXCEPT ![s] = {}] /\ pc' = [pc EXCEPT ![s] = "done"]
        /\ UNCHANGED <<row, minted, now, want, responses, participants, submitVars>>
    BY <1>7 DEF SaveCommit, Goto
  <2>2. pc' \in [Procs -> PcSteps] /\ pc'[s] # "closing" /\ \A q \in Procs : q # s => pc'[q] = pc[q]
    BY <1>1, <1>2, <2>1 DEF PcSteps
  <2>3. /\ form' \in SUBSET Saves /\ removed' \in [Savers -> SUBSET Saves]
        /\ answers' \in [Respondents -> SUBSET Saves]
    BY <1>2, <2>1 DEF Saves
  <2>4. \A t \in Savers : removed'[t] \subseteq removed[t]
    BY <1>2, <2>1
  <2>5. ASSUME NEW r \in Respondents, pc[r] \in {"answered", "counted"}
        PROVE  seen[r] \subseteq form' /\ \A t \in Savers : removed'[t] \cap seen[r] = {}
    BY <1>3, <2>1, <2>4, <2>5
  <2> QED BY <1>2, <2>1, <2>2, <2>3, <2>5, SaverKeeps
<1> QED BY <1>4, <1>5, <1>6, <1>7 DEF SaveStep

-----------------------------------------------------------------------------
(* The submission.                                                         *)

\* Nobody else's submission moves, and nothing of the campaign or the form.
Mine(r, at) ==
  /\ Goto(r, at)
  /\ UNCHANGED <<row, minted, now, formVars>>
  /\ \A q \in Respondents \ {r} :
       /\ seen'[q] = seen[q] /\ gate'[q] = gate[q]
       /\ q \in responses' <=> q \in responses

\* What holds of the others, and of the types, after a step of one respondent.
LEMMA MineKeeps ==
  ASSUME IInv, NEW r \in Respondents, NEW at \in PcSteps, Mine(r, at),
         responses' \in SUBSET Respondents, answers' \in [Respondents -> SUBSET Saves],
         participants' \in SUBSET Members, seen' \in [Respondents -> SUBSET Saves],
         gate' \in [Respondents -> {"public", "organization"}], shown' \in [Respondents -> Nat],
         at # "closing",
         at \in Filling \cup {"done"} =>
           /\ row.token # 0 /\ gate'[r] = row.access
           /\ gate'[r] = "organization" => MemberOf[r] \in Members,
         r \in responses' <=> at = "done",
         at \in {"answered", "counted"} =>
           seen'[r] \subseteq form /\ \A s \in Savers : removed[s] \cap seen'[r] = {},
         OneEach'
  PROVE  IInv'
<1>1. /\ pc' \in [Procs -> PcSteps]
      /\ \A q \in Procs : pc'[q] = IF q = r THEN at ELSE pc[q]
  BY GotoIs DEF IInv, Mine, Procs
<1>2. pc'[r] = at /\ \A q \in Respondents \ {r} : pc'[q] = pc[q]
  BY <1>1 DEF Procs
<1>3. UNCHANGED <<row, minted, now, form, want, removed>>
  BY DEF Mine, formVars
<1>4. TypeOK'
  BY <1>1, <1>3 DEF IInv, TypeOK, PcSteps
<1>5. Launched'
  <2>1. \A c \in Closers : pc'[c] = pc[c]
    BY <1>1, KindsApart DEF Procs
  <2> QED BY <1>2, <1>3, <2>1 DEF IInv, Launched
<1>6. Recorded'
  BY <1>2 DEF IInv, Recorded, Mine
<1>7. Gates'
  BY <1>2, <1>3 DEF IInv, Gates, Mine
<1>8. Asked'
  BY <1>2, <1>3 DEF IInv, Asked, Mine
<1> QED BY <1>4, <1>5, <1>6, <1>7, <1>8 DEF IInv
\* What a step of a respondent can rely on.
LEMMA Known ==
  ASSUME IInv, NEW r \in Respondents
  PROVE  /\ r \in Procs /\ row \in Rows
         /\ responses \in SUBSET Respondents /\ answers \in [Respondents -> SUBSET Saves]
         /\ participants \in SUBSET Members /\ seen \in [Respondents -> SUBSET Saves]
         /\ gate \in [Respondents -> {"public", "organization"}] /\ shown \in [Respondents -> Nat]
         /\ form \in SUBSET Saves /\ pc \in [Procs -> PcSteps]
         /\ r \in responses <=> pc[r] = "done"
         /\ pc[r] \in Filling => /\ row.token # 0 /\ gate[r] = row.access
                                 /\ gate[r] = "organization" => MemberOf[r] \in Members
  BY DEF IInv, TypeOK, Recorded, Launched, Gates, Procs, PcSteps

\* A respondent who is not joining, after a step that records nothing.
LEMMA NotJoining ==
  ASSUME IInv, NEW r \in Respondents, NEW at \in PcSteps \ Joining, Goto(r, at),
         \A q \in Respondents \ {r} : gate'[q] = gate[q],
         r \notin responses, UNCHANGED <<responses, participants>>
  PROVE  OneEach'
<1>1. \A q \in Procs : pc'[q] = IF q = r THEN at ELSE pc[q]
  BY GotoIs DEF IInv, Procs
<1>2. pc'[r] \notin Joining /\ \A q \in Respondents \ {r} : pc'[q] = pc[q]
  BY <1>1 DEF Procs
<1>3. \A q \in responses : q \in Respondents \ {r} /\ gate'[q] = gate[q]
  BY DEF IInv, TypeOK
<1>4. {q \in responses : gate'[q] = "organization"} = {q \in responses : gate[q] = "organization"}
  BY <1>3
<1>5. participants' = {MemberOf[q] : q \in {p \in responses' : gate'[p] = "organization"}}
  BY <1>4 DEF IInv, OneEach
<1>6. \A q \in Respondents : pc'[q] \in Joining => q # r
  BY <1>2
<1>7. \A q \in Respondents : pc'[q] = "joined" => gate'[q] = "organization"
  BY <1>2 DEF IInv, OneEach, Joining
<1>8. \A q \in Respondents : pc'[q] \in Joining /\ gate'[q] = "organization" =>
        /\ MemberOf[q] \notin participants'
        /\ \A p \in Respondents :
             pc'[p] \in Joining /\ gate'[p] = "organization" /\ MemberOf[p] = MemberOf[q] => p = q
  BY <1>2, <1>6 DEF IInv, OneEach
<1>9. \A p, q \in responses' :
        gate'[p] = "organization" /\ gate'[q] = "organization" /\ MemberOf[p] = MemberOf[q] => p = q
  BY <1>3 DEF IInv, OneEach
<1> QED BY <1>5, <1>7, <1>8, <1>9 DEF OneEach

LEMMA ResolveKeeps ==
  ASSUME IInv, NEW r \in Respondents, SubmitResolve(r)
  PROVE  IInv'
<1>1. /\ pc[r] = "idle" /\ isAccepting(row) /\ (row.access = "organization" => MemberOf[r] # None)
      /\ seen' = [seen EXCEPT ![r] = form] /\ gate' = [gate EXCEPT ![r] = row.access]
      /\ Goto(r, "resolved")
      /\ UNCHANGED <<row, minted, now, formVars, responses, answers, participants, shown>>
  BY DEF SubmitResolve, tallyVars
<1>2. row.token # 0
  BY <1>1 DEF isAccepting, statusOf
<1>3. /\ seen' \in [Respondents -> SUBSET Saves]
      /\ gate' \in [Respondents -> {"public", "organization"}] /\ gate'[r] = row.access
      /\ \A q \in Respondents \ {r} : seen'[q] = seen[q] /\ gate'[q] = gate[q]
  BY <1>1, Known DEF Rows
<1>4. row.access = "organization" => MemberOf[r] \in Members
  BY <1>1, MembersAssumption
<1>5. r \notin responses
  BY <1>1, Known
<1>6. "resolved" \in PcSteps \ Joining
  BY DEF PcSteps, Joining
<1>7. OneEach'
  BY <1>1, <1>3, <1>5, <1>6, NotJoining
<1>8. Mine(r, "resolved")
  BY <1>1, <1>3 DEF Mine
<1> QED BY <1>1, <1>2, <1>3, <1>4, <1>5, <1>6, <1>7, <1>8, Known, MineKeeps

\* A submission that stops where it is.
LEMMA RefusedKeeps ==
  ASSUME IInv, NEW r \in Respondents, pc[r] \in Filling, Goto(r, "refused"),
         UNCHANGED <<row, minted, now, formVars, tallyVars, submitVars>>
  PROVE  IInv'
<1>1. UNCHANGED <<responses, answers, participants, seen, gate, shown>>
  BY DEF tallyVars, submitVars
<1>2. r \notin responses
  BY Known DEF Filling
<1>3. "refused" \in PcSteps \ Joining /\ "refused" \notin Filling
  BY DEF PcSteps, Joining, Filling
<1>4. OneEach'
  BY <1>1, <1>2, <1>3, NotJoining
<1>5. Mine(r, "refused")
  BY <1>1 DEF Mine
<1> QED BY <1>1, <1>2, <1>3, <1>4, <1>5, Known, MineKeeps

LEMMA JoinKeeps ==
  ASSUME IInv, NEW r \in Respondents, SubmitJoin(r)
  PROVE  IInv'
<1>1. /\ pc[r] = "resolved" /\ gate[r] = "organization" /\ ~JoiningHolds(MemberOf[r])
      /\ Goto(r, IF MemberOf[r] \in participants THEN "refused" ELSE "joined")
      /\ UNCHANGED <<row, minted, now, formVars, tallyVars, submitVars>>
  BY DEF SubmitJoin
<1>2. CASE MemberOf[r] \in participants
  BY <1>1, <1>2, RefusedKeeps DEF Filling
<1>3. CASE MemberOf[r] \notin participants
  <2>1. Goto(r, "joined") /\ UNCHANGED <<responses, answers, participants, seen, gate, shown>>
    BY <1>1, <1>3 DEF tallyVars, submitVars
  <2>2. r \notin responses
    BY <1>1, Known
  <2>3. "joined" \in PcSteps /\ pc[r] \in Filling
    BY <1>1 DEF PcSteps, Filling
  <2>4. pc'[r] = "joined" /\ \A q \in Respondents \ {r} : pc'[q] = pc[q]
    BY <2>1, <2>3, GotoIs DEF IInv, Procs
  <2>5. \A q \in Respondents : pc[q] \in Joining /\ gate[q] = "organization" => MemberOf[q] # MemberOf[r]
    BY <1>1 DEF JoiningHolds, Joining
  <2>6. OneEach'
    BY <1>1, <1>3, <2>1, <2>4, <2>5 DEF IInv, OneEach, Joining
  <2>7. Mine(r, "joined")
    BY <1>1, <2>1 DEF Mine
  <2> QED BY <2>1, <2>2, <2>3, <2>6, <2>7, Known, MineKeeps
<1> QED BY <1>2, <1>3

LEMMA AnswerKeeps ==
  ASSUME IInv, NEW r \in Respondents, SubmitAnswer(r)
  PROVE  IInv'
<1>1. /\ pc[r] = IF gate[r] = "organization" THEN "joined" ELSE "resolved"
      /\ \A s \in Savers : removed[s] \cap seen[r] = {}
      /\ Goto(r, IF seen[r] \subseteq form THEN "answered" ELSE "refused")
      /\ UNCHANGED <<row, minted, now, formVars, tallyVars, submitVars>>
  BY DEF SubmitAnswer
<1>2. pc[r] \in Filling
  BY <1>1 DEF Filling
<1>3. CASE ~(seen[r] \subseteq form)
  BY <1>1, <1>2, <1>3, RefusedKeeps
<1>4. CASE seen[r] \subseteq form
  <2>1. Goto(r, "answered") /\ UNCHANGED <<responses, answers, participants, seen, gate, shown>>
    BY <1>1, <1>4 DEF tallyVars, submitVars
  <2>2. r \notin responses
    BY <1>2, Known DEF Filling
  <2>3. "answered" \in PcSteps
    BY DEF PcSteps
  <2>4. pc'[r] = "answered" /\ \A q \in Respondents \ {r} : pc'[q] = pc[q]
    BY <2>1, <2>3, GotoIs DEF IInv, Procs
  <2>5. gate[r] = "organization" => pc[r] \in Joining
    BY <1>1 DEF Joining
  <2>6. OneEach'
    BY <2>1, <2>4, <2>5 DEF IInv, OneEach, Joining
  <2>7. Mine(r, "answered")
    BY <1>1, <2>1 DEF Mine
  <2> QED BY <1>1, <1>2, <1>4, <2>1, <2>2, <2>3, <2>6, <2>7, Known, MineKeeps
<1> QED BY <1>3, <1>4

LEMMA CountKeeps ==
  ASSUME IInv, NEW r \in Respondents, SubmitCount(r)
  PROVE  IInv'
<1>1. /\ pc[r] = "answered" /\ shown' = [shown EXCEPT ![r] = Cardinality(responses) + 1]
      /\ Goto(r, "counted")
      /\ UNCHANGED <<row, minted, now, formVars, responses, answers, participants, seen, gate>>
  BY DEF SubmitCount, tallyVars
<1>2. Cardinality(responses) + 1 \in Nat
  <2>1. IsFiniteSet(responses)
    BY RequestsAssumption, FS_Subset DEF IInv, TypeOK
  <2> QED BY <2>1, FS_CardinalityType
<1>3. shown' \in [Respondents -> Nat]
  BY <1>1, <1>2, Known
<1>4. r \notin responses /\ pc[r] \in Filling /\ "counted" \in PcSteps
  BY <1>1, Known DEF Filling, PcSteps
<1>5. pc'[r] = "counted" /\ \A q \in Respondents \ {r} : pc'[q] = pc[q]
  BY <1>1, <1>4, GotoIs DEF IInv, Procs
<1>6. OneEach'
  BY <1>1, <1>5 DEF IInv, OneEach, Joining
<1>7. Mine(r, "counted")
  BY <1>1 DEF Mine
<1>8. seen[r] \subseteq form /\ \A s \in Savers : removed[s] \cap seen[r] = {}
  BY <1>1 DEF IInv, Asked
<1> QED BY <1>1, <1>3, <1>4, <1>6, <1>7, <1>8, Known, MineKeeps

LEMMA CommitKeeps ==
  ASSUME IInv, NEW r \in Respondents, SubmitCommit(r)
  PROVE  IInv'
<1>1. /\ pc[r] = "counted" /\ responses' = responses \cup {r}
      /\ answers' = [answers EXCEPT ![r] = seen[r]]
      /\ participants' = IF gate[r] = "organization" THEN participants \cup {MemberOf[r]}
                         ELSE participants
      /\ Goto(r, "done") /\ UNCHANGED <<row, minted, now, formVars, seen, gate, shown>>
  BY DEF SubmitCommit, submitVars
<1>2. pc[r] \in Filling /\ pc[r] \in Joining /\ "done" \in PcSteps
  BY <1>1 DEF Filling, Joining, PcSteps
<1>3. pc'[r] = "done" /\ \A q \in Respondents \ {r} : pc'[q] = pc[q]
  BY <1>1, <1>2, GotoIs DEF IInv, Procs
<1>4. r \notin responses
  BY <1>1, Known
<1>5. OneEach'
  <2>1. \A q \in Respondents : pc'[q] = "joined" => gate'[q] = "organization"
    BY <1>1, <1>3 DEF IInv, OneEach
  <2>2. ASSUME NEW q \in Respondents, pc'[q] \in Joining, gate'[q] = "organization"
        PROVE  /\ MemberOf[q] \notin participants'
               /\ \A p \in Respondents :
                    pc'[p] \in Joining /\ gate'[p] = "organization" /\ MemberOf[p] = MemberOf[q] => p = q
    <3>1. q # r /\ pc[q] \in Joining /\ gate[q] = "organization"
      BY <1>1, <1>3, <2>2 DEF Joining
    <3>2. gate[r] = "organization" => MemberOf[q] # MemberOf[r]
      BY <1>2, <3>1 DEF IInv, OneEach
    <3>3. MemberOf[q] \notin participants'
      BY <1>1, <3>1, <3>2 DEF IInv, OneEach
    <3>4. \A p \in Respondents : pc'[p] \in Joining => pc[p] \in Joining
      BY <1>2, <1>3
    <3> QED BY <1>1, <3>1, <3>3, <3>4 DEF IInv, OneEach
  <2>3. participants' = {MemberOf[q] : q \in {p \in responses' : gate'[p] = "organization"}}
    <3>1. participants = {MemberOf[q] : q \in {p \in responses : gate[p] = "organization"}}
      BY DEF IInv, OneEach
    <3>2. CASE gate[r] = "organization"
      <4>1. {p \in responses' : gate'[p] = "organization"}
              = {p \in responses : gate[p] = "organization"} \cup {r}
        BY <1>1, <3>2
      <4> QED BY <1>1, <3>1, <3>2, <4>1
    <3>3. CASE gate[r] # "organization"
      <4>1. {p \in responses' : gate'[p] = "organization"}
              = {p \in responses : gate[p] = "organization"}
        BY <1>1, <3>3
      <4> QED BY <1>1, <3>1, <3>3, <4>1
    <3> QED BY <3>2, <3>3
  <2>4. ASSUME NEW p \in responses', NEW q \in responses', gate'[p] = "organization",
               gate'[q] = "organization", MemberOf[p] = MemberOf[q]
        PROVE  p = q
    <3>1. \A x \in responses : gate[x] = "organization" => MemberOf[x] \in participants
      BY DEF IInv, OneEach
    <3>2. gate[r] = "organization" => MemberOf[r] \notin participants
      BY <1>2 DEF IInv, OneEach
    <3>3. CASE p = r \/ q = r
      BY <1>1, <2>4, <3>1, <3>2, <3>3
    <3>4. CASE p # r /\ q # r
      BY <1>1, <2>4, <3>4 DEF IInv, OneEach
    <3> QED BY <3>3, <3>4
  <2> QED BY <2>1, <2>2, <2>3, <2>4 DEF OneEach
<1>6. Mine(r, "done")
  BY <1>1 DEF Mine
<1>7. /\ responses' \in SUBSET Respondents /\ answers' \in [Respondents -> SUBSET Saves]
      /\ participants' \in SUBSET Members
  BY <1>1, <1>2, Known
<1> QED BY <1>1, <1>2, <1>5, <1>6, <1>7, Known, MineKeeps
-----------------------------------------------------------------------------
(* The environment, and every step.                                        *)

LEMMA RollbackKeeps ==
  ASSUME IInv, NEW p \in Procs, Rollback(p)
  PROVE  IInv'
<1>1. /\ \/ p \in Savers /\ pc[p] \in {"saving", "deleting"}
         \/ p \in Respondents /\ pc[p] \in Filling
      /\ want' = [s \in Savers |-> IF s = p THEN {} ELSE want[s]]
      /\ removed' = [s \in Savers |-> IF s = p THEN {} ELSE removed[s]]
      /\ Goto(p, "refused")
      /\ UNCHANGED <<row, minted, now, form, tallyVars, submitVars>>
  BY DEF Rollback
<1>2. /\ want \in [Savers -> SUBSET Saves] /\ removed \in [Savers -> SUBSET Saves]
      /\ form \in SUBSET Saves /\ answers \in [Respondents -> SUBSET Saves]
  BY DEF IInv, TypeOK
<1>3. CASE p \in Respondents /\ pc[p] \in Filling
  <2>1. \A s \in Savers : s # p
    BY <1>3, KindsApart
  <2>2. want' = want /\ removed' = removed
    BY <1>1, <1>2, <2>1
  <2> QED BY <1>1, <1>3, <2>2, RefusedKeeps DEF formVars
<1>4. CASE p \in Savers
  <2>1. /\ pc' \in [Procs -> PcSteps]
        /\ \A q \in Procs : pc'[q] = IF q = p THEN "refused" ELSE pc[q]
    BY <1>1, GotoIs DEF IInv, PcSteps
  <2>2. want' \in [Savers -> SUBSET Saves] /\ removed' \in [Savers -> SUBSET Saves]
    BY <1>1, <1>2
  <2>3. \A t \in Savers : removed'[t] \subseteq removed[t]
    BY <1>1, <1>2
  <2>4. \A r \in Respondents : pc[r] \in {"answered", "counted"} =>
          seen[r] \subseteq form' /\ \A t \in Savers : removed'[t] \cap seen[r] = {}
    BY <1>1, <2>3 DEF IInv, Asked
  <2> QED BY <1>1, <1>2, <1>4, <2>1, <2>2, <2>4, SaverKeeps DEF tallyVars
<1> QED BY <1>1, <1>3, <1>4

LEMMA AsideKeeps ==
  ASSUME IInv, now' \in Times, UNCHANGED <<row, minted, formVars, tallyVars, submitVars, pc>>
  PROVE  IInv'
<1>1. UNCHANGED <<row, minted, form, want, removed, responses, answers, participants, seen, gate,
                  shown, pc>>
  BY DEF formVars, tallyVars, submitVars
<1>2. TypeOK'
  BY <1>1 DEF IInv, TypeOK
<1>3. Launched' /\ Recorded' /\ Gates' /\ Asked' /\ OneEach'
  BY <1>1 DEF IInv, Launched, Recorded, Gates, Asked, OneEach
<1> QED BY <1>2, <1>3 DEF IInv

LEMMA StepKeeps == ASSUME IInv, [Next]_vars PROVE IInv'
<1>1. ASSUME NEW r \in Respondents, SubmitStep(r) PROVE IInv'
  BY <1>1, ResolveKeeps, JoinKeeps, AnswerKeeps, CountKeeps, CommitKeeps DEF SubmitStep
<1>2. CASE Tick
  <2>1. now' \in Times
    BY <1>2, MembersAssumption DEF Tick, IInv, TypeOK, Times
  <2> QED BY <1>2, <2>1, AsideKeeps DEF Tick
<1>3. CASE UNCHANGED vars
  BY <1>3, AsideKeeps DEF vars, IInv, TypeOK
<1> QED BY <1>1, <1>2, <1>3, LaunchKeeps, CloseKeeps, UpdateKeeps, SaveStepKeeps,
   RollbackKeeps DEF Next

LEMMA Invariance == Spec => []IInv
<1>1. IInv /\ [Next]_vars => IInv'
  BY StepKeeps
<1> QED BY <1>1, InitIInv, PTL DEF Spec

-----------------------------------------------------------------------------
(* Every request, row and answer stays well typed.                         *)
THEOREM TypeCorrect == Spec => []TypeOK
<1>1. IInv => TypeOK
  BY DEF IInv
<1> QED BY <1>1, Invariance, PTL

\* As many responses as participants: to each its own.
LEMMA OneToOne ==
  ASSUME IInv, row.token # 0, row.access = "organization"
  PROVE  /\ Cardinality(responses) = Cardinality(participants)
         /\ \A r \in responses : MemberOf[r] \in participants
<1> DEFINE member == [r \in responses |-> MemberOf[r]]
<1>1. IsFiniteSet(responses) /\ responses \in SUBSET Respondents
  BY RequestsAssumption, FS_Subset DEF IInv, TypeOK
<1>2. \A r \in responses : gate[r] = "organization"
  BY <1>1 DEF IInv, Recorded, Gates
<1>3. participants = {MemberOf[r] : r \in responses}
  <2>1. {q \in responses : gate[q] = "organization"} = responses
    BY <1>2
  <2>2. participants = {MemberOf[r] : r \in {q \in responses : gate[q] = "organization"}}
    BY DEF IInv, OneEach
  <2> QED BY <2>1, <2>2
<1>4. \A r, q \in responses : MemberOf[r] = MemberOf[q] => r = q
  BY <1>2 DEF IInv, OneEach
<1>5. member \in Bijection(responses, participants)
  <2>1. member \in Injection(responses, participants)
    BY <1>3, <1>4 DEF Injection, IsInjective
  <2>2. member \in Surjection(responses, participants)
    BY <1>3 DEF Surjection
  <2> QED BY <2>1, <2>2 DEF Bijection
<1>6. ExistsBijection(responses, participants)
  BY <1>5 DEF ExistsBijection
<1>7. Cardinality(responses) = Cardinality(participants)
  BY <1>1, <1>6, FS_Bijection
<1> QED BY <1>3, <1>7

(* submitResponse and its participant row: in a campaign for members there *)
(* are as many responses as participants, whatever edits, launches and     *)
(* double submissions raced.                                               *)
THEOREM AlwaysOneResponsePerMember == Spec => []OneResponsePerMember
<1>1. IInv => OneResponsePerMember
  BY OneToOne DEF OneResponsePerMember
<1> QED BY <1>1, Invariance, PTL

(* updateCampaign and the trigger behind it: a respondent answered under   *)
(* the access the campaign still has.                                      *)
THEOREM AlwaysPromiseKept == Spec => []PromiseKept
<1>1. IInv => PromiseKept
  BY DEF IInv, TypeOK, Recorded, Gates, PromiseKept
<1> QED BY <1>1, Invariance, PTL

(* statusOf and whereStatus: for every row and at every time each list     *)
(* holds the campaigns of its status, and the list of the closed those     *)
(* also that are scheduled and have ended: a reversed window's.            *)
THEOREM StatusFiltersAlwaysAgree == Spec => []StatusFiltersAgree
<1>1. ASSUME TypeOK, NEW status \in Statuses
      PROVE  whereStatus(row, status) <=>
               \/ statusOf(row) = status
               \/ /\ status = "closed" /\ statusOf(row) = "scheduled"
                  /\ row.endsAt # None /\ row.endsAt < now
  <2>1. /\ row.token \in Nat /\ row.closed \in BOOLEAN
        /\ row.startsAt \in Times \cup {None} /\ row.endsAt \in Times \cup {None}
        /\ now \in Nat /\ \A t \in Times : t \in Nat
    BY <1>1, MembersAssumption DEF TypeOK, Rows, Times
  <2>2. CASE row.closed
    BY <2>1, <2>2 DEF whereStatus, statusOf, Statuses
  <2>3. CASE ~row.closed /\ row.token = 0
    BY <2>1, <2>3 DEF whereStatus, statusOf, Statuses
  <2>4. CASE ~row.closed /\ row.token # 0 /\ row.startsAt # None /\ row.startsAt > now
    <3>1. statusOf(row) = "scheduled"
      BY <2>4 DEF statusOf
    <3>3. row.startsAt \in Nat /\ ~(row.startsAt <= now)
      BY <2>1, <2>4
    <3>4. /\ whereStatus(row, "scheduled") /\ ~whereStatus(row, "draft")
          /\ whereStatus(row, "closed") <=> (row.endsAt # None /\ row.endsAt < now)
          /\ ~whereStatus(row, "open")
      BY <2>4, <3>3 DEF whereStatus
    <3> QED BY <3>1, <3>4 DEF Statuses
  <2>5. CASE ~row.closed /\ row.token # 0 /\ ~(row.startsAt # None /\ row.startsAt > now)
    <3>1. statusOf(row) = IF row.endsAt # None /\ row.endsAt < now THEN "closed" ELSE "open"
      BY <2>5 DEF statusOf
    <3>2. row.startsAt = None \/ row.startsAt <= now
      BY <2>1, <2>5
    <3>3. (row.endsAt = None \/ row.endsAt >= now) <=> ~(row.endsAt # None /\ row.endsAt < now)
      BY <2>1
    <3>4. /\ ~whereStatus(row, "scheduled") /\ ~whereStatus(row, "draft")
          /\ whereStatus(row, "closed") <=> (row.endsAt # None /\ row.endsAt < now)
          /\ whereStatus(row, "open") <=> ~(row.endsAt # None /\ row.endsAt < now)
      BY <2>5, <3>2, <3>3 DEF whereStatus
    <3> QED BY <3>1, <3>4 DEF Statuses
  <2> QED BY <2>1, <2>2, <2>3, <2>4, <2>5
<1>2. TypeOK => StatusFiltersAgree
  BY <1>1 DEF StatusFiltersAgree
<1> QED BY <1>2, TypeCorrect, PTL

(* submitResponse and putQuestions: an answer is recorded to questions     *)
(* that are there.                                                         *)
THEOREM AnswersAlwaysAsked == Spec => AnswersAsked
<1>1. ASSUME IInv, [Next]_vars
      PROVE  [\A r \in Respondents :
                r \notin responses /\ r \in responses' => answers'[r] \subseteq form']_vars
  <2> SUFFICES ASSUME Next, NEW r \in Respondents, r \notin responses, r \in responses'
               PROVE  answers'[r] \subseteq form'
    BY <1>1
  <2>1. PICK q \in Respondents : SubmitCommit(q)
    BY DEF Next, LaunchFind, LaunchMint, CloseFind, CloseCommit, UpdateStep, UpdateFind,
       UpdateCommit,
           SaveStep, SaveFind, SaveDeleteBegin, SaveDeleteNext, SaveCommit, SubmitStep, SubmitResolve,
           SubmitJoin, SubmitAnswer, SubmitCount, Tick, Rollback, tallyVars
  <2>2. /\ responses' = responses \cup {q} /\ answers' = [answers EXCEPT ![q] = seen[q]]
        /\ pc[q] = "counted" /\ form' = form
    BY <2>1 DEF SubmitCommit, formVars
  <2>3. seen[q] \subseteq form /\ answers \in [Respondents -> SUBSET Saves]
    BY <1>1, <2>2 DEF IInv, Asked, TypeOK
  <2> QED BY <2>2, <2>3
<1>2. IInv /\ [Next]_vars => IInv'
  BY StepKeeps
<1> QED BY <1>1, <1>2, InitIInv, PTL DEF Spec, AnswersAsked

-----------------------------------------------------------------------------
(* The survey that the requests carry out.                                 *)

phase == IF row.closed THEN "shut" ELSE IF row.token # 0 THEN "live" ELSE "draft"
inHand == {r \in Respondents : pc[r] \in Filling}

\* Nothing the survey sees.
LEMMA SurveyStands ==
  ASSUME UNCHANGED <<phase, inHand, responses>>, row'.access = row.access
  PROVE  UNCHANGED Survey!vars
  BY DEF Survey!vars, phase, inHand

LEMMA SurveyInit == Init => Survey!Init
<1> SUFFICES ASSUME Init PROVE Survey!Init
  OBVIOUS
<1>1. /\ row.closed = FALSE /\ row.access \in {"public", "organization"}
      /\ row.token # 0 => row.access = "public"
  BY DEF Init
<1>2. inHand = {}
  BY DEF Init, inHand, Filling, Procs
<1> QED BY <1>1, <1>2 DEF Init, inHand, Survey!Init

\* The console shows in the phase and the access.
LEMMA ConsoleSurvey ==
  ASSUME IInv, NEW p \in Procs \ Respondents, NEW at \in PcSteps, Goto(p, at), UNCHANGED responses,
         row' \in Rows,
         \/ row'.access = row.access /\ (row.closed <=> row'.closed) /\ (row.token = 0 <=> row'.token = 0)
         \/ /\ row.token = 0 /\ ~row.closed /\ ~row'.closed
            /\ row'.token = 0 \/ row'.access = row.access
         \/ row.token # 0 /\ row'.token # 0 /\ row'.closed /\ row'.access = row.access
  PROVE  [Survey!Next]_(Survey!vars)
<1>1. inHand' = inHand
  <2>1. \A r \in Respondents : pc'[r] = pc[r]
    BY GotoIs DEF IInv, Procs
  <2> QED BY <2>1 DEF inHand
<1>2. CASE row'.access = row.access /\ (row.closed <=> row'.closed) /\ (row.token = 0 <=> row'.token = 0)
  BY <1>1, <1>2, SurveyStands DEF phase
<1>3. CASE row.token = 0 /\ ~row.closed /\ ~row'.closed /\ row'.token = 0
  <2>1. phase = "draft" /\ phase' = "draft" /\ row'.access \in {"public", "organization"}
    BY <1>3 DEF phase, Rows
  <2>2. Survey!Reconsider
    BY <1>1, <2>1 DEF Survey!Reconsider, phase, inHand
  <2> QED BY <2>2 DEF Survey!Next
<1>4. CASE row.token = 0 /\ ~row.closed /\ ~row'.closed /\ row'.token # 0 /\ row'.access = row.access
  <2>1. phase = "draft" /\ phase' = "live"
    BY <1>4 DEF phase
  <2>2. Survey!Launch
    BY <1>1, <1>4, <2>1 DEF Survey!Launch, phase, inHand
  <2> QED BY <2>2 DEF Survey!Next
<1>5. CASE row.token # 0 /\ row'.token # 0 /\ row'.closed /\ row'.access = row.access
  <2>1. CASE row.closed
    BY <1>1, <1>5, <2>1, SurveyStands DEF phase
  <2>2. CASE ~row.closed
    <3>1. phase = "live" /\ phase' = "shut"
      BY <1>5, <2>2 DEF phase
    <3>2. Survey!Shut
      BY <1>1, <1>5, <3>1 DEF Survey!Shut, phase, inHand
    <3> QED BY <3>2 DEF Survey!Next
  <2> QED BY <2>1, <2>2
<1> QED BY <1>2, <1>3, <1>4, <1>5

\* A submission hands a form out, discards it, casts it, or carries on with it.
LEMMA SubmitSurvey ==
  ASSUME IInv, NEW r \in Respondents, NEW at \in PcSteps, Goto(r, at), UNCHANGED row,
         \/ pc[r] = "idle" /\ at = "resolved" /\ isAccepting(row) /\ UNCHANGED responses
            /\ (row.access = "organization" => MemberOf[r] # None)
         \/ pc[r] \in Filling /\ at \in Filling \cup {"refused"} /\ UNCHANGED responses
         \/ pc[r] = "counted" /\ at = "done" /\ responses' = responses \cup {r}
  PROVE  [Survey!Next]_(Survey!vars)
<1>1. pc'[r] = at /\ \A q \in Respondents \ {r} : pc'[q] = pc[q]
  BY GotoIs DEF IInv, Procs
<1>2. phase' = phase /\ row'.access = row.access
  BY DEF phase
<1>3. CASE pc[r] = "idle" /\ at = "resolved" /\ isAccepting(row) /\ UNCHANGED responses
           /\ (row.access = "organization" => MemberOf[r] # None)
  <2>1. phase = "live"
    BY <1>3 DEF phase, isAccepting, statusOf
  <2>2. r \notin inHand \cup responses
    BY <1>3, Known DEF inHand, Filling
  <2>3. inHand' = inHand \cup {r}
    BY <1>1, <1>3 DEF inHand, Filling
  <2>4. Survey!HandOut(r)
    BY <1>2, <1>3, <2>1, <2>2, <2>3 DEF Survey!HandOut, phase, inHand
  <2> QED BY <2>4 DEF Survey!Next
<1>4. CASE pc[r] \in Filling /\ at \in Filling /\ UNCHANGED responses
  <2>1. inHand' = inHand
    BY <1>1, <1>4 DEF inHand
  <2> QED BY <1>2, <1>4, <2>1, SurveyStands
<1>5. CASE pc[r] \in Filling /\ at = "refused" /\ UNCHANGED responses
  <2>1. r \in inHand /\ inHand' = inHand \ {r}
    BY <1>1, <1>5 DEF inHand, Filling
  <2>2. Survey!Discard(r)
    BY <1>2, <1>5, <2>1 DEF Survey!Discard, phase, inHand
  <2> QED BY <2>2 DEF Survey!Next
<1>6. CASE pc[r] = "counted" /\ at = "done" /\ responses' = responses \cup {r}
  <2>1. r \in inHand /\ inHand' = inHand \ {r}
    BY <1>1, <1>6 DEF inHand, Filling
  <2>2. row.access = "organization" => MemberOf[r] \notin {MemberOf[q] : q \in responses}
    <3> SUFFICES ASSUME row.access = "organization", NEW q \in responses, MemberOf[q] = MemberOf[r]
                 PROVE  FALSE
      OBVIOUS
    <3>1. gate[r] = "organization" /\ pc[r] \in Joining
      BY <1>6, Known DEF Filling, Joining
    <3>2. MemberOf[r] \notin participants
      BY <3>1 DEF IInv, OneEach
    <3>3. q \in Respondents /\ gate[q] = "organization"
      BY DEF IInv, TypeOK, Recorded, Gates
    <3>4. MemberOf[q] \in participants
      BY <3>3 DEF IInv, OneEach
    <3> QED BY <3>2, <3>4
  <2>3. Survey!Cast(r)
    BY <1>2, <1>6, <2>1, <2>2 DEF Survey!Cast, Survey!Voted, phase, inHand
  <2> QED BY <2>3 DEF Survey!Next
<1> QED BY <1>3, <1>4, <1>5, <1>6

LEMMA StepSurvey == ASSUME IInv, [Next]_vars PROVE [Survey!Next]_(Survey!vars)
<1>1. ASSUME UNCHANGED <<row, responses, pc>> PROVE [Survey!Next]_(Survey!vars)
  BY <1>1, SurveyStands DEF phase, inHand
<1>2. row \in Rows /\ (row.closed => row.token # 0) /\ minted \in Nat
  BY DEF IInv, TypeOK, Launched
<1>3. ASSUME NEW l \in Launchers, LaunchFind(l) \/ LaunchMint(l) PROVE [Survey!Next]_(Survey!vars)
  <2>1. l \in Procs \ Respondents
    BY KindsApart DEF Procs
  <2>2. CASE LaunchFind(l)
    BY <1>2, <2>1, <2>2, ConsoleSurvey DEF LaunchFind, tallyVars, PcSteps
  <2>3. CASE LaunchMint(l)
    <3>1. row' = [row EXCEPT !.token = minted + 1]
      BY <2>3 DEF LaunchMint
    <3>2. row' \in Rows /\ row'.token # 0 /\ row'.access = row.access /\ (row'.closed <=> row.closed)
      BY <1>2, <3>1 DEF Rows
    <3> QED BY <1>2, <2>1, <2>3, <3>2, ConsoleSurvey DEF LaunchMint, tallyVars, PcSteps
  <2> QED BY <1>3, <2>2, <2>3
<1>4. ASSUME NEW c \in Closers, CloseFind(c) \/ CloseCommit(c) PROVE [Survey!Next]_(Survey!vars)
  <2>1. c \in Procs \ Respondents
    BY KindsApart DEF Procs
  <2>2. CASE CloseFind(c)
    BY <1>2, <2>1, <2>2, ConsoleSurvey DEF CloseFind, tallyVars, PcSteps
  <2>3. CASE CloseCommit(c)
    <3>1. row' = [row EXCEPT !.closed = TRUE] /\ row.token # 0
      BY <2>3 DEF CloseCommit, IInv, Launched
    <3>2. row' \in Rows /\ row'.token # 0 /\ row'.access = row.access /\ row'.closed
      BY <1>2, <3>1 DEF Rows
    <3> QED BY <2>1, <2>3, <3>1, <3>2, ConsoleSurvey DEF CloseCommit, tallyVars, PcSteps
  <2> QED BY <1>4, <2>2, <2>3
<1>5. ASSUME NEW u \in Updaters, UpdateStep(u) PROVE [Survey!Next]_(Survey!vars)
  <2>1. u \in Procs \ Respondents
    BY KindsApart DEF Procs
  <2>2. CASE UpdateFind(u)
    BY <1>2, <2>1, <2>2, ConsoleSurvey DEF UpdateFind, tallyVars, PcSteps
  <2>3. ASSUME NEW access \in {"public", "organization"}, NEW startsAt \in Times \cup {None},
               NEW endsAt \in Times \cup {None}, UpdateCommit(u, access, startsAt, endsAt)
        PROVE  [Survey!Next]_(Survey!vars)
    <3>1. CASE row.token # 0 /\ access # row.access
      BY <1>2, <2>1, <2>3, <3>1, ConsoleSurvey DEF UpdateCommit, tallyVars, PcSteps
    <3>2. CASE ~(row.token # 0 /\ access # row.access)
      <4>1. /\ row' = [row EXCEPT !.access = access, !.startsAt = startsAt, !.endsAt = endsAt]
            /\ Goto(u, "done") /\ UNCHANGED responses
        BY <2>3, <3>2 DEF UpdateCommit, tallyVars
      <4>2. /\ row' \in Rows /\ row'.token = row.token /\ (row'.closed <=> row.closed)
            /\ row'.access = access
        BY <1>2, <4>1 DEF Rows
      <4>3. row.token = 0 => ~row.closed
        BY <1>2
      <4> QED BY <2>1, <3>2, <4>1, <4>2, <4>3, ConsoleSurvey DEF PcSteps
    <3> QED BY <3>1, <3>2
  <2> QED BY <1>5, <2>2, <2>3 DEF UpdateStep
<1>6. ASSUME NEW s \in Savers, SaveStep(s) PROVE [Survey!Next]_(Survey!vars)
  <2>1. s \in Procs \ Respondents
    BY KindsApart DEF Procs
  <2>2. UNCHANGED <<row, responses>>
    BY <1>6 DEF SaveStep, SaveFind, SaveDeleteBegin, SaveDeleteNext, SaveCommit, tallyVars
  <2>3. UNCHANGED pc \/ \E at \in PcSteps : Goto(s, at)
    BY <1>6 DEF SaveStep, SaveFind, SaveDeleteBegin, SaveDeleteNext, SaveCommit, PcSteps
  <2> QED BY <1>1, <1>2, <2>1, <2>2, <2>3, ConsoleSurvey
<1>7. ASSUME NEW r \in Respondents, SubmitStep(r) PROVE [Survey!Next]_(Survey!vars)
  <2>1. CASE SubmitResolve(r)
    BY <2>1, SubmitSurvey DEF SubmitResolve, tallyVars, PcSteps
  <2>2. CASE SubmitJoin(r)
    BY <2>2, SubmitSurvey DEF SubmitJoin, tallyVars, PcSteps, Filling
  <2>3. CASE SubmitAnswer(r)
    BY <2>3, SubmitSurvey DEF SubmitAnswer, tallyVars, PcSteps, Filling
  <2>4. CASE SubmitCount(r)
    BY <2>4, SubmitSurvey DEF SubmitCount, tallyVars, PcSteps, Filling
  <2>5. CASE SubmitCommit(r)
    BY <2>5, SubmitSurvey DEF SubmitCommit, PcSteps, Filling
  <2> QED BY <1>7, <2>1, <2>2, <2>3, <2>4, <2>5 DEF SubmitStep
<1>8. ASSUME NEW p \in Procs, Rollback(p) PROVE [Survey!Next]_(Survey!vars)
  <2>1. Goto(p, "refused") /\ UNCHANGED <<row, responses>> /\ "refused" \in PcSteps
    BY <1>8 DEF Rollback, tallyVars, PcSteps
  <2>2. CASE p \in Respondents
    <3>1. pc[p] \in Filling
      BY <1>8, <2>2, KindsApart DEF Rollback
    <3> QED BY <2>1, <2>2, <3>1, SubmitSurvey
  <2>3. CASE p \notin Respondents
    BY <1>2, <2>1, <2>3, ConsoleSurvey
  <2> QED BY <2>2, <2>3
<1>9. CASE Tick
  BY <1>1, <1>9 DEF Tick, tallyVars
<1>10. CASE UNCHANGED vars
  BY <1>1, <1>10 DEF vars, tallyVars
<1> QED BY <1>3, <1>4, <1>5, <1>6, <1>7, <1>8, <1>9, <1>10 DEF Next

(* Seen from the row and the responses, the requests of the console and of *)
(* the public form carry out a survey: every step of theirs is one of its  *)
(* own, or changes nothing it speaks of.                                   *)
THEOREM ImplementsTheSurvey == Spec => ImplementsSurvey
<1>1. IInv /\ [Next]_vars => [Survey!Next]_(Survey!vars)
  BY StepSurvey
<1> QED BY <1>1, SurveyInit, Invariance, PTL DEF Spec, ImplementsSurvey, Survey!Spec

-----------------------------------------------------------------------------
(***************************************************************************)
(* Proofs about Announcements, for any accounts, rules and requests: its   *)
(* types, what is published is frozen, receipts stand.                     *)
(*                                                                         *)
(* PublishedIsFrozen is not inductive: that nobody has a receipt before    *)
(* the first publication is what makes the recipients the people resolved, *)
(* and that an editor or a publisher under way once found a draft is what  *)
(* tells a second publication from the first.                              *)
(***************************************************************************)
Args == [rule : Rules \cup {Everyone, Nobody}, to : SUBSET Users, draft : BOOLEAN]
Steps == {"idle", "editing", "resolving", "publishing", "deleting", "reading", "done"}
Accounts == [person : BOOLEAN, dated : BOOLEAN]

\* An editor or a publisher under way found a draft, and a publisher its rule.
FoundDraft ==
  \A p \in Handlers :
    /\ step[p] \in {"editing", "resolving", "publishing"} => arg[p].draft
    /\ step[p] = "resolving" => arg[p].rule \in Rules \cup {Everyone}

\* There are receipts only of a published notice that is there.
ReceiptsAreSent == Recipients # {} => notice.here /\ notice.published

NoticeIInv == NoticeTypeOK /\ FoundDraft /\ ReceiptsAreSent /\ PublishedIsFrozen

\* What an action that only moves its own request keeps.
LEMMA Moving ==
  ASSUME NoticeTypeOK, NEW p \in Handlers, NEW at \in Steps,
         NEW a \in Args,
         Goes(p, at, a)
  PROVE  /\ arg' \in [Handlers -> Args]
         /\ step' \in [Handlers -> Steps]
         /\ step'[p] = at /\ arg'[p] = a
         /\ \A q \in Handlers \ {p} : step'[q] = step[q] /\ arg'[q] = arg[q]
  BY DEF NoticeTypeOK, Goes, Args, Steps

LEMMA NoArgTyped ==
  NoArg \in Args
  BY DEF NoArg, Args

\* A request that begins keeps everything but its own step.
LEMMA AskingKeeps ==
  ASSUME NoticeIInv, NEW p \in Handlers, NEW at \in {"editing", "resolving", "deleting", "reading"},
         NEW a \in Args,
         Asks(p, at, a), at \in {"editing", "resolving"} => ~notice.published,
         at = "resolving" => a.rule \in Rules \cup {Everyone}
  PROVE  NoticeIInv'
<1> DEFINE b == [a EXCEPT !.draft = ~notice.published]
<1>1. notice.published \in BOOLEAN
  BY DEF NoticeIInv, NoticeTypeOK, Args, Steps
<1>2. b \in Args /\ b.draft = ~notice.published /\ b.rule = a.rule
  BY <1>1 DEF Args
<1>3. Goes(p, at, b) /\ UNCHANGED <<account, posts, notice, receipt, sent, overtaken, changes>>
  BY DEF Asks
<1> HIDE DEF b
<1>4. /\ arg' \in [Handlers -> Args]
      /\ step' \in [Handlers -> Steps]
      /\ step'[p] = at /\ arg'[p] = b
      /\ \A q \in Handlers \ {p} : step'[q] = step[q] /\ arg'[q] = arg[q]
  BY <1>2, <1>3, Moving DEF NoticeIInv, Steps
<1>5. NoticeTypeOK'
  BY <1>3, <1>4 DEF NoticeIInv, NoticeTypeOK, Args, Steps
<1>6. FoundDraft'
  BY <1>2, <1>4 DEF NoticeIInv, FoundDraft
<1>7. ReceiptsAreSent' /\ PublishedIsFrozen'
  BY <1>3 DEF NoticeIInv, ReceiptsAreSent, PublishedIsFrozen, Recipients
<1> QED BY <1>5, <1>6, <1>7 DEF NoticeIInv

\* A request that ends keeps the drafts the others found.
LEMMA EndingKeeps ==
  ASSUME NoticeIInv, NEW p \in Handlers, Goes(p, "done", NoArg)
  PROVE  /\ arg' \in [Handlers -> Args]
         /\ step' \in [Handlers -> Steps]
         /\ FoundDraft'
<1>1. /\ arg' \in [Handlers -> Args]
      /\ step' \in [Handlers -> Steps]
      /\ step'[p] = "done"
      /\ \A q \in Handlers \ {p} : step'[q] = step[q] /\ arg'[q] = arg[q]
  BY Moving, NoArgTyped DEF NoticeIInv, Steps
<1> QED BY <1>1 DEF NoticeIInv, FoundDraft

LEMMA EditKeeps ==
  ASSUME NoticeIInv, NEW p \in Editors, NEW words \in {p, notice.words}, NEW rule \in Rules \cup {Everyone},
         EditCommit(p, words, rule)
  PROVE  NoticeIInv'
<1>1. p \in Handlers /\ arg[p].draft /\ notice.published \in BOOLEAN /\ notice.here \in BOOLEAN
  BY DEF NoticeIInv, NoticeTypeOK, Args, Steps, FoundDraft, EditCommit, Handlers
<1>2. arg' \in [Handlers -> Args]
      /\ step' \in [Handlers -> Steps]
      /\ FoundDraft'
  BY <1>1, EndingKeeps DEF EditCommit
<1>3. notice' \in [here : BOOLEAN, words : Editors \cup {Nobody}, rule : Rules \cup {Everyone},
                   published : BOOLEAN]
      /\ notice'.here = notice.here /\ notice'.published = notice.published
  BY DEF NoticeIInv, NoticeTypeOK, Args, Steps, EditCommit
<1>4. overtaken' \in BOOLEAN /\ (notice.published => overtaken')
  BY <1>1 DEF NoticeIInv, NoticeTypeOK, Args, Steps, EditCommit
<1>5. UNCHANGED <<account, posts, receipt, sent, changes>>
  BY DEF EditCommit
<1>6. NoticeTypeOK'
  BY <1>2, <1>3, <1>4, <1>5 DEF NoticeIInv, NoticeTypeOK, Args, Steps
<1>7. ReceiptsAreSent'
  BY <1>3, <1>5 DEF NoticeIInv, ReceiptsAreSent, Recipients
<1>8. PublishedIsFrozen'
  BY <1>3, <1>4 DEF PublishedIsFrozen
<1> QED BY <1>2, <1>6, <1>7, <1>8 DEF NoticeIInv

LEMMA PublishKeeps ==
  ASSUME NoticeIInv, NEW p \in Publishers, PublishCommit(p)
  PROVE  NoticeIInv'
<1> DEFINE r == [u \in Users |-> IF u \in arg[p].to /\ receipt[u] = "none" THEN "unread" ELSE receipt[u]]
<1>1. /\ step[p] = "publishing" /\ notice.here
      /\ notice' = [notice EXCEPT !.published = TRUE]
      /\ receipt' = r
      /\ sent' = IF notice.published THEN sent
                 ELSE [words |-> notice.words, rule |-> notice.rule, to |-> arg[p].to]
      /\ overtaken' = (overtaken \/ (arg[p].draft /\ (notice.published \/ notice.rule # arg[p].rule)))
      /\ Goes(p, "done", NoArg)
      /\ UNCHANGED <<account, posts, changes>>
  BY Zenon DEF PublishCommit, Publishes
<1>2. p \in Handlers /\ arg[p].draft /\ arg[p].to \in SUBSET Users /\ notice.published \in BOOLEAN
  BY <1>1 DEF NoticeIInv, NoticeTypeOK, Args, Steps, FoundDraft, Handlers
<1>3. arg' \in [Handlers -> Args]
      /\ step' \in [Handlers -> Steps]
      /\ FoundDraft'
  BY <1>1, <1>2, EndingKeeps
<1>4. notice' \in [here : BOOLEAN, words : Editors \cup {Nobody}, rule : Rules \cup {Everyone},
                   published : BOOLEAN]
      /\ notice'.here /\ notice'.published /\ notice'.words = notice.words /\ notice'.rule = notice.rule
  BY <1>1 DEF NoticeIInv, NoticeTypeOK, Args, Steps
<1>5. receipt' \in [Users -> Receipts]
      /\ \A u \in Users : receipt'[u] # "none" <=> u \in arg[p].to \/ receipt[u] # "none"
  BY <1>1 DEF NoticeIInv, NoticeTypeOK, Args, Steps, Receipts
<1>6. sent' \in [words : Editors \cup {Nobody}, rule : Rules \cup {Everyone, Nobody}, to : SUBSET Users]
  BY <1>1, <1>2 DEF NoticeIInv, NoticeTypeOK, Args, Steps
<1>7. overtaken' \in BOOLEAN
  BY <1>1, <1>2 DEF NoticeIInv, NoticeTypeOK, Args, Steps
<1>8. NoticeTypeOK'
  BY <1>1, <1>3, <1>4, <1>5, <1>6, <1>7 DEF NoticeIInv, NoticeTypeOK, Args, Steps
<1>9. ReceiptsAreSent'
  BY <1>4 DEF ReceiptsAreSent
<1>10. PublishedIsFrozen'
  <2>1. CASE notice.published
    BY <2>1, <1>1, <1>2 DEF PublishedIsFrozen
  <2>2. CASE ~notice.published
    <3>1. Recipients = {}
      BY <2>2 DEF NoticeIInv, ReceiptsAreSent
    <3>2. \A u \in Users : receipt[u] = "none"
      BY <3>1 DEF Recipients
    <3>3. Recipients' = arg[p].to
      BY <1>2, <1>5, <3>2 DEF Recipients
    <3> QED BY <2>2, <3>3, <1>1, <1>4 DEF PublishedIsFrozen
  <2> QED BY <2>1, <2>2, <1>2
<1> QED BY <1>3, <1>8, <1>9, <1>10 DEF NoticeIInv

\* What remains: a step that ends, resolves, deletes, reads, or the organisation's.
LEMMA OtherKeeps ==
  ASSUME NoticeIInv,
         \/ \E p \in Publishers : PublishResolve(p)
         \/ \E p \in Deleters : DeleteCommit(p)
         \/ \E p \in Readers : ReadCommit(p)
         \/ \E p \in Handlers : BreakOff(p)
  PROVE  NoticeIInv'
<1>1. ASSUME NEW p \in Publishers, PublishResolve(p) PROVE NoticeIInv'
  <2> DEFINE a == [arg[p] EXCEPT !.to = audienceUsers(arg[p].rule)]
  <2>1. p \in Handlers /\ arg[p].draft /\ audienceUsers(arg[p].rule) \in SUBSET Users
    <3>1. p \in Handlers /\ arg[p].draft /\ arg[p].rule \in Rules \cup {Everyone}
      BY <1>1 DEF NoticeIInv, NoticeTypeOK, Args, Steps, FoundDraft, Handlers, PublishResolve
    <3> QED BY <3>1 DEF audienceUsers, NoticeIInv, NoticeTypeOK, Args, Steps
  <2>2. a \in Args /\ a.draft
    BY <2>1 DEF NoticeIInv, NoticeTypeOK, Args, Steps
  <2>3. Goes(p, "publishing", a) /\ UNCHANGED <<account, posts, notice, receipt, sent, overtaken, changes>>
    BY <1>1 DEF PublishResolve
  <2> HIDE DEF a
  <2>4. /\ arg' \in [Handlers -> Args]
        /\ step' \in [Handlers -> Steps]
        /\ step'[p] = "publishing" /\ arg'[p] = a
        /\ \A q \in Handlers \ {p} : step'[q] = step[q] /\ arg'[q] = arg[q]
    BY <2>1, <2>2, <2>3, Moving DEF NoticeIInv, Steps
  <2>5. NoticeTypeOK'
    BY <2>3, <2>4 DEF NoticeIInv, NoticeTypeOK, Args, Steps
  <2>6. FoundDraft'
    BY <2>2, <2>4 DEF NoticeIInv, FoundDraft
  <2> QED BY <2>3, <2>5, <2>6 DEF NoticeIInv, ReceiptsAreSent, PublishedIsFrozen, Recipients
<1>2. ASSUME NEW p \in Deleters, DeleteCommit(p) PROVE NoticeIInv'
  <2>1. /\ p \in Handlers /\ Goes(p, "done", NoArg)
        /\ notice' = [notice EXCEPT !.here = FALSE]
        /\ receipt' = [u \in Users |-> "none"]
        /\ UNCHANGED <<account, posts, sent, overtaken, changes>>
    BY <1>2 DEF DeleteCommit, Handlers
  <2>2. NoticeTypeOK' /\ FoundDraft'
    BY <2>1, EndingKeeps DEF NoticeIInv, NoticeTypeOK, Args, Steps, Receipts
  <2>3. ~notice'.here /\ Recipients' = {}
    BY <2>1 DEF NoticeIInv, NoticeTypeOK, Args, Steps, Recipients
  <2> QED BY <2>2, <2>3 DEF NoticeIInv, ReceiptsAreSent, PublishedIsFrozen
<1>3. ASSUME NEW p \in Readers, ReadCommit(p) PROVE NoticeIInv'
  <2>1. /\ p \in Handlers /\ Goes(p, "done", NoArg)
        /\ receipt[By[p]] # "none" /\ receipt' = [receipt EXCEPT ![By[p]] = "read"]
        /\ UNCHANGED <<account, posts, notice, sent, overtaken, changes>>
    BY <1>3 DEF ReadCommit, Handlers
  <2>2. NoticeTypeOK' /\ FoundDraft'
    BY <2>1, EndingKeeps, AnnouncementsAssumption DEF NoticeIInv, NoticeTypeOK, Args, Steps, Receipts
  <2>3. Recipients' = Recipients
    BY <2>1 DEF NoticeIInv, NoticeTypeOK, Args, Steps, Recipients
  <2> QED BY <2>1, <2>2, <2>3 DEF NoticeIInv, ReceiptsAreSent, PublishedIsFrozen
<1>4. ASSUME NEW p \in Handlers, BreakOff(p) PROVE NoticeIInv'
  <2>1. Goes(p, "done", NoArg) /\ UNCHANGED <<account, posts, notice, receipt, sent, overtaken, changes>>
    BY <1>4 DEF BreakOff
  <2>2. NoticeTypeOK' /\ FoundDraft'
    BY <2>1, EndingKeeps DEF NoticeIInv, NoticeTypeOK, Args, Steps
  <2> QED BY <2>1, <2>2 DEF NoticeIInv, ReceiptsAreSent, PublishedIsFrozen, Recipients
<1> QED BY <1>1, <1>2, <1>3, <1>4

LEMMA ChangesKeep ==
  ASSUME NoticeIInv,
         \/ \E u \in Users : AccountChanges(u) \/ PersonGoes(u)
         \/ \E u \in Users, rule \in Rules : PostChanges(u, rule)
  PROVE  NoticeIInv'
<1>1. ASSUME Changes, account' \in [Users -> Accounts],
             posts' \in [Rules -> SUBSET Users]
      PROVE  NoticeIInv'
  <2>1. UNCHANGED <<notice, receipt, arg, step, sent, overtaken>> /\ changes' \in 0..MaxChanges
    BY <1>1, AnnouncementsAssumption DEF NoticeIInv, NoticeTypeOK, Args, Steps, Changes
  <2>2. NoticeTypeOK'
    BY <1>1, <2>1 DEF NoticeIInv, NoticeTypeOK, Args, Steps, Accounts
  <2> QED BY <2>1, <2>2 DEF NoticeIInv, FoundDraft, ReceiptsAreSent, PublishedIsFrozen, Recipients
<1>t. account \in [Users -> Accounts] /\ posts \in [Rules -> SUBSET Users]
  BY DEF NoticeIInv, NoticeTypeOK, Accounts
<1>2. ASSUME NEW u \in Users, AccountChanges(u) PROVE NoticeIInv'
  <2>1. account' \in [Users -> Accounts]
    BY <1>2, <1>t DEF AccountChanges, Accounts
  <2> QED BY <1>1, <1>2, <1>t, <2>1 DEF AccountChanges
<1>4. ASSUME NEW u \in Users, PersonGoes(u) PROVE NoticeIInv'
  <2>1. account' \in [Users -> Accounts]
    BY <1>4, <1>t DEF PersonGoes, Accounts
  <2>2. posts' \in [Rules -> SUBSET Users]
    BY <1>4, <1>t DEF PersonGoes
  <2> QED BY <1>1, <1>4, <2>1, <2>2 DEF PersonGoes
<1>3. ASSUME NEW u \in Users, NEW rule \in Rules, PostChanges(u, rule) PROVE NoticeIInv'
  <2>1. account' \in [Users -> Accounts]
    BY <1>3, <1>t DEF PostChanges
  <2>2. posts' \in [Rules -> SUBSET Users]
    <3>1. posts[rule] \in SUBSET Users
      BY <1>t
    <3> QED BY <1>3, <1>t, <3>1 DEF PostChanges
  <2> QED BY <1>1, <1>3, <2>1, <2>2 DEF PostChanges
<1> QED BY <1>2, <1>3, <1>4

LEMMA NoticeStepKeeps == NoticeIInv /\ [NoticeNext]_noticeVars => NoticeIInv'
<1> SUFFICES ASSUME NoticeIInv, [NoticeNext]_noticeVars PROVE NoticeIInv'
  OBVIOUS
<1>1. ASSUME UNCHANGED noticeVars PROVE NoticeIInv'
  BY <1>1 DEF NoticeIInv, NoticeTypeOK, Args, Steps, FoundDraft, ReceiptsAreSent,
              PublishedIsFrozen, Recipients, noticeVars
<1>2. ASSUME NEW p \in Editors, EditFind(p) PROVE NoticeIInv'
  BY <1>2, AskingKeeps, NoArgTyped DEF EditFind, Handlers
<1>3. ASSUME NEW p \in Editors, NEW words \in {p, notice.words}, NEW rule \in Rules \cup {Everyone},
             EditCommit(p, words, rule) PROVE NoticeIInv'
  BY <1>3, EditKeeps
<1>4. ASSUME NEW p \in Publishers, PublishFind(p) PROVE NoticeIInv'
  <2>1. [NoArg EXCEPT !.rule = notice.rule] \in Args
    BY NoArgTyped DEF NoticeIInv, NoticeTypeOK, Args, Steps, NoArg
  <2>2. notice.rule \in Rules \cup {Everyone} /\ [NoArg EXCEPT !.rule = notice.rule].rule = notice.rule
    BY DEF NoticeIInv, NoticeTypeOK, NoArg
  <2> QED BY <1>4, <2>1, <2>2, AskingKeeps DEF PublishFind, Handlers
<1>5. ASSUME NEW p \in Deleters, DeleteFind(p) PROVE NoticeIInv'
  BY <1>5, AskingKeeps, NoArgTyped DEF DeleteFind, Handlers
<1>6. ASSUME NEW p \in Readers, ReadFind(p) PROVE NoticeIInv'
  BY <1>6, AskingKeeps, NoArgTyped DEF ReadFind, Handlers
<1> QED BY <1>1, <1>2, <1>3, <1>4, <1>5, <1>6, PublishKeeps, OtherKeeps, ChangesKeep DEF NoticeNext

LEMMA Start == NoticeInit => NoticeIInv
<1> SUFFICES ASSUME NoticeInit PROVE NoticeIInv
  OBVIOUS
<1>1. NoticeTypeOK
  <2>1. posts \in [Rules -> SUBSET Users]
    <3>1. posts \in [Rules -> SUBSET (Users \ Support)]
      BY AnnouncementsAssumption DEF NoticeInit
    <3> QED BY <3>1
  <2>2. notice \in [here : BOOLEAN, words : Editors \cup {Nobody}, rule : Rules \cup {Everyone},
                    published : BOOLEAN]
    BY DEF NoticeInit
  <2>3. arg \in [Handlers -> Args] /\ step \in [Handlers -> Steps]
    BY NoArgTyped DEF NoticeInit, Steps
  <2>4. sent \in [words : Editors \cup {Nobody}, rule : Rules \cup {Everyone, Nobody}, to : SUBSET Users]
    BY DEF NoticeInit, Unsent
  <2>5. changes \in 0..MaxChanges
    <3>1. MaxChanges \in Nat /\ changes = 0
      BY AnnouncementsAssumption DEF NoticeInit
    <3> QED BY <3>1
  <2>7. overtaken \in BOOLEAN
    BY DEF NoticeInit
  <2>6. account \in [Users -> Accounts] /\ receipt \in [Users -> Receipts]
    BY DEF NoticeInit, Receipts, Accounts
  <2> QED BY <2>1, <2>2, <2>3, <2>4, <2>5, <2>6, <2>7 DEF NoticeTypeOK, Args, Steps, Accounts
<1>2. Recipients = {}
  BY DEF NoticeInit, Recipients
<1> QED BY <1>1, <1>2 DEF NoticeInit, NoticeIInv, FoundDraft, ReceiptsAreSent, PublishedIsFrozen

(* The rows of the notice, its receipts and every request have their types. *)
THEOREM NoticeTypeCorrect == NoticeSpec => []NoticeTypeOK
<1>1. NoticeIInv => NoticeTypeOK
  BY DEF NoticeIInv
<1> QED BY <1>1, Start, NoticeStepKeeps, PTL DEF NoticeSpec

(* Unless two of its requests ran at once, what is published keeps its     *)
(* words, its rule and its recipients, for any organisation.               *)
THEOREM PublishedStaysFrozen == NoticeSpec => []PublishedIsFrozen
<1>1. NoticeIInv => PublishedIsFrozen
  BY DEF NoticeIInv
<1> QED BY <1>1, Start, NoticeStepKeeps, PTL DEF NoticeSpec

(* Receipts are there only with the stamp, are not taken away and are not  *)
(* unread again, whatever requests race.                                   *)
THEOREM ReceiptsAlwaysStand == NoticeSpec => ReceiptsStand
<1> DEFINE Stand == /\ Recipients' # {} => notice'.here /\ notice'.published
                    /\ notice'.here => \A u \in Users : /\ receipt[u] # "none" => receipt'[u] # "none"
                                                    /\ receipt[u] = "read" => receipt'[u] = "read"
<1>1. ASSUME NoticeIInv, NoticeIInv', NoticeNext PROVE Stand
  <2>1. Recipients' # {} => notice'.here /\ notice'.published
    BY <1>1 DEF NoticeIInv, ReceiptsAreSent
  <2>2. CASE UNCHANGED receipt
    BY <2>1, <2>2
  <2>3. ASSUME NEW p \in Publishers, PublishCommit(p) PROVE Stand
    <3>1. receipt' = [u \in Users |-> IF u \in arg[p].to /\ receipt[u] = "none" THEN "unread"
                                      ELSE receipt[u]]
      BY <2>3 DEF PublishCommit, Publishes
    <3> QED BY <2>1, <3>1, <1>1 DEF NoticeIInv, NoticeTypeOK, Args, Steps
  <2>4. ASSUME NEW p \in Readers, ReadCommit(p) PROVE Stand
    BY <2>1, <2>4, <1>1 DEF ReadCommit, NoticeIInv, NoticeTypeOK, Args, Steps
  <2>5. ASSUME NEW p \in Deleters, DeleteCommit(p) PROVE Stand
    BY <2>1, <2>5, <1>1 DEF DeleteCommit, NoticeIInv, NoticeTypeOK, Args, Steps
  <2> QED BY <1>1, <2>2, <2>3, <2>4, <2>5
          DEF NoticeNext, EditFind, EditCommit, PublishFind, PublishResolve, DeleteFind, ReadFind, BreakOff,
              Asks, AccountChanges, PersonGoes, PostChanges, Changes
<1>2. NoticeIInv /\ NoticeIInv' /\ [NoticeNext]_noticeVars => [Stand]_noticeVars
  BY <1>1
<1> QED BY <1>2, Start, NoticeStepKeeps, PTL DEF NoticeSpec, ReceiptsStand
=============================================================================
