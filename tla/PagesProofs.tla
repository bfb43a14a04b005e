----------------------------- MODULE PagesProofs ----------------------------
(***************************************************************************)
(* What a page says of what it saved: proofs about Visitors and the        *)
(* middleware of Idempotency behind it and, in the last section, Builder,  *)
(* for any visitors, requests, texts, saves and limits. The two are not    *)
(* composed: a theorem speaks of Spec or of BuilderSpec.                   *)
(*                                                                         *)
(* Visitors: a place is worked once but for the excuses, and the pages say *)
(* only what is so. What is at work in a place that is not excused is      *)
(* alone there and finds no row (Worked); a request never forgets which    *)
(* call of whom it is (Sent, KeysTell), so an answer is of the place it    *)
(* was asked at (Answers); and a booking is given up only by the page that *)
(* holds it, before its next press (Held).                                 *)
(***************************************************************************)
EXTENDS Visitors, Builder, TLAPS

Work == {"running", "ran"}

\* What has arrived is a job.
Arrived == \A c \in Copies : pc[c] # "idle" => job[c] \in Jobs

\* Rows are unique for each place; work in a place that has a row, or other work, is excused;
\* and work that was done is stored unless it is about to be, or excused.
Worked ==
  /\ \A c \in Copies : /\ c \in done => pc[c] \in {"ran", "answered", "lost"}
                       /\ stored[c] # None => c \in done /\ pc[c] # "ran"
                       /\ pc[c] = "ran" => c \in done
                       /\ c \in done => job[c].place \in excused \/ pc[c] = "ran" \/ stored[c] # None
  /\ \A c, d \in Copies :
       pc[c] # "idle" /\ pc[d] # "idle" /\ job[c].place = job[d].place /\ c # d =>
         /\ stored[c] = None \/ stored[d] = None
         /\ pc[c] \in Work /\ stored[d] # None => job[c].place \in excused
         /\ pc[c] \in Work /\ pc[d] \in Work => job[c].place \in excused

\* A request is a call of its page, as it was made.
FromCall ==
  \A c \in Copies : pc[c] # "idle" =>
    /\ job[c].call \in DOMAIN calls[job[c].of]
    /\ job[c].place[2] = Sent(c).key
    /\ job[c].body = Sent(c).text

\* The key of a form is its load, that of a booking its press.
KeysTell ==
  \A v \in Visitors : \A n \in DOMAIN calls[v] :
    calls[v][n].key = IF v \in Fillers THEN <<v, calls[v][n].load>> ELSE <<v, n>>

\* An answer is so: a result was done in the same place with the same body, and a form that is
\* a conflict was recorded.
AnswerIs(c) ==
  /\ out[c].said = "ok" => /\ out[c].result \in done
                           /\ job[out[c].result].place = job[c].place
                           /\ job[out[c].result].body = job[c].body
  /\ out[c].said = "conflict" => \E d \in done : job[d].of = job[c].of

Answers == \A c \in Copies : pc[c] = "answered" => AnswerIs(c)

\* A member with a participant row has a response.
JoinedRecorded == \A f \in joined : \E c \in done : job[c].of = f

\* A booking is the page's own; one that is given up is of an earlier press than the one
\* under way; and what storage keeps is held, unless the page asked to give it up.
Held ==
  \A b \in Bookers :
    /\ at[b] \in {"form", "sending"} => kept[b] = None
    /\ \A x \in {has[b], kept[b]} \ {None} : x \in done /\ job[x].of = b
    /\ kept[b] # None => kept[b] \in live \/ b \in leaving
    /\ at[b] = "done" => has[b] \in live \/ b \in leaving
    /\ \A d \in done \ live : job[d].of = b /\ at[b] = "sending" => job[d].call < Len(calls[b])

IInv ==
  /\ TypeOK /\ Arrived /\ Worked /\ FromCall /\ KeysTell /\ Answers /\ JoinedRecorded /\ Held
  /\ ThanksMeansRecorded /\ RecordedMeansRecorded

-----------------------------------------------------------------------------
(* The middleware.                                                         *)

MType == MiddlewareTypeOK(Jobs, Outcomes, Places)
MInv == MType /\ Arrived /\ Worked /\ Answers

\* What a step of the server never takes back.
Grown ==
  /\ done \subseteq done'
  /\ \A c \in Copies : pc[c] # "idle" => pc'[c] # "idle" /\ job'[c] = job[c]

\* What is typed, as the provers take it.
LEMMA MTyped ==
  ASSUME MType
  PROVE  /\ job \in [Copies -> Jobs \cup {None}] /\ pc \in [Copies -> Steps]
         /\ out \in [Copies -> [said : Outcomes, result : Copies \cup {None}]]
         /\ done \subseteq Copies /\ stored \in [Copies -> (0..MaxTime) \cup {None}]
         /\ now \in 0..MaxTime /\ restarts \in 0..MaxRestarts /\ excused \subseteq Places
  BY DEF MType, MiddlewareTypeOK

LEMMA JobTyped ==
  ASSUME Arrived, NEW c \in Copies, pc[c] # "idle"
  PROVE  /\ job[c].of \in Visitors /\ job[c].call \in Nat /\ job[c].place \in Places
         /\ job[c].body \in Texts
  BY DEF Arrived, Jobs

\* Whatever was answered before is answered still.
LEMMA AnswersStay ==
  ASSUME MInv, Grown,
         \A c \in Copies : pc'[c] = "answered" =>
           (pc[c] = "answered" /\ out'[c] = out[c]) \/ AnswerIs(c)'
  PROVE  Answers'
<1> SUFFICES ASSUME NEW c \in Copies, pc'[c] = "answered", pc[c] = "answered", out'[c] = out[c]
             PROVE  AnswerIs(c)'
  BY DEF Answers
<1>1. AnswerIs(c) /\ job'[c] = job[c]
  BY DEF MInv, Answers, Grown
<1>2. \A d \in done : d \in done' /\ job'[d] = job[d]
  BY MTyped DEF MInv, Worked, Grown
<1> QED BY <1>1, <1>2 DEF AnswerIs

\* A request moves on, and the rest of the middleware with it.
LEMMA GotoIs ==
  ASSUME MType, NEW c \in Copies, NEW at_ \in Steps, Goto(c, at_)
  PROVE  /\ pc' \in [Copies -> Steps] /\ out' = out
         /\ pc'[c] = at_ /\ \A d \in Copies \ {c} : pc'[d] = pc[d]
  BY MTyped DEF Goto

LEMMA AnsweredIs ==
  ASSUME MType, NEW c \in Copies, NEW what \in Outcomes, NEW result \in Copies \cup {None},
         Answered(c, what, result)
  PROVE  /\ pc' \in [Copies -> Steps]
         /\ out' \in [Copies -> [said : Outcomes, result : Copies \cup {None}]]
         /\ pc'[c] = "answered" /\ \A d \in Copies \ {c} : pc'[d] = pc[d]
         /\ out'[c] = [said |-> what, result |-> result]
         /\ \A d \in Copies \ {c} : out'[d] = out[d]
  BY MTyped DEF Answered, Steps

LEMMA ReceiveKeeps ==
  ASSUME MInv, NEW c \in Copies, NEW what \in Jobs, NEW next \in {"looking", "closed", "signIn"},
         Receive(c, what, next)
  PROVE  /\ MInv' /\ Grown /\ job'[c] = what /\ pc[c] = "idle"
         /\ \A d \in Copies \ {c} : job'[d] = job[d] /\ pc'[d] = pc[d]
<1>1. /\ pc[c] = "idle" /\ job' = [job EXCEPT ![c] = what]
      /\ IF next = "looking" THEN Goto(c, next) ELSE Answered(c, next, None)
      /\ UNCHANGED <<done, stored, now, restarts, excused>>
  BY DEF Receive
<1>2. MType /\ c \notin done /\ stored[c] = None
  BY <1>1 DEF MInv, Worked
<1>3. /\ pc' \in [Copies -> Steps]
      /\ out' \in [Copies -> [said : Outcomes, result : Copies \cup {None}]]
      /\ pc'[c] \in {"looking", "answered"} /\ \A d \in Copies \ {c} : pc'[d] = pc[d]
      /\ pc'[c] = "answered" => out'[c].said \in {"closed", "signIn"}
      /\ \A d \in Copies \ {c} : out'[d] = out[d]
  <2>1. CASE next = "looking"
    BY <1>1, <1>2, <2>1, GotoIs, MTyped DEF Steps
  <2>2. CASE next # "looking"
    <3>1. Answered(c, next, None) /\ next \in Outcomes
      BY <1>1, <2>2 DEF Outcomes
    <3>2. /\ pc' \in [Copies -> Steps]
          /\ out' \in [Copies -> [said : Outcomes, result : Copies \cup {None}]]
          /\ pc'[c] = "answered" /\ \A d \in Copies \ {c} : pc'[d] = pc[d]
          /\ out'[c] = [said |-> next, result |-> None]
          /\ \A d \in Copies \ {c} : out'[d] = out[d]
      BY <1>2, <3>1, AnsweredIs
    <3> QED BY <2>2, <3>2
  <2> QED BY <2>1, <2>2
<1>4. job'[c] = what /\ \A d \in Copies \ {c} : job'[d] = job[d]
  BY <1>1, <1>2, MTyped
<1>5. MType'
  BY <1>1, <1>2, <1>3, MTyped DEF MType, MiddlewareTypeOK
<1>6. Arrived'
  BY <1>3, <1>4 DEF MInv, Arrived
<1>7. Worked'
  BY <1>1, <1>2, <1>3, <1>4, MTyped DEF MInv, Worked, Work
<1>8. Grown
  BY <1>1, <1>3, <1>4 DEF Grown
<1>9. Answers'
  <2>1. pc'[c] = "answered" => AnswerIs(c)'
    BY <1>3 DEF AnswerIs
  <2> QED BY <1>3, <1>8, <2>1, AnswersStay
<1> QED BY <1>1, <1>3, <1>4, <1>5, <1>6, <1>7, <1>8, <1>9 DEF MInv

\* The key of a place names the visitor.
KeyNames == \A c \in Copies : pc[c] # "idle" => job[c].of = job[c].place[2][1]

LEMMA LookUpKeeps ==
  ASSUME MInv, KeyNames, NEW c \in Copies, LookUp(c)
  PROVE  MInv' /\ Grown /\ UNCHANGED <<job, done>>
<1>1. /\ pc[c] = "looking" /\ UNCHANGED <<job, done, stored, now, restarts>>
      /\ excused' = IF Replayable(c) = {} /\ Rows(c) \cup AtWork(c) # {}
                      THEN excused \cup {job[c].place} ELSE excused
  BY DEF LookUp
<1>2. MType /\ c \notin done /\ stored[c] = None
  BY <1>1 DEF MInv, Worked
<1>3. job[c].place \in Places
  BY <1>1, JobTyped DEF MInv
<1>4. excused \subseteq excused' /\ excused' \subseteq Places
  BY <1>1, <1>2, <1>3, MTyped
<1>5. CASE Replayable(c) = {}
  <2>1. Goto(c, "running")
    BY <1>5 DEF LookUp
  <2>2. /\ pc' \in [Copies -> Steps] /\ out' = out
        /\ pc'[c] = "running" /\ \A d \in Copies \ {c} : pc'[d] = pc[d]
    BY <1>2, <2>1, GotoIs DEF Steps
  <2>3. MType'
    BY <1>1, <1>2, <1>4, <2>2, MTyped DEF MType, MiddlewareTypeOK
  <2>4. Arrived' /\ Grown
    BY <1>1, <2>2 DEF MInv, Arrived, Grown
  <2>5. ASSUME NEW d \in Copies, c # d, job[c].place = job[d].place,
               stored[d] # None \/ pc[d] \in Work
        PROVE  job[c].place \in excused'
    <3>1. d \in Rows(c) \cup AtWork(c)
      BY <2>5 DEF Rows, AtWork, Work
    <3> QED BY <1>1, <1>5, <3>1
  <2>6. Worked'
    BY <1>1, <1>2, <1>4, <2>2, <2>5, MTyped DEF MInv, Worked, Work
  <2>7. Answers'
    BY <2>2, <2>4, AnswersStay
  <2> QED BY <1>1, <2>3, <2>4, <2>6, <2>7 DEF MInv
<1>6. CASE Replayable(c) # {}
  <2>1. excused' = excused
    BY <1>1, <1>6
  <2>2. PICK d \in Replayable(c) :
          IF job[d].body = job[c].body THEN Answered(c, "ok", d) ELSE Answered(c, "conflict", None)
    BY <1>6 DEF LookUp
  <2>3. d \in Copies /\ d \in done /\ job[d].place = job[c].place /\ pc[d] # "idle"
    BY <2>2 DEF Replayable, Rows, MInv, Worked
  <2>4. /\ pc' \in [Copies -> Steps]
        /\ out' \in [Copies -> [said : Outcomes, result : Copies \cup {None}]]
        /\ pc'[c] = "answered" /\ \A e \in Copies \ {c} : pc'[e] = pc[e]
        /\ \/ out'[c] = [said |-> "ok", result |-> d] /\ job[d].body = job[c].body
           \/ out'[c] = [said |-> "conflict", result |-> None]
        /\ \A e \in Copies \ {c} : out'[e] = out[e]
    BY <1>2, <2>2, <2>3, AnsweredIs DEF Outcomes
  <2>5. MType'
    BY <1>1, <1>2, <1>4, <2>4, MTyped DEF MType, MiddlewareTypeOK
  <2>6. Arrived' /\ Grown
    BY <1>1, <2>4 DEF MInv, Arrived, Grown
  <2>7. Worked'
    BY <1>1, <1>2, <2>1, <2>4, MTyped DEF MInv, Worked, Work
  <2>8. Answers'
    <3>1. job[d].of = job[c].of
      BY <1>1, <2>3 DEF KeyNames
    <3>2. AnswerIs(c)'
      BY <1>1, <2>3, <2>4, <3>1 DEF AnswerIs
    <3> QED BY <2>4, <2>6, <3>2, AnswersStay
  <2> QED BY <1>1, <2>5, <2>6, <2>7, <2>8 DEF MInv
<1> QED BY <1>5, <1>6

LEMMA HandleKeeps ==
  ASSUME MInv, NEW c \in Copies, Handle(c)
  PROVE  /\ MInv' /\ Grown /\ UNCHANGED job /\ done' = done \cup {c}
         /\ pc[c] = "running" /\ c \notin done
<1>1. /\ pc[c] = "running" /\ done' = done \cup {c} /\ Goto(c, "ran")
      /\ UNCHANGED <<job, stored, now, restarts, excused>>
  BY DEF Handle
<1>2. MType /\ c \notin done /\ stored[c] = None
  BY <1>1 DEF MInv, Worked
<1>3. /\ pc' \in [Copies -> Steps] /\ out' = out
      /\ pc'[c] = "ran" /\ \A d \in Copies \ {c} : pc'[d] = pc[d]
  BY <1>1, <1>2, GotoIs DEF Steps
<1>4. MType'
  BY <1>1, <1>2, <1>3, MTyped DEF MType, MiddlewareTypeOK
<1>5. Arrived' /\ Grown
  BY <1>1, <1>3 DEF MInv, Arrived, Grown
<1>6. Worked'
  BY <1>1, <1>2, <1>3, MTyped DEF MInv, Worked, Work
<1>7. Answers'
  BY <1>3, <1>5, AnswersStay
<1> QED BY <1>1, <1>2, <1>4, <1>5, <1>6, <1>7 DEF MInv

LEMMA StoreKeeps ==
  ASSUME MInv, NEW c \in Copies, Store(c)
  PROVE  MInv' /\ Grown /\ UNCHANGED <<job, done>>
<1>1. /\ pc[c] = "ran" /\ Answered(c, "ok", c) /\ UNCHANGED <<job, done, now, restarts>>
      /\ \/ /\ Rows(c) = {}
            /\ stored' = [stored EXCEPT ![c] = now]
            /\ UNCHANGED excused
         \/ excused' = excused \cup {job[c].place} /\ UNCHANGED stored
  BY DEF Store
<1>2. MType /\ c \in done /\ stored[c] = None /\ job[c].place \in Places
  BY <1>1, JobTyped DEF MInv, Worked
<1>3. /\ pc' \in [Copies -> Steps]
      /\ out' \in [Copies -> [said : Outcomes, result : Copies \cup {None}]]
      /\ pc'[c] = "answered" /\ \A d \in Copies \ {c} : pc'[d] = pc[d]
      /\ out'[c] = [said |-> "ok", result |-> c]
      /\ \A d \in Copies \ {c} : out'[d] = out[d]
  BY <1>1, <1>2, AnsweredIs DEF Outcomes
<1>4. Arrived' /\ Grown
  BY <1>1, <1>3 DEF MInv, Arrived, Grown
<1>5. Answers'
  <2>1. AnswerIs(c)'
    BY <1>1, <1>2, <1>3 DEF AnswerIs
  <2> QED BY <1>3, <1>4, <2>1, AnswersStay
<1>6. CASE Rows(c) = {} /\ stored' = [stored EXCEPT ![c] = now] /\ UNCHANGED excused
  <2>1. /\ stored' \in [Copies -> (0..MaxTime) \cup {None}] /\ stored'[c] # None
        /\ \A d \in Copies \ {c} : stored'[d] = stored[d]
    BY <1>2, <1>6, MTyped, IdempotencyAssumption
  <2>2. MType'
    BY <1>1, <1>2, <1>3, <1>6, <2>1, MTyped DEF MType, MiddlewareTypeOK
  <2>3. \A d \in Copies : job[d].place = job[c].place => stored[d] = None
    BY <1>6 DEF Rows
  <2>4. Worked'
    BY <1>1, <1>2, <1>3, <1>6, <2>1, <2>3, MTyped DEF MInv, Worked, Work
  <2> QED BY <1>1, <1>4, <1>5, <2>2, <2>4 DEF MInv
<1>7. CASE excused' = excused \cup {job[c].place} /\ UNCHANGED stored
  <2>1. MType'
    BY <1>1, <1>2, <1>3, <1>7, MTyped DEF MType, MiddlewareTypeOK
  <2>2. Worked'
    BY <1>1, <1>2, <1>3, <1>7, MTyped DEF MInv, Worked, Work
  <2> QED BY <1>1, <1>4, <1>5, <2>1, <2>2 DEF MInv
<1> QED BY <1>1, <1>6, <1>7

\* A refusal is stored nowhere; a conflict is somebody's who is recorded.
LEMMA RefuseKeeps ==
  ASSUME MInv, NEW c \in Copies, NEW why \in {"conflict", "full", "refused"}, Refuse(c, why),
         why = "conflict" => \E d \in done : job[d].of = job[c].of
  PROVE  MInv' /\ Grown /\ UNCHANGED <<job, done>>
<1>1. /\ pc[c] = "running" /\ Answered(c, why, None)
      /\ UNCHANGED <<job, done, stored, now, restarts, excused>>
  BY DEF Refuse
<1>2. MType /\ c \notin done /\ stored[c] = None /\ why \in Outcomes /\ None \in Copies \cup {None}
  BY <1>1 DEF MInv, Worked, Outcomes
<1>3. /\ pc' \in [Copies -> Steps]
      /\ out' \in [Copies -> [said : Outcomes, result : Copies \cup {None}]]
      /\ pc'[c] = "answered" /\ \A d \in Copies \ {c} : pc'[d] = pc[d]
      /\ out'[c] = [said |-> why, result |-> None]
      /\ \A d \in Copies \ {c} : out'[d] = out[d]
  BY <1>1, <1>2, AnsweredIs
<1>4. MType'
  BY <1>1, <1>2, <1>3, MTyped DEF MType, MiddlewareTypeOK
<1>5. Arrived' /\ Grown
  BY <1>1, <1>3 DEF MInv, Arrived, Grown
<1>6. Worked'
  BY <1>1, <1>2, <1>3, MTyped DEF MInv, Worked, Work
<1>7. Answers'
  <2>1. AnswerIs(c)'
    BY <1>1, <1>3 DEF AnswerIs
  <2> QED BY <1>3, <1>5, <2>1, AnswersStay
<1> QED BY <1>1, <1>4, <1>5, <1>6, <1>7 DEF MInv

LEMMA SweepKeeps ==
  ASSUME MInv, Sweep
  PROVE  MInv' /\ Grown /\ UNCHANGED <<job, done>>
<1>1. PICK old \in SUBSET Copies :
        /\ \A d \in old : stored[d] # None
        /\ stored' = [d \in Copies |-> IF d \in old THEN None ELSE stored[d]]
        /\ excused' = excused \cup {job[d].place : d \in old}
        /\ UNCHANGED <<job, pc, out, done, now, restarts>>
  <2> DEFINE aged == {d \in Copies : stored[d] # None /\ stored[d] + Window < now}
  <2>1. aged \in SUBSET Copies /\ \A d \in aged : stored[d] # None
    OBVIOUS
  <2>2. /\ stored' = [d \in Copies |-> IF d \in aged THEN None ELSE stored[d]]
        /\ excused' = excused \cup {job[d].place : d \in aged}
        /\ UNCHANGED <<job, pc, out, done, now, restarts>>
    BY DEF Sweep
  <2> HIDE DEF aged
  <2> QED BY <2>1, <2>2
<1>2. MType
  BY DEF MInv
<1>3. ASSUME NEW d \in old PROVE job[d].place \in Places
  <2>1. d \in Copies /\ stored[d] # None
    BY <1>1
  <2>2. pc[d] # "idle"
    BY <2>1 DEF MInv, Worked
  <2> QED BY <2>1, <2>2, JobTyped DEF MInv
<1>4. /\ stored' \in [Copies -> (0..MaxTime) \cup {None}]
      /\ \A d \in Copies : stored'[d] = IF d \in old THEN None ELSE stored[d]
  BY <1>1, <1>2, MTyped
<1>5. MType'
  BY <1>1, <1>2, <1>3, <1>4, MTyped DEF MType, MiddlewareTypeOK
<1>6. Arrived' /\ Grown
  BY <1>1 DEF MInv, Arrived, Grown
<1>7. Worked'
  <2>1. \A c \in Copies : stored'[c] = None \/ stored'[c] = stored[c]
    BY <1>4
  <2>2. \A c \in old : job[c].place \in excused'
    BY <1>1
  <2>3. excused \subseteq excused' /\ UNCHANGED <<job, pc, done>>
    BY <1>1
  <2>4. \A c \in done : job[c].place \in excused' \/ pc[c] = "ran" \/ stored'[c] # None
    BY <1>2, <1>4, <2>2, <2>3, MTyped DEF MInv, Worked
  <2> QED BY <2>1, <2>3, <2>4 DEF MInv, Worked, Work
<1>8. Answers'
  BY <1>1, <1>6, AnswersStay
<1> QED BY <1>1, <1>5, <1>6, <1>7, <1>8 DEF MInv

LEMMA RestartKeeps ==
  ASSUME MInv, Restart
  PROVE  MInv' /\ Grown /\ UNCHANGED <<job, done>>
<1>1. /\ restarts < MaxRestarts /\ restarts' = restarts + 1
      /\ pc' = [c \in Copies |-> IF pc[c] \in {"looking", "running", "ran"} THEN "lost" ELSE pc[c]]
      /\ excused' = excused \cup {job[c].place : c \in {d \in Copies : pc[d] = "ran"}}
      /\ UNCHANGED <<job, out, done, stored, now>>
  BY DEF Restart
<1>2. MType
  BY DEF MInv
<1>3. \A c \in Copies : pc[c] = "ran" => job[c].place \in Places
  BY JobTyped DEF MInv
<1>4. /\ pc' \in [Copies -> Steps]
      /\ \A c \in Copies : pc'[c] = IF pc[c] \in {"looking", "running", "ran"} THEN "lost" ELSE pc[c]
  BY <1>1, <1>2, MTyped DEF Steps
<1>5. restarts' \in 0..MaxRestarts
  BY <1>1, <1>2, MTyped, IdempotencyAssumption
<1>6. excused' \subseteq Places
  BY <1>1, <1>2, <1>3, MTyped
<1>7. MType'
  BY <1>1, <1>2, <1>4, <1>5, <1>6, MTyped DEF MType, MiddlewareTypeOK
<1>8. Arrived' /\ Grown
  BY <1>1, <1>4 DEF MInv, Arrived, Grown
<1>9. Worked'
  BY <1>1, <1>2, <1>4, MTyped DEF MInv, Worked, Work
<1>10. Answers'
  BY <1>1, <1>4, <1>8, AnswersStay
<1> QED BY <1>1, <1>7, <1>8, <1>9, <1>10 DEF MInv

LEMMA TickKeeps ==
  ASSUME MInv, Tick
  PROVE  MInv' /\ Grown /\ UNCHANGED <<job, done>>
<1>1. now < MaxTime /\ now' = now + 1 /\ UNCHANGED <<job, pc, out, done, stored, restarts, excused>>
  BY DEF Tick
<1>2. MType
  BY DEF MInv
<1>3. now' \in 0..MaxTime
  BY <1>1, <1>2, MTyped, IdempotencyAssumption
<1>4. MType'
  BY <1>1, <1>2, <1>3, MTyped DEF MType, MiddlewareTypeOK
<1>5. Arrived' /\ Worked' /\ Answers' /\ Grown
  BY <1>1 DEF MInv, Arrived, Worked, Work, Answers, AnswerIs, Grown
<1> QED BY <1>1, <1>4, <1>5 DEF MInv

-----------------------------------------------------------------------------
(* The server.                                                             *)

Entry == [load : Nat, key : Keys, text : Texts, as : Sessions]

LEMMA PageTyped ==
  ASSUME TypeOK
  PROVE  /\ at \in [Visitors -> {"away", "form", "sending", "done", "gone"}]
         /\ text \in [Visitors -> Texts] /\ load \in [Visitors -> 1..(MaxLoads + 1)]
         /\ calls \in [Visitors -> Seq(Entry)] /\ said \in [Visitors -> Outcomes]
         /\ has \in [Visitors -> Copies \cup {None}] /\ kept \in [Visitors -> Copies \cup {None}]
         /\ session \in [Fillers -> Sessions]
         /\ accepting \in BOOLEAN /\ restricted \in BOOLEAN
         /\ live \subseteq done /\ joined \subseteq Fillers /\ MType /\ leaving \subseteq Bookers
  BY DEF TypeOK, MType, Entry

LEMMA Kinds ==
  /\ Fillers \subseteq Visitors /\ Bookers \subseteq Visitors
  /\ \A v \in Visitors : v \in Fillers \/ v \in Bookers
  /\ \A f \in Fillers : f \notin Bookers
  BY VisitorsAssumption DEF Visitors

\* What was pressed is a call of its visitor.
LEMMA EntryTyped ==
  ASSUME TypeOK, NEW v \in Visitors, NEW n \in DOMAIN calls[v]
  PROVE  /\ n \in Nat /\ n \in 1..Len(calls[v]) /\ calls[v][n] \in Entry
         /\ Len(calls[v]) \in Nat
<1>1. calls[v] \in Seq(Entry)
  BY PageTyped
<1> QED BY <1>1

LEMMA KeyIs ==
  ASSUME Arrived, FromCall, KeysTell, NEW c \in Copies, pc[c] # "idle"
  PROVE  /\ job[c].of \in Visitors
         /\ job[c].place[2] = IF job[c].of \in Fillers THEN <<job[c].of, Sent(c).load>>
                                                       ELSE <<job[c].of, job[c].call>>
  BY JobTyped DEF FromCall, KeysTell, Sent

LEMMA IInvGives ==
  ASSUME IInv
  PROVE  MInv /\ KeyNames
<1>1. MInv
  BY PageTyped DEF IInv, MInv
<1>2. ASSUME NEW c \in Copies, pc[c] # "idle"
      PROVE  job[c].of = job[c].place[2][1]
  <2>1. job[c].place[2] = IF job[c].of \in Fillers THEN <<job[c].of, Sent(c).load>>
                                                  ELSE <<job[c].of, job[c].call>>
    BY <1>2, KeyIs DEF IInv
  <2> QED BY <2>1
<1> QED BY <1>1, <1>2 DEF KeyNames

\* The pages wait while the server works: what it does not take back keeps what they say.
LEMMA ServerKeeps ==
  ASSUME IInv, MInv', Grown, UNCHANGED page, UNCHANGED campaign,
         \A c \in Copies : pc[c] = "idle" /\ pc'[c] # "idle" =>
           /\ job'[c].call \in DOMAIN calls[job'[c].of]
           /\ job'[c].place[2] = calls[job'[c].of][job'[c].call].key
           /\ job'[c].body = calls[job'[c].of][job'[c].call].text,
         live \subseteq live', live' \subseteq done',
         \A d \in done' \ done : job'[d].of \in Bookers => d \in live',
         joined' \subseteq Fillers, JoinedRecorded'
  PROVE  IInv'
<1>1. MInv /\ TypeOK /\ done \subseteq Copies /\ \A d \in done : pc[d] # "idle"
  BY IInvGives, MTyped DEF IInv, MInv, Worked
<1>2. TypeOK'
  BY <1>1 DEF TypeOK, page, campaign, MInv, MType
<1>3. Arrived' /\ Worked' /\ Answers'
  BY DEF MInv
<1>4. FromCall'
  BY DEF IInv, FromCall, Sent, Grown, page
<1>5. KeysTell'
  BY DEF IInv, KeysTell, page
<1>6. \A d \in done : d \in Copies /\ d \in done' /\ job'[d] = job[d] /\ Sent(d)' = Sent(d)
  BY <1>1 DEF Grown, Sent, page
<1>7. Held'
  <2> SUFFICES ASSUME NEW b \in Bookers
               PROVE  /\ at[b] \in {"form", "sending"} => kept[b] = None
                      /\ \A x \in {has[b], kept[b]} \ {None} : x \in done' /\ job'[x].of = b
                      /\ kept[b] # None => kept[b] \in live' \/ b \in leaving
                      /\ at[b] = "done" => has[b] \in live' \/ b \in leaving
                      /\ \A d \in done' \ live' :
                           job'[d].of = b /\ at[b] = "sending" => job'[d].call < Len(calls[b])
    BY DEF Held, page
  <2>1. /\ at[b] \in {"form", "sending"} => kept[b] = None
        /\ kept[b] # None => kept[b] \in live' \/ b \in leaving
        /\ at[b] = "done" => has[b] \in live' \/ b \in leaving
    BY DEF IInv, Held
  <2>2. \A x \in {has[b], kept[b]} \ {None} : x \in done' /\ job'[x].of = b
    BY <1>6 DEF IInv, Held
  <2>3. ASSUME NEW d \in done' \ live', job'[d].of = b, at[b] = "sending"
        PROVE  job'[d].call < Len(calls[b])
    <3>1. d \in done \ live /\ job'[d] = job[d]
      BY <2>3, <1>6
    <3> QED BY <2>3, <3>1 DEF IInv, Held
  <2> QED BY <2>1, <2>2, <2>3
<1>8. ThanksMeansRecorded'
  BY <1>6 DEF IInv, ThanksMeansRecorded, Last, page
<1>9. RecordedMeansRecorded'
  BY <1>6 DEF IInv, RecordedMeansRecorded, page
<1> QED BY <1>2, <1>3, <1>4, <1>5, <1>7, <1>8, <1>9 DEF IInv

\* The middleware alone.
LEMMA MiddleKeeps ==
  ASSUME IInv, MInv', Grown, UNCHANGED <<job, done>>, UNCHANGED <<page, campaign, tables>>,
         \A c \in Copies : pc[c] = "idle" => pc'[c] = "idle"
  PROVE  IInv'
<1>1. live' = live /\ joined' = joined /\ UNCHANGED page /\ UNCHANGED campaign
  BY DEF tables
<1>2. live' \subseteq done' /\ joined' \subseteq Fillers
  BY <1>1, PageTyped DEF IInv
<1>3. JoinedRecorded'
  BY <1>1 DEF IInv, JoinedRecorded
<1> QED BY <1>1, <1>2, <1>3, ServerKeeps

LEMMA ArriveKeeps ==
  ASSUME IInv, NEW c \in Copies, NEW v \in Visitors, NEW n \in DOMAIN calls[v], Arrive(c, v, n)
  PROVE  IInv'
<1> DEFINE call == [of |-> v, call |-> n, place |-> <<ScopeOf(v, Caller(v, n)), calls[v][n].key>>,
                    body |-> calls[v][n].text]
           next == IF ~accepting THEN "closed"
                   ELSE IF v \in Fillers => Allowed(Caller(v, n)) THEN "looking" ELSE "signIn"
<1>1. Receive(c, call, next) /\ UNCHANGED <<page, campaign, tables>>
  BY DEF Arrive
<1>2. next \in {"looking", "closed", "signIn"}
  OBVIOUS
<1>3. call \in Jobs /\ call.of = v /\ call.call = n /\ call.place[2] = calls[v][n].key
      /\ call.body = calls[v][n].text
  <2>1. calls[v][n] \in Entry /\ n \in Nat
    BY EntryTyped DEF IInv
  <2>2. ScopeOf(v, Caller(v, n)) \in Sessions
    BY <2>1 DEF ScopeOf, Caller, Entry, Sessions
  <2>3. calls[v][n].key \in Keys /\ calls[v][n].text \in Texts
    BY <2>1 DEF Entry
  <2> QED BY <2>1, <2>2, <2>3 DEF Jobs, Places
<1> HIDE DEF call, next
<1>4. /\ MInv' /\ Grown /\ job'[c] = call /\ pc[c] = "idle"
      /\ \A d \in Copies \ {c} : job'[d] = job[d] /\ pc'[d] = pc[d]
  BY <1>1, <1>2, <1>3, IInvGives, ReceiveKeeps
<1>5. done' = done
  BY <1>1 DEF Receive
<1>6. live' = live /\ joined' = joined /\ UNCHANGED page /\ UNCHANGED campaign
  BY <1>1 DEF tables
<1>7. JoinedRecorded'
  <2>1. MInv /\ \A d \in done : d \in Copies /\ pc[d] # "idle"
    BY IInvGives, MTyped DEF MInv, Worked
  <2>2. \A d \in done : job'[d] = job[d]
    BY <1>4, <2>1
  <2> QED BY <1>5, <1>6, <2>2 DEF IInv, JoinedRecorded
<1>8. live' \subseteq done' /\ joined' \subseteq Fillers
  BY <1>5, <1>6, PageTyped DEF IInv
<1>9. ASSUME NEW d \in Copies, pc[d] = "idle", pc'[d] # "idle"
      PROVE  /\ job'[d].call \in DOMAIN calls[job'[d].of]
             /\ job'[d].place[2] = calls[job'[d].of][job'[d].call].key
             /\ job'[d].body = calls[job'[d].of][job'[d].call].text
  <2>1. d = c
    BY <1>4, <1>9
  <2> QED BY <2>1, <1>3, <1>4
<1> QED BY <1>4, <1>5, <1>6, <1>7, <1>8, <1>9, ServerKeeps

LEMMA SubmitKeeps ==
  ASSUME IInv, NEW c \in Copies, Submit(c)
  PROVE  IInv'
<1>1. /\ job[c] # None /\ job[c].of \in Fillers /\ UNCHANGED <<page, campaign, live>>
  BY DEF Submit
<1>2. CASE Refuse(c, "conflict") /\ job[c].of \in joined /\ UNCHANGED joined
  <2>1. \E d \in done : job[d].of = job[c].of
    BY <1>2 DEF IInv, JoinedRecorded
  <2>2. MInv' /\ Grown /\ UNCHANGED <<job, done>>
    BY <1>2, <2>1, IInvGives, RefuseKeeps
  <2>3. UNCHANGED <<page, campaign, tables>> /\ \A d \in Copies : pc[d] = "idle" => pc'[d] = "idle"
    BY <1>1, <1>2, IInvGives, MTyped DEF tables, Refuse, Answered, MInv
  <2> QED BY <2>2, <2>3, MiddleKeeps
<1>3. CASE Handle(c) /\ joined' = IF restricted THEN joined \cup {job[c].of} ELSE joined
  <2>1. /\ MInv' /\ Grown /\ UNCHANGED job /\ done' = done \cup {c}
        /\ pc[c] = "running" /\ c \notin done
    BY <1>3, IInvGives, HandleKeeps
  <2>2. \A d \in Copies : pc[d] = "idle" => pc'[d] = "idle"
    BY <1>3, <2>1, IInvGives, MTyped DEF Handle, Goto, MInv
  <2>3. live' = live /\ live' \subseteq done' /\ joined' \subseteq Fillers
    BY <1>1, <1>3, <2>1, PageTyped DEF IInv
  <2>4. JoinedRecorded'
    BY <1>3, <2>1 DEF IInv, JoinedRecorded
  <2>5. \A d \in done' \ done : job'[d].of \notin Bookers
    BY <1>1, <2>1, Kinds
  <2>6. UNCHANGED page /\ UNCHANGED campaign
    BY <1>1
  <2> QED BY <2>1, <2>2, <2>3, <2>4, <2>5, <2>6, ServerKeeps
<1> QED BY <1>2, <1>3 DEF Submit

LEMMA BookKeeps ==
  ASSUME IInv, NEW c \in Copies, Book(c)
  PROVE  IInv'
<1>1. /\ job[c] # None /\ job[c].of \in Bookers /\ UNCHANGED <<page, campaign, joined>>
  BY DEF Book
<1>2. CASE Refuse(c, "full") /\ UNCHANGED live
  <2>1. MInv' /\ Grown /\ UNCHANGED <<job, done>>
    BY <1>2, IInvGives, RefuseKeeps
  <2>2. UNCHANGED <<page, campaign, tables>> /\ \A d \in Copies : pc[d] = "idle" => pc'[d] = "idle"
    BY <1>1, <1>2, IInvGives, MTyped DEF tables, Refuse, Answered, MInv
  <2> QED BY <2>1, <2>2, MiddleKeeps
<1>3. CASE Handle(c) /\ live' = live \cup {c}
  <2>1. /\ MInv' /\ Grown /\ UNCHANGED job /\ done' = done \cup {c}
        /\ pc[c] = "running" /\ c \notin done
    BY <1>3, IInvGives, HandleKeeps
  <2>2. \A d \in Copies : pc[d] = "idle" => pc'[d] = "idle"
    BY <1>3, <2>1, IInvGives, MTyped DEF Handle, Goto, MInv
  <2>3. live \subseteq live' /\ live' \subseteq done' /\ joined' \subseteq Fillers
    BY <1>1, <1>3, <2>1, PageTyped DEF IInv
  <2>4. JoinedRecorded'
    BY <1>1, <2>1 DEF IInv, JoinedRecorded
  <2>5. \A d \in done' \ done : d \in live'
    BY <1>3, <2>1
  <2>6. UNCHANGED page /\ UNCHANGED campaign
    BY <1>1
  <2> QED BY <2>1, <2>2, <2>3, <2>4, <2>5, <2>6, ServerKeeps
<1> QED BY <1>2, <1>3 DEF Book

LEMMA RestOfServerKeeps ==
  ASSUME IInv, UNCHANGED <<page, campaign, tables>>,
         \/ \E c \in Copies : LookUp(c) \/ Store(c) \/ Refuse(c, "refused")
         \/ Sweep \/ Restart \/ Tick
  PROVE  IInv'
<1>1. MInv /\ KeyNames
  BY IInvGives
<1>2. MInv' /\ Grown /\ UNCHANGED <<job, done>>
  BY <1>1, LookUpKeeps, StoreKeeps, RefuseKeeps, SweepKeeps, RestartKeeps, TickKeeps
<1>3. \A c \in Copies : pc[c] = "idle" => pc'[c] = "idle"
  BY <1>1, MTyped DEF MInv, LookUp, Store, Refuse, Sweep, Restart, Tick, Goto, Answered
<1> QED BY <1>2, <1>3, MiddleKeeps

-----------------------------------------------------------------------------
(* The browser.                                                            *)

\* The server knows nothing of what the page does.
LEMMA MiddlewareStays ==
  ASSUME IInv, UNCHANGED middleware
  PROVE  /\ MType' /\ Arrived' /\ Worked' /\ Answers'
         /\ job' = job /\ pc' = pc /\ out' = out /\ done' = done
BY IInvGives DEF MInv, MType, MiddlewareTypeOK, Arrived, Worked, Answers, AnswerIs, middleware

LEMMA CallsStay ==
  ASSUME IInv, UNCHANGED middleware, calls' = calls
  PROVE  FromCall' /\ KeysTell' /\ \A c \in Copies : Sent(c)' = Sent(c)
<1>1. job' = job /\ pc' = pc
  BY MiddlewareStays
<1> QED BY <1>1 DEF IInv, FromCall, KeysTell, Sent

\* What the pages hold is done.
LEMMA HeldIsDone ==
  ASSUME IInv, NEW d \in done
  PROVE  d \in Copies /\ pc[d] # "idle" /\ job[d].of \in Visitors
         /\ job[d].call \in 1..Len(calls[job[d].of]) /\ Len(calls[job[d].of]) \in Nat
<1>1. MInv
  BY IInvGives
<1>2. d \in Copies /\ pc[d] # "idle"
  BY <1>1, MTyped DEF MInv, Worked
<1>3. job[d].of \in Visitors /\ job[d].call \in DOMAIN calls[job[d].of]
  BY <1>2, JobTyped DEF IInv, FromCall
<1> QED BY <1>2, <1>3, EntryTyped DEF IInv

LEMMA ShowsTyped ==
  ASSUME NEW v \in Visitors
  PROVE  BackTo(v) \in {"form", "gone"} /\ (v \in Bookers => SessionOf(v) = None)
  BY Kinds DEF BackTo, SessionOf

LEMMA WriteKeeps ==
  ASSUME IInv, NEW f \in Fillers, NEW t \in Texts, Write(f, t)
  PROVE  IInv'
<1>1. /\ text' = [text EXCEPT ![f] = t]
      /\ UNCHANGED <<at, load, calls, said, has, kept, session, leaving, campaign, tables>>
      /\ UNCHANGED middleware
  BY DEF Write
<1>2. /\ MType' /\ Arrived' /\ Worked' /\ Answers'
      /\ job' = job /\ pc' = pc /\ out' = out /\ done' = done
  BY <1>1, MiddlewareStays
<1>3. FromCall' /\ KeysTell' /\ \A c \in Copies : Sent(c)' = Sent(c)
  BY <1>1, CallsStay
<1>4. text' \in [Visitors -> Texts]
  BY <1>1, PageTyped, Kinds DEF IInv
<1>5. TypeOK'
  BY <1>1, <1>2, <1>4, PageTyped DEF IInv, TypeOK, MType, campaign, tables
<1>6. JoinedRecorded' /\ Held' /\ RecordedMeansRecorded'
  BY <1>1, <1>2 DEF IInv, JoinedRecorded, Held, RecordedMeansRecorded, tables
<1>7. ThanksMeansRecorded'
  BY <1>1, <1>2, <1>3, HeldIsDone DEF IInv, ThanksMeansRecorded, Last
<1> QED BY <1>2, <1>3, <1>5, <1>6, <1>7 DEF IInv

LEMMA PressKeeps ==
  ASSUME IInv, NEW v \in Visitors, Press(v)
  PROVE  IInv'
<1> DEFINE new == [load |-> load[v], key |-> KeyOf(v), text |-> text[v], as |-> SessionOf(v)]
<1>1. /\ at[v] = "form"
      /\ calls' = [calls EXCEPT ![v] = Append(@, new)]
      /\ at' = [at EXCEPT ![v] = "sending"] /\ said' = [said EXCEPT ![v] = "nothing"]
      /\ UNCHANGED <<text, load, has, kept, session, leaving, campaign, tables>>
      /\ UNCHANGED middleware
  BY DEF Press
<1>2. /\ MType' /\ Arrived' /\ Worked' /\ Answers'
      /\ job' = job /\ pc' = pc /\ out' = out /\ done' = done
  BY <1>1, MiddlewareStays
<1>3. Len(calls[v]) \in Nat /\ calls[v] \in Seq(Entry)
  BY PageTyped DEF IInv
<1>4. load[v] \in Nat /\ text[v] \in Texts /\ SessionOf(v) \in Sessions
  BY PageTyped, Kinds, VisitorsAssumption DEF IInv, SessionOf, Sessions
<1>5. /\ new \in Entry /\ new.load = load[v]
      /\ new.key = IF v \in Fillers THEN <<v, new.load>> ELSE <<v, Len(calls[v]) + 1>>
  <2>1. KeyOf(v) \in Keys
    BY <1>3, <1>4 DEF KeyOf, FormKey, AttemptKey, Keys
  <2> QED BY <1>4, <2>1 DEF Entry, KeyOf, FormKey, AttemptKey
<1> HIDE DEF new
<1>6. /\ calls'[v] \in Seq(Entry) /\ Len(calls'[v]) = Len(calls[v]) + 1
      /\ calls'[v][Len(calls[v]) + 1] = new
      /\ \A n \in 1..Len(calls[v]) : calls'[v][n] = calls[v][n]
  <2>1. calls'[v] = Append(calls[v], new)
    BY <1>1, PageTyped DEF IInv
  <2> QED BY <1>3, <1>5, <2>1
<1>7. \A w \in Visitors \ {v} : calls'[w] = calls[w] /\ at'[w] = at[w] /\ said'[w] = said[w]
  BY <1>1, PageTyped DEF IInv
<1>8. /\ calls' \in [Visitors -> Seq(Entry)]
      /\ at'[v] = "sending" /\ said'[v] = "nothing"
      /\ at' \in [Visitors -> {"away", "form", "sending", "done", "gone"}]
      /\ said' \in [Visitors -> Outcomes]
  <2>1. calls' = [w \in Visitors |-> calls'[w]]
    BY <1>1, PageTyped DEF IInv
  <2>2. \A w \in Visitors : calls'[w] \in Seq(Entry)
    BY <1>6, <1>7, PageTyped DEF IInv
  <2>3. calls' \in [Visitors -> Seq(Entry)]
    BY <2>1, <2>2
  <2> QED BY <1>1, <2>3, PageTyped DEF IInv, Outcomes
<1>9. TypeOK'
  BY <1>1, <1>2, <1>8, PageTyped DEF IInv, TypeOK, MType, campaign, tables, Entry
<1>10. \A w \in Visitors : \A n \in DOMAIN calls[w] : n \in DOMAIN calls'[w] /\ calls'[w][n] = calls[w][n]
  <2> SUFFICES ASSUME NEW n \in DOMAIN calls[v]
               PROVE  n \in DOMAIN calls'[v] /\ calls'[v][n] = calls[v][n]
    BY <1>7
  <2>1. n \in 1..Len(calls[v])
    BY <1>3
  <2>2. n \in 1..Len(calls'[v])
    BY <1>3, <1>6, <2>1
  <2> QED BY <1>6, <2>1, <2>2
<1>11. FromCall' /\ \A c \in Copies : pc[c] # "idle" => Sent(c)' = Sent(c)
  BY <1>2, <1>10, JobTyped DEF IInv, FromCall, Sent
<1>12. KeysTell'
  <2> SUFFICES ASSUME NEW w \in Visitors, NEW n \in DOMAIN calls'[w]
               PROVE  calls'[w][n].key = IF w \in Fillers THEN <<w, calls'[w][n].load>> ELSE <<w, n>>
    BY DEF KeysTell
  <2>1. CASE n \in DOMAIN calls[w]
    BY <1>10, <2>1 DEF IInv, KeysTell
  <2>2. CASE n \notin DOMAIN calls[w]
    <3>1. w = v
      BY <1>7, <2>2
    <3>2. n = Len(calls[v]) + 1
      BY <1>3, <1>6, <2>2, <3>1
    <3> QED BY <1>5, <1>6, <3>1, <3>2
  <2> QED BY <2>1, <2>2
<1>13. Held'
  <2> SUFFICES ASSUME NEW b \in Bookers
               PROVE  /\ at'[b] \in {"form", "sending"} => kept[b] = None
                      /\ \A x \in {has[b], kept[b]} \ {None} : x \in done /\ job[x].of = b
                      /\ kept[b] # None => kept[b] \in live \/ b \in leaving
                      /\ at'[b] = "done" => has[b] \in live \/ b \in leaving
                      /\ \A d \in done \ live :
                           job[d].of = b /\ at'[b] = "sending" => job[d].call < Len(calls'[b])
    BY <1>1, <1>2 DEF Held, tables
  <2>1. CASE b # v
    BY <2>1, <1>7, Kinds DEF IInv, Held
  <2>2. CASE b = v
    <3>1. ASSUME NEW d \in done, job[d].of = b
          PROVE  job[d].call < Len(calls'[b])
      BY <2>2, <3>1, <1>6, HeldIsDone
    <3> QED BY <2>2, <3>1, <1>1, <1>8 DEF IInv, Held
  <2> QED BY <2>1, <2>2
<1>14. JoinedRecorded' /\ RecordedMeansRecorded'
  BY <1>1, <1>2, <1>7, <1>8, Kinds DEF IInv, JoinedRecorded, RecordedMeansRecorded, tables
<1>15. ThanksMeansRecorded'
  BY <1>1, <1>2, <1>7, <1>8, <1>11, HeldIsDone, Kinds DEF IInv, ThanksMeansRecorded, Last
<1> QED BY <1>2, <1>9, <1>11, <1>12, <1>13, <1>14, <1>15 DEF IInv

LEMMA FailKeeps ==
  ASSUME IInv, NEW v \in Visitors, Fail(v)
  PROVE  IInv'
<1>1. /\ at[v] = "sending"
      /\ at' = [at EXCEPT ![v] = BackTo(v)] /\ said' = [said EXCEPT ![v] = "again"]
      /\ UNCHANGED <<text, load, calls, has, kept, session, leaving, campaign, tables>>
      /\ UNCHANGED middleware
  BY DEF Fail
<1>2. /\ MType' /\ Arrived' /\ Worked' /\ Answers'
      /\ job' = job /\ pc' = pc /\ out' = out /\ done' = done
  BY <1>1, MiddlewareStays
<1>3. FromCall' /\ KeysTell' /\ \A c \in Copies : Sent(c)' = Sent(c)
  BY <1>1, CallsStay
<1>4. /\ \A w \in Visitors \ {v} : at'[w] = at[w] /\ said'[w] = said[w]
      /\ at'[v] \in {"form", "gone"} /\ said'[v] = "again"
      /\ at' \in [Visitors -> {"away", "form", "sending", "done", "gone"}]
      /\ said' \in [Visitors -> Outcomes]
  BY <1>1, PageTyped, ShowsTyped DEF IInv, Outcomes
<1>5. TypeOK'
  BY <1>1, <1>2, <1>4, PageTyped DEF IInv, TypeOK, MType, campaign, tables
<1>6. JoinedRecorded' /\ RecordedMeansRecorded'
  BY <1>1, <1>2, <1>4, Kinds DEF IInv, JoinedRecorded, RecordedMeansRecorded, tables
<1>7. Held'
  BY <1>1, <1>2, <1>4, Kinds DEF IInv, Held, tables
<1>8. ThanksMeansRecorded'
  BY <1>1, <1>2, <1>3, <1>4, HeldIsDone, Kinds DEF IInv, ThanksMeansRecorded, Last
<1> QED BY <1>2, <1>3, <1>5, <1>6, <1>7, <1>8 DEF IInv

\* An answer to the current call is of that call.
LEMMA HearKeeps ==
  ASSUME IInv, NEW v \in Visitors, NEW c \in Copies, Hear(v, c)
  PROVE  IInv'
<1>1. /\ at[v] = "sending" /\ pc[c] = "answered"
      /\ job[c].of = v /\ job[c].call = Len(calls[v])
      /\ said' = [said EXCEPT ![v] = out[c].said]
      /\ UNCHANGED <<text, load, calls, session, campaign, tables>>
      /\ UNCHANGED middleware
  BY DEF Hear
<1>2. /\ MType' /\ Arrived' /\ Worked' /\ Answers'
      /\ job' = job /\ pc' = pc /\ out' = out /\ done' = done
  BY <1>1, MiddlewareStays
<1>3. FromCall' /\ KeysTell' /\ \A d \in Copies : Sent(d)' = Sent(d)
  BY <1>1, CallsStay
<1>4. AnswerIs(c) /\ out[c].said \in Outcomes /\ out[c].result \in Copies \cup {None}
  BY <1>1, IInvGives, MTyped DEF MInv, Answers
<1>5. /\ said' \in [Visitors -> Outcomes] /\ said'[v] = out[c].said
      /\ \A w \in Visitors \ {v} : said'[w] = said[w]
  BY <1>1, <1>4, PageTyped DEF IInv
<1>6. RecordedMeansRecorded'
  BY <1>1, <1>2, <1>4, <1>5, Kinds DEF IInv, RecordedMeansRecorded, AnswerIs
<1>7. CASE out[c].said = "ok"
  <2> DEFINE r == out[c].result
  <2>1. /\ r \in done /\ job[r].place = job[c].place /\ job[r].body = job[c].body
        /\ r \in Copies /\ pc[r] # "idle" /\ job[r].of \in Visitors /\ r # None
    BY <1>4, <1>7, HeldIsDone, IdempotencyAssumption DEF AnswerIs
  <2> HIDE DEF r
  <2>2. PICK k \in {kept[v], r} : kept' = [kept EXCEPT ![v] = k]
    BY <1>7 DEF Hear, r
  <2>3. /\ at' = [at EXCEPT ![v] = "done"] /\ has' = [has EXCEPT ![v] = r]
        /\ leaving' = leaving \ {v}
    BY <1>7 DEF Hear, r
  <2>4. /\ at'[v] = "done" /\ has'[v] = r /\ kept'[v] = k /\ k \in Copies \cup {None}
        /\ \A w \in Visitors \ {v} : at'[w] = at[w] /\ has'[w] = has[w] /\ kept'[w] = kept[w]
        /\ at' \in [Visitors -> {"away", "form", "sending", "done", "gone"}]
        /\ has' \in [Visitors -> Copies \cup {None}] /\ kept' \in [Visitors -> Copies \cup {None}]
        /\ leaving' \subseteq Bookers
    BY <2>1, <2>2, <2>3, PageTyped DEF IInv
  <2>5. TypeOK'
    BY <1>1, <1>2, <1>5, <2>4, PageTyped DEF IInv, TypeOK, MType, campaign, tables
  <2>6. /\ job[r].of = v
        /\ v \in Bookers => job[r].call = Len(calls[v])
    <3>1. KeyNames /\ job[r].of = job[c].of
      BY <1>1, <2>1, IInvGives DEF KeyNames
    <3>2. ASSUME v \in Bookers PROVE job[r].call = Len(calls[v])
      <4>1. job[r].place[2] = <<v, job[r].call>>
        BY <1>1, <2>1, <3>1, <3>2, KeyIs, Kinds DEF IInv
      <4>2. job[c].place[2] = <<v, job[c].call>>
        BY <1>1, <3>2, KeyIs, Kinds DEF IInv
      <4> QED BY <1>1, <2>1, <4>1, <4>2
    <3> QED BY <1>1, <3>1, <3>2
  <2>7. v \in Bookers => r \in live
    <3> SUFFICES ASSUME v \in Bookers, r \notin live PROVE FALSE
      OBVIOUS
    <3>1. job[r].call < Len(calls[v])
      BY <1>1, <2>1, <2>6 DEF IInv, Held
    <3>2. Len(calls[v]) \in Nat
      BY PageTyped DEF IInv
    <3> QED BY <2>6, <3>1, <3>2
  <2>8. Held'
    <3> SUFFICES ASSUME NEW b \in Bookers
                 PROVE  /\ at'[b] \in {"form", "sending"} => kept'[b] = None
                        /\ \A x \in {has'[b], kept'[b]} \ {None} : x \in done /\ job[x].of = b
                        /\ kept'[b] # None => kept'[b] \in live \/ b \in leaving'
                        /\ at'[b] = "done" => has'[b] \in live \/ b \in leaving'
                        /\ \A d \in done \ live :
                             job[d].of = b /\ at'[b] = "sending" => job[d].call < Len(calls[b])
      BY <1>1, <1>2 DEF Held, tables
    <3>1. CASE b # v
      BY <3>1, <2>3, <2>4, Kinds DEF IInv, Held
    <3>2. CASE b = v
      <4>1. kept[b] = None
        BY <1>1, <3>2 DEF IInv, Held
      <4> QED BY <3>2, <4>1, <2>1, <2>2, <2>4, <2>6, <2>7
    <3> QED BY <3>1, <3>2
  <2>9. ThanksMeansRecorded'
    <3> SUFFICES ASSUME NEW f \in Fillers, said'[f] = "ok"
                 PROVE  /\ has'[f] \in done /\ job[has'[f]].of = f
                        /\ Sent(has'[f]).text = Last(f).text
      BY <1>1, <1>2 DEF ThanksMeansRecorded, Last, Sent
    <3>1. CASE f = v
      <4>1. job[r].body = Sent(r).text /\ job[c].body = Sent(c).text
        BY <1>1, <2>1 DEF IInv, FromCall
      <4>2. Sent(c) = Last(v)
        BY <1>1 DEF Sent, Last
      <4> QED BY <3>1, <2>1, <2>4, <2>6, <4>1, <4>2
    <3>2. CASE f # v
      <4>1. has[f] \in done /\ job[has[f]].of = f /\ Sent(has[f]).text = Last(f).text
            /\ has'[f] = has[f]
        BY <3>2, <1>5, <2>4, Kinds DEF IInv, ThanksMeansRecorded
      <4> QED BY <4>1
    <3> QED BY <3>1, <3>2
  <2>10. JoinedRecorded'
    BY <1>1, <1>2 DEF IInv, JoinedRecorded, tables
  <2> QED BY <1>2, <1>3, <1>6, <2>5, <2>8, <2>9, <2>10 DEF IInv
<1>8. CASE out[c].said # "ok"
  <2>1. at' = [at EXCEPT ![v] = BackTo(v)] /\ UNCHANGED <<has, kept, leaving>>
    BY <1>8 DEF Hear
  <2>2. /\ at'[v] \in {"form", "gone"} /\ \A w \in Visitors \ {v} : at'[w] = at[w]
        /\ at' \in [Visitors -> {"away", "form", "sending", "done", "gone"}]
    BY <2>1, PageTyped, ShowsTyped DEF IInv
  <2>3. TypeOK'
    BY <1>1, <1>2, <1>5, <2>1, <2>2, PageTyped DEF IInv, TypeOK, MType, campaign, tables
  <2>4. Held'
    BY <1>1, <1>2, <2>1, <2>2, Kinds DEF IInv, Held, tables
  <2>5. ThanksMeansRecorded'
    BY <1>1, <1>2, <1>3, <1>5, <1>8, <2>1, HeldIsDone, Kinds DEF IInv, ThanksMeansRecorded, Last
  <2>6. JoinedRecorded'
    BY <1>1, <1>2 DEF IInv, JoinedRecorded, tables
  <2> QED BY <1>2, <1>3, <1>6, <2>3, <2>4, <2>5, <2>6 DEF IInv
<1> QED BY <1>7, <1>8

LEMMA ReloadKeeps ==
  ASSUME IInv, NEW v \in Visitors, Reload(v)
  PROVE  IInv'
<1>1. /\ load[v] <= MaxLoads /\ load' = [load EXCEPT ![v] = @ + 1]
      /\ text' = [text EXCEPT ![v] = Blank] /\ said' = [said EXCEPT ![v] = "nothing"]
      /\ has' = [has EXCEPT ![v] = kept[v]]
      /\ UNCHANGED <<calls, kept, leaving, campaign, tables>>
      /\ UNCHANGED middleware
  BY DEF Reload
<1>2. PICK s \in Sessions :
        session' = [f \in Fillers |-> IF f = v /\ session[f] = None THEN s ELSE session[f]]
  BY DEF Reload
<1>3. PICK shows \in {"form", "done", "gone"} :
        /\ at' = [at EXCEPT ![v] = shows]
        /\ v \in Bookers => /\ shows = "form" => kept[v] = None
                            /\ shows = "done" => kept[v] # None
  BY Kinds DEF Reload
<1>4. /\ MType' /\ Arrived' /\ Worked' /\ Answers'
      /\ job' = job /\ pc' = pc /\ out' = out /\ done' = done
  BY <1>1, MiddlewareStays
<1>5. FromCall' /\ KeysTell' /\ \A c \in Copies : Sent(c)' = Sent(c)
  BY <1>1, CallsStay
<1>6. load' \in [Visitors -> 1..(MaxLoads + 1)]
  BY <1>1, PageTyped, VisitorsAssumption DEF IInv
<1>7. session' \in [Fillers -> Sessions]
  BY <1>2, PageTyped DEF IInv
<1>8. /\ text' \in [Visitors -> Texts] /\ said' \in [Visitors -> Outcomes]
      /\ has' \in [Visitors -> Copies \cup {None}]
      /\ at' \in [Visitors -> {"away", "form", "sending", "done", "gone"}]
      /\ said'[v] = "nothing" /\ has'[v] = kept[v] /\ at'[v] = shows
      /\ \A w \in Visitors \ {v} : said'[w] = said[w] /\ has'[w] = has[w] /\ at'[w] = at[w]
  BY <1>1, <1>3, PageTyped, VisitorsAssumption DEF IInv, Outcomes
<1>9. TypeOK'
  BY <1>1, <1>4, <1>6, <1>7, <1>8, PageTyped DEF IInv, TypeOK, MType, campaign, tables
<1>10. JoinedRecorded' /\ RecordedMeansRecorded'
  BY <1>1, <1>4, <1>8, Kinds DEF IInv, JoinedRecorded, RecordedMeansRecorded, tables
<1>11. Held'
  <2> SUFFICES ASSUME NEW b \in Bookers
               PROVE  /\ at'[b] \in {"form", "sending"} => kept[b] = None
                      /\ \A x \in {has'[b], kept[b]} \ {None} : x \in done /\ job[x].of = b
                      /\ kept[b] # None => kept[b] \in live \/ b \in leaving
                      /\ at'[b] = "done" => has'[b] \in live \/ b \in leaving
                      /\ \A d \in done \ live :
                           job[d].of = b /\ at'[b] = "sending" => job[d].call < Len(calls[b])
    BY <1>1, <1>4 DEF Held, tables
  <2>1. CASE b # v
    BY <2>1, <1>8, Kinds DEF IInv, Held
  <2>2. CASE b = v
    BY <2>2, <1>3, <1>8, Kinds DEF IInv, Held
  <2> QED BY <2>1, <2>2
<1>12. ThanksMeansRecorded'
  BY <1>1, <1>4, <1>5, <1>8, HeldIsDone, Kinds DEF IInv, ThanksMeansRecorded, Last
<1> QED BY <1>4, <1>5, <1>9, <1>10, <1>11, <1>12 DEF IInv

LEMMA CancelKeeps ==
  ASSUME IInv, NEW b \in Bookers, Cancel(b)
  PROVE  IInv'
<1>1. /\ at[b] = "done" /\ UNCHANGED <<text, load, calls, said, session, campaign, joined>>
      /\ UNCHANGED middleware
  BY DEF Cancel
<1>2. /\ MType' /\ Arrived' /\ Worked' /\ Answers'
      /\ job' = job /\ pc' = pc /\ out' = out /\ done' = done
  BY <1>1, MiddlewareStays
<1>3. FromCall' /\ KeysTell' /\ \A c \in Copies : Sent(c)' = Sent(c)
  BY <1>1, CallsStay
<1>4. /\ live' \subseteq live /\ live \ {has[b]} \subseteq live'
      /\ \A w \in Visitors \ {b} : has'[w] = has[w] /\ kept'[w] = kept[w] /\ at'[w] = at[w]
      /\ \A w \in Bookers \ {b} : w \in leaving' <=> w \in leaving
      /\ \/ at'[b] \in {"form", "gone"} /\ has'[b] = None /\ kept'[b] = None
         \/ at'[b] = "done" /\ b \in leaving' /\ has'[b] = has[b] /\ kept'[b] = kept[b]
      /\ at' \in [Visitors -> {"away", "form", "sending", "done", "gone"}]
      /\ has' \in [Visitors -> Copies \cup {None}] /\ kept' \in [Visitors -> Copies \cup {None}]
      /\ leaving' \subseteq Bookers
  <2>1. CASE /\ live' = live \ {has[b]}
             /\ at' = [at EXCEPT ![b] = BackTo(b)]
             /\ has' = [has EXCEPT ![b] = None]
             /\ kept' = [kept EXCEPT ![b] = None]
             /\ UNCHANGED leaving
    BY <2>1, PageTyped, ShowsTyped, Kinds DEF IInv
  <2>2. CASE /\ live' \in {live, live \ {has[b]}}
             /\ leaving' = leaving \cup {b}
             /\ UNCHANGED <<at, has, kept>>
    BY <2>2, <1>1, PageTyped, Kinds DEF IInv
  <2> QED BY <2>1, <2>2 DEF Cancel
<1>5. TypeOK'
  BY <1>1, <1>2, <1>4, PageTyped DEF IInv, TypeOK, MType, campaign
<1>6. JoinedRecorded' /\ RecordedMeansRecorded'
  BY <1>1, <1>2, Kinds DEF IInv, JoinedRecorded, RecordedMeansRecorded
<1>7. Held'
  <2> SUFFICES ASSUME NEW w \in Bookers
               PROVE  /\ at'[w] \in {"form", "sending"} => kept'[w] = None
                      /\ \A x \in {has'[w], kept'[w]} \ {None} : x \in done /\ job[x].of = w
                      /\ kept'[w] # None => kept'[w] \in live' \/ w \in leaving'
                      /\ at'[w] = "done" => has'[w] \in live' \/ w \in leaving'
                      /\ \A d \in done \ live' :
                           job[d].of = w /\ at'[w] = "sending" => job[d].call < Len(calls[w])
    BY <1>1, <1>2 DEF Held
  <2>1. live \subseteq done /\ \A x \in live : x # None
    BY HeldIsDone, PageTyped, IdempotencyAssumption DEF IInv
  <2>2. \A x \in live \ live' : x = has[b] /\ job[x].of = b
    BY <1>4, <2>1 DEF IInv, Held
  <2>3. CASE w # b
    BY <2>1, <2>2, <2>3, <1>4, Kinds DEF IInv, Held
  <2>4. CASE w = b
    BY <2>4, <1>4 DEF IInv, Held
  <2> QED BY <2>3, <2>4
<1>8. ThanksMeansRecorded'
  BY <1>1, <1>2, <1>3, <1>4, HeldIsDone, Kinds DEF IInv, ThanksMeansRecorded, Last
<1> QED BY <1>2, <1>3, <1>5, <1>6, <1>7, <1>8 DEF IInv

\* What changes is not what anybody is told.
LEMMA RestKeeps ==
  ASSUME IInv, (\E f \in Fillers : SessionEnds(f)) \/ Close \/ UNCHANGED vars
  PROVE  IInv'
<1>1. /\ UNCHANGED <<at, text, load, calls, said, has, kept, leaving, restricted>>
      /\ UNCHANGED <<live, joined>> /\ UNCHANGED middleware
  BY DEF SessionEnds, Close, vars, page, campaign, tables
<1>2. session' \in [Fillers -> Sessions] /\ accepting' \in BOOLEAN
  BY PageTyped DEF IInv, SessionEnds, Close, vars, page, campaign, Sessions
<1>3. /\ MType' /\ Arrived' /\ Worked' /\ Answers'
      /\ job' = job /\ pc' = pc /\ out' = out /\ done' = done
  BY <1>1, MiddlewareStays
<1>4. FromCall' /\ KeysTell' /\ \A c \in Copies : Sent(c)' = Sent(c)
  BY <1>1, CallsStay
<1>5. TypeOK'
  BY <1>1, <1>2, <1>3, PageTyped DEF IInv, TypeOK, MType
<1>6. JoinedRecorded' /\ Held' /\ RecordedMeansRecorded'
  BY <1>1, <1>3 DEF IInv, JoinedRecorded, Held, RecordedMeansRecorded
<1>7. ThanksMeansRecorded'
  BY <1>1, <1>3, <1>4, HeldIsDone DEF IInv, ThanksMeansRecorded, Last
<1> QED BY <1>3, <1>4, <1>5, <1>6, <1>7 DEF IInv

-----------------------------------------------------------------------------
(* The theorems.                                                           *)

LEMMA InitIInv == Init => IInv
<1> SUFFICES ASSUME Init PROVE IInv
  OBVIOUS
<1>1. PICK here \in {Fillers, Bookers} :
        /\ at = [v \in Visitors |-> IF v \in here THEN "form" ELSE "away"]
        /\ restricted \in {FALSE} \cup {here = Fillers}
        /\ session \in [Fillers -> IF here = Fillers THEN Sessions ELSE {None}]
  BY DEF Init
<1>2. /\ accepting = TRUE /\ text = [v \in Visitors |-> Blank] /\ load = [v \in Visitors |-> 1]
      /\ calls = [v \in Visitors |-> <<>>] /\ said = [v \in Visitors |-> "nothing"]
      /\ has = [v \in Visitors |-> None] /\ kept = [v \in Visitors |-> None]
      /\ live = {} /\ joined = {} /\ leaving = {}
      /\ job = [c \in Copies |-> None] /\ pc = [c \in Copies |-> "idle"]
      /\ out = [c \in Copies |-> [said |-> "nothing", result |-> None]]
      /\ done = {} /\ stored = [c \in Copies |-> None]
      /\ now = 0 /\ restarts = 0 /\ excused = {}
  BY DEF Init, MiddlewareInit
<1>3. MType
  <2>1. now \in 0..MaxTime /\ restarts \in 0..MaxRestarts
    BY <1>2, IdempotencyAssumption
  <2>2. out \in [Copies -> [said : Outcomes, result : Copies \cup {None}]]
    BY <1>2 DEF Outcomes
  <2> QED BY <1>2, <2>1, <2>2 DEF MType, MiddlewareTypeOK, Steps
<1>4. TypeOK
  <2>1. load \in [Visitors -> 1..(MaxLoads + 1)]
    BY <1>2, VisitorsAssumption
  <2>2. at \in [Visitors -> {"away", "form", "sending", "done", "gone"}]
    BY <1>1
  <2>3. text \in [Visitors -> Texts] /\ said \in [Visitors -> Outcomes]
    BY <1>2, VisitorsAssumption DEF Outcomes
  <2>4. calls \in [Visitors -> Seq(Entry)]
    BY <1>2
  <2>5. session \in [Fillers -> Sessions] /\ restricted \in BOOLEAN
    BY <1>1 DEF Sessions
  <2> QED BY <1>2, <1>3, <2>1, <2>2, <2>3, <2>4, <2>5 DEF TypeOK, MType, Entry
<1>5. Arrived /\ Worked /\ FromCall /\ Answers /\ JoinedRecorded
  BY <1>2 DEF Arrived, Worked, Work, FromCall, Answers, JoinedRecorded
<1>6. KeysTell
  BY <1>2 DEF KeysTell
<1>7. Held
  BY <1>1, <1>2, Kinds DEF Held
<1>8. ThanksMeansRecorded /\ RecordedMeansRecorded
  BY <1>2, Kinds DEF ThanksMeansRecorded, RecordedMeansRecorded
<1> QED BY <1>4, <1>5, <1>6, <1>7, <1>8 DEF IInv

LEMMA NextIInv == IInv /\ [Next]_vars => IInv'
<1> SUFFICES ASSUME IInv, [Next]_vars PROVE IInv'
  OBVIOUS
<1>1. CASE \E v \in Visitors : PageStep(v)
  BY <1>1, PressKeeps, FailKeeps, ReloadKeeps, HearKeeps DEF PageStep
<1>2. CASE \E f \in Fillers, t \in Texts : Write(f, t)
  BY <1>2, WriteKeeps
<1>3. CASE \E b \in Bookers : Cancel(b)
  BY <1>3, CancelKeeps
<1>4. CASE \E c \in Copies : ServerStep(c)
  <2>1. PICK c \in Copies : ServerStep(c)
    BY <1>4
  <2>2. CASE \E v \in Visitors : \E n \in DOMAIN calls[v] : Arrive(c, v, n)
    BY <2>2, ArriveKeeps
  <2>3. CASE Middle(c) \/ TurnDown(c)
    BY <2>3, RestOfServerKeeps DEF Middle, TurnDown
  <2> QED BY <2>1, <2>2, <2>3, SubmitKeeps, BookKeeps DEF ServerStep
<1>5. CASE (Sweep \/ Restart \/ Tick) /\ UNCHANGED <<page, campaign, tables>>
  BY <1>5, RestOfServerKeeps
<1>6. CASE (\E f \in Fillers : SessionEnds(f)) \/ Close \/ UNCHANGED vars
  BY <1>6, RestKeeps
<1> QED BY <1>1, <1>2, <1>3, <1>4, <1>5, <1>6 DEF Next

LEMMA Invariant == Spec => []IInv
BY InitIInv, NextIInv, PTL DEF Spec

\* Every variable of the pages and of the middleware keeps its type.
THEOREM TypeCorrect == Spec => []TypeOK
<1>1. IInv => TypeOK
  BY DEF IInv
<1> QED BY <1>1, Invariant, PTL

\* The header comment of idempotency.ts: the work of a place happens once, unless two copies
\* were at work together, the first answer was never stored, or its row grew old.
THEOREM AlwaysWorkedOnce == Spec => []WorkedOnce
<1>1. IInv => WorkedOnce
  <2> SUFFICES ASSUME IInv, NEW c \in done, NEW d \in done, job[c].place = job[d].place, c # d
               PROVE  job[c].place \in excused
    BY DEF WorkedOnce
  <2>1. c \in Copies /\ d \in Copies /\ pc[c] # "idle" /\ pc[d] # "idle"
    BY HeldIsDone
  <2> QED BY <2>1 DEF IInv, Worked, Work
<1> QED BY <1>1, Invariant, PTL

\* Fill.tsx thanks a visitor only for the answers they sent last.
THEOREM AlwaysThanksMeansRecorded == Spec => []ThanksMeansRecorded
<1>1. IInv => ThanksMeansRecorded
  BY DEF IInv
<1> QED BY <1>1, Invariant, PTL

\* "Your answers were already recorded" (Fill.tsx) is told only to who has a response.
THEOREM AlwaysRecordedMeansRecorded == Spec => []RecordedMeansRecorded
<1>1. IInv => RecordedMeansRecorded
  BY DEF IInv
<1> QED BY <1>1, Invariant, PTL

\* One load of the form makes one response in a key space, but for what is excused.
THEOREM AlwaysOneResponsePerFill == Spec => []OneResponsePerFill
<1>1. IInv => OneResponsePerFill
  <2> SUFFICES ASSUME IInv, NEW c \in done, NEW d \in done, job[c].of \in Fillers,
                      job[c].of = job[d].of, Sent(c).load = Sent(d).load,
                      job[c].place[1] = job[d].place[1], c # d
               PROVE  job[c].place \in excused
    BY DEF OneResponsePerFill
  <2>1. c \in Copies /\ d \in Copies /\ pc[c] # "idle" /\ pc[d] # "idle"
    BY HeldIsDone
  <2>2. job[c].place[2] = job[d].place[2]
    BY <2>1, KeyIs DEF IInv
  <2>3. job[c].place \in Places /\ job[d].place \in Places
    BY <2>1, JobTyped DEF IInv
  <2>4. job[c].place = job[d].place
    BY <2>2, <2>3 DEF Places
  <2> QED BY <2>1, <2>4 DEF IInv, Worked, Work
<1> QED BY <1>1, Invariant, PTL

\* A booking page that says "You're booked" holds a place, or asked to give it back.
THEOREM AlwaysBookedMeansHeld == Spec => []BookedMeansHeld
<1>1. IInv => BookedMeansHeld
  BY DEF IInv, Held, BookedMeansHeld
<1> QED BY <1>1, Invariant, PTL

-----------------------------------------------------------------------------
(***************************************************************************)
(* Builder: NothingForgotten, for any number of saves and of edits.        *)
(*                                                                         *)
(* By itself it is not inductive: when a save that carries the newest edit *)
(* succeeds, its slot is emptied, and only Delivered says that the server  *)
(* has had what it carried.  Bounded turns "at least" into "equal".        *)
(*                                                                         *)
(* SavedMeansSaved, for one save at a time, rests on InOrder: nothing      *)
(* older than what the server has is still on its way.                     *)
(***************************************************************************)
\* Nothing the server had, and nothing on its way, is newer than what the reader sees.
Bounded ==
  \A p \in Parts :
    /\ reached[p] <= latest[p]
    /\ \A i \in Running : saves[i].sending[p] <= latest[p]

\* The part p of a save has reached the server.
Past(r, p) == \/ p = "meta" /\ r.stage = "questions"
              \/ p = r.stage /\ r.applied

\* What a save has delivered, the server has had.
Delivered ==
  \A i \in Running : \A p \in saves[i].pending :
    Past(saves[i], p) => reached[p] >= saves[i].sending[p]

BuilderIInv == BuilderTypeOK /\ Bounded /\ Delivered /\ NothingForgotten

(* In the initial state the server holds what the reader sees.             *)
LEMMA BuilderInitIInv == BuilderInit => BuilderIInv
<1> SUFFICES ASSUME BuilderInit PROVE BuilderIInv
  OBVIOUS
<1>1. Running = {}
  BY DEF BuilderInit, Running
<1>2. BuilderTypeOK
  <2> USE MaxEditsAssumption DEF BuilderInit, Parts, Edits
  <2>1. /\ latest \in [Parts -> Edits]
        /\ server \in [Parts -> Edits]
        /\ reached \in [Parts -> Edits]
    OBVIOUS
  <2>2. saves \in [InFlight -> Saves \cup {NoSave}]
    OBVIOUS
  <2>3. /\ dirty \in SUBSET Parts
        /\ save \in {"idle", "dirty", "saving", "saved", "error"}
    OBVIOUS
  <2>4. timer \in BOOLEAN /\ retried \in BOOLEAN /\ alive \in BOOLEAN
    BY Zenon
  <2> QED
    BY <1>1, <2>1, <2>2, <2>3, <2>4 DEF BuilderTypeOK
<1>3. Bounded /\ Delivered
  BY <1>1 DEF BuilderInit, Bounded, Delivered
<1>4. NothingForgotten
  BY DEF BuilderInit, NothingForgotten, Kept
<1> QED
  BY <1>2, <1>3, <1>4 DEF BuilderIInv

(* Every step of the page and of the server keeps the types.               *)
LEMMA NextTypeOK == BuilderTypeOK /\ [BuilderNext]_builderVars => BuilderTypeOK'
<1> SUFFICES ASSUME BuilderTypeOK, [BuilderNext]_builderVars PROVE BuilderTypeOK'
  OBVIOUS
<1> USE MaxEditsAssumption, NoneAssumption DEF BuilderTypeOK, Parts, Edits, Saves, Running
<1>1. ASSUME NEW p \in Parts, Touch(p) PROVE BuilderTypeOK'
  BY <1>1 DEF Touch
<1>2. ASSUME NEW i \in InFlight, persist(i), dirty # {}, retried' \in BOOLEAN PROVE BuilderTypeOK'
  <2> DEFINE r == [pending |-> dirty, sending |-> latest, applied |-> FALSE,
                   stage |-> IF "meta" \in dirty THEN "meta" ELSE "questions"]
  <2>0. dirty # {} /\ dirty \subseteq {"meta", "questions"} /\ latest \in [Parts -> Edits]
    BY <1>2 DEF persist
  <2>1. r \in Saves /\ r.stage \in r.pending
    BY <2>0
  <2>2. saves' = [saves EXCEPT ![i] = r]
    BY <1>2 DEF persist
  <2> HIDE DEF r
  <2>3. /\ saves' \in [InFlight -> Saves \cup {NoSave}]
        /\ \A j \in Running' : saves'[j].stage \in saves'[j].pending
    BY <2>1, <2>2
  <2> QED
    BY <1>2, <2>3 DEF persist
<1>e. ASSUME NEW i \in InFlight, persist(i), dirty = {}, retried' \in BOOLEAN PROVE BuilderTypeOK'
  BY <1>e DEF persist
<1>3. ASSUME NEW i \in InFlight, TimerFires(i) PROVE BuilderTypeOK'
  BY <1>2, <1>e, <1>3 DEF TimerFires
<1>4. ASSUME NEW i \in InFlight, Flush(i) PROVE BuilderTypeOK'
  BY <1>2, <1>e, <1>4 DEF Flush
<1>5. ASSUME NEW i \in InFlight, RequestArrives(i) PROVE BuilderTypeOK'
  <2> DEFINE p == saves[i].stage
             edit == saves[i].sending[p]
             r == [saves[i] EXCEPT !.applied = TRUE]
  <2>1. saves[i] \in Saves /\ p \in Parts /\ edit \in Edits
    BY <1>5 DEF RequestArrives
  <2>2. r \in Saves /\ r.stage = saves[i].stage /\ r.pending = saves[i].pending
    BY <2>1
  <2>3. saves' = [saves EXCEPT ![i] = r]
    BY <1>5 DEF RequestArrives
  <2>4. server' \in [Parts -> Edits] /\ reached' \in [Parts -> Edits]
    BY <1>5, <2>1 DEF RequestArrives
  <2> HIDE DEF p, edit, r
  <2>5. /\ saves' \in [InFlight -> Saves \cup {NoSave}]
        /\ \A j \in Running' : saves'[j].stage \in saves'[j].pending
    BY <2>1, <2>2, <2>3
  <2> QED
    BY <1>5, <2>4, <2>5 DEF RequestArrives
<1>6. ASSUME NEW i \in InFlight, SucceedMeta(i) PROVE BuilderTypeOK'
  BY <1>6 DEF SucceedMeta, GoesOn
<1>7. ASSUME NEW i \in InFlight, Succeed(i) PROVE BuilderTypeOK'
  BY <1>7 DEF Succeed
<1>8. ASSUME NEW i \in InFlight, RequestFails(i) PROVE BuilderTypeOK'
  BY <1>8 DEF RequestFails
<1>9. CASE Leave
  BY <1>9 DEF Leave
<1>10. CASE UNCHANGED builderVars
  BY <1>10 DEF builderVars
<1> QED
  BY <1>1, <1>3, <1>4, <1>5, <1>6, <1>7, <1>8, <1>9, <1>10 DEF BuilderNext

(* The same for the three other conjuncts.                                 *)
LEMMA NextInv == BuilderIInv /\ [BuilderNext]_builderVars => (Bounded /\ Delivered /\ NothingForgotten)'
<1> SUFFICES ASSUME BuilderIInv, [BuilderNext]_builderVars PROVE (Bounded /\ Delivered /\ NothingForgotten)'
  OBVIOUS
<1> USE DEF BuilderTypeOK, Parts, Edits, Saves, Running
<1>t. BuilderTypeOK /\ BuilderTypeOK'
  BY NextTypeOK DEF BuilderIInv
<1>i. Bounded /\ Delivered /\ NothingForgotten
  BY DEF BuilderIInv
<1>1. ASSUME NEW p \in Parts, Touch(p) PROVE (Bounded /\ Delivered /\ NothingForgotten)'
  <2>1. Bounded'
    BY <1>t, <1>i, <1>1, MaxEditsAssumption DEF Touch, Bounded
  <2>2. Delivered'
    BY <1>t, <1>i, <1>1 DEF Touch, Delivered, Past
  <2>3. NothingForgotten'
    BY <1>t, <1>i, <1>1 DEF Touch, NothingForgotten, Kept
  <2> QED
    BY <2>1, <2>2, <2>3
<1>e. ASSUME NEW i \in InFlight, persist(i), dirty = {}
      PROVE (Bounded /\ Delivered /\ NothingForgotten)'
  BY <1>i, <1>e DEF persist, Bounded, Delivered, NothingForgotten, Kept, Running
<1>2. ASSUME NEW i \in InFlight, persist(i), dirty # {}
      PROVE (Bounded /\ Delivered /\ NothingForgotten)'
  <2> DEFINE r == [pending |-> dirty, sending |-> latest, applied |-> FALSE,
                   stage |-> IF "meta" \in dirty THEN "meta" ELSE "questions"]
  <2>1. /\ r.sending = latest
        /\ r.pending = dirty
        /\ ~ \E p \in r.pending : Past(r, p)
        /\ r \in Saves
    BY <1>2, <1>t DEF persist, Past
  <2>2. saves' = [saves EXCEPT ![i] = r]
    BY <1>2 DEF persist
  <2> HIDE DEF r
  <2>3. Bounded'
    BY <1>t, <1>i, <1>2, <2>1, <2>2, MaxEditsAssumption DEF persist, Bounded
  <2>4. Delivered'
    <3> SUFFICES ASSUME NEW j \in Running', NEW p \in saves'[j].pending, Past(saves'[j], p)
                 PROVE reached'[p] >= saves'[j].sending[p]
      BY DEF Delivered
    <3>1. reached' = reached
      BY <1>2 DEF persist
    <3>2. j # i
      <4>1. saves'[i] = r
        BY <1>t, <2>2
      <4> QED
        BY <4>1, <2>1
    <3>3. saves'[j] = saves[j] /\ j \in Running
      BY <1>t, <2>2, <3>2
    <3> QED
      BY <1>i, <3>1, <3>3 DEF Delivered
  <2>5. NothingForgotten'
    <3> SUFFICES ASSUME alive, NEW p \in Parts PROVE Kept(p)'
      BY <1>2 DEF NothingForgotten, persist
    <3>1. Kept(p) /\ latest' = latest /\ reached' = reached
      BY <1>i, <1>2 DEF NothingForgotten, persist
    <3>2. CASE reached[p] = latest[p]
      BY <3>1, <3>2 DEF Kept
    <3>3. CASE p \in dirty
      <4>1. i \in Running' /\ saves'[i] = r
        BY <1>t, <2>1, <2>2, NoneAssumption
      <4> QED
        BY <3>1, <3>3, <4>1, <2>1 DEF Kept
    <3>4. CASE \E j \in Running : p \in saves[j].pending /\ saves[j].sending[p] = latest[p]
      <4>1. PICK j \in Running : p \in saves[j].pending /\ saves[j].sending[p] = latest[p]
        BY <3>4
      <4>2. j # i /\ saves'[j] = saves[j]
        BY <1>t, <1>2, <2>2, <4>1 DEF persist
      <4> QED
        BY <3>1, <4>1, <4>2 DEF Kept
    <3> QED
      BY <3>1, <3>2, <3>3, <3>4 DEF Kept
  <2> QED
    BY <2>3, <2>4, <2>5
<1>3. ASSUME NEW i \in InFlight, RequestArrives(i)
      PROVE (Bounded /\ Delivered /\ NothingForgotten)'
  <2> DEFINE q == saves[i].stage
             edit == saves[i].sending[q]
  <2>0. /\ saves[i] \in Saves /\ q \in Parts /\ edit \in Edits
        /\ reached \in [Parts -> Edits]
        /\ reached' = [reached EXCEPT ![q] = IF edit > reached[q] THEN edit ELSE reached[q]]
        /\ UNCHANGED latest
    BY <1>t, <1>3 DEF RequestArrives
  <2>2. /\ \A p \in Parts : reached'[p] >= reached[p]
        /\ reached'[q] >= edit
    <3> HIDE DEF edit, q
    <3> QED
      BY <2>0, MaxEditsAssumption
  <2>1. Bounded'
    <3>1. i \in Running /\ edit <= latest[q]
      BY <1>i, <1>3, <2>0 DEF RequestArrives, Bounded
    <3>2. \A p \in Parts : reached'[p] <= latest'[p]
      <4> HIDE DEF edit, q
      <4> QED
        BY <1>i, <2>0, <3>1 DEF Bounded
    <3>3. \A j \in Running' : j \in Running /\ saves'[j].sending = saves[j].sending
      BY <1>t, <1>3 DEF RequestArrives
    <3> QED
      BY <1>i, <2>0, <3>2, <3>3 DEF Bounded
  <2>3. \A j \in Running' :
          /\ j \in Running
          /\ saves'[j].pending = saves[j].pending
          /\ saves'[j].sending = saves[j].sending
          /\ \A p : Past(saves'[j], p) => Past(saves[j], p) \/ (j = i /\ p = saves[i].stage)
    BY <1>t, <1>3 DEF RequestArrives, Past
  <2>4. Delivered'
    <3> SUFFICES ASSUME NEW j \in Running', NEW p \in saves'[j].pending, Past(saves'[j], p)
                 PROVE reached'[p] >= saves'[j].sending[p]
      BY DEF Delivered
    <3>1. CASE Past(saves[j], p)
      <4>1. /\ reached[p] >= saves[j].sending[p] /\ p \in Parts
            /\ reached[p] \in Nat /\ reached'[p] \in Nat /\ saves[j].sending[p] \in Nat
        BY <1>t, <1>i, <2>3, <3>1 DEF Delivered
      <4> QED
        BY <2>2, <2>3, <4>1
    <3>2. CASE j = i /\ p = saves[i].stage
      BY <2>2, <2>3, <3>2
    <3> QED
      BY <2>3, <3>1, <3>2
  <2>5. NothingForgotten'
    <3> SUFFICES ASSUME alive, NEW p \in Parts PROVE Kept(p)'
      BY <1>3 DEF NothingForgotten, RequestArrives
    <3>1. Kept(p) /\ latest' = latest /\ dirty' = dirty
      BY <1>i, <1>3 DEF NothingForgotten, RequestArrives
    <3>2. CASE reached[p] = latest[p]
      <4>1. reached'[p] <= latest'[p] /\ reached'[p] >= reached[p]
        BY <2>1, <2>2 DEF Bounded
      <4>2. reached'[p] \in Nat /\ reached[p] \in Nat
        BY <1>t
      <4>3. reached'[p] = latest'[p]
        BY <3>1, <3>2, <4>1, <4>2
      <4> QED
        BY <4>3 DEF Kept
    <3>3. CASE p \in dirty
      BY <3>1, <3>3 DEF Kept
    <3>4. CASE \E j \in Running : p \in saves[j].pending /\ saves[j].sending[p] = latest[p]
      <4>1. PICK j \in Running : p \in saves[j].pending /\ saves[j].sending[p] = latest[p]
        BY <3>4
      <4>2. saves'[j] # NoSave
        <5>1. CASE j # i
          BY <1>t, <1>3, <4>1, <5>1 DEF RequestArrives
        <5>2. CASE j = i
          <6>0. saves[i] \in Saves
            <7>1. saves \in [InFlight -> Saves \cup {NoSave}] /\ saves[i] # NoSave
              BY <1>t, <1>3 DEF RequestArrives
            <7> QED
              BY <7>1
          <6>1. [saves[i] EXCEPT !.applied = TRUE] \in Saves
            BY <6>0
          <6>2. saves'[i] = [saves[i] EXCEPT !.applied = TRUE]
            BY <1>t, <1>3 DEF RequestArrives
          <6> QED
            BY <5>2, <6>1, <6>2, NoneAssumption
        <5> QED
          BY <5>1, <5>2
      <4> QED
        BY <2>3, <3>1, <4>1, <4>2 DEF Kept
    <3> QED
      BY <3>1, <3>2, <3>3, <3>4 DEF Kept
  <2> QED
    BY <2>1, <2>4, <2>5
<1>4. ASSUME NEW i \in InFlight, SucceedMeta(i)
      PROVE (Bounded /\ Delivered /\ NothingForgotten)'
  <2>1. \A j \in Running : /\ j \in Running'
                           /\ saves'[j].pending = saves[j].pending
                           /\ saves'[j].sending = saves[j].sending
    BY <1>t, <1>4, NoneAssumption DEF SucceedMeta
  <2>2. \A j \in Running' : /\ j \in Running
                            /\ \A p : Past(saves'[j], p) => Past(saves[j], p)
    BY <1>t, <1>4 DEF SucceedMeta, GoesOn, Past
  <2>3. UNCHANGED <<reached, latest, dirty, alive>>
    BY <1>4 DEF SucceedMeta
  <2>4. Bounded'
    BY <1>t, <1>i, <2>1, <2>2, <2>3 DEF Bounded
  <2>5. Delivered'
    BY <1>i, <2>1, <2>2, <2>3 DEF Delivered
  <2>6. NothingForgotten'
    BY <1>i, <2>1, <2>3 DEF NothingForgotten, Kept
  <2> QED
    BY <2>4, <2>5, <2>6
<1>5. ASSUME NEW i \in InFlight, saves[i] # NoSave, saves' = [saves EXCEPT ![i] = NoSave],
             UNCHANGED <<reached, latest, alive>>,
             alive => dirty \subseteq dirty',
             alive => \A p \in saves[i].pending :
                         p \in dirty' \/ reached[p] >= saves[i].sending[p]
      PROVE (Bounded /\ Delivered /\ NothingForgotten)'
  <2>1. \A j \in Running' : j \in Running /\ saves'[j] = saves[j]
    BY <1>t, <1>5
  <2>2. \A j \in Running : j # i => j \in Running' /\ saves'[j] = saves[j]
    BY <1>t, <1>5
  <2>3. Bounded'
    BY <1>t, <1>i, <1>5, <2>1 DEF Bounded
  <2>4. Delivered'
    BY <1>i, <1>5, <2>1 DEF Delivered
  <2>5. NothingForgotten'
    <3> SUFFICES ASSUME alive, NEW p \in Parts PROVE Kept(p)'
      BY <1>5 DEF NothingForgotten
    <3>1. Kept(p)
      BY <1>i DEF NothingForgotten
    <3>2. CASE reached[p] = latest[p] \/ p \in dirty
      BY <1>5, <3>2 DEF Kept
    <3>3. CASE \E j \in Running : p \in saves[j].pending /\ saves[j].sending[p] = latest[p]
      <4>1. PICK j \in Running : p \in saves[j].pending /\ saves[j].sending[p] = latest[p]
        BY <3>3
      <4>2. CASE j # i
        BY <1>5, <2>2, <4>1, <4>2 DEF Kept
      <4>3. CASE j = i
        <5>1. p \in dirty' \/ reached[p] >= latest[p]
          BY <1>5, <4>1, <4>3
        <5>2. reached[p] <= latest[p] /\ reached[p] \in Nat /\ latest[p] \in Nat
          BY <1>t, <1>i DEF Bounded
        <5>3. p \in dirty' \/ reached[p] = latest[p]
          BY <5>1, <5>2
        <5> QED
          BY <1>5, <5>3 DEF Kept
      <4> QED
        BY <4>2, <4>3
    <3> QED
      BY <3>1, <3>2, <3>3 DEF Kept
  <2> QED
    BY <2>3, <2>4, <2>5
<1>6. ASSUME NEW i \in InFlight, Succeed(i)
      PROVE (Bounded /\ Delivered /\ NothingForgotten)'
  <2>1. i \in Running /\ \A p \in saves[i].pending : Past(saves[i], p)
    BY <1>t, <1>6 DEF Succeed, GoesOn, Past
  <2>2. \A p \in saves[i].pending : reached[p] >= saves[i].sending[p]
    BY <1>i, <2>1 DEF Delivered
  <2> QED
    BY <1>5, <1>6, <2>2 DEF Succeed
<1>7. ASSUME NEW i \in InFlight, RequestFails(i)
      PROVE (Bounded /\ Delivered /\ NothingForgotten)'
  <2>1. alive => dirty' = dirty \cup saves[i].pending
    BY <1>7 DEF RequestFails
  <2> QED
    BY <1>5, <1>7, <2>1 DEF RequestFails
<1>8. CASE Leave
  BY <1>i, <1>8 DEF Leave, Bounded, Delivered, NothingForgotten
<1>9. CASE UNCHANGED builderVars
  BY <1>i, <1>9 DEF builderVars, Bounded, Delivered, NothingForgotten, Kept
<1> QED
  BY <1>1, <1>e, <1>2, <1>3, <1>4, <1>6, <1>7, <1>8, <1>9 DEF BuilderNext, TimerFires, Flush

(* The inductive invariant holds throughout.                               *)
LEMMA Inductive == BuilderSpec => []BuilderIInv
<1>1. BuilderIInv /\ [BuilderNext]_builderVars => BuilderIInv'
  BY NextTypeOK, NextInv DEF BuilderIInv
<1> QED
  BY BuilderInitIInv, <1>1, PTL DEF BuilderSpec

(* The page's state and every save under way have their types, and a save  *)
(* is always at a part it was sent for.                                    *)
THEOREM BuilderTypeCorrect == BuilderSpec => []BuilderTypeOK
<1>1. BuilderIInv => BuilderTypeOK
  BY DEF BuilderIInv
<1> QED
  BY Inductive, <1>1, PTL

(* "Never discard typed input": whatever saves overlap, fail or arrive out *)
(* of order, an open page still has every edit that the server never had.  *)
THEOREM NothingEverForgotten == BuilderSpec => []NothingForgotten
<1>1. BuilderIInv => NothingForgotten
  BY DEF BuilderIInv
<1> QED
  BY Inductive, <1>1, PTL

-----------------------------------------------------------------------------
(* With one save at a time.                                                *)

OneSave == \A i, j \in InFlight : i = j

\* Nothing older than what the server has is on its way, so it has the newest it ever had;
\* and Saved is said only when nothing is marked or on its way.
InOrder ==
  /\ server = reached
  /\ \A i \in Running : \A p \in Parts : reached[p] <= saves[i].sending[p]
  /\ save = "saved" /\ alive => dirty = {} /\ Running = {}

LEMMA NextInOrder == OneSave /\ BuilderIInv /\ InOrder /\ [BuilderNext]_builderVars => InOrder'
<1> SUFFICES ASSUME OneSave, BuilderIInv, InOrder, [BuilderNext]_builderVars PROVE InOrder'
  OBVIOUS
<1>t. BuilderTypeOK /\ BuilderTypeOK' /\ Bounded
  BY NextTypeOK DEF BuilderIInv
<1>1. ASSUME NEW p \in Parts, Touch(p) PROVE InOrder'
  BY <1>1 DEF Touch, InOrder, Running
<1>e. ASSUME NEW i \in InFlight, persist(i), dirty = {} PROVE InOrder'
  BY <1>e DEF persist, InOrder, Running
<1>2. ASSUME NEW i \in InFlight, persist(i), dirty # {} PROVE InOrder'
  <2>1. \A j \in Running' : saves'[j].sending = latest
    BY <1>t, <1>2 DEF persist, BuilderTypeOK, Running, OneSave
  <2>2. UNCHANGED <<server, reached, latest>> /\ save' = "saving"
    BY <1>2 DEF persist
  <2> QED
    BY <1>t, <2>1, <2>2 DEF InOrder, Bounded
<1>3. ASSUME NEW i \in InFlight, RequestArrives(i) PROVE InOrder'
  <2> DEFINE q == saves[i].stage
             edit == saves[i].sending[q]
  <2>0. /\ i \in Running /\ q \in Parts
        /\ edit \in Edits /\ reached \in [Parts -> Edits]
        /\ server' = [server EXCEPT ![q] = edit]
        /\ reached' = [reached EXCEPT ![q] = IF edit > reached[q] THEN edit ELSE reached[q]]
        /\ UNCHANGED <<save, alive, dirty>>
    BY <1>t, <1>3 DEF RequestArrives, BuilderTypeOK, Saves, Running
  <2>1. edit >= reached[q]
    BY <2>0 DEF InOrder
  <2>2. reached' = [reached EXCEPT ![q] = edit]
    <3> HIDE DEF q, edit
    <3>1. edit \in Nat /\ reached[q] \in Nat
      BY <2>0, MaxEditsAssumption DEF Edits
    <3>2. (IF edit > reached[q] THEN edit ELSE reached[q]) = edit
      BY <2>1, <3>1
    <3> QED
      BY <2>0, <3>2
  <2>3. server' = reached'
    BY <2>0, <2>2 DEF InOrder
  <2>4. ASSUME NEW j \in Running', NEW p \in Parts PROVE reached'[p] <= saves'[j].sending[p]
    <3>1. j = i /\ saves'[j].sending = saves[i].sending
      BY <1>t, <1>3, <2>4 DEF OneSave, Running, RequestArrives, BuilderTypeOK, Saves
    <3>2. CASE p = q
      <4>1. reached'[p] = edit /\ edit = saves'[j].sending[p]
        BY <2>0, <2>2, <3>1, <3>2
      <4> HIDE DEF edit, q
      <4> QED
        BY <2>0, <4>1, MaxEditsAssumption DEF Edits
    <3>3. CASE p # q
      <4>1. reached'[p] = reached[p]
        BY <2>0, <2>2, <3>3
      <4> QED
        BY <2>0, <3>1, <4>1 DEF InOrder
    <3> QED
      BY <3>2, <3>3
  <2>5. save' # "saved" \/ ~alive'
    BY <2>0 DEF InOrder
  <2> QED
    BY <2>3, <2>4, <2>5 DEF InOrder
<1>4. ASSUME NEW i \in InFlight, SucceedMeta(i) PROVE InOrder'
  <2>1. /\ i \in Running /\ UNCHANGED <<server, reached, save, alive, dirty>>
        /\ \A j \in Running' : j \in Running /\ saves'[j].sending = saves[j].sending
    BY <1>t, <1>4 DEF SucceedMeta, BuilderTypeOK, Saves, Running
  <2> QED
    BY <2>1 DEF InOrder
<1>5. ASSUME NEW i \in InFlight, Succeed(i) \/ RequestFails(i) PROVE InOrder'
  <2>1. i \in Running /\ Running' = {}
    BY <1>t, <1>5 DEF Succeed, RequestFails, BuilderTypeOK, Running, OneSave
  <2>2. /\ UNCHANGED <<server, reached, alive>>
        /\ save' = "saved" /\ alive' => dirty' = {}
    BY <1>5, <2>1 DEF Succeed, RequestFails, InOrder
  <2> QED
    BY <2>1, <2>2 DEF InOrder
<1>6. CASE Leave
  BY <1>6 DEF Leave, InOrder, Running
<1>7. CASE UNCHANGED builderVars
  BY <1>7 DEF builderVars, InOrder, Running
<1> QED
  BY <1>1, <1>e, <1>2, <1>3, <1>4, <1>5, <1>6, <1>7 DEF BuilderNext, TimerFires, Flush

(* "The indicator never lies", while one save is answered before the next  *)
(* begins: an open page that says Saved shows what the server holds.       *)
THEOREM SavedIsSavedInOrder == ASSUME OneSave PROVE BuilderSpec => []SavedMeansSaved
<1>1. BuilderInit => InOrder
  BY DEF BuilderInit, InOrder, Running, Parts
<1>2. BuilderIInv /\ InOrder /\ [BuilderNext]_builderVars => InOrder'
  BY NextInOrder, OneSave
<1>3. BuilderIInv /\ InOrder => SavedMeansSaved
  <2> SUFFICES ASSUME BuilderIInv, InOrder, save = "saved", alive PROVE server = latest
    BY DEF SavedMeansSaved
  <2>1. \A p \in Parts : reached[p] = latest[p]
    BY DEF BuilderIInv, InOrder, NothingForgotten, Kept
  <2> QED
    BY <2>1 DEF BuilderIInv, BuilderTypeOK, InOrder
<1> QED
  BY Inductive, <1>1, <1>2, <1>3, PTL DEF BuilderSpec
=============================================================================
