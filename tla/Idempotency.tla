---------------------------- MODULE Idempotency ----------------------------
(***************************************************************************)
(* src/src/backend/middleware/idempotency.ts: what a request with an       *)
(* Idempotency-Key goes through around its handler.  The handler is any    *)
(* that commits one effect and answers, or refuses; Visitors puts the      *)
(* routes that respondents and guests reach behind it.                     *)
(*                                                                         *)
(* A copy is a request as it arrives: its place (organisation and key) and *)
(* its body are what the middleware looks at.  The server can restart at   *)
(* any moment; a row of idempotency_keys outlives it.                      *)
(***************************************************************************)
EXTENDS Naturals, FiniteSets

CONSTANTS
  Copies,      \* requests as they arrive at the server
  Window,      \* REPLAY_WINDOW_MS, in ticks of the clock
  MaxTime,     \* bound: the clock stops here
  MaxRestarts, \* bound on restarts of the server
  None

ASSUME IdempotencyAssumption ==
  /\ Window \in Nat \ {0}
  /\ MaxTime \in Nat /\ MaxRestarts \in Nat
  /\ None \notin Copies \cup 0..MaxTime

VARIABLES
  job,      \* Copies -> what arrived, with its place and its body, or None
  pc,       \* Copies -> the next step
  out,      \* Copies -> the answer: what it says, and whose result it is
  done,     \* the copies whose handler committed its effect
  stored,   \* Copies -> when the row of the copy's answer was created, or None
  now,      \* the clock
  restarts,
  excused   \* history: the places whose work the middleware may repeat

middleware == <<job, pc, out, done, stored, now, restarts, excused>>

Steps == {"idle", "looking", "running", "ran", "answered", "lost"}

MiddlewareTypeOK(Jobs, Answers, Places) ==
  /\ job \in [Copies -> Jobs \cup {None}]
  /\ pc \in [Copies -> Steps]
  /\ out \in [Copies -> [said : Answers, result : Copies \cup {None}]]
  /\ done \subseteq Copies
  /\ stored \in [Copies -> 0..MaxTime \cup {None}]
  /\ now \in 0..MaxTime /\ restarts \in 0..MaxRestarts
  /\ excused \subseteq Places

MiddlewareInit ==
  /\ job = [c \in Copies |-> None]
  /\ pc = [c \in Copies |-> "idle"]
  /\ out = [c \in Copies |-> [said |-> "nothing", result |-> None]]
  /\ done = {}
  /\ stored = [c \in Copies |-> None]
  /\ now = 0 /\ restarts = 0
  /\ excused = {}

Goto(c, next) == pc' = [pc EXCEPT ![c] = next] /\ UNCHANGED out

Answered(c, what, result) ==
  /\ out' = [out EXCEPT ![c] = [said |-> what, result |-> result]]
  /\ pc' = [pc EXCEPT ![c] = "answered"]

\* A copy is let through to the middleware, or refused by what is mounted before it.
Receive(c, what, next) ==
  /\ pc[c] = "idle"
  /\ job' = [job EXCEPT ![c] = what]
  /\ IF next = "looking" THEN Goto(c, next) ELSE Answered(c, next, None)
  /\ UNCHANGED <<done, stored, now, restarts, excused>>

-----------------------------------------------------------------------------
Rows(c) == {d \in Copies : stored[d] # None /\ job[d].place = job[c].place}

\* createdAt > now - REPLAY_WINDOW_MS
Replayable(c) == {d \in Rows(c) : stored[d] + Window > now}

AtWork(c) == {d \in Copies \ {c} : pc[d] \in {"running", "ran"} /\ job[d].place = job[c].place}

\* Mutant: whatever the body was.
LookUpUnhashed(c) ==
  /\ pc[c] = "looking"
  /\ IF Replayable(c) = {}
       THEN Goto(c, "running")
       ELSE \E d \in Replayable(c) : Answered(c, "ok", d)
  /\ excused' = IF Replayable(c) = {} /\ Rows(c) \cup AtWork(c) # {}
                  THEN excused \cup {job[c].place} ELSE excused
  /\ UNCHANGED <<job, done, stored, now, restarts>>

\* findFirst, then replay() or the handler.
LookUp(c) ==
  /\ pc[c] = "looking"
  /\ IF Replayable(c) = {}
       THEN Goto(c, "running")
       ELSE \E d \in Replayable(c) :
              IF job[d].body = job[c].body THEN Answered(c, "ok", d) ELSE Answered(c, "conflict", None)
  /\ excused' = IF Replayable(c) = {} /\ Rows(c) \cup AtWork(c) # {}
                  THEN excused \cup {job[c].place} ELSE excused
  /\ UNCHANGED <<job, done, stored, now, restarts>>

\* The handler behind the middleware commits its work...
Handle(c) ==
  /\ pc[c] = "running"
  /\ done' = done \cup {c}
  /\ Goto(c, "ran")
  /\ UNCHANGED <<job, stored, now, restarts, excused>>

\* Mutant: a refusal is stored like an answer.
RefuseStored(c, why) ==
  /\ pc[c] = "running"
  /\ Answered(c, why, None)
  /\ stored' = [stored EXCEPT ![c] = now]
  /\ UNCHANGED <<job, done, now, restarts, excused>>

\* ...or refuses, which is not stored.
Refuse(c, why) ==
  /\ pc[c] = "running"
  /\ Answered(c, why, None)
  /\ UNCHANGED <<job, done, stored, now, restarts, excused>>

\* Mutant: stores nothing.
StoreNothing(c) ==
  /\ pc[c] = "ran"
  /\ Answered(c, "ok", c)
  /\ UNCHANGED <<job, done, stored, now, restarts, excused>>

\* The row is created before the answer is sent.  A row that is already there, whatever its
\* age, makes the insert fail; it may fail otherwise; and a failure is swallowed.
Store(c) ==
  /\ pc[c] = "ran"
  /\ Answered(c, "ok", c)
  /\ \/ /\ Rows(c) = {}
        /\ stored' = [stored EXCEPT ![c] = now]
        /\ UNCHANGED excused
     \/ excused' = excused \cup {job[c].place} /\ UNCHANGED stored
  /\ UNCHANGED <<job, done, now, restarts>>

\* sweepIdempotencyKeys
Sweep ==
  LET old == {d \in Copies : stored[d] # None /\ stored[d] + Window < now}
  IN  /\ old # {}
      /\ stored' = [d \in Copies |-> IF d \in old THEN None ELSE stored[d]]
      /\ excused' = excused \cup {job[d].place : d \in old}
      /\ UNCHANGED <<job, pc, out, done, now, restarts>>

\* Requests in flight are lost, what they committed is not.
Restart ==
  /\ restarts < MaxRestarts
  /\ restarts' = restarts + 1
  /\ pc' = [c \in Copies |-> IF pc[c] \in {"looking", "running", "ran"} THEN "lost" ELSE pc[c]]
  /\ excused' = excused \cup {job[c].place : c \in {d \in Copies : pc[d] = "ran"}}
  /\ UNCHANGED <<job, out, done, stored, now>>

Tick ==
  /\ now < MaxTime
  /\ now' = now + 1
  /\ UNCHANGED <<job, pc, out, done, stored, restarts, excused>>

-----------------------------------------------------------------------------
(* Properties.                                                             *)

\* "The first response is replayed instead of the work happening twice" (the header
\* comment), as far as the middleware can see to it: one place is worked once, unless two
\* copies were at work together, the first answer was never stored, or its row grew old.
WorkedOnce ==
  \A c, d \in done : job[c].place = job[d].place => c = d \/ job[c].place \in excused

\* The header comment with nothing excused, which the code does not keep; see the README.
WorkHappensOnce == \A c, d \in done : job[c].place = job[d].place => c = d
=============================================================================
