------------------------------ MODULE Billing ------------------------------
(***************************************************************************)
(* An organisation's plan: the subscription row, the month it is paid for, *)
(* and the requests that read and move it                                  *)
(* (src/src/backend/features/billing/service.ts, billing/effective.ts,     *)
(* billing/period.ts, billing/payments.ts), with the operator's side of it *)
(* (features/platform/service.ts: overridePlan, approveEnterpriseRequest). *)
(*                                                                         *)
(* There is no scheduler: a period that has ended is applied by whichever  *)
(* request reads the row next, in a read and a separate unconditional      *)
(* write.  A request is one slot p of PlanRequests, used over and over:    *)
(* mem[p] is the row it read, job[p] what it was asked, and any other      *)
(* request may run between its steps.  Each UPDATE and what is written     *)
(* with it in its transaction is one step, since they meet in one row.     *)
(*                                                                         *)
(* spent is the ledger as the customer sees it: what their own payments    *)
(* add up to, in rupees, since the plan last moved without one (a period   *)
(* that ended, an operator).                                               *)
(***************************************************************************)
EXTENDS Integers

CONSTANTS
  PlanRequests,    \* requests that may be under way at once
  Asks,            \* Enterprise requests that may be raised
  BILLING_PERIOD,  \* days a paid period runs past its first
  TRIAL_DAYS,      \* days a trial runs past its first
  MaxDay,          \* last day considered
  Nothing          \* no tier, no request

ASSUME PeriodAssumption == {BILLING_PERIOD, TRIAL_DAYS, MaxDay} \subseteq Nat
ASSUME NoneAssumption == Nothing \notin {"bronze", "silver", "gold", "enterprise"} \cup Asks

Tiers == {"bronze", "silver", "gold", "enterprise"}

tierRank == [bronze |-> 0, silver |-> 1, gold |-> 2, enterprise |-> 3]

priceOf == [bronze |-> 99, silver |-> 499, gold |-> 999, enterprise |-> 4999]

Selectable == Tiers \ {"enterprise"}

VARIABLES
  sub,    \* the subscriptions row
  today,  \* the date every clock reads
  spent,  \* the customer's payments since the plan last moved without one
  ask,    \* Enterprise request -> its status
  stage,  \* request -> its next step
  mem,    \* request -> the row it read and will look at again, or Nothing
  job     \* request -> the operation and the tier or ask it names

planVars == <<sub, today, spent, ask, stage, mem, job>>

Row == [tier : Tiers, status : {"active", "trialing"}, ends : Nat,
        pending : Tiers \cup {Nothing}, lapsed : Tiers \cup {Nothing}]

Job == [op : {"read", "join", "schedule", "cancel", "approve"}, what : Tiers \cup Asks \cup {Nothing}]

Reading == [op |-> "read", what |-> Nothing]

PlanTypeOK ==
  /\ sub \in Row
  /\ today \in 0..MaxDay
  /\ spent \in Nat
  /\ ask \in [Asks -> {"none", "open", "contacted", "closed"}]
  /\ stage \in [PlanRequests -> {"idle", "applying", "join", "schedule", "cancel", "approve", "again"}]
  /\ mem \in [PlanRequests -> Row \cup {Nothing}]
  /\ job \in [PlanRequests -> Job]

newPeriod == today + BILLING_PERIOD

\* The last day of a period still counts as paid.
periodHasEnded(row) == row.ends < today

\* The tier in force: what the entitlement gate asks, and the plan page too.
effectiveTier(row) ==
  IF ~periodHasEnded(row) THEN row.tier
  ELSE IF row.pending # Nothing /\ tierRank[row.pending] < tierRank[row.tier] THEN row.pending
  ELSE "bronze"

\* Nothing was paid for a trial, nor for the bronze left by a lapse.
joinPricedFrom(row) == IF row.status = "trialing" \/ row.lapsed # Nothing THEN Nothing ELSE row.tier

changeCost(from, to) ==
  IF from = Nothing THEN priceOf[to]
  ELSE IF priceOf[to] < priceOf[from] THEN 0 ELSE priceOf[to] - priceOf[from]

\* Register: a paid month or a trial of a tier the customer may choose.
PlanInit ==
  /\ \E tier \in Selectable, trial \in BOOLEAN :
       /\ sub = [tier |-> tier, status |-> IF trial THEN "trialing" ELSE "active",
                 ends |-> IF trial THEN TRIAL_DAYS ELSE BILLING_PERIOD,
                 pending |-> Nothing, lapsed |-> Nothing]
       /\ spent = IF trial THEN 0 ELSE priceOf[tier]
  /\ today = 0
  /\ ask = [a \in Asks |-> "none"]
  /\ stage = [p \in PlanRequests |-> "idle"]
  /\ mem = [p \in PlanRequests |-> Nothing]
  /\ job = [p \in PlanRequests |-> Reading]

-----------------------------------------------------------------------------
(* readBilling, alone or as the first and last call of a write.            *)

\* What is refused on the strength of the row that was read.
Admits(j, row) ==
  \/ j.op = "join" /\ (row.status = "trialing" \/ tierRank[j.what] > tierRank[row.tier])
  \/ j.op = "schedule" /\ row.status # "trialing" /\ tierRank[j.what] < tierRank[row.tier]
  \/ j.op = "cancel"

\* Where a request goes from the read: to its write, or to its answer.
After(j, row) == IF Admits(j, row) THEN j.op ELSE "idle"

\* Takes its next step, with the row if that step looks at it; or answers.
GoesTo(p, step, j, row) ==
  /\ stage' = [stage EXCEPT ![p] = step]
  /\ mem' = [mem EXCEPT ![p] = IF step \in {"applying", "join"} THEN row ELSE Nothing]
  /\ job' = [job EXCEPT ![p] = IF step = "idle" THEN Reading ELSE j]

\* The handler has the row; one that ended is applied in a later write.
Read(p, j) ==
  /\ GoesTo(p, IF periodHasEnded(sub) THEN "applying" ELSE After(j, sub), j, sub)
  /\ UNCHANGED <<sub, today, spent, ask>>

\* A read that writes nothing leaves no trace.
readBilling(p) == stage[p] = "idle" /\ periodHasEnded(sub) /\ Read(p, Reading)

joinTier(p, t)          == stage[p] = "idle" /\ Read(p, [op |-> "join", what |-> t])
scheduleDowngrade(p, t) == stage[p] = "idle" /\ Read(p, [op |-> "schedule", what |-> t])
cancelDowngrade(p)      == stage[p] = "idle" /\ Read(p, [op |-> "cancel", what |-> Nothing])

\* Refetched after the write, to answer with.
ReadAgain(p) == stage[p] = "again" /\ Read(p, Reading)

\* Mutant: a period that ended always ends in bronze.
RowAfterBronze(row) ==
  [sub EXCEPT !.tier = "bronze", !.pending = Nothing, !.status = "active", !.ends = newPeriod,
              !.lapsed = IF row.tier = "bronze" THEN Nothing ELSE row.tier]

\* What applying a row read earlier leaves: bronze rolls over and keeps its
\* tier; otherwise the tier moves, and a move nobody asked for is a lapse.
RowAfter(row) ==
  LET next == effectiveTier(row)
      scheduled == row.status # "trialing" /\ next = row.pending
      rolled == [sub EXCEPT !.pending = Nothing, !.status = "active", !.ends = newPeriod]
  IN  IF next = row.tier THEN [rolled EXCEPT !.lapsed = Nothing]
      ELSE [rolled EXCEPT !.tier = next, !.lapsed = IF scheduled THEN Nothing ELSE row.tier]

applyExpiredPeriod(p) ==
  /\ stage[p] = "applying"
  /\ sub' = RowAfter(mem[p])
  /\ spent' = 0
  /\ GoesTo(p, After(job[p], sub'), job[p], sub')
  /\ UNCHANGED <<today, ask>>

-----------------------------------------------------------------------------
(* The customer's writes.                                                  *)

\* Mutant: the WHERE names the tier but not the status.
StillAsReadTierOnly(p) == sub.tier = mem[p].tier

\* Mutant: the WHERE names the organisation alone.
StillAsReadAlways(p) == sub = sub

\* The WHERE of the conditional update.
StillAsRead(p) == sub.tier = mem[p].tier /\ sub.status = mem[p].status

\* A full price buys a period; a difference keeps the one that runs.
Joined(p) ==
  [sub EXCEPT !.tier = job[p].what, !.status = "active", !.pending = Nothing, !.lapsed = Nothing,
              !.ends = IF joinPricedFrom(mem[p]) = Nothing THEN newPeriod ELSE @]

JoinCommit(p) ==
  /\ stage[p] = "join"
  /\ StillAsRead(p)
  /\ sub' = Joined(p)
  /\ spent' = spent + changeCost(joinPricedFrom(mem[p]), job[p].what)
  /\ GoesTo(p, "again", Reading, Nothing)
  /\ UNCHANGED <<today, ask>>

\* No row matched: the transaction rolls back before the payment is written.
JoinConflict(p) ==
  /\ stage[p] = "join"
  /\ ~StillAsRead(p)
  /\ GoesTo(p, "idle", Reading, Nothing)
  /\ UNCHANGED <<sub, today, spent, ask>>

\* Neither asks whether the row is still the one that was read.
PendingCommit(p) ==
  /\ stage[p] \in {"schedule", "cancel"}
  /\ sub' = [sub EXCEPT !.pending = IF stage[p] = "schedule" THEN job[p].what ELSE Nothing]
  /\ GoesTo(p, "again", Reading, Nothing)
  /\ UNCHANGED <<today, spent, ask>>

\* One open request per organisation, by a partial unique index.
OpenOnly(a) == \A b \in Asks \ {a} : ask[b] # "open"

requestEnterprise(a) ==
  /\ ask[a] = "none"
  /\ OpenOnly(a)
  /\ ask' = [ask EXCEPT ![a] = "open"]
  /\ UNCHANGED <<sub, today, spent, stage, mem, job>>

-----------------------------------------------------------------------------
(* The operator's writes.                                                  *)

\* A tier given or sold by the operator: a new period, nothing pending.
Granted(t) == [tier |-> t, status |-> "active", ends |-> newPeriod,
               pending |-> Nothing, lapsed |-> Nothing]

overridePlan(t) ==
  /\ sub' = Granted(t)
  /\ spent' = 0
  /\ UNCHANGED <<today, ask, stage, mem, job>>

updateEnterpriseRequest(a, status) ==
  /\ ask[a] # "none"
  /\ status = "open" => OpenOnly(a)
  /\ ask' = [ask EXCEPT ![a] = status]
  /\ UNCHANGED <<sub, today, spent, stage, mem, job>>

ApproveFind(p, a) ==
  /\ stage[p] = "idle"
  /\ ask[a] \in {"open", "contacted"}
  /\ sub.tier # "enterprise"
  /\ GoesTo(p, "approve", [op |-> "approve", what |-> a], Nothing)
  /\ UNCHANGED <<sub, today, spent, ask>>

\* The tier, the sale and the closed request, in one transaction.
ApproveCommit(p) ==
  /\ stage[p] = "approve"
  /\ sub' = Granted("enterprise")
  /\ spent' = 0
  /\ ask' = [ask EXCEPT ![job[p].what] = "closed"]
  /\ GoesTo(p, "idle", Reading, Nothing)
  /\ UNCHANGED today

NextDay ==
  /\ today < MaxDay
  /\ today' = today + 1
  /\ UNCHANGED <<sub, spent, ask, stage, mem, job>>

-----------------------------------------------------------------------------
PlanNext ==
  \/ \E p \in PlanRequests :
       \/ readBilling(p) \/ cancelDowngrade(p)
       \/ \E t \in Selectable : joinTier(p, t)
       \/ \E t \in Tiers : scheduleDowngrade(p, t)
       \/ \E a \in Asks : ApproveFind(p, a)
       \/ ReadAgain(p) \/ applyExpiredPeriod(p)
       \/ JoinCommit(p) \/ JoinConflict(p) \/ PendingCommit(p) \/ ApproveCommit(p)
  \/ \E a \in Asks : requestEnterprise(a)
  \/ \E a \in Asks, status \in {"open", "contacted", "closed"} : updateEnterpriseRequest(a, status)
  \/ \E t \in Tiers : overridePlan(t)
  \/ NextDay

PlanSpec == PlanInit /\ [][PlanNext]_planVars

-----------------------------------------------------------------------------
(* Properties.                                                             *)

\* However many tabs press Pay, what the customer paid since the plan last moved
\* without them is never more than the price of the plan they hold (joinTier's
\* conditional update and its pricing).
NeverOvercharged == spent <= priceOf[sub.tier]

\* A customer's join never takes them off a tier that was paid for: the row it
\* replaces is a trial's or a lower tier's, whatever was read (joinTier's refusal of a
\* move down, and the update that repeats what the refusal was decided on).
JoinsOnlyClimb ==
  [][\A p \in PlanRequests :
       stage[p] = "join" /\ sub' # sub /\ stage'[p] = "again" =>
         sub.status = "trialing" \/ tierRank[sub.tier] < tierRank[sub'.tier]]_planVars

\* The notice that a plan ran out stands only beside the bronze it left, so a customer
\* who bought or was given a plan is never told it ended, nor charged as if it had.
NoticeOnBronze == sub.lapsed # Nothing => sub.tier = "bronze"

\* Nothing is scheduled during a trial, since applyExpiredPeriod would not honour it.
TrialHasNothingScheduled == sub.status = "trialing" => sub.pending = Nothing

\* The row catches up while the decision never lags: applying a period that ended
\* changes no answer of the gate (readBilling and requireEntitlement).
RowCatchesUp ==
  [][\A p \in PlanRequests :
       stage[p] = "applying" /\ stage'[p] # "applying" => effectiveTier(sub)' = effectiveTier(sub)]_planVars

\* The same, for a row nobody wrote between the read and the write.
RowCatchesUpUndisturbed ==
  [][\A p \in PlanRequests :
       stage[p] = "applying" /\ stage'[p] # "applying" /\ mem[p] = sub =>
         effectiveTier(sub)' = effectiveTier(sub)]_planVars

\* Enterprise is not sold again to an organisation that holds it
\* (approveEnterpriseRequest's refusal).
NotSoldTwice ==
  [][\A p \in PlanRequests :
       stage[p] = "approve" /\ stage'[p] = "idle" => sub.tier # "enterprise"]_planVars
=============================================================================
