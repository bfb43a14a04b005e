------------------------------ MODULE Booking ------------------------------
(***************************************************************************)
(* One bookable of src/src/backend/features/booking: its public link, its  *)
(* slots and the bookings in them, driven by requests that run at the same *)
(* time.  A request is a process whose program counter says which          *)
(* statement of its handler comes next; a statement is one step, so every  *)
(* interleaving the database can produce is a behaviour.                   *)
(*                                                                         *)
(* Transactions run at READ COMMITTED, as the code leaves them: a read     *)
(* sees what is committed when its statement starts, a row lock is held    *)
(* until commit or rollback, and a statement that meets a locked row waits *)
(* for it.  An uncommitted booking is a Booker at "inserted"; uncommitted  *)
(* slots are "pending".                                                    *)
(***************************************************************************)
EXTENDS Naturals, FiniteSets

CONSTANTS
  Bookers,     \* guests; each holds the link and makes at most one booking
  Editors,     \* console requests that replace the set of slots (putSlots)
  Openers,     \* console requests that open the link (openBookable)
  Deleters,    \* console requests that delete the bookable
  Slots,       \* slot ids, in the order ORDER BY id puts them in
  Capacities,  \* the capacities an editor may send
  None         \* no lock holder, no chosen slot

Changers == Editors \cup Deleters
Procs    == Bookers \cup Changers \cup Openers

ASSUME BookersAssumption ==
  /\ IsFiniteSet(Bookers)
  /\ Bookers \cap Changers = {}
  /\ Bookers \cap Openers = {}
  /\ Changers \cap Openers = {}
  /\ Editors \cap Deleters = {}

ASSUME SlotsAssumption ==
  /\ Slots \subseteq Nat
  /\ Capacities \subseteq Nat \ {0}
  /\ None \notin Procs \cup Slots

VARIABLES
  row,       \* the bookables row: here (not deleted), token (0 is NULL), closed
  minted,    \* how many tokens mintToken has handed out
  slot,      \* Slots -> "unborn", "pending", "live" or "gone"
  capacity,  \* Slots -> the capacity column, 0 before the insert
  started,   \* the slots whose startsAt has passed
  booking,   \* Bookers -> "none", "live", "cancelled" or "deleted"
  sel,       \* Bookers -> the slot the request asks for, and then its booking's
  lock,      \* Slots -> the transaction holding the row lock, or None
  want,      \* Changers -> the rows the running statement has still to reach
  fresh,     \* Editors -> the slots inserted and not yet committed
  pc         \* Procs -> the next statement

linkVars == <<row, minted>>
slotVars == <<slot, capacity>>
bookVars == <<booking, sel>>
workVars == <<want, fresh>>
vars == <<row, minted, slot, capacity, started, booking, sel, lock, want, fresh, pc>>

-----------------------------------------------------------------------------
LiveSlots   == {s \in Slots : slot[s] = "live"}
\* The committed rows "where slotId = s and cancelledAt is null".
LiveOn(s)   == {b \in Bookers : booking[b] = "live" /\ sel[b] = s}
HeldBy(p)   == {s \in Slots : lock[s] = p}
Free(s, p)  == lock[s] \in {None, p}
Release(p)  == lock' = [s \in Slots |-> IF lock[s] = p THEN None ELSE lock[s]]
Goto(p, at) == pc' = [pc EXCEPT ![p] = at]
First(S)    == CHOOSE s \in S : \A t \in S : s <= t

\* A transaction that deletes the bookable holds its row exclusively, and one
\* that has inserted slots holds it shared through the foreign key.
RowHolders == {d \in Deleters : pc[d] \in {"deleting", "deleted"}}
RowSharers == {e \in Editors : pc[e] = "replaced" /\ fresh[e] # {}}

\* The cascade of a finished DELETE holds the bookings of its slots.
CascadeHolds(s) == \E p \in Changers : lock[s] = p /\ pc[p] \in {"deleted", "replaced"}

TypeOK ==
  /\ row \in [here : BOOLEAN, token : Nat, closed : BOOLEAN]
  /\ minted \in Nat
  /\ slot \in [Slots -> {"unborn", "pending", "live", "gone"}]
  /\ capacity \in [Slots -> Nat]
  /\ started \in SUBSET Slots
  /\ booking \in [Bookers -> {"none", "live", "cancelled", "deleted"}]
  /\ sel \in [Bookers -> Slots \cup {None}]
  /\ lock \in [Slots -> Procs \cup {None}]
  /\ want \in [Changers -> SUBSET Slots]
  /\ fresh \in [Editors -> SUBSET Slots]
  /\ pc \in [Procs -> {"idle", "resolved", "waiting", "locked", "inserted", "booked",
                       "begun", "locking", "counted", "deleting", "deleted", "replaced",
                       "minting"}]

\* createBookable has just committed: no token, no slots.
Init ==
  /\ row = [here |-> TRUE, token |-> 0, closed |-> FALSE]
  /\ minted = 0
  /\ slot = [s \in Slots |-> "unborn"]
  /\ capacity = [s \in Slots |-> 0]
  /\ started = {}
  /\ booking = [b \in Bookers |-> "none"]
  /\ sel = [b \in Bookers |-> None]
  /\ lock = [s \in Slots |-> None]
  /\ want = [p \in Changers |-> {}]
  /\ fresh = [e \in Editors |-> {}]
  /\ pc = [p \in Procs |-> "idle"]

-----------------------------------------------------------------------------
(* The public half: resolveBookable, then book()'s transaction.            *)

ResolveBookable(b) ==
  /\ pc[b] = "idle"
  /\ row.here /\ row.token # 0 /\ ~row.closed
  /\ Goto(b, "resolved")
  /\ UNCHANGED <<linkVars, slotVars, started, bookVars, lock, workVars>>

\* The first statement: the slot, if it is this bookable's and has not started.
BookFindSlot(b, s) ==
  /\ pc[b] = "resolved"
  /\ IF slot[s] = "live" /\ s \notin started
       THEN sel' = [sel EXCEPT ![b] = s] /\ Goto(b, "waiting")
       ELSE Goto(b, "idle") /\ UNCHANGED sel
  /\ UNCHANGED <<linkVars, slotVars, started, booking, lock, workVars>>

\* Mutant: carries on with a slot that was deleted while the lock was awaited.
BookLockSlotUnchecked(b) ==
  /\ pc[b] = "waiting"
  /\ lock[sel[b]] = None
  /\ lock' = [lock EXCEPT ![sel[b]] = b]
  /\ Goto(b, "locked")
  /\ UNCHANGED <<linkVars, slotVars, started, bookVars, workVars>>

\* lockSlot: waits for the row, and finds nothing when the row has gone meanwhile.
BookLockSlot(b) ==
  /\ pc[b] = "waiting"
  /\ lock[sel[b]] = None
  /\ IF slot[sel[b]] = "live"
       THEN /\ lock' = [lock EXCEPT ![sel[b]] = b]
            /\ Goto(b, "locked")
            /\ UNCHANGED sel
       ELSE /\ sel' = [sel EXCEPT ![b] = None]
            /\ Goto(b, "idle")
            /\ UNCHANGED lock
  /\ UNCHANGED <<linkVars, slotVars, started, booking, workVars>>

\* Mutant: one place too many.
BookCountOffByOne(b) ==
  /\ pc[b] = "locked"
  /\ IF Cardinality(LiveOn(sel[b])) > capacity[sel[b]]
       THEN Release(b) /\ sel' = [sel EXCEPT ![b] = None] /\ Goto(b, "idle")
       ELSE Goto(b, "inserted") /\ UNCHANGED <<lock, sel>>
  /\ UNCHANGED <<linkVars, slotVars, started, booking, workVars>>

\* Counts the committed live bookings, and inserts when a place is left.
BookCountAndInsert(b) ==
  /\ pc[b] = "locked"
  /\ IF Cardinality(LiveOn(sel[b])) >= capacity[sel[b]]
       THEN /\ Release(b)
            /\ sel' = [sel EXCEPT ![b] = None]
            /\ Goto(b, "idle")
       ELSE /\ Goto(b, "inserted")
            /\ UNCHANGED <<lock, sel>>
  /\ UNCHANGED <<linkVars, slotVars, started, booking, workVars>>

BookCommit(b) ==
  /\ pc[b] = "inserted"
  /\ booking' = [booking EXCEPT ![b] = "live"]
  /\ Release(b)
  /\ Goto(b, "booked")
  /\ UNCHANGED <<linkVars, slotVars, started, sel, workVars>>

\* The booker's own cancellation and the console's write the same column; both
\* are repeatable, and both wait for a cascade that already holds the row.
MarkCancelled(b) ==
  /\ booking[b] = "live"
  /\ ~CascadeHolds(sel[b])
  /\ booking' = [booking EXCEPT ![b] = "cancelled"]
  /\ UNCHANGED <<linkVars, slotVars, started, sel, lock, workVars, pc>>

CancelWithToken(b) == pc[b] = "booked" /\ MarkCancelled(b)
CancelBooking(b)   == row.here /\ MarkCancelled(b)

-----------------------------------------------------------------------------
(* putSlots: look up, then lock, count, delete and insert in a transaction. *)

PutSlotsFind(e) ==
  /\ pc[e] = "idle"
  /\ row.here
  /\ Goto(e, "begun")
  /\ UNCHANGED <<linkVars, slotVars, started, bookVars, lock, workVars>>

\* Mutant: counts and deletes without locking the slots first.
PutSlotsLockNothing(e) ==
  /\ pc[e] = "begun"
  /\ Goto(e, "locking")
  /\ UNCHANGED <<linkVars, slotVars, started, bookVars, lock, workVars>>

\* lockSlotsOf is one statement: it takes the rows it can see when it starts...
PutSlotsLockBegin(e) ==
  /\ pc[e] = "begun"
  /\ want' = [want EXCEPT ![e] = LiveSlots]
  /\ Goto(e, "locking")
  /\ UNCHANGED <<linkVars, slotVars, started, bookVars, lock, fresh>>

\* ...in id order, and passes over a row deleted while it waited.
PutSlotsLockNext(e) ==
  /\ pc[e] = "locking" /\ want[e] # {}
  /\ LET s == First(want[e]) IN
       /\ Free(s, e)
       /\ want' = [want EXCEPT ![e] = @ \ {s}]
       /\ lock' = IF slot[s] = "live" THEN [lock EXCEPT ![s] = e] ELSE lock
  /\ UNCHANGED <<linkVars, slotVars, started, bookVars, fresh, pc>>

\* Counts the live bookings of every slot the bookable has at that moment.
PutSlotsCount(e) ==
  /\ pc[e] = "locking" /\ want[e] = {}
  /\ IF \E s \in LiveSlots : LiveOn(s) # {}
       THEN Release(e) /\ Goto(e, "idle")
       ELSE Goto(e, "counted") /\ UNCHANGED lock
  /\ UNCHANGED <<linkVars, slotVars, started, bookVars, workVars>>

PutSlotsDeleteBegin(e) ==
  /\ pc[e] = "counted"
  /\ want' = [want EXCEPT ![e] = LiveSlots]
  /\ Goto(e, "deleting")
  /\ UNCHANGED <<linkVars, slotVars, started, bookVars, lock, fresh>>

\* Mutant: deletes a row that another transaction has locked.
DeleteNextUnlocked(p, s) ==
  /\ pc[p] = "deleting" /\ s \in want[p]
  /\ want' = [want EXCEPT ![p] = @ \ {s}]
  /\ lock' = IF slot[s] = "live" THEN [lock EXCEPT ![s] = p] ELSE lock
  /\ UNCHANGED <<linkVars, slotVars, started, bookVars, fresh, pc>>

\* A DELETE meets its rows in whatever order the plan scans them.
DeleteNext(p, s) ==
  /\ pc[p] = "deleting" /\ s \in want[p]
  /\ Free(s, p)
  /\ want' = [want EXCEPT ![p] = @ \ {s}]
  /\ lock' = IF slot[s] = "live" THEN [lock EXCEPT ![s] = p] ELSE lock
  /\ UNCHANGED <<linkVars, slotVars, started, bookVars, fresh, pc>>

PutSlotsDeleteEnd(e) ==
  /\ pc[e] = "deleting" /\ want[e] = {}
  /\ Goto(e, "deleted")
  /\ UNCHANGED <<linkVars, slotVars, started, bookVars, lock, workVars>>

\* createMany, skipped for an empty set.  Its foreign key waits for a
\* transaction deleting the bookable and fails when the bookable has gone.
PutSlotsInsert(e, new, caps) ==
  /\ pc[e] = "deleted"
  /\ new # {} => RowHolders = {}
  /\ IF new # {} /\ ~row.here
       THEN /\ Release(e)
            /\ Goto(e, "idle")
            /\ UNCHANGED <<slotVars, fresh>>
       ELSE /\ \A s \in new : slot[s] = "unborn"
            /\ slot' = [s \in Slots |-> IF s \in new THEN "pending" ELSE slot[s]]
            /\ capacity' = [s \in Slots |-> IF s \in new THEN caps[s] ELSE capacity[s]]
            /\ fresh' = [fresh EXCEPT ![e] = new]
            /\ Goto(e, "replaced")
            /\ UNCHANGED lock
  /\ UNCHANGED <<linkVars, started, bookVars, want>>

\* The rows a transaction deleted are the rows it holds; the bookings in them go too.
CascadeDelete(p) ==
  booking' = [b \in Bookers |->
                IF booking[b] # "none" /\ sel[b] \in HeldBy(p) THEN "deleted" ELSE booking[b]]

PutSlotsCommit(e) ==
  /\ pc[e] = "replaced"
  /\ slot' = [s \in Slots |-> IF s \in HeldBy(e) THEN "gone"
                              ELSE IF s \in fresh[e] THEN "live" ELSE slot[s]]
  /\ CascadeDelete(e)
  /\ fresh' = [fresh EXCEPT ![e] = {}]
  /\ Release(e)
  /\ Goto(e, "idle")
  /\ UNCHANGED <<linkVars, capacity, started, sel, want>>

-----------------------------------------------------------------------------
(* openBookable, closeBookable and deleteBookable.                          *)

OpenBookableFind(o) ==
  /\ pc[o] = "idle"
  /\ row.here /\ row.token = 0 /\ LiveSlots # {}
  /\ Goto(o, "minting")
  /\ UNCHANGED <<linkVars, slotVars, started, bookVars, lock, workVars>>

\* An unconditional UPDATE of the row found above; P2025 when it has gone.
OpenBookableMint(o) ==
  /\ pc[o] = "minting"
  /\ RowHolders = {}
  /\ IF row.here
       THEN /\ minted' = minted + 1
            /\ row' = [row EXCEPT !.token = minted + 1, !.closed = FALSE]
       ELSE UNCHANGED linkVars
  /\ Goto(o, "idle")
  /\ UNCHANGED <<slotVars, started, bookVars, lock, workVars>>

CloseBookable ==
  /\ row.here /\ ~row.closed
  /\ RowHolders = {}
  /\ row' = [row EXCEPT !.closed = TRUE]
  /\ UNCHANGED <<minted, slotVars, started, bookVars, lock, workVars, pc>>

\* DELETE of the row, then the cascade reaches the slots it can see.
DeleteBookableBegin(d) ==
  /\ pc[d] = "idle"
  /\ row.here
  /\ RowHolders = {} /\ RowSharers = {}
  /\ want' = [want EXCEPT ![d] = LiveSlots]
  /\ Goto(d, "deleting")
  /\ UNCHANGED <<linkVars, slotVars, started, bookVars, lock, fresh>>

DeleteBookableEnd(d) ==
  /\ pc[d] = "deleting" /\ want[d] = {}
  /\ Goto(d, "deleted")
  /\ UNCHANGED <<linkVars, slotVars, started, bookVars, lock, workVars>>

DeleteBookableCommit(d) ==
  /\ pc[d] = "deleted"
  /\ row' = [row EXCEPT !.here = FALSE]
  /\ slot' = [s \in Slots |-> IF s \in HeldBy(d) THEN "gone" ELSE slot[s]]
  /\ CascadeDelete(d)
  /\ Release(d)
  /\ Goto(d, "idle")
  /\ UNCHANGED <<minted, capacity, started, sel, workVars>>

-----------------------------------------------------------------------------
(* The environment: time passes, and a transaction can be rolled back.      *)

SlotStarts(s) ==
  /\ slot[s] = "live" /\ s \notin started
  /\ started' = started \cup {s}
  /\ UNCHANGED <<linkVars, slotVars, bookVars, lock, workVars, pc>>

InTransaction(p) ==
  \/ p \in Bookers /\ pc[p] \in {"waiting", "locked", "inserted"}
  \/ p \in Changers /\ pc[p] \in {"begun", "locking", "counted", "deleting", "deleted", "replaced"}

\* Mutant: no transaction is ever timed out.
RollbackNever(p) == InTransaction(p) /\ FALSE /\ UNCHANGED vars

\* The client goes away, the database picks this transaction to break a
\* deadlock, or it outlives the transaction timeout.
Rollback(p) ==
  /\ InTransaction(p)
  /\ Release(p)
  /\ sel' = [b \in Bookers |-> IF b = p THEN None ELSE sel[b]]
  /\ want' = [q \in Changers |-> IF q = p THEN {} ELSE want[q]]
  /\ fresh' = [e \in Editors |-> IF e = p THEN {} ELSE fresh[e]]
  /\ slot' = [s \in Slots |-> IF p \in Editors /\ s \in fresh[p] THEN "unborn" ELSE slot[s]]
  /\ capacity' = [s \in Slots |-> IF p \in Editors /\ s \in fresh[p] THEN 0 ELSE capacity[s]]
  /\ Goto(p, "idle")
  /\ UNCHANGED <<linkVars, started, booking>>

-----------------------------------------------------------------------------
BookStep(b) ==
  \/ ResolveBookable(b)
  \/ \E s \in Slots : BookFindSlot(b, s)
  \/ BookLockSlot(b)
  \/ BookCountAndInsert(b)
  \/ BookCommit(b)

PutSlotsStep(e) ==
  \/ PutSlotsFind(e)
  \/ PutSlotsLockBegin(e)
  \/ PutSlotsLockNext(e)
  \/ PutSlotsCount(e)
  \/ PutSlotsDeleteBegin(e)
  \/ \E s \in Slots : DeleteNext(e, s)
  \/ PutSlotsDeleteEnd(e)
  \/ \E new \in SUBSET Slots : \E caps \in [new -> Capacities] : PutSlotsInsert(e, new, caps)
  \/ PutSlotsCommit(e)

DeleteBookableStep(d) ==
  \/ DeleteBookableBegin(d)
  \/ \E s \in Slots : DeleteNext(d, s)
  \/ DeleteBookableEnd(d)
  \/ DeleteBookableCommit(d)

Next ==
  \/ \E b \in Bookers : BookStep(b) \/ CancelWithToken(b) \/ CancelBooking(b)
  \/ \E e \in Editors : PutSlotsStep(e)
  \/ \E o \in Openers : OpenBookableFind(o) \/ OpenBookableMint(o)
  \/ CloseBookable
  \/ \E d \in Deleters : DeleteBookableStep(d)
  \/ \E s \in Slots : SlotStarts(s)
  \/ \E p \in Procs : Rollback(p)

Spec == Init /\ [][Next]_vars

\* A request in a transaction either takes its next statement or, when it
\* waits too long, is rolled back by the transaction timeout; a request whose
\* transaction has not begun takes its next statement.
Fairness ==
  /\ \A b \in Bookers : WF_vars(pc[b] # "idle" /\ (BookStep(b) \/ Rollback(b)))
  /\ \A e \in Editors : WF_vars(pc[e] # "idle" /\ (PutSlotsStep(e) \/ Rollback(e)))
  /\ \A d \in Deleters : WF_vars(pc[d] # "idle" /\ (DeleteBookableStep(d) \/ Rollback(d)))
  /\ \A o \in Openers : WF_vars(OpenBookableMint(o))

FairSpec == Spec /\ Fairness

-----------------------------------------------------------------------------
(* Properties.                                                              *)

\* Two phones never take the last place at once: whatever the interleaving of
\* book(), the cancellations and the slot changes, no slot has more live
\* bookings than its capacity (service.ts, "The one write with real contention").
CapacityRespected == \A s \in Slots : Cardinality(LiveOn(s)) <= capacity[s]

\* A booker who lost a race to a slot change is refused and never reaches the
\* insert with a slot that has gone, where the foreign key would turn the
\* refusal into a 500; and no committed booking is left without its slot.
BookingHasItsSlot ==
  \A b \in Bookers :
    booking[b] = "live" \/ pc[b] \in {"locked", "inserted"} => slot[sel[b]] = "live"

\* Replacing the slots never takes an appointment with it: a live booking is
\* only ever deleted together with the whole bookable.
NoAppointmentDropped ==
  [][\A b \in Bookers : booking[b] = "live" /\ booking'[b] = "deleted" => ~row'.here]_vars

\* Once a link is printed it is out of our hands: it is never re-minted, and a
\* link that has been closed does not start answering again.
LinkIsFinal ==
  [][row.token # 0 => row'.token = row.token /\ (row.closed => row'.closed)]_vars

\* p's next statement needs a row that q's transaction holds.
WaitsFor(p, q) ==
  \/ p \in Bookers /\ pc[p] = "waiting" /\ lock[sel[p]] = q
  \/ p \in Editors /\ pc[p] = "locking" /\ want[p] # {} /\ lock[First(want[p])] = q
  \/ p \in Changers /\ pc[p] = "deleting" /\ \E s \in want[p] : lock[s] = q
  \/ p \in Editors /\ pc[p] = "deleted" /\ q \in RowHolders

\* Two slot changes made at once queue behind each other: no set of requests
\* waits in a circle (graph.ts, lockSlotsOf).
NoWaitCycle ==
  \A P \in SUBSET Procs \ {{}} : \E p \in P : \A q \in P \ {p} : ~WaitsFor(p, q)

\* Every request that opened a transaction finishes it: no lock wait, and no
\* circle of them, keeps a booker or an editor waiting for ever.
EveryRequestEnds == \A p \in Bookers \cup Changers : InTransaction(p) ~> ~InTransaction(p)

\* The ledger as the committed rows show it: the places of the live slots, and
\* who has a live booking in which.
OnOffer == [s \in Slots |-> IF slot[s] = "live" THEN capacity[s] ELSE 0]
Placed  == [b \in Bookers |-> IF booking[b] = "live" THEN sel[b] ELSE None]

Ledger == INSTANCE BookingLedger WITH offered <- OnOffer, held <- Placed

\* With one slot change at a time, every behaviour of the requests is, seen from
\* the committed rows, a behaviour of the ledger.
ImplementsLedger == Ledger!Spec
=============================================================================
