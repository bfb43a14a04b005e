---------------------------- MODULE BookingProofs ---------------------------
(***************************************************************************)
(* For every set of guests, editors, openers and deleters and every set of *)
(* slots: the types of Booking's state, and that no slot is overbooked.    *)
(* While slot changes do not overlap, also that no appointment is dropped  *)
(* and that Booking implements BookingLedger.                              *)
(***************************************************************************)
EXTENDS Booking, FiniteSetTheorems, TLAPS

\* What a booker may rely on between two statements.  A booker past lockSlot
\* holds its slot, so no slot change can commit the deletion of it.
BookerHolds ==
  \A b \in Bookers : pc[b] \in {"locked", "inserted"} =>
    sel[b] \in Slots /\ lock[sel[b]] = b /\ slot[sel[b]] = "live"

\* A booker that waits or has booked has chosen a slot; a booking exists only
\* after its commit.
BookerChose ==
  \A b \in Bookers :
    /\ pc[b] = "waiting" => sel[b] \in Slots
    /\ booking[b] # "none" => sel[b] \in Slots /\ pc[b] = "booked"

\* A live booking is in a live slot.
BookingInSlot == \A b \in Bookers : booking[b] = "live" => slot[sel[b]] = "live"

\* Uncommitted slots are pending, and belong to the one editor that inserted them.
FreshIsPending ==
  /\ \A e \in Editors : \A s \in fresh[e] : slot[s] = "pending"
  /\ \A e, f \in Editors : e # f => fresh[e] \cap fresh[f] = {}

\* Only a committed slot is ever locked.
LockedIsLive == \A s \in Slots : lock[s] # None => slot[s] = "live"

Consistent == BookerHolds /\ BookerChose /\ BookingInSlot /\ FreshIsPending /\ LockedIsLive

\* A booker about to commit has counted a place that is still there: the lock
\* keeps every other insert out, and a cancellation only makes more room.
PlaceKept ==
  \A b \in Bookers : pc[b] = "inserted" => Cardinality(LiveOn(sel[b])) < capacity[sel[b]]

Rooms == PlaceKept /\ CapacityRespected

IInv == TypeOK /\ Consistent /\ Rooms

-----------------------------------------------------------------------------
LEMMA LiveOnFinite ==
  \A s : IsFiniteSet(LiveOn(s)) /\ Cardinality(LiveOn(s)) \in Nat
  BY BookersAssumption, FS_Subset, FS_CardinalityType DEF LiveOn

LEMMA LiveOnFiniteNext ==
  \A s : IsFiniteSet(LiveOn(s)') /\ Cardinality(LiveOn(s)') \in Nat
  BY BookersAssumption, FS_Subset, FS_CardinalityType DEF LiveOn

\* The initial state is typed and consistent.
LEMMA InitIInv == Init => IInv
  <1> SUFFICES ASSUME Init PROVE IInv
    OBVIOUS
  <1>1. TypeOK
    BY DEF Init, TypeOK, Procs, Changers
  <1>2. Consistent
    BY DEF Init, Consistent, BookerHolds, BookerChose, BookingInSlot, FreshIsPending, LockedIsLive, Procs
  <1>3. \A s \in Slots : LiveOn(s) = {}
    BY DEF Init, LiveOn
  <1>4. PlaceKept
    BY DEF Init, PlaceKept, Procs
  <1>5. CapacityRespected
    <2> SUFFICES ASSUME NEW s \in Slots PROVE Cardinality(LiveOn(s)) <= capacity[s]
      BY DEF CapacityRespected
    <2>1. Cardinality(LiveOn(s)) = 0
      BY <1>3, FS_EmptySet
    <2>2. capacity[s] = 0
      BY DEF Init
    <2> QED
      BY <2>1, <2>2
  <1> QED
    BY <1>1, <1>2, <1>4, <1>5 DEF IInv, Rooms

-----------------------------------------------------------------------------
LEMMA TypeStep == TypeOK /\ [Next]_vars => TypeOK'
  <1> SUFFICES ASSUME TypeOK, [Next]_vars PROVE TypeOK'
    OBVIOUS
  <1> USE DEF TypeOK, linkVars, slotVars, bookVars, workVars, Goto, Release
  <1> USE DEF Procs, Changers
  <1>1. ASSUME NEW b \in Bookers, BookStep(b) PROVE TypeOK'
    <2>1. CASE ResolveBookable(b)
      BY <2>1 DEF ResolveBookable
    <2>2. CASE \E s \in Slots : BookFindSlot(b, s)
      BY <2>2 DEF BookFindSlot
    <2>3. CASE BookLockSlot(b)
      BY <2>3 DEF BookLockSlot
    <2>4. CASE BookCountAndInsert(b)
      BY <2>4 DEF BookCountAndInsert
    <2>5. CASE BookCommit(b)
      BY <2>5 DEF BookCommit
    <2> QED
      BY <1>1, <2>1, <2>2, <2>3, <2>4, <2>5 DEF BookStep
  <1>2. ASSUME NEW b \in Bookers, CancelWithToken(b) \/ CancelBooking(b) PROVE TypeOK'
    BY <1>2 DEF CancelWithToken, CancelBooking, MarkCancelled
  <1>3. ASSUME NEW e \in Editors, PutSlotsStep(e) PROVE TypeOK'
    <2>1. CASE PutSlotsFind(e)
      BY <2>1 DEF PutSlotsFind
    <2>2. CASE PutSlotsLockBegin(e)
      BY <2>2 DEF PutSlotsLockBegin, LiveSlots
    <2>3. CASE PutSlotsLockNext(e)
      BY <2>3 DEF PutSlotsLockNext
    <2>4. CASE PutSlotsCount(e)
      BY <2>4 DEF PutSlotsCount
    <2>5. CASE PutSlotsDeleteBegin(e)
      BY <2>5 DEF PutSlotsDeleteBegin, LiveSlots
    <2>6. CASE \E s \in Slots : DeleteNext(e, s)
      BY <2>6 DEF DeleteNext
    <2>7. CASE PutSlotsDeleteEnd(e)
      BY <2>7 DEF PutSlotsDeleteEnd
    <2>8. CASE \E new \in SUBSET Slots : \E caps \in [new -> Capacities] : PutSlotsInsert(e, new, caps)
      <3>1. PICK new \in SUBSET Slots : \E caps \in [new -> Capacities] : PutSlotsInsert(e, new, caps)
        BY <2>8
      <3>2. PICK caps \in [new -> Capacities] : PutSlotsInsert(e, new, caps)
        BY <3>1
      <3>3. \A s \in new : caps[s] \in Nat
        BY SlotsAssumption
      <3>4. CASE new # {} /\ ~row.here
        BY <3>2, <3>4 DEF PutSlotsInsert
      <3>5. CASE ~(new # {} /\ ~row.here)
        <4>1. slot' \in [Slots -> {"unborn", "pending", "live", "gone"}]
          BY <3>2, <3>5 DEF PutSlotsInsert
        <4>2. capacity' \in [Slots -> Nat]
          BY <3>2, <3>3, <3>5 DEF PutSlotsInsert
        <4>3. fresh' \in [Editors -> SUBSET Slots]
          BY <3>2, <3>5 DEF PutSlotsInsert
        <4> QED
          BY <3>2, <3>5, <4>1, <4>2, <4>3 DEF PutSlotsInsert
      <3> QED
        BY <3>4, <3>5
    <2>9. CASE PutSlotsCommit(e)
      <3>1. slot' \in [Slots -> {"unborn", "pending", "live", "gone"}]
        BY <2>9 DEF PutSlotsCommit
      <3>2. booking' \in [Bookers -> {"none", "live", "cancelled", "deleted"}]
        BY <2>9 DEF PutSlotsCommit, CascadeDelete
      <3> QED
        BY <2>9, <3>1, <3>2 DEF PutSlotsCommit
    <2> QED
      BY <1>3, <2>1, <2>2, <2>3, <2>4, <2>5, <2>6, <2>7, <2>8, <2>9 DEF PutSlotsStep
  <1>4. ASSUME NEW o \in Openers, OpenBookableFind(o) \/ OpenBookableMint(o) PROVE TypeOK'
    <2>1. row' \in [here : BOOLEAN, token : Nat, closed : BOOLEAN] /\ minted' \in Nat
      <3>1. CASE OpenBookableFind(o)
        BY <3>1 DEF OpenBookableFind
      <3>2. CASE OpenBookableMint(o) /\ row.here
        <4>1. row' = [here |-> row.here, token |-> minted + 1, closed |-> FALSE]
          BY <3>2 DEF OpenBookableMint
        <4> QED
          BY <3>2, <4>1 DEF OpenBookableMint
      <3>3. CASE OpenBookableMint(o) /\ ~row.here
        BY <3>3 DEF OpenBookableMint
      <3> QED
        BY <1>4, <3>1, <3>2, <3>3
    <2>2. pc' \in [Procs -> {"idle", "resolved", "waiting", "locked", "inserted", "booked",
                             "begun", "locking", "counted", "deleting", "deleted", "replaced",
                             "minting"}]
      BY <1>4 DEF OpenBookableFind, OpenBookableMint
    <2> QED
      BY <1>4, <2>1, <2>2 DEF OpenBookableFind, OpenBookableMint
  <1>5. CASE CloseBookable
    BY <1>5 DEF CloseBookable
  <1>6. ASSUME NEW d \in Deleters, DeleteBookableStep(d) PROVE TypeOK'
    <2>1. CASE DeleteBookableBegin(d)
      BY <2>1 DEF DeleteBookableBegin, LiveSlots
    <2>2. CASE \E s \in Slots : DeleteNext(d, s)
      BY <2>2 DEF DeleteNext
    <2>3. CASE DeleteBookableEnd(d)
      BY <2>3 DEF DeleteBookableEnd
    <2>4. CASE DeleteBookableCommit(d)
      BY <2>4 DEF DeleteBookableCommit, CascadeDelete
    <2> QED
      BY <1>6, <2>1, <2>2, <2>3, <2>4 DEF DeleteBookableStep
  <1>7. ASSUME NEW s \in Slots, SlotStarts(s) PROVE TypeOK'
    BY <1>7 DEF SlotStarts
  <1>8. ASSUME NEW p \in Procs, Rollback(p) PROVE TypeOK'
    BY <1>8 DEF Rollback
  <1>9. CASE UNCHANGED vars
    BY <1>9 DEF vars
  <1> QED
    BY <1>1, <1>2, <1>3, <1>4, <1>5, <1>6, <1>7, <1>8, <1>9 DEF Next

-----------------------------------------------------------------------------
\* A step that moves no booker and leaves the slots, the locks, the bookings and
\* the uncommitted slots alone.
LEMMA ConsistentFrame ==
  ASSUME Consistent, UNCHANGED <<slot, lock, bookVars, fresh>>,
         \A b \in Bookers : pc'[b] = pc[b]
  PROVE  Consistent'
  BY DEF Consistent, BookerHolds, BookerChose, BookingInSlot, FreshIsPending, LockedIsLive, bookVars

\* A changer takes the lock of a live slot nobody else holds.
LEMMA ConsistentChangerLocks ==
  ASSUME TypeOK, Consistent, NEW p \in Changers, NEW s, Free(s, p),
         lock' = IF slot[s] = "live" THEN [lock EXCEPT ![s] = p] ELSE lock,
         UNCHANGED <<slot, bookVars, fresh, pc>>
  PROVE  Consistent'
  <1>1. \A b \in Bookers : b # p /\ b # None
    BY BookersAssumption, SlotsAssumption DEF Procs
  <1>2. \A r \in Slots : r = s \/ lock'[r] = lock[r]
    BY DEF TypeOK
  <1>3. \A b \in Bookers : lock[s] # b
    BY <1>1 DEF Free
  <1>4. BookerHolds'
    BY <1>2, <1>3 DEF Consistent, BookerHolds, bookVars
  <1>5. LockedIsLive'
    BY <1>2 DEF Consistent, LockedIsLive
  <1> QED
    BY <1>4, <1>5 DEF Consistent, BookerChose, BookingInSlot, FreshIsPending, bookVars

\* What letting go of p's locks leaves to everybody else.
LEMMA ReleaseKeeps ==
  ASSUME TypeOK, NEW p \in Procs, Release(p)
  PROVE  \A s \in Slots : /\ lock[s] # p => lock'[s] = lock[s]
                          /\ lock'[s] # p
                          /\ lock'[s] # None => lock'[s] = lock[s]
  BY SlotsAssumption DEF TypeOK, Release

\* A request gives up: it releases its locks, and if it is a booker it forgets its slot.
LEMMA ConsistentGivesUp ==
  ASSUME TypeOK, Consistent, NEW p \in Procs, Release(p),
         \A b \in Bookers : b # p => pc'[b] = pc[b] /\ sel'[b] = sel[b],
         p \in Bookers => pc[p] # "booked" /\ pc'[p] = "idle",
         UNCHANGED <<slot, booking, fresh>>
  PROVE  Consistent'
  <1>1. BookerHolds'
    <2> SUFFICES ASSUME NEW c \in Bookers, pc'[c] \in {"locked", "inserted"}
                 PROVE  sel'[c] \in Slots /\ lock'[sel'[c]] = c /\ slot'[sel'[c]] = "live"
      BY DEF BookerHolds
    <2>1. c # p /\ sel'[c] = sel[c] /\ pc[c] \in {"locked", "inserted"}
      OBVIOUS
    <2>2. sel[c] \in Slots /\ lock[sel[c]] = c /\ slot[sel[c]] = "live"
      BY <2>1 DEF Consistent, BookerHolds
    <2> QED
      BY <2>1, <2>2, ReleaseKeeps
  <1>2. \A b \in Bookers : b = p => booking[b] = "none"
    BY DEF Consistent, BookerChose, TypeOK
  <1>3. BookerChose'
    BY <1>2 DEF Consistent, BookerChose
  <1>4. BookingInSlot'
    BY <1>2 DEF Consistent, BookingInSlot
  <1>5. LockedIsLive'
    BY ReleaseKeeps DEF Consistent, LockedIsLive
  <1> QED
    BY <1>1, <1>3, <1>4, <1>5 DEF Consistent, FreshIsPending

\* A changer commits: the rows it holds are gone, the bookings in them deleted,
\* and the slots it inserted are live.
LEMMA ConsistentChangerCommits ==
  ASSUME TypeOK, Consistent, NEW p \in Changers, NEW mine \in SUBSET Slots,
         mine = IF p \in Editors THEN fresh[p] ELSE {},
         slot' = [s \in Slots |-> IF s \in HeldBy(p) THEN "gone"
                                  ELSE IF s \in mine THEN "live" ELSE slot[s]],
         \A e \in Editors : fresh'[e] = IF e = p THEN {} ELSE fresh[e],
         CascadeDelete(p), Release(p), sel' = sel,
         \A b \in Bookers : pc'[b] = pc[b]
  PROVE  Consistent'
  <1>1. p \in Procs /\ \A b \in Bookers : b # p
    BY BookersAssumption DEF Procs
  <1>2. \A s \in Slots : /\ slot[s] = "live" /\ lock[s] # p => slot'[s] = "live"
                         /\ slot[s] = "pending" /\ s \notin mine => slot'[s] = "pending"
                         /\ lock[s] = p => slot[s] = "live"
    BY <1>1, SlotsAssumption DEF HeldBy, Consistent, LockedIsLive
  <1>3. BookerHolds'
    <2> SUFFICES ASSUME NEW c \in Bookers, pc[c] \in {"locked", "inserted"}
                 PROVE  sel[c] \in Slots /\ lock'[sel[c]] = c /\ slot'[sel[c]] = "live"
      BY DEF BookerHolds
    <2>1. sel[c] \in Slots /\ lock[sel[c]] = c /\ slot[sel[c]] = "live"
      BY DEF Consistent, BookerHolds
    <2> QED
      BY <1>1, <1>2, <2>1, ReleaseKeeps
  <1>4. BookerChose'
    <2>1. \A b \in Bookers : booking'[b] # "none" => booking[b] # "none"
      BY DEF CascadeDelete
    <2> QED
      BY <2>1 DEF Consistent, BookerChose
  <1>5. BookingInSlot'
    <2> SUFFICES ASSUME NEW b \in Bookers, booking'[b] = "live" PROVE slot'[sel[b]] = "live"
      BY DEF BookingInSlot
    <2>1. booking[b] = "live" /\ sel[b] \notin HeldBy(p)
      BY DEF CascadeDelete
    <2>2. sel[b] \in Slots /\ slot[sel[b]] = "live"
      BY <2>1 DEF Consistent, BookingInSlot, BookerChose
    <2> QED
      BY <1>2, <2>1, <2>2 DEF HeldBy
  <1>6. FreshIsPending'
    <2> SUFFICES ASSUME NEW e \in Editors, e # p
                 PROVE  \A s \in fresh[e] : slot'[s] = "pending"
      BY DEF FreshIsPending, Consistent
    <2>1. fresh[e] \subseteq Slots /\ fresh[e] \cap mine = {}
      BY DEF TypeOK, Consistent, FreshIsPending
    <2> QED
      BY <1>2, <2>1 DEF Consistent, FreshIsPending
  <1>7. LockedIsLive'
    <2> SUFFICES ASSUME NEW s \in Slots, lock'[s] # None PROVE slot'[s] = "live"
      BY DEF LockedIsLive
    <2>1. lock[s] = lock'[s] /\ lock[s] # p
      BY <1>1, ReleaseKeeps
    <2>2. slot[s] = "live"
      BY <2>1 DEF Consistent, LockedIsLive
    <2> QED
      BY <1>2, <2>1, <2>2
  <1> QED
    BY <1>3, <1>4, <1>5, <1>6, <1>7 DEF Consistent

LEMMA ConsistentBookStep ==
  ASSUME TypeOK, Consistent, NEW b \in Bookers, BookStep(b)
  PROVE  Consistent'
  <1> USE DEF slotVars, bookVars, workVars, Goto
  <1>0. b \in Procs /\ b # None /\ \A c \in Bookers : c \in Procs
    BY SlotsAssumption DEF Procs
  <1>1. CASE ResolveBookable(b)
    BY <1>1 DEF ResolveBookable, TypeOK, Consistent, BookerHolds, BookerChose, BookingInSlot,
                FreshIsPending, LockedIsLive
  <1>2. CASE \E s \in Slots : BookFindSlot(b, s)
    <2>1. pc[b] = "resolved" /\ booking[b] = "none"
      BY <1>2 DEF BookFindSlot, TypeOK, Consistent, BookerChose
    <2>2. /\ UNCHANGED <<slot, booking, lock, fresh>>
          /\ \A c \in Bookers : c # b => pc'[c] = pc[c] /\ sel'[c] = sel[c]
          /\ pc'[b] \in {"idle", "waiting"}
          /\ pc'[b] = "waiting" => sel'[b] \in Slots
      BY <1>0, <1>2 DEF BookFindSlot, TypeOK
    <2> QED
      BY <2>1, <2>2 DEF Consistent, BookerHolds, BookerChose, BookingInSlot, FreshIsPending,
                        LockedIsLive
  <1>3. CASE BookLockSlot(b)
    <2>0. sel[b] \in Slots /\ booking[b] = "none"
      BY <1>3 DEF BookLockSlot, TypeOK, Consistent, BookerChose
    <2>1. \A c \in Bookers : c # b => pc'[c] = pc[c] /\ sel'[c] = sel[c]
      BY <1>0, <1>3 DEF BookLockSlot, TypeOK
    <2>2. CASE slot[sel[b]] = "live"
      <3>1. /\ lock' = [lock EXCEPT ![sel[b]] = b] /\ sel' = sel
            /\ pc'[b] = "locked" /\ slot' = slot /\ booking' = booking /\ fresh' = fresh
        BY <1>0, <1>3, <2>2 DEF BookLockSlot, TypeOK
      <3>2. \A c \in Bookers : c # b /\ pc[c] \in {"locked", "inserted"} => sel[c] # sel[b]
        BY <1>3, SlotsAssumption DEF BookLockSlot, Consistent, BookerHolds, Procs
      <3>3. BookerHolds'
        BY <2>0, <2>1, <2>2, <3>1, <3>2 DEF TypeOK, Consistent, BookerHolds
      <3>4. BookerChose'
        BY <2>0, <2>1, <3>1 DEF Consistent, BookerChose
      <3>5. LockedIsLive'
        BY <2>2, <3>1 DEF TypeOK, Consistent, LockedIsLive
      <3> QED
        BY <3>1, <3>3, <3>4, <3>5 DEF Consistent, BookingInSlot, FreshIsPending
    <2>3. CASE slot[sel[b]] # "live"
      <3>1. /\ lock' = lock /\ slot' = slot /\ booking' = booking /\ fresh' = fresh
            /\ pc'[b] = "idle"
        BY <1>0, <1>3, <2>3 DEF BookLockSlot, TypeOK
      <3> QED
        BY <2>0, <2>1, <3>1 DEF Consistent, BookerHolds, BookerChose, BookingInSlot,
                                FreshIsPending, LockedIsLive
    <2> QED
      BY <2>2, <2>3
  <1>4. CASE BookCountAndInsert(b)
    <2>1. CASE Cardinality(LiveOn(sel[b])) >= capacity[sel[b]]
      <3>1. /\ pc[b] = "locked" /\ Release(b) /\ pc'[b] = "idle"
            /\ \A c \in Bookers : c # b => pc'[c] = pc[c] /\ sel'[c] = sel[c]
            /\ UNCHANGED <<slot, booking, fresh>>
        BY <1>0, <1>4, <2>1 DEF BookCountAndInsert, TypeOK
      <3> QED
        BY <1>0, <3>1, ConsistentGivesUp
    <2>2. CASE ~(Cardinality(LiveOn(sel[b])) >= capacity[sel[b]])
      <3>1. /\ pc[b] = "locked" /\ pc' = [pc EXCEPT ![b] = "inserted"]
            /\ UNCHANGED <<slot, booking, sel, lock, fresh>>
        BY <1>4, <2>2 DEF BookCountAndInsert
      <3> QED
        BY <1>0, <3>1 DEF TypeOK, Consistent, BookerHolds, BookerChose, BookingInSlot,
                          FreshIsPending, LockedIsLive
    <2> QED
      BY <2>1, <2>2
  <1>5. CASE BookCommit(b)
    <2>1. sel[b] \in Slots /\ slot[sel[b]] = "live"
      BY <1>5 DEF BookCommit, Consistent, BookerHolds
    <2>2. /\ pc' = [pc EXCEPT ![b] = "booked"] /\ booking' = [booking EXCEPT ![b] = "live"]
          /\ sel' = sel /\ slot' = slot /\ fresh' = fresh /\ Release(b)
      BY <1>5 DEF BookCommit
    <2>3. BookerHolds'
      <3> SUFFICES ASSUME NEW c \in Bookers, pc'[c] \in {"locked", "inserted"}
                   PROVE  sel[c] \in Slots /\ lock'[sel[c]] = c /\ slot[sel[c]] = "live"
        BY <2>2 DEF BookerHolds
      <3>1. c # b /\ pc[c] \in {"locked", "inserted"}
        BY <1>0, <2>2 DEF TypeOK
      <3>2. sel[c] \in Slots /\ lock[sel[c]] = c /\ slot[sel[c]] = "live"
        BY <3>1 DEF Consistent, BookerHolds
      <3> QED
        BY <1>0, <2>2, <3>1, <3>2, ReleaseKeeps
    <2>4. BookerChose' /\ BookingInSlot'
      BY <1>0, <2>1, <2>2 DEF TypeOK, Consistent, BookerChose, BookingInSlot, Procs
    <2>5. LockedIsLive'
      BY <1>0, <2>2, ReleaseKeeps DEF Consistent, LockedIsLive
    <2> QED
      BY <2>2, <2>3, <2>4, <2>5 DEF Consistent, FreshIsPending
  <1> QED
    BY <1>1, <1>2, <1>3, <1>4, <1>5 DEF BookStep

LEMMA ConsistentInsert ==
  ASSUME TypeOK, Consistent, NEW e \in Editors, NEW new \in SUBSET Slots,
         NEW caps \in [new -> Capacities], PutSlotsInsert(e, new, caps)
  PROVE  Consistent'
  <1> USE DEF bookVars, Goto
  <1>0. e \in Procs /\ e \notin Bookers /\ \A b \in Bookers : b \in Procs
    BY BookersAssumption DEF Procs, Changers
  <1>1. \A b \in Bookers : pc'[b] = pc[b]
    BY <1>0 DEF PutSlotsInsert, TypeOK
  <1>2. CASE new # {} /\ ~row.here
    BY <1>0, <1>1, <1>2, ConsistentGivesUp DEF PutSlotsInsert, slotVars
  <1>3. CASE ~(new # {} /\ ~row.here)
    <2>1. /\ \A s \in new : slot[s] = "unborn" /\ slot'[s] = "pending"
          /\ \A s \in Slots \ new : slot'[s] = slot[s]
          /\ lock' = lock /\ sel' = sel /\ booking' = booking
      BY <1>3 DEF PutSlotsInsert
    <2>2. fresh'[e] = new /\ \A f \in Editors \ {e} : fresh'[f] = fresh[f]
      BY <1>3 DEF PutSlotsInsert, TypeOK
    <2>3. \A f \in Editors : fresh[f] \subseteq Slots /\ fresh[f] \cap new = {}
      BY <2>1 DEF TypeOK, Consistent, FreshIsPending
    <2>4. \A s \in Slots : slot[s] = "live" => slot'[s] = "live"
      BY <2>1
    <2>5. BookerHolds' /\ BookerChose' /\ BookingInSlot' /\ LockedIsLive'
      BY <1>1, <2>1, <2>4 DEF Consistent, BookerHolds, BookerChose, BookingInSlot, LockedIsLive
    <2>6. FreshIsPending'
      <3>1. ASSUME NEW f \in Editors, NEW s \in fresh'[f] PROVE slot'[s] = "pending"
        BY <2>1, <2>2, <2>3, <3>1 DEF Consistent, FreshIsPending
      <3>2. ASSUME NEW f \in Editors, NEW g \in Editors, f # g PROVE fresh'[f] \cap fresh'[g] = {}
        BY <2>2, <2>3, <3>2 DEF Consistent, FreshIsPending
      <3> QED
        BY <3>1, <3>2 DEF FreshIsPending
    <2> QED
      BY <2>5, <2>6 DEF Consistent
  <1> QED
    BY <1>2, <1>3

LEMMA ConsistentRollback ==
  ASSUME TypeOK, Consistent, NEW p \in Procs, Rollback(p)
  PROVE  Consistent'
  <1>1. /\ Release(p) /\ booking' = booking
        /\ \A b \in Bookers : b # p => pc'[b] = pc[b] /\ sel'[b] = sel[b]
        /\ p \in Bookers => pc[p] # "booked" /\ pc'[p] = "idle"
    BY DEF Rollback, InTransaction, TypeOK, Goto, Procs
  <1>2. \A s \in Slots : slot'[s] = IF p \in Editors /\ s \in fresh[p] THEN "unborn" ELSE slot[s]
    BY DEF Rollback
  <1>3. \A e \in Editors : fresh'[e] = IF e = p THEN {} ELSE fresh[e]
    BY DEF Rollback
  <1>4. \A s \in Slots : slot[s] = "live" => slot'[s] = "live"
    BY <1>2 DEF Consistent, FreshIsPending
  <1>5. \A b \in Bookers : b = p => booking[b] = "none"
    BY <1>1 DEF Consistent, BookerChose, TypeOK
  <1>6. BookerHolds'
    <2> SUFFICES ASSUME NEW c \in Bookers, pc'[c] \in {"locked", "inserted"}
                 PROVE  sel'[c] \in Slots /\ lock'[sel'[c]] = c /\ slot'[sel'[c]] = "live"
      BY DEF BookerHolds
    <2>1. c # p /\ sel'[c] = sel[c] /\ pc[c] \in {"locked", "inserted"}
      BY <1>1
    <2>2. sel[c] \in Slots /\ lock[sel[c]] = c /\ slot[sel[c]] = "live"
      BY <2>1 DEF Consistent, BookerHolds
    <2> QED
      BY <1>1, <1>4, <2>1, <2>2, ReleaseKeeps
  <1>7. BookerChose'
    BY <1>1, <1>5 DEF Consistent, BookerChose
  <1>8. BookingInSlot'
    <2> SUFFICES ASSUME NEW b \in Bookers, booking[b] = "live" PROVE slot'[sel'[b]] = "live"
      BY <1>1 DEF BookingInSlot
    <2>1. sel'[b] = sel[b] /\ sel[b] \in Slots /\ slot[sel[b]] = "live"
      BY <1>1, <1>5 DEF Consistent, BookingInSlot, BookerChose
    <2> QED
      BY <1>4, <2>1
  <1>9. FreshIsPending'
    <2>1. ASSUME NEW e \in Editors, NEW s \in fresh'[e] PROVE slot'[s] = "pending"
      <3>1. e # p /\ s \in fresh[e] /\ s \in Slots
        BY <1>3, <2>1 DEF TypeOK
      <3>2. p \in Editors => s \notin fresh[p]
        BY <3>1 DEF Consistent, FreshIsPending
      <3> QED
        BY <1>2, <3>1, <3>2 DEF Consistent, FreshIsPending
    <2>2. ASSUME NEW e \in Editors, NEW f \in Editors, e # f PROVE fresh'[e] \cap fresh'[f] = {}
      BY <1>3, <2>2 DEF Consistent, FreshIsPending
    <2> QED
      BY <2>1, <2>2 DEF FreshIsPending
  <1>10. LockedIsLive'
    BY <1>1, <1>4, ReleaseKeeps DEF Consistent, LockedIsLive
  <1> QED
    BY <1>6, <1>7, <1>8, <1>9, <1>10 DEF Consistent

LEMMA ConsistentStep == TypeOK /\ Consistent /\ [Next]_vars => Consistent'
  <1> SUFFICES ASSUME TypeOK, Consistent, [Next]_vars PROVE Consistent'
    OBVIOUS
  <1> USE DEF slotVars, bookVars, workVars, Goto
  <1>1. ASSUME NEW b \in Bookers, BookStep(b) PROVE Consistent'
    BY <1>1, ConsistentBookStep
  <1>2. ASSUME NEW b \in Bookers, CancelWithToken(b) \/ CancelBooking(b) PROVE Consistent'
    <2>1. /\ booking[b] = "live" /\ booking' = [booking EXCEPT ![b] = "cancelled"]
          /\ UNCHANGED <<slot, sel, lock, fresh, pc>>
      BY <1>2 DEF CancelWithToken, CancelBooking, MarkCancelled
    <2> QED
      BY <2>1 DEF TypeOK, Consistent, BookerHolds, BookerChose, BookingInSlot, FreshIsPending,
                  LockedIsLive
  <1>3. ASSUME NEW e \in Editors, PutSlotsStep(e) PROVE Consistent'
    <2>0. e \in Procs /\ e \in Changers /\ e \notin Bookers /\ \A b \in Bookers : b \in Procs
      BY BookersAssumption DEF Procs, Changers
    <2>1. CASE PutSlotsFind(e) \/ PutSlotsLockBegin(e) \/ PutSlotsDeleteBegin(e) \/ PutSlotsDeleteEnd(e)
      BY <2>0, <2>1, ConsistentFrame
         DEF PutSlotsFind, PutSlotsLockBegin, PutSlotsDeleteBegin, PutSlotsDeleteEnd, TypeOK
    <2>2. CASE PutSlotsLockNext(e)
      BY <2>0, <2>2, ConsistentChangerLocks DEF PutSlotsLockNext
    <2>3. CASE PutSlotsCount(e)
      <3>1. CASE \E s \in LiveSlots : LiveOn(s) # {}
        BY <2>0, <2>3, <3>1, ConsistentGivesUp DEF PutSlotsCount, TypeOK
      <3>2. CASE ~\E s \in LiveSlots : LiveOn(s) # {}
        BY <2>0, <2>3, <3>2, ConsistentFrame DEF PutSlotsCount, TypeOK
      <3> QED
        BY <3>1, <3>2
    <2>4. CASE \E s \in Slots : DeleteNext(e, s)
      BY <2>0, <2>4, ConsistentChangerLocks DEF DeleteNext
    <2>5. CASE \E new \in SUBSET Slots : \E caps \in [new -> Capacities] : PutSlotsInsert(e, new, caps)
      BY <2>5, ConsistentInsert
    <2>6. CASE PutSlotsCommit(e)
      <3>1. fresh[e] \in SUBSET Slots
        BY DEF TypeOK
      <3> QED
        BY <2>0, <2>6, <3>1, ConsistentChangerCommits DEF PutSlotsCommit, TypeOK
    <2> QED
      BY <1>3, <2>1, <2>2, <2>3, <2>4, <2>5, <2>6 DEF PutSlotsStep
  <1>4. ASSUME NEW o \in Openers, OpenBookableFind(o) \/ OpenBookableMint(o) PROVE Consistent'
    <2>1. \A b \in Bookers : b \in Procs /\ b # o
      BY BookersAssumption DEF Procs
    <2> QED
      BY <1>4, <2>1, ConsistentFrame DEF OpenBookableFind, OpenBookableMint, TypeOK
  <1>5. CASE CloseBookable
    BY <1>5, ConsistentFrame DEF CloseBookable
  <1>6. ASSUME NEW d \in Deleters, DeleteBookableStep(d) PROVE Consistent'
    <2>0. d \in Procs /\ d \in Changers /\ d \notin Editors /\ d \notin Bookers
          /\ \A b \in Bookers : b \in Procs
      BY BookersAssumption DEF Procs, Changers
    <2>1. CASE DeleteBookableBegin(d) \/ DeleteBookableEnd(d)
      BY <2>0, <2>1, ConsistentFrame DEF DeleteBookableBegin, DeleteBookableEnd, TypeOK
    <2>2. CASE \E s \in Slots : DeleteNext(d, s)
      BY <2>0, <2>2, ConsistentChangerLocks DEF DeleteNext
    <2>3. CASE DeleteBookableCommit(d)
      <3>1. slot' = [s \in Slots |-> IF s \in HeldBy(d) THEN "gone"
                                     ELSE IF s \in {} THEN "live" ELSE slot[s]]
        BY <2>3 DEF DeleteBookableCommit
      <3>2. /\ \A f \in Editors : fresh'[f] = IF f = d THEN {} ELSE fresh[f]
            /\ \A b \in Bookers : pc'[b] = pc[b]
            /\ CascadeDelete(d) /\ Release(d) /\ sel' = sel
        BY <2>0, <2>3 DEF DeleteBookableCommit, TypeOK
      <3>3. {} \in SUBSET Slots /\ {} = IF d \in Editors THEN fresh[d] ELSE {}
        BY <2>0
      <3> QED
        BY <2>0, <3>1, <3>2, <3>3, ConsistentChangerCommits
    <2> QED
      BY <1>6, <2>1, <2>2, <2>3 DEF DeleteBookableStep
  <1>7. ASSUME NEW s \in Slots, SlotStarts(s) PROVE Consistent'
    BY <1>7, ConsistentFrame DEF SlotStarts
  <1>8. ASSUME NEW p \in Procs, Rollback(p) PROVE Consistent'
    BY <1>8, ConsistentRollback
  <1>9. CASE UNCHANGED vars
    BY <1>9, ConsistentFrame DEF vars
  <1> QED
    BY <1>1, <1>2, <1>3, <1>4, <1>5, <1>6, <1>7, <1>8, <1>9 DEF Next

-----------------------------------------------------------------------------
\* The rooms are kept by a step that adds no booking, sends no booker to its
\* insert and keeps the capacity of the slots in use.
LEMMA RoomsFrame ==
  ASSUME TypeOK, TypeOK', Consistent, Rooms,
         \A b \in Bookers : booking'[b] = "live" => booking[b] = "live" /\ sel'[b] = sel[b],
         \A b \in Bookers : pc'[b] = "inserted" => pc[b] = "inserted" /\ sel'[b] = sel[b],
         \A s \in Slots : slot[s] = "live" => capacity'[s] = capacity[s]
  PROVE  Rooms'
  <1>1. \A s \in Slots : LiveOn(s)' \subseteq LiveOn(s)
    BY DEF LiveOn
  <1>2. \A s \in Slots : Cardinality(LiveOn(s)') <= Cardinality(LiveOn(s))
    BY <1>1, LiveOnFinite, FS_Subset
  <1>3. PlaceKept'
    <2> SUFFICES ASSUME NEW b \in Bookers, pc'[b] = "inserted"
                 PROVE  Cardinality(LiveOn(sel[b])') < capacity'[sel[b]]
      BY DEF PlaceKept, LiveOn
    <2>1. sel[b] \in Slots /\ slot[sel[b]] = "live" /\ pc[b] = "inserted"
      BY DEF Consistent, BookerHolds
    <2>2. Cardinality(LiveOn(sel[b])) < capacity[sel[b]]
      BY <2>1 DEF Rooms, PlaceKept
    <2> QED
      BY <1>2, <2>1, <2>2, LiveOnFinite, LiveOnFiniteNext DEF TypeOK
  <1>4. CapacityRespected'
    <2> SUFFICES ASSUME NEW s \in Slots
                 PROVE  Cardinality(LiveOn(s)') <= capacity'[s]
      BY DEF CapacityRespected
    <2>1. CASE slot[s] = "live"
      BY <1>2, <2>1, LiveOnFinite, LiveOnFiniteNext DEF TypeOK, Rooms, CapacityRespected
    <2>2. CASE slot[s] # "live"
      <3>1. LiveOn(s)' = {}
        BY <1>1, <2>2 DEF LiveOn, Consistent, BookingInSlot
      <3>2. Cardinality(LiveOn(s)') = 0
        BY <3>1, FS_EmptySet
      <3> QED
        BY <3>2 DEF TypeOK
    <2> QED
      BY <2>1, <2>2
  <1> QED
    BY <1>3, <1>4 DEF Rooms

LEMMA RoomsStep == TypeOK /\ Consistent /\ Rooms /\ [Next]_vars => Rooms'
  <1> SUFFICES ASSUME TypeOK, Consistent, Rooms, [Next]_vars PROVE Rooms'
    OBVIOUS
  <1>0. TypeOK' /\ Consistent' /\ \A b \in Bookers : b \in Procs
    BY TypeStep, ConsistentStep DEF Procs
  <1> USE DEF slotVars, bookVars, workVars, Goto
  <1>1. ASSUME NEW b \in Bookers, BookStep(b) PROVE Rooms'
    <2>1. CASE ResolveBookable(b) \/ BookLockSlot(b) \/ \E s \in Slots : BookFindSlot(b, s)
      <3>1. pc[b] # "inserted" /\ pc'[b] # "inserted" /\ booking[b] = "none"
        BY <1>0, <2>1 DEF ResolveBookable, BookLockSlot, BookFindSlot, TypeOK, Consistent, BookerChose
      <3>2. \A c \in Bookers : c # b => pc'[c] = pc[c] /\ sel'[c] = sel[c]
        BY <1>0, <2>1 DEF ResolveBookable, BookLockSlot, BookFindSlot, TypeOK
      <3>3. UNCHANGED <<booking, capacity>>
        BY <2>1 DEF ResolveBookable, BookLockSlot, BookFindSlot
      <3> QED
        BY <1>0, <3>1, <3>2, <3>3, RoomsFrame
    <2>2. CASE BookCountAndInsert(b) /\ Cardinality(LiveOn(sel[b])) >= capacity[sel[b]]
      <3>1. pc'[b] = "idle" /\ booking[b] = "none"
        BY <1>0, <2>2 DEF BookCountAndInsert, TypeOK, Consistent, BookerChose
      <3>2. \A c \in Bookers : c # b => pc'[c] = pc[c] /\ sel'[c] = sel[c]
        BY <1>0, <2>2 DEF BookCountAndInsert, TypeOK
      <3>3. UNCHANGED <<booking, capacity>>
        BY <2>2 DEF BookCountAndInsert
      <3> QED
        BY <1>0, <3>1, <3>2, <3>3, RoomsFrame
    <2>3. CASE BookCountAndInsert(b) /\ ~(Cardinality(LiveOn(sel[b])) >= capacity[sel[b]])
      <3>1. pc' = [pc EXCEPT ![b] = "inserted"] /\ UNCHANGED <<booking, sel, capacity>> /\ pc[b] = "locked"
        BY <2>3 DEF BookCountAndInsert
      <3>2. \A s : LiveOn(s)' = LiveOn(s)
        BY <3>1 DEF LiveOn
      <3>3. sel[b] \in Slots /\ Cardinality(LiveOn(sel[b])) < capacity[sel[b]]
        BY <2>3, <3>1, LiveOnFinite DEF Consistent, BookerHolds, TypeOK
      <3>4. PlaceKept'
        <4> SUFFICES ASSUME NEW c \in Bookers, pc'[c] = "inserted"
                     PROVE  Cardinality(LiveOn(sel[c])) < capacity[sel[c]]
          BY <3>1, <3>2 DEF PlaceKept
        <4> QED
          BY <1>0, <3>1, <3>3 DEF TypeOK, Rooms, PlaceKept
      <3> QED
        BY <3>1, <3>2, <3>4 DEF Rooms, CapacityRespected
    <2>4. CASE BookCommit(b)
      <3>1. /\ pc[b] = "inserted" /\ pc'[b] = "booked" /\ UNCHANGED <<sel, capacity>>
            /\ \A c \in Bookers : c # b => pc'[c] = pc[c] /\ booking'[c] = booking[c]
            /\ booking'[b] = "live"
        BY <1>0, <2>4 DEF BookCommit, TypeOK
      <3>2. LiveOn(sel[b])' = LiveOn(sel[b]) \cup {b} /\ \A s : s # sel[b] => LiveOn(s)' = LiveOn(s)
        BY <3>1 DEF LiveOn
      <3>3. b \notin LiveOn(sel[b])
        BY <3>1 DEF LiveOn, Consistent, BookerChose
      <3>4. Cardinality(LiveOn(sel[b])') = Cardinality(LiveOn(sel[b])) + 1
        <4>1. IsFiniteSet(LiveOn(sel[b]))
          BY LiveOnFinite
        <4>2. Cardinality(LiveOn(sel[b]) \cup {b}) = Cardinality(LiveOn(sel[b])) + 1
          BY <3>3, <4>1, FS_AddElement
        <4> QED
          BY <3>2, <4>2
      <3>5. sel[b] \in Slots /\ Cardinality(LiveOn(sel[b])) < capacity[sel[b]]
        <4>1. sel[b] \in Slots
          BY <3>1 DEF Consistent, BookerHolds
        <4>2. Cardinality(LiveOn(sel[b])) < capacity[sel[b]]
          BY <3>1 DEF Rooms, PlaceKept
        <4> QED
          BY <4>1, <4>2
      <3>6. CapacityRespected'
        <4> SUFFICES ASSUME NEW s \in Slots PROVE Cardinality(LiveOn(s)') <= capacity[s]
          BY <3>1 DEF CapacityRespected
        <4>1. CASE s = sel[b]
          BY <3>1, <3>4, <3>5, <4>1, LiveOnFinite DEF TypeOK
        <4>2. CASE s # sel[b]
          BY <3>2, <4>2 DEF Rooms, CapacityRespected
        <4> QED
          BY <4>1, <4>2
      <3>7. PlaceKept'
        <4> SUFFICES ASSUME NEW c \in Bookers, pc'[c] = "inserted"
                     PROVE  Cardinality(LiveOn(sel[c])') < capacity[sel[c]]
          BY <3>1 DEF PlaceKept, LiveOn
        <4>1. c # b /\ pc[c] = "inserted"
          BY <3>1
        <4>2. sel[c] # sel[b]
          BY <3>1, <4>1 DEF Consistent, BookerHolds
        <4> QED
          BY <3>1, <3>2, <4>1, <4>2 DEF Rooms, PlaceKept
      <3> QED
        BY <3>6, <3>7 DEF Rooms
    <2> QED
      BY <1>1, <2>1, <2>2, <2>3, <2>4 DEF BookStep
  <1>2. ASSUME NEW b \in Bookers, CancelWithToken(b) \/ CancelBooking(b) PROVE Rooms'
    <2>1. booking' = [booking EXCEPT ![b] = "cancelled"] /\ UNCHANGED <<sel, capacity, pc>>
      BY <1>2 DEF CancelWithToken, CancelBooking, MarkCancelled
    <2> QED
      BY <1>0, <2>1, RoomsFrame DEF TypeOK
  <1>3. ASSUME NEW e \in Editors, PutSlotsStep(e) PROVE Rooms'
    <2>1. e \in Procs /\ e \notin Bookers
      BY BookersAssumption DEF Procs, Changers
    <2>2. CASE ~\E new \in SUBSET Slots : \E caps \in [new -> Capacities] : PutSlotsInsert(e, new, caps)
      <3>1. /\ sel' = sel /\ capacity' = capacity
            /\ \A b \in Bookers : pc'[b] = pc[b] /\ (booking'[b] = "live" => booking[b] = "live")
        BY <1>0, <1>3, <2>1, <2>2
           DEF PutSlotsStep, PutSlotsFind, PutSlotsLockBegin, PutSlotsLockNext, PutSlotsCount,
               PutSlotsDeleteBegin, DeleteNext, PutSlotsDeleteEnd, PutSlotsCommit, CascadeDelete, TypeOK
      <3> QED
        BY <1>0, <3>1, RoomsFrame
    <2>3. ASSUME NEW new \in SUBSET Slots, NEW caps \in [new -> Capacities], PutSlotsInsert(e, new, caps)
          PROVE  Rooms'
      <3>1. /\ UNCHANGED <<sel, booking>> /\ \A b \in Bookers : pc'[b] = pc[b]
            /\ \A s \in Slots : slot[s] = "live" => capacity'[s] = capacity[s]
        BY <1>0, <2>1, <2>3 DEF PutSlotsInsert, TypeOK
      <3> QED
        BY <1>0, <3>1, RoomsFrame
    <2> QED
      BY <2>2, <2>3
  <1>4. ASSUME NEW o \in Openers, OpenBookableFind(o) \/ OpenBookableMint(o) PROVE Rooms'
    <2>1. /\ UNCHANGED <<sel, booking, capacity>> /\ \A b \in Bookers : pc'[b] = pc[b]
      BY <1>0, <1>4, BookersAssumption DEF OpenBookableFind, OpenBookableMint, TypeOK
    <2> QED
      BY <1>0, <2>1, RoomsFrame
  <1>5. CASE CloseBookable
    BY <1>0, <1>5, RoomsFrame DEF CloseBookable
  <1>6. ASSUME NEW d \in Deleters, DeleteBookableStep(d) PROVE Rooms'
    <2>1. d \in Procs /\ d \notin Bookers
      BY BookersAssumption DEF Procs, Changers
    <2>2. /\ sel' = sel /\ capacity' = capacity
          /\ \A b \in Bookers : pc'[b] = pc[b] /\ (booking'[b] = "live" => booking[b] = "live")
      BY <1>0, <1>6, <2>1
         DEF DeleteBookableStep, DeleteBookableBegin, DeleteNext, DeleteBookableEnd,
             DeleteBookableCommit, CascadeDelete, TypeOK
    <2> QED
      BY <1>0, <2>2, RoomsFrame
  <1>7. ASSUME NEW s \in Slots, SlotStarts(s) PROVE Rooms'
    BY <1>0, <1>7, RoomsFrame DEF SlotStarts
  <1>8. ASSUME NEW p \in Procs, Rollback(p) PROVE Rooms'
    <2>1. booking' = booking /\ \A b \in Bookers : b # p => sel'[b] = sel[b] /\ pc'[b] = pc[b]
      BY <1>0, <1>8 DEF Rollback, TypeOK
    <2>2. \A b \in Bookers : b = p => pc'[b] = "idle" /\ booking[b] = "none"
      BY <1>0, <1>8 DEF Rollback, InTransaction, TypeOK, Consistent, BookerChose, Procs
    <2>3. \A s \in Slots : slot[s] = "live" => capacity'[s] = capacity[s]
      BY <1>8 DEF Rollback, Consistent, FreshIsPending
    <2> QED
      BY <1>0, <2>1, <2>2, <2>3, RoomsFrame
  <1>9. CASE UNCHANGED vars
    BY <1>0, <1>9, RoomsFrame DEF vars
  <1> QED
    BY <1>1, <1>2, <1>3, <1>4, <1>5, <1>6, <1>7, <1>8, <1>9 DEF Next

\* The three parts together are inductive.
LEMMA Inductive == Spec => []IInv
  <1>1. IInv /\ [Next]_vars => IInv'
    BY TypeStep, ConsistentStep, RoomsStep DEF IInv
  <1> QED
    BY <1>1, InitIInv, PTL DEF Spec

\* The state of Booking keeps its types.
THEOREM TypeCorrect == Spec => []TypeOK
  <1>1. IInv => TypeOK
    BY DEF IInv
  <1> QED
    BY <1>1, Inductive, PTL

\* Whatever the interleaving of guests, cancellations, slot changes, deletions
\* and rolled-back transactions, no slot is ever overbooked: the capacity that
\* book() counts under lockSlot holds for any number of each of them.
THEOREM CapacityAlwaysRespected == Spec => []CapacityRespected
  <1>1. IInv => CapacityRespected
    BY DEF IInv, Rooms
  <1> QED
    BY <1>1, Inductive, PTL

\* A booker past lockSlot, and every committed booking, has a slot that exists.
THEOREM BookingsHaveSlots == Spec => []BookingHasItsSlot
  <1>1. IInv => BookingHasItsSlot
    BY DEF IInv, Consistent, BookerHolds, BookingInSlot, BookingHasItsSlot
  <1> QED
    BY <1>1, Inductive, PTL

-----------------------------------------------------------------------------
(* Slot changes that do not overlap.  Each counts the bookings of the slots it *)
(* has locked; what follows says why that covers every slot it then deletes.   *)

OneEditor == \A e, f \in Editors : e = f

\* Every live slot is still wanted by p's statement or already locked by it.
Reaches(p) == \A s \in Slots : slot[s] = "live" => s \in want[p] \/ lock[s] = p

\* Every live slot is locked by p.
HasAll(p) == \A s \in Slots : slot[s] = "live" => lock[s] = p

NobodyBooked == \A b \in Bookers : booking[b] # "live"

\* An editor past its count holds every slot and has seen them all empty.
EditorHasAll ==
  \A e \in Editors :
    /\ pc[e] = "locking" => Reaches(e)
    /\ pc[e] \in {"counted", "deleting", "deleted", "replaced"} => HasAll(e) /\ NobodyBooked

\* The cascade of a bookable's deletion meets every slot.
DeleterHasAll ==
  \A d \in Deleters :
    /\ pc[d] = "deleting" => Reaches(d)
    /\ pc[d] = "deleted" => HasAll(d)

\* The foreign key keeps inserted slots and a deletion of their bookable apart.
RowKept == RowHolders # {} => RowSharers = {}

\* An inserted slot has a capacity somebody sent.
FreshHasCapacity == \A e \in Editors : \A s \in fresh[e] : capacity[s] \in Capacities

Covered == EditorHasAll /\ DeleterHasAll /\ RowKept /\ FreshHasCapacity

LEMMA InitCovered == Init => Covered
  BY DEF Init, Covered, EditorHasAll, DeleterHasAll, RowKept, FreshHasCapacity, RowHolders,
         Procs, Changers

\* A step of another request that brings no slot to life and takes none of p's
\* locks keeps what p reaches and what p has.
LEMMA HasAllFrame ==
  ASSUME NEW p \in Changers, want'[p] = want[p],
         \A s \in Slots : slot'[s] = "live" => slot[s] = "live" /\ (lock[s] = p => lock'[s] = p)
  PROVE  (Reaches(p) => Reaches(p)') /\ (HasAll(p) => HasAll(p)')
  BY DEF Reaches, HasAll

\* Taking the next row of the statement keeps what p reaches.
LEMMA ReachesNext ==
  ASSUME TypeOK, NEW p \in Changers, NEW s, Reaches(p),
         want' = [want EXCEPT ![p] = @ \ {s}],
         lock' = IF slot[s] = "live" THEN [lock EXCEPT ![s] = p] ELSE lock,
         slot' = slot
  PROVE  Reaches(p)'
  BY DEF TypeOK, Reaches

\* So does a statement that has reached every row, and then p has them all.
LEMMA ReachedIsHeld ==
  ASSUME NEW p \in Changers, Reaches(p), want[p] = {}
  PROVE  HasAll(p)
  BY DEF Reaches, HasAll

\* Taking a row that is free for p takes it from no other request.
LEMMA NextTakesNobodys ==
  ASSUME TypeOK, NEW p \in Changers, NEW s, Free(s, p),
         lock' = IF slot[s] = "live" THEN [lock EXCEPT ![s] = p] ELSE lock
  PROVE  \A q \in Procs : q # p => \A r \in Slots : lock[r] = q => lock'[r] = q
  BY SlotsAssumption DEF TypeOK, Free

\* What a booker's step leaves to the changers.
LEMMA BookerLeaves ==
  ASSUME TypeOK, Consistent, NEW b \in Bookers,
         BookStep(b) \/ CancelWithToken(b) \/ CancelBooking(b)
  PROVE  /\ \A p \in Changers \cup Openers : pc'[p] = pc[p]
         /\ \A p \in Changers : \A s \in Slots : lock[s] = p => lock'[s] = p
         /\ UNCHANGED <<slot, capacity, want, fresh>>
         /\ \A c \in Bookers : booking'[c] = "live" =>
              booking[c] = "live" \/ (BookCommit(b) /\ c = b)
  <1> USE DEF slotVars, bookVars, workVars
  <1>0. b \in Procs /\ b \notin Changers \cup Openers /\ None \notin Changers
    BY BookersAssumption, SlotsAssumption DEF Procs
  <1>1. \A at : Goto(b, at) => \A p \in Changers \cup Openers : pc'[p] = pc[p]
    BY <1>0 DEF TypeOK, Goto, Procs
  <1>2. Release(b) => \A p \in Changers : \A s \in Slots : lock[s] = p => lock'[s] = p
    BY <1>0, ReleaseKeeps
  <1>3. CASE ResolveBookable(b)
    BY <1>1, <1>3 DEF ResolveBookable
  <1>4. CASE \E s \in Slots : BookFindSlot(b, s)
    BY <1>1, <1>4 DEF BookFindSlot
  <1>5. CASE BookLockSlot(b)
    <2>1. lock[sel[b]] = None
      BY <1>5 DEF BookLockSlot
    <2>2. lock' = [lock EXCEPT ![sel[b]] = b] \/ lock' = lock
      BY <1>5 DEF BookLockSlot
    <2>3. \A p \in Changers : \A s \in Slots : lock[s] = p => lock'[s] = p
      BY <1>0, <2>1, <2>2 DEF TypeOK
    <2>4. \A p \in Changers \cup Openers : pc'[p] = pc[p]
      BY <1>1, <1>5 DEF BookLockSlot
    <2> QED
      BY <1>5, <2>3, <2>4 DEF BookLockSlot
  <1>6. CASE BookCountAndInsert(b)
    BY <1>1, <1>2, <1>6 DEF BookCountAndInsert
  <1>7. CASE BookCommit(b)
    <2>1. \A c \in Bookers : c # b => booking'[c] = booking[c]
      BY <1>7 DEF BookCommit, TypeOK
    <2> QED
      BY <1>1, <1>2, <1>7, <2>1 DEF BookCommit
  <1>8. CASE CancelWithToken(b) \/ CancelBooking(b)
    <2>1. \A c \in Bookers : booking'[c] = "live" => booking[c] = "live"
      BY <1>8 DEF CancelWithToken, CancelBooking, MarkCancelled, TypeOK
    <2> QED
      BY <1>8, <2>1 DEF CancelWithToken, CancelBooking, MarkCancelled
  <1> QED
    BY <1>3, <1>4, <1>5, <1>6, <1>7, <1>8 DEF BookStep

-----------------------------------------------------------------------------
\* A step of another request that brings no slot to life, takes none of e's locks
\* and commits no booking leaves the editor e with what it had.
LEMMA EditorFrame ==
  ASSUME EditorHasAll, NEW e \in Editors, pc'[e] = pc[e], want'[e] = want[e],
         \A s \in Slots : slot'[s] = "live" => slot[s] = "live" /\ (lock[s] = e => lock'[s] = e),
         \A b \in Bookers : booking'[b] = "live" => booking[b] = "live"
  PROVE  /\ pc'[e] = "locking" => Reaches(e)'
         /\ pc'[e] \in {"counted", "deleting", "deleted", "replaced"} => HasAll(e)' /\ NobodyBooked'
  <1>1. (Reaches(e) => Reaches(e)') /\ (HasAll(e) => HasAll(e)')
    BY HasAllFrame DEF Changers
  <1> QED
    BY <1>1 DEF EditorHasAll, NobodyBooked

LEMMA DeleterFrame ==
  ASSUME DeleterHasAll, NEW d \in Deleters, pc'[d] = pc[d], want'[d] = want[d],
         \A s \in Slots : slot'[s] = "live" => slot[s] = "live" /\ (lock[s] = d => lock'[s] = d)
  PROVE  (pc'[d] = "deleting" => Reaches(d)') /\ (pc'[d] = "deleted" => HasAll(d)')
  <1>1. (Reaches(d) => Reaches(d)') /\ (HasAll(d) => HasAll(d)')
    BY HasAllFrame DEF Changers
  <1> QED
    BY <1>1 DEF DeleterHasAll

\* Where an editor past its count has every slot, no booker holds one to commit in.
LEMMA NoCommitUnderEditor ==
  ASSUME Consistent, NEW b \in Bookers, BookCommit(b), NEW e \in Editors, HasAll(e)
  PROVE  FALSE
  <1>1. b # e
    BY BookersAssumption DEF Changers
  <1>2. sel[b] \in Slots /\ lock[sel[b]] = b /\ slot[sel[b]] = "live"
    BY DEF BookCommit, Consistent, BookerHolds
  <1> QED
    BY <1>1, <1>2 DEF HasAll

\* A slot change's own steps, when there is no other: it takes the slots in
\* turn, counts when it has them all, and nothing is added until it commits.
LEMMA EditorOwnStep ==
  ASSUME TypeOK, Consistent, EditorHasAll, NEW e \in Editors, PutSlotsStep(e)
  PROVE  /\ pc'[e] = "locking" => Reaches(e)'
         /\ pc'[e] \in {"counted", "deleting", "deleted", "replaced"} => HasAll(e)' /\ NobodyBooked'
  <1> USE DEF slotVars, bookVars, workVars
  <1>0. e \in Procs /\ e \in Changers
    BY DEF Procs, Changers
  <1>1. \A at : Goto(e, at) => pc'[e] = at
    BY <1>0 DEF TypeOK, Goto
  <1>2. CASE PutSlotsFind(e)
    BY <1>1, <1>2 DEF PutSlotsFind
  <1>3. CASE PutSlotsLockBegin(e)
    <2>1. want'[e] = LiveSlots /\ slot' = slot
      BY <1>0, <1>3 DEF PutSlotsLockBegin, TypeOK
    <2>2. Reaches(e)'
      BY <2>1 DEF Reaches, LiveSlots
    <2> QED
      BY <1>1, <1>3, <2>2 DEF PutSlotsLockBegin
  <1>4. CASE PutSlotsLockNext(e)
    <2> DEFINE s == First(want[e])
    <2>1. pc'[e] = "locking" /\ pc[e] = "locking"
      BY <1>4 DEF PutSlotsLockNext
    <2>2. /\ want' = [want EXCEPT ![e] = @ \ {s}]
          /\ lock' = IF slot[s] = "live" THEN [lock EXCEPT ![s] = e] ELSE lock
          /\ slot' = slot
      BY <1>4 DEF PutSlotsLockNext
    <2>3. Reaches(e)
      BY <2>1 DEF EditorHasAll
    <2>4. Reaches(e)'
      BY <1>0, <2>2, <2>3, ReachesNext
    <2> QED
      BY <2>1, <2>4
  <1>5. CASE PutSlotsCount(e)
    <2>1. Reaches(e) /\ want[e] = {}
      BY <1>5 DEF PutSlotsCount, EditorHasAll
    <2>2. HasAll(e)
      BY <1>0, <2>1, ReachedIsHeld
    <2>3. CASE \E s \in LiveSlots : LiveOn(s) # {}
      BY <1>1, <1>5, <2>3 DEF PutSlotsCount
    <2>4. CASE ~\E s \in LiveSlots : LiveOn(s) # {}
      <3>1. UNCHANGED <<slot, lock, booking>> /\ pc'[e] = "counted"
        BY <1>1, <1>5, <2>4 DEF PutSlotsCount
      <3>2. NobodyBooked
        BY <2>4 DEF NobodyBooked, LiveSlots, LiveOn, Consistent, BookingInSlot, BookerChose
      <3> QED
        BY <2>2, <3>1, <3>2 DEF HasAll, NobodyBooked
    <2> QED
      BY <2>3, <2>4
  <1>6. CASE PutSlotsDeleteBegin(e) \/ PutSlotsDeleteEnd(e)
    <2>1. /\ HasAll(e) /\ NobodyBooked /\ UNCHANGED <<slot, lock, booking>>
          /\ pc'[e] # "locking"
      BY <1>1, <1>6 DEF PutSlotsDeleteBegin, PutSlotsDeleteEnd, EditorHasAll
    <2> QED
      BY <2>1 DEF HasAll, NobodyBooked
  <1>7. CASE \E s \in Slots : DeleteNext(e, s)
    <2>1. PICK s \in Slots : DeleteNext(e, s)
      BY <1>7
    <2>2. /\ pc' = pc /\ pc[e] = "deleting" /\ UNCHANGED <<slot, booking>>
          /\ HasAll(e) /\ NobodyBooked
          /\ lock' = IF slot[s] = "live" THEN [lock EXCEPT ![s] = e] ELSE lock
      BY <2>1 DEF DeleteNext, EditorHasAll
    <2>3. HasAll(e)' /\ NobodyBooked'
      BY <2>2 DEF HasAll, NobodyBooked, TypeOK
    <2> QED
      BY <2>2, <2>3
  <1>8. ASSUME NEW new \in SUBSET Slots, NEW caps \in [new -> Capacities], PutSlotsInsert(e, new, caps)
        PROVE  /\ pc'[e] = "locking" => Reaches(e)'
               /\ pc'[e] \in {"counted", "deleting", "deleted", "replaced"} =>
                    HasAll(e)' /\ NobodyBooked'
    <2>1. CASE new # {} /\ ~row.here
      BY <1>1, <1>8, <2>1 DEF PutSlotsInsert
    <2>2. CASE ~(new # {} /\ ~row.here)
      <3>1. /\ HasAll(e) /\ NobodyBooked /\ UNCHANGED <<lock, booking>> /\ pc'[e] = "replaced"
            /\ slot' = [s \in Slots |-> IF s \in new THEN "pending" ELSE slot[s]]
        BY <1>1, <1>8, <2>2 DEF PutSlotsInsert, EditorHasAll
      <3> QED
        BY <3>1 DEF HasAll, NobodyBooked
    <2> QED
      BY <2>1, <2>2
  <1>9. CASE PutSlotsCommit(e)
    BY <1>1, <1>9 DEF PutSlotsCommit
  <1> QED
    BY <1>2, <1>3, <1>4, <1>5, <1>6, <1>7, <1>8, <1>9 DEF PutSlotsStep

\* What a step of a changer leaves to another one, its commit apart.
LEMMA ChangerLeaves ==
  ASSUME TypeOK, Consistent, NEW p \in Changers, NEW q \in Changers, q # p,
         (p \in Editors /\ PutSlotsStep(p)) \/ (p \in Deleters /\ DeleteBookableStep(p))
  PROVE  /\ pc'[q] = pc[q] /\ want'[q] = want[q]
         /\ \A s \in Slots : lock[s] = q => lock'[s] = q
         /\ \A b \in Bookers : booking'[b] = "live" => booking[b] = "live"
  <1> USE DEF slotVars, bookVars, workVars
  <1>0. p \in Procs /\ q \in Procs /\ (p \in Editors => p \notin Deleters)
    BY BookersAssumption DEF Procs, Changers
  <1>1. \A at : Goto(p, at) => pc'[q] = pc[q]
    BY <1>0 DEF TypeOK, Goto
  <1>2. Release(p) => \A s \in Slots : lock[s] = q => lock'[s] = q
    BY <1>0, ReleaseKeeps
  <1>3. \A W : want' = [want EXCEPT ![p] = W] => want'[q] = want[q]
    BY DEF TypeOK
  <1>4. CascadeDelete(p) => \A b \in Bookers : booking'[b] = "live" => booking[b] = "live"
    BY DEF CascadeDelete
  <1>5. ASSUME NEW s, Free(s, p), lock' = IF slot[s] = "live" THEN [lock EXCEPT ![s] = p] ELSE lock
        PROVE  \A r \in Slots : lock[r] = q => lock'[r] = q
    BY <1>0, <1>5, NextTakesNobodys
  <1>6. CASE p \in Editors /\ PutSlotsStep(p)
    <2>1. CASE PutSlotsFind(p) \/ PutSlotsLockBegin(p) \/ PutSlotsDeleteBegin(p) \/ PutSlotsDeleteEnd(p)
      BY <1>1, <1>3, <2>1 DEF PutSlotsFind, PutSlotsLockBegin, PutSlotsDeleteBegin, PutSlotsDeleteEnd
    <2>2. CASE PutSlotsLockNext(p)
      BY <1>3, <1>5, <2>2 DEF PutSlotsLockNext
    <2>3. CASE PutSlotsCount(p)
      BY <1>1, <1>2, <2>3 DEF PutSlotsCount
    <2>4. CASE \E s \in Slots : DeleteNext(p, s)
      BY <1>3, <1>5, <2>4 DEF DeleteNext
    <2>5. CASE \E new \in SUBSET Slots : \E caps \in [new -> Capacities] : PutSlotsInsert(p, new, caps)
      BY <1>1, <1>2, <2>5 DEF PutSlotsInsert
    <2>6. CASE PutSlotsCommit(p)
      BY <1>1, <1>2, <1>4, <2>6 DEF PutSlotsCommit
    <2> QED
      BY <1>6, <2>1, <2>2, <2>3, <2>4, <2>5, <2>6 DEF PutSlotsStep
  <1>7. CASE p \in Deleters /\ DeleteBookableStep(p)
    <2>1. CASE DeleteBookableBegin(p) \/ DeleteBookableEnd(p)
      BY <1>1, <1>3, <2>1 DEF DeleteBookableBegin, DeleteBookableEnd
    <2>2. CASE \E s \in Slots : DeleteNext(p, s)
      BY <1>3, <1>5, <2>2 DEF DeleteNext
    <2>3. CASE DeleteBookableCommit(p)
      BY <1>1, <1>2, <1>4, <2>3 DEF DeleteBookableCommit
    <2> QED
      BY <1>7, <2>1, <2>2, <2>3 DEF DeleteBookableStep
  <1> QED
    BY <1>6, <1>7

-----------------------------------------------------------------------------
\* A step that touches neither a changer nor what it reads.
LEMMA CoveredFrame ==
  ASSUME TypeOK, Consistent, Covered,
         \A p \in Changers :
           /\ pc'[p] = pc[p] /\ want'[p] = want[p]
           /\ \A s \in Slots : slot'[s] = "live" => slot[s] = "live" /\ (lock[s] = p => lock'[s] = p),
         \A b \in Bookers : booking'[b] = "live" => booking[b] = "live",
         UNCHANGED <<fresh, capacity>>
  PROVE  Covered'
  <1>1. EditorHasAll'
    BY EditorFrame DEF Covered, EditorHasAll, Changers
  <1>2. DeleterHasAll'
    BY DeleterFrame DEF Covered, DeleterHasAll, Changers
  <1>3. RowKept'
    BY DEF Covered, RowKept, RowHolders, RowSharers, Changers
  <1>4. FreshHasCapacity'
    BY DEF Covered, FreshHasCapacity
  <1> QED
    BY <1>1, <1>2, <1>3, <1>4 DEF Covered

LEMMA CoveredBooker ==
  ASSUME TypeOK, Consistent, Covered, NEW b \in Bookers,
         BookStep(b) \/ CancelWithToken(b) \/ CancelBooking(b)
  PROVE  Covered'
  <1>1. /\ \A p \in Changers : pc'[p] = pc[p] /\ want'[p] = want[p]
        /\ \A p \in Changers : \A s \in Slots : lock[s] = p => lock'[s] = p
        /\ UNCHANGED <<slot, capacity, want, fresh>>
        /\ \A c \in Bookers : booking'[c] = "live" =>
             booking[c] = "live" \/ (BookCommit(b) /\ c = b)
    BY BookerLeaves
  <1>2. CASE ~BookCommit(b)
    BY <1>1, <1>2, CoveredFrame
  <1>3. CASE BookCommit(b)
    <2>1. \A e \in Editors : ~HasAll(e)
      BY <1>3, NoCommitUnderEditor
    <2>2. \A e \in Editors : Reaches(e) => Reaches(e)'
      BY <1>1, HasAllFrame DEF Changers
    <2>3. EditorHasAll'
      BY <1>1, <2>1, <2>2 DEF Covered, EditorHasAll, Changers
    <2>4. DeleterHasAll'
      BY <1>1, DeleterFrame DEF Covered, DeleterHasAll, Changers
    <2>5. RowKept'
      BY <1>1 DEF Covered, RowKept, RowHolders, RowSharers, Changers
    <2>6. FreshHasCapacity'
      BY <1>1 DEF Covered, FreshHasCapacity
    <2> QED
      BY <2>3, <2>4, <2>5, <2>6 DEF Covered
  <1> QED
    BY <1>2, <1>3

\* The slot change that runs is the only one.
LEMMA CoveredEditor ==
  ASSUME OneEditor, TypeOK, Consistent, Covered, NEW e \in Editors, PutSlotsStep(e)
  PROVE  Covered'
  <1> USE DEF slotVars, bookVars, workVars
  <1>0. e \in Procs /\ e \in Changers /\ \A f \in Editors : f = e
    BY DEF Procs, Changers, OneEditor
  <1>1. \A at : Goto(e, at) => pc'[e] = at
    BY <1>0 DEF TypeOK, Goto
  <1>2. EditorHasAll'
    BY <1>0, EditorOwnStep DEF Covered, EditorHasAll
  <1>3. \A d \in Deleters : d \in Changers /\ d # e
    BY BookersAssumption DEF Changers
  <1>4. \A d \in Deleters : /\ pc'[d] = pc[d] /\ want'[d] = want[d]
                            /\ \A s \in Slots : lock[s] = d => lock'[s] = d
    BY <1>0, <1>3, ChangerLeaves
  <1>5. RowHolders' = RowHolders
    BY <1>4 DEF RowHolders
  <1>6. RowHolders # {} => \A s \in Slots : slot'[s] = "live" => slot[s] = "live"
    <2>1. CASE PutSlotsCommit(e)
      <3> SUFFICES ASSUME RowHolders # {}, NEW s \in Slots, slot'[s] = "live"
                   PROVE  slot[s] = "live"
        OBVIOUS
      <3>1. fresh[e] = {}
        BY <2>1 DEF PutSlotsCommit, Covered, RowKept, RowSharers
      <3> QED
        BY <2>1, <3>1 DEF PutSlotsCommit
    <2>2. CASE \E new \in SUBSET Slots : \E caps \in [new -> Capacities] : PutSlotsInsert(e, new, caps)
      BY <2>2 DEF PutSlotsInsert
    <2>3. CASE /\ ~PutSlotsCommit(e)
               /\ ~\E new \in SUBSET Slots : \E caps \in [new -> Capacities] : PutSlotsInsert(e, new, caps)
      <3>1. slot' = slot
        BY <2>3 DEF PutSlotsStep, PutSlotsFind, PutSlotsLockBegin, PutSlotsLockNext, PutSlotsCount,
                    PutSlotsDeleteBegin, DeleteNext, PutSlotsDeleteEnd
      <3> QED
        BY <3>1
    <2> QED
      BY <2>1, <2>2, <2>3
  <1>7. DeleterHasAll'
    <2> SUFFICES ASSUME NEW d \in Deleters, pc'[d] \in {"deleting", "deleted"}
                 PROVE  (pc'[d] = "deleting" => Reaches(d)') /\ (pc'[d] = "deleted" => HasAll(d)')
      BY DEF DeleterHasAll
    <2>1. d \in RowHolders
      BY <1>4 DEF RowHolders
    <2>2. DeleterHasAll
      BY DEF Covered
    <2> QED
      BY <1>4, <1>6, <2>1, <2>2, DeleterFrame
  <1>8. RowKept' /\ FreshHasCapacity'
    <2>1. ASSUME NEW new \in SUBSET Slots, NEW caps \in [new -> Capacities], PutSlotsInsert(e, new, caps),
                 ~(new # {} /\ ~row.here)
          PROVE  RowKept' /\ FreshHasCapacity'
      <3>1. /\ new # {} => RowHolders = {}
            /\ fresh'[e] = new
            /\ capacity' = [s \in Slots |-> IF s \in new THEN caps[s] ELSE capacity[s]]
        BY <2>1 DEF PutSlotsInsert, TypeOK
      <3>2. RowKept'
        BY <1>0, <1>5, <3>1 DEF RowKept, RowSharers
      <3>3. FreshHasCapacity'
        BY <1>0, <3>1 DEF FreshHasCapacity
      <3> QED
        BY <3>2, <3>3
    <2>2. ASSUME NEW new \in SUBSET Slots, NEW caps \in [new -> Capacities], PutSlotsInsert(e, new, caps),
                 new # {} /\ ~row.here
          PROVE  RowKept' /\ FreshHasCapacity'
      <3>1. pc'[e] = "idle" /\ UNCHANGED <<fresh, capacity>>
        BY <1>1, <2>2 DEF PutSlotsInsert
      <3> QED
        BY <1>0, <3>1 DEF RowKept, RowSharers, Covered, FreshHasCapacity
    <2>3. CASE PutSlotsCommit(e)
      <3>1. pc'[e] = "idle" /\ fresh'[e] = {}
        BY <1>1, <2>3 DEF PutSlotsCommit, TypeOK
      <3> QED
        BY <1>0, <3>1 DEF RowKept, RowSharers, FreshHasCapacity
    <2>4. CASE PutSlotsFind(e) \/ PutSlotsLockBegin(e) \/ PutSlotsCount(e) \/ PutSlotsDeleteBegin(e)
               \/ PutSlotsDeleteEnd(e)
      <3>1. pc'[e] # "replaced" /\ UNCHANGED <<fresh, capacity>>
        BY <1>1, <2>4 DEF PutSlotsFind, PutSlotsLockBegin, PutSlotsCount, PutSlotsDeleteBegin,
                          PutSlotsDeleteEnd
      <3> QED
        BY <1>0, <3>1 DEF RowKept, RowSharers, Covered, FreshHasCapacity
    <2>5. CASE PutSlotsLockNext(e) \/ \E s \in Slots : DeleteNext(e, s)
      <3>1. pc' = pc /\ pc[e] # "replaced" /\ UNCHANGED <<fresh, capacity>>
        BY <2>5 DEF PutSlotsLockNext, DeleteNext
      <3> QED
        BY <1>0, <3>1 DEF RowKept, RowSharers, Covered, FreshHasCapacity
    <2> QED
      BY <2>1, <2>2, <2>3, <2>4, <2>5 DEF PutSlotsStep
  <1> QED
    BY <1>2, <1>7, <1>8 DEF Covered

LEMMA CoveredDeleter ==
  ASSUME TypeOK, Consistent, Covered, NEW d \in Deleters, DeleteBookableStep(d)
  PROVE  Covered'
  <1> USE DEF slotVars, bookVars, workVars
  <1>0. d \in Procs /\ d \in Changers /\ \A f \in Editors : f # d /\ f \in Changers
    BY BookersAssumption DEF Procs, Changers
  <1>1. /\ \A at : Goto(d, at) => pc'[d] = at
        /\ \A W : want' = [want EXCEPT ![d] = W] => want'[d] = W
    BY <1>0 DEF TypeOK, Goto
  <1>2. /\ \A s \in Slots : slot'[s] = "live" => slot[s] = "live"
        /\ UNCHANGED <<fresh, capacity>>
    BY DEF DeleteBookableStep, DeleteBookableBegin, DeleteNext, DeleteBookableEnd, DeleteBookableCommit
  <1>3. \A q \in Changers : q # d =>
          /\ pc'[q] = pc[q] /\ want'[q] = want[q]
          /\ \A s \in Slots : lock[s] = q => lock'[s] = q
    BY <1>0, ChangerLeaves
  <1>4. \A b \in Bookers : booking'[b] = "live" => booking[b] = "live"
    BY DEF DeleteBookableStep, DeleteBookableBegin, DeleteNext, DeleteBookableEnd,
           DeleteBookableCommit, CascadeDelete
  <1>5. EditorHasAll'
    BY <1>0, <1>2, <1>3, <1>4, EditorFrame DEF Covered, EditorHasAll
  <1>6. (pc'[d] = "deleting" => Reaches(d)') /\ (pc'[d] = "deleted" => HasAll(d)')
    <2>1. CASE DeleteBookableBegin(d)
      <3>1. pc'[d] = "deleting" /\ want'[d] = LiveSlots /\ slot' = slot
        BY <1>1, <2>1 DEF DeleteBookableBegin
      <3> QED
        BY <3>1 DEF Reaches, LiveSlots
    <2>2. CASE \E s \in Slots : DeleteNext(d, s)
      <3>1. PICK s \in Slots : DeleteNext(d, s)
        BY <2>2
      <3>2. Reaches(d) /\ pc'[d] = "deleting"
        BY <3>1 DEF DeleteNext, Covered, DeleterHasAll
      <3>3. Reaches(d)'
        BY <1>0, <3>1, <3>2, ReachesNext DEF DeleteNext
      <3> QED
        BY <3>2, <3>3
    <2>3. CASE DeleteBookableEnd(d)
      <3>1. Reaches(d) /\ want[d] = {} /\ pc'[d] = "deleted" /\ UNCHANGED <<slot, lock>>
        BY <1>1, <2>3 DEF DeleteBookableEnd, Covered, DeleterHasAll
      <3>2. HasAll(d)
        BY <1>0, <3>1, ReachedIsHeld
      <3> QED
        BY <3>1, <3>2 DEF HasAll
    <2>4. CASE DeleteBookableCommit(d)
      BY <1>1, <2>4 DEF DeleteBookableCommit
    <2> QED
      BY <2>1, <2>2, <2>3, <2>4 DEF DeleteBookableStep
  <1>7. DeleterHasAll'
    <2> SUFFICES ASSUME NEW c \in Deleters, c # d
                 PROVE  (pc'[c] = "deleting" => Reaches(c)') /\ (pc'[c] = "deleted" => HasAll(c)')
      BY <1>6 DEF DeleterHasAll
    <2>1. c \in Changers /\ DeleterHasAll
      BY DEF Changers, Covered
    <2> QED
      BY <1>2, <1>3, <2>1, DeleterFrame
  <1>8. RowSharers' = RowSharers
    BY <1>0, <1>2, <1>3 DEF RowSharers
  <1>9. RowKept'
    <2>1. CASE DeleteBookableBegin(d)
      BY <1>8, <2>1 DEF DeleteBookableBegin, RowKept
    <2>2. CASE ~DeleteBookableBegin(d)
      <3>1. pc[d] \in {"deleting", "deleted"}
        BY <2>2 DEF DeleteBookableStep, DeleteNext, DeleteBookableEnd, DeleteBookableCommit
      <3>2. RowHolders # {}
        BY <3>1 DEF RowHolders
      <3> QED
        BY <1>8, <3>2 DEF Covered, RowKept
    <2> QED
      BY <2>1, <2>2
  <1>10. FreshHasCapacity'
    BY <1>2 DEF Covered, FreshHasCapacity
  <1> QED
    BY <1>5, <1>7, <1>9, <1>10 DEF Covered

LEMMA CoveredRollback ==
  ASSUME TypeOK, Consistent, Covered, NEW p \in Procs, Rollback(p)
  PROVE  Covered'
  <1>1. \A q \in Procs : q # p => pc'[q] = pc[q] /\ \A s \in Slots : lock[s] = q => lock'[s] = q
    BY ReleaseKeeps DEF Rollback, Goto, TypeOK
  <1>2. /\ pc'[p] = "idle"
        /\ \A q \in Changers : q # p => want'[q] = want[q]
        /\ \A f \in Editors : fresh'[f] = IF f = p THEN {} ELSE fresh[f]
        /\ booking' = booking
    BY DEF Rollback, Goto, TypeOK
  <1>3. \A s \in Slots : slot'[s] = "live" => slot[s] = "live"
    BY DEF Rollback
  <1>4. \A q \in Changers : q \in Procs
    BY DEF Procs
  <1>5. EditorHasAll'
    <2> SUFFICES ASSUME NEW f \in Editors, f # p
                 PROVE  /\ pc'[f] = "locking" => Reaches(f)'
                        /\ pc'[f] \in {"counted", "deleting", "deleted", "replaced"} =>
                             HasAll(f)' /\ NobodyBooked'
      BY <1>2 DEF EditorHasAll
    <2>1. f \in Changers /\ EditorHasAll
      BY DEF Changers, Covered
    <2> QED
      BY <1>1, <1>2, <1>3, <1>4, <2>1, EditorFrame
  <1>6. DeleterHasAll'
    <2> SUFFICES ASSUME NEW d \in Deleters, d # p
                 PROVE  (pc'[d] = "deleting" => Reaches(d)') /\ (pc'[d] = "deleted" => HasAll(d)')
      BY <1>2 DEF DeleterHasAll
    <2>1. d \in Changers /\ DeleterHasAll
      BY DEF Changers, Covered
    <2> QED
      BY <1>1, <1>2, <1>3, <1>4, <2>1, DeleterFrame
  <1>7. RowHolders' \subseteq RowHolders /\ RowSharers' \subseteq RowSharers
    BY <1>1, <1>2, <1>4 DEF RowHolders, RowSharers, Changers
  <1>8. FreshHasCapacity'
    <2> SUFFICES ASSUME NEW f \in Editors, f # p, NEW s \in fresh[f]
                 PROVE  capacity'[s] \in Capacities
      BY <1>2 DEF FreshHasCapacity
    <2>1. s \in Slots /\ (p \in Editors => s \notin fresh[p])
      BY DEF TypeOK, Consistent, FreshIsPending
    <2>2. capacity'[s] = capacity[s]
      BY <2>1 DEF Rollback
    <2> QED
      BY <2>2 DEF Covered, FreshHasCapacity
  <1> QED
    BY <1>5, <1>6, <1>7, <1>8 DEF Covered, RowKept

LEMMA CoveredStep ==
  OneEditor /\ TypeOK /\ Consistent /\ Covered /\ [Next]_vars => Covered'
  <1> SUFFICES ASSUME OneEditor, TypeOK, Consistent, Covered, [Next]_vars PROVE Covered'
    OBVIOUS
  <1>1. ASSUME NEW b \in Bookers, BookStep(b) \/ CancelWithToken(b) \/ CancelBooking(b) PROVE Covered'
    BY <1>1, CoveredBooker
  <1>2. ASSUME NEW e \in Editors, PutSlotsStep(e) PROVE Covered'
    BY <1>2, CoveredEditor
  <1>3. ASSUME NEW o \in Openers, OpenBookableFind(o) \/ OpenBookableMint(o) PROVE Covered'
    <2>1. \A p \in Changers : p \in Procs /\ p # o
      BY BookersAssumption DEF Procs
    <2>2. \A p \in Changers : pc'[p] = pc[p]
      BY <1>3, <2>1 DEF OpenBookableFind, OpenBookableMint, Goto, TypeOK
    <2>3. UNCHANGED <<slot, capacity, booking, lock, want, fresh>>
      BY <1>3 DEF OpenBookableFind, OpenBookableMint, slotVars, bookVars, workVars
    <2> QED
      BY <2>2, <2>3, CoveredFrame
  <1>4. CASE CloseBookable
    BY <1>4, CoveredFrame DEF CloseBookable, slotVars, bookVars, workVars
  <1>5. ASSUME NEW d \in Deleters, DeleteBookableStep(d) PROVE Covered'
    BY <1>5, CoveredDeleter
  <1>6. ASSUME NEW s \in Slots, SlotStarts(s) PROVE Covered'
    BY <1>6, CoveredFrame DEF SlotStarts, slotVars, bookVars, workVars
  <1>7. ASSUME NEW p \in Procs, Rollback(p) PROVE Covered'
    BY <1>7, CoveredRollback
  <1>8. CASE UNCHANGED vars
    BY <1>8, CoveredFrame DEF vars
  <1> QED
    BY <1>1, <1>2, <1>3, <1>4, <1>5, <1>6, <1>7, <1>8 DEF Next

LEMMA OneEditorInductive ==
  ASSUME OneEditor
  PROVE  Spec => [](IInv /\ Covered)
  <1>1. IInv /\ Covered /\ [Next]_vars => IInv' /\ Covered'
    BY TypeStep, ConsistentStep, RoomsStep, CoveredStep DEF IInv
  <1> QED
    BY <1>1, InitIInv, InitCovered, PTL DEF Spec

\* What a commit of a changer that has every slot does to the bookings.
LEMMA CommitTakesAll ==
  ASSUME Consistent, NEW p \in Changers, HasAll(p), CascadeDelete(p)
  PROVE  \A b \in Bookers : booking'[b] # "live"
  <1> SUFFICES ASSUME NEW b \in Bookers, booking[b] = "live" PROVE booking'[b] = "deleted"
    BY DEF CascadeDelete
  <1>1. sel[b] \in Slots /\ slot[sel[b]] = "live"
    BY DEF Consistent, BookingInSlot, BookerChose
  <1> QED
    BY <1>1 DEF HasAll, HeldBy, CascadeDelete

\* When slot changes do not overlap, replacing the slots never takes an
\* appointment with it: the bookings that putSlots counts under lockSlotsOf are
\* those of every slot its deleteMany meets.  Only deleting the whole bookable
\* deletes a live booking, whatever the guests, cancellations and rollbacks do.
THEOREM OneChangeDropsNothing ==
  ASSUME OneEditor
  PROVE  Spec => NoAppointmentDropped
  <1>1. IInv /\ Covered /\ [Next]_vars =>
          [\A b \in Bookers : booking[b] = "live" /\ booking'[b] = "deleted" => ~row'.here]_vars
    <2> SUFFICES ASSUME TypeOK, Covered, [Next]_vars,
                        NEW b \in Bookers, booking[b] = "live", booking'[b] = "deleted"
                 PROVE  ~row'.here
      BY DEF IInv
    <2>1. ASSUME NEW c \in Bookers, BookStep(c) \/ CancelWithToken(c) \/ CancelBooking(c) PROVE FALSE
      <3>1. booking' = booking \/ \E at \in {"live", "cancelled"} : booking' = [booking EXCEPT ![c] = at]
        BY <2>1 DEF BookStep, ResolveBookable, BookFindSlot, BookLockSlot, BookCountAndInsert,
                    BookCommit, CancelWithToken, CancelBooking, MarkCancelled, bookVars
      <3> QED
        BY <3>1 DEF TypeOK
    <2>2. ASSUME NEW e \in Editors, PutSlotsStep(e) PROVE FALSE
      <3>1. CASE PutSlotsCommit(e)
        BY <3>1 DEF PutSlotsCommit, Covered, EditorHasAll, NobodyBooked
      <3>2. CASE ~PutSlotsCommit(e)
        BY <2>2, <3>2 DEF PutSlotsStep, PutSlotsFind, PutSlotsLockBegin, PutSlotsLockNext,
                          PutSlotsCount, PutSlotsDeleteBegin, DeleteNext, PutSlotsDeleteEnd,
                          PutSlotsInsert, bookVars
      <3> QED
        BY <3>1, <3>2
    <2>3. ASSUME NEW d \in Deleters, DeleteBookableStep(d) PROVE ~row'.here
      <3>1. CASE DeleteBookableCommit(d)
        BY <3>1 DEF DeleteBookableCommit, TypeOK
      <3>2. CASE ~DeleteBookableCommit(d)
        BY <2>3, <3>2 DEF DeleteBookableStep, DeleteBookableBegin, DeleteNext, DeleteBookableEnd, bookVars
      <3> QED
        BY <3>1, <3>2
    <2>4. CASE \/ \E o \in Openers : OpenBookableFind(o) \/ OpenBookableMint(o)
               \/ CloseBookable
               \/ \E s \in Slots : SlotStarts(s)
               \/ \E p \in Procs : Rollback(p)
               \/ UNCHANGED vars
      <3>1. booking' = booking
        BY <2>4 DEF OpenBookableFind, OpenBookableMint, CloseBookable, SlotStarts, Rollback, vars, bookVars
      <3> QED
        BY <3>1
    <2> QED
      BY <2>1, <2>2, <2>3, <2>4 DEF Next
  <1> QED
    BY <1>1, OneEditorInductive, PTL DEF NoAppointmentDropped, Spec

-----------------------------------------------------------------------------
(* The ledger: what the committed rows show is what booking promises.          *)

LEMMA LedgerStutters ==
  ASSUME \A s \in Slots : /\ slot'[s] = "live" <=> slot[s] = "live"
                          /\ slot[s] = "live" => capacity'[s] = capacity[s],
         \A b \in Bookers : /\ booking'[b] = "live" <=> booking[b] = "live"
                            /\ booking[b] = "live" => sel'[b] = sel[b]
  PROVE  OnOffer' = OnOffer /\ Placed' = Placed
  BY DEF OnOffer, Placed

\* The ledger's holders of a place in a slot are its live bookings.
LEMMA HoldersAreLiveOn ==
  ASSUME NEW s \in Slots
  PROVE  Ledger!Holders(s) = LiveOn(s)
  BY SlotsAssumption DEF Ledger!Holders, LiveOn, Placed

\* The ledger counts as this module does.
LEMMA SameCardinality ==
  \A S : Ledger!Cardinality(S) = Cardinality(S)
  BY Zenon DEF Ledger!Cardinality, Cardinality

LEMMA InitLedger == Init => Ledger!Init
  BY DEF Init, Ledger!Init, OnOffer, Placed

LEMMA BookerLedger ==
  ASSUME TypeOK, Consistent, Rooms, NEW b \in Bookers,
         BookStep(b) \/ CancelWithToken(b) \/ CancelBooking(b)
  PROVE  [Ledger!Next]_(Ledger!vars)
  <1> USE DEF slotVars, bookVars, workVars
  <1>1. CASE BookCommit(b)
    <2>1. /\ sel[b] \in Slots /\ slot[sel[b]] = "live"
          /\ booking[b] # "live"
          /\ Cardinality(LiveOn(sel[b])) < capacity[sel[b]]
      BY <1>1 DEF BookCommit, Consistent, BookerHolds, BookerChose, Rooms, PlaceKept
    <2>2. Placed' = [Placed EXCEPT ![b] = sel[b]] /\ OnOffer' = OnOffer
      BY <1>1 DEF BookCommit, Placed, OnOffer, TypeOK
    <2>3. Placed[b] = None /\ OnOffer[sel[b]] = capacity[sel[b]]
      BY <2>1 DEF Placed, OnOffer
    <2>4. Cardinality(Ledger!Holders(sel[b])) < OnOffer[sel[b]]
      BY <2>1, <2>3, HoldersAreLiveOn
    <2>5. Ledger!Take(b, sel[b])
      BY <2>2, <2>3, <2>4, SameCardinality DEF Ledger!Take
    <2> QED
      BY <2>1, <2>5 DEF Ledger!Next
  <1>2. CASE CancelWithToken(b) \/ CancelBooking(b)
    <2>1. /\ booking[b] = "live" /\ booking' = [booking EXCEPT ![b] = "cancelled"]
          /\ UNCHANGED <<sel, slot, capacity>>
      BY <1>2 DEF CancelWithToken, CancelBooking, MarkCancelled
    <2>2. Placed[b] = sel[b] /\ sel[b] # None
      BY <2>1, SlotsAssumption DEF Placed, Consistent, BookerChose
    <2>3. Placed' = [Placed EXCEPT ![b] = None] /\ OnOffer' = OnOffer
      BY <2>1 DEF Placed, OnOffer, TypeOK
    <2>4. Ledger!Withdraw(b)
      BY <2>2, <2>3 DEF Ledger!Withdraw
    <2> QED
      BY <2>4 DEF Ledger!Next
  <1>3. CASE BookStep(b) /\ ~BookCommit(b)
    <2>1. UNCHANGED <<slot, capacity, booking>>
      BY <1>3 DEF BookStep, ResolveBookable, BookFindSlot, BookLockSlot, BookCountAndInsert
    <2>2. booking[b] = "live" => sel' = sel
      BY <1>3 DEF BookStep, ResolveBookable, BookFindSlot, BookLockSlot, BookCountAndInsert,
                  Consistent, BookerChose
    <2>3. \A c \in Bookers : c # b => sel'[c] = sel[c]
      BY <1>3 DEF BookStep, ResolveBookable, BookFindSlot, BookLockSlot, BookCountAndInsert, TypeOK
    <2> QED
      BY <2>1, <2>2, <2>3, LedgerStutters DEF Ledger!vars
  <1> QED
    BY <1>1, <1>2, <1>3

\* A committed slot change puts up its slots on an empty ledger; the statements
\* before its commit do not show.
LEMMA EditorLedger ==
  ASSUME TypeOK, Consistent, Covered, NEW e \in Editors, PutSlotsStep(e)
  PROVE  [Ledger!Next]_(Ledger!vars)
  <1> USE DEF slotVars, bookVars, workVars
  <1>1. CASE PutSlotsCommit(e)
    <2>1. /\ HasAll(e) /\ NobodyBooked
          /\ slot' = [s \in Slots |-> IF s \in HeldBy(e) THEN "gone"
                                      ELSE IF s \in fresh[e] THEN "live" ELSE slot[s]]
          /\ UNCHANGED <<capacity, sel>>
          /\ CascadeDelete(e)
      BY <1>1 DEF PutSlotsCommit, Covered, EditorHasAll
    <2>2. \A b \in Bookers : Placed[b] = None
      BY <2>1 DEF NobodyBooked, Placed
    <2>3. Placed' = Placed
      BY <2>1 DEF NobodyBooked, Placed, CascadeDelete
    <2>4. fresh[e] \subseteq Slots /\ \A s \in fresh[e] : slot[s] = "pending" /\ capacity[s] \in Capacities
      BY DEF TypeOK, Consistent, FreshIsPending, Covered, FreshHasCapacity
    <2>5. \A s \in fresh[e] : OnOffer[s] = 0
      BY <2>4 DEF OnOffer
    <2>6. \A s \in HeldBy(e) : slot[s] = "live"
      BY SlotsAssumption DEF HeldBy, Procs, Changers, Consistent, LockedIsLive
    <2>7. \A s \in Slots : slot'[s] = "live" <=> s \in fresh[e]
      BY <2>1, <2>4, <2>6 DEF HasAll, HeldBy
    <2> DEFINE caps == [s \in fresh[e] |-> capacity[s]]
    <2>8. caps \in [fresh[e] -> Capacities]
      BY <2>4
    <2>9. OnOffer' = [s \in Slots |-> IF s \in fresh[e] THEN caps[s] ELSE 0]
      BY <2>1, <2>7 DEF OnOffer
    <2>10. fresh[e] \in SUBSET {s \in Slots : OnOffer[s] = 0}
      BY <2>4, <2>5
    <2>11. \E c \in [fresh[e] -> Capacities] :
             OnOffer' = [s \in Slots |-> IF s \in fresh[e] THEN c[s] ELSE 0]
      BY <2>8, <2>9
    <2>12. Ledger!Republish
      BY <2>2, <2>3, <2>10, <2>11 DEF Ledger!Republish
    <2> QED
      BY <2>12 DEF Ledger!Next
  <1>2. ASSUME NEW new \in SUBSET Slots, NEW caps \in [new -> Capacities], PutSlotsInsert(e, new, caps)
        PROVE  [Ledger!Next]_(Ledger!vars)
    <2>1. \A s \in Slots : /\ slot'[s] = "live" <=> slot[s] = "live"
                           /\ slot[s] = "live" => capacity'[s] = capacity[s]
      BY <1>2 DEF PutSlotsInsert
    <2> QED
      BY <1>2, <2>1, LedgerStutters DEF PutSlotsInsert, Ledger!vars
  <1>3. CASE /\ ~PutSlotsCommit(e)
             /\ ~\E new \in SUBSET Slots : \E caps \in [new -> Capacities] : PutSlotsInsert(e, new, caps)
    <2>1. UNCHANGED <<slot, capacity, booking, sel>>
      BY <1>3 DEF PutSlotsStep, PutSlotsFind, PutSlotsLockBegin, PutSlotsLockNext, PutSlotsCount,
                  PutSlotsDeleteBegin, DeleteNext, PutSlotsDeleteEnd
    <2> QED
      BY <2>1, LedgerStutters DEF Ledger!vars
  <1> QED
    BY <1>1, <1>2, <1>3

LEMMA DeleterLedger ==
  ASSUME TypeOK, Consistent, Covered, NEW d \in Deleters, DeleteBookableStep(d)
  PROVE  [Ledger!Next]_(Ledger!vars)
  <1> USE DEF slotVars, bookVars, workVars
  <1>1. CASE DeleteBookableCommit(d)
    <2>1. /\ HasAll(d) /\ CascadeDelete(d)
          /\ slot' = [s \in Slots |-> IF s \in HeldBy(d) THEN "gone" ELSE slot[s]]
      BY <1>1 DEF DeleteBookableCommit, Covered, DeleterHasAll
    <2>2. Placed' = [b \in Bookers |-> None]
      BY <2>1, CommitTakesAll DEF Placed, Changers
    <2>3. OnOffer' = [s \in Slots |-> 0]
      BY <2>1 DEF OnOffer, HasAll, HeldBy
    <2> QED
      BY <2>2, <2>3 DEF Ledger!Remove, Ledger!Next
  <1>2. CASE ~DeleteBookableCommit(d)
    <2>1. UNCHANGED <<slot, capacity, booking, sel>>
      BY <1>2 DEF DeleteBookableStep, DeleteBookableBegin, DeleteNext, DeleteBookableEnd
    <2> QED
      BY <2>1, LedgerStutters DEF Ledger!vars
  <1> QED
    BY <1>1, <1>2

\* A transaction that is rolled back leaves no trace.
LEMMA RollbackLedger ==
  ASSUME TypeOK, Consistent, NEW p \in Procs, Rollback(p)
  PROVE  OnOffer' = OnOffer /\ Placed' = Placed
  <1>1. booking' = booking /\ \A b \in Bookers : b # p => sel'[b] = sel[b]
    BY DEF Rollback
  <1>2. \A b \in Bookers : b = p => booking[b] # "live"
    BY DEF Rollback, InTransaction, Consistent, BookerChose, Changers, TypeOK
  <1>3. \A s \in Slots : /\ slot'[s] = "live" <=> slot[s] = "live"
                         /\ slot[s] = "live" => capacity'[s] = capacity[s]
    BY DEF Rollback, Consistent, FreshIsPending
  <1> QED
    BY <1>1, <1>2, <1>3, LedgerStutters

\* When slot changes do not overlap, the requests with all their statements,
\* locks, cascades and rollbacks implement the ledger: a place is taken only
\* while one is left, slots are replaced only while nobody holds a place, and
\* nothing else shows in the committed rows.
THEOREM LedgerImplemented ==
  ASSUME OneEditor
  PROVE  Spec => ImplementsLedger
  <1>1. IInv /\ Covered /\ [Next]_vars => [Ledger!Next]_(Ledger!vars)
    <2> SUFFICES ASSUME TypeOK, Consistent, Rooms, Covered, [Next]_vars
                 PROVE  [Ledger!Next]_(Ledger!vars)
      BY DEF IInv
    <2>1. ASSUME NEW b \in Bookers, BookStep(b) \/ CancelWithToken(b) \/ CancelBooking(b)
          PROVE  [Ledger!Next]_(Ledger!vars)
      BY <2>1, BookerLedger
    <2>2. ASSUME NEW e \in Editors, PutSlotsStep(e) PROVE [Ledger!Next]_(Ledger!vars)
      BY <2>2, EditorLedger
    <2>3. ASSUME NEW d \in Deleters, DeleteBookableStep(d) PROVE [Ledger!Next]_(Ledger!vars)
      BY <2>3, DeleterLedger
    <2>4. ASSUME NEW p \in Procs, Rollback(p) PROVE [Ledger!Next]_(Ledger!vars)
      BY <2>4, RollbackLedger DEF Ledger!vars
    <2>5. CASE \/ \E o \in Openers : OpenBookableFind(o) \/ OpenBookableMint(o)
               \/ CloseBookable
               \/ \E s \in Slots : SlotStarts(s)
               \/ UNCHANGED vars
      <3>1. UNCHANGED <<slot, capacity, booking, sel>>
        BY <2>5 DEF OpenBookableFind, OpenBookableMint, CloseBookable, SlotStarts, vars, slotVars, bookVars
      <3> QED
        BY <3>1, LedgerStutters DEF Ledger!vars
    <2> QED
      BY <2>1, <2>2, <2>3, <2>4, <2>5 DEF Next
  <1> QED
    BY <1>1, InitLedger, OneEditorInductive, PTL DEF Spec, ImplementsLedger, Ledger!Spec
=============================================================================
