--------------------------- MODULE BookingLedger ---------------------------
(***************************************************************************)
(* What booking promises its guests and its organisation, with no locks,   *)
(* no transactions and no statements: a ledger of who has which place.     *)
(* Booking implements it when one slot change runs at a time.              *)
(***************************************************************************)
EXTENDS Naturals, FiniteSets

CONSTANTS Bookers, Slots, Capacities, None

VARIABLES
  offered,  \* Slots -> places on offer, 0 when the slot is not
  held      \* Bookers -> the slot they have a place in, or None

vars == <<offered, held>>

Holders(s) == {b \in Bookers : held[b] = s}

Init ==
  /\ offered = [s \in Slots |-> 0]
  /\ held = [b \in Bookers |-> None]

Take(b, s) ==
  /\ held[b] = None
  /\ Cardinality(Holders(s)) < offered[s]
  /\ held' = [held EXCEPT ![b] = s]
  /\ UNCHANGED offered

Withdraw(b) ==
  /\ held[b] # None
  /\ held' = [held EXCEPT ![b] = None]
  /\ UNCHANGED offered

\* The organisation puts up another set of slots, none of them on offer before,
\* and only while nobody holds a place.
Republish ==
  /\ \A b \in Bookers : held[b] = None
  /\ \E new \in SUBSET {s \in Slots : offered[s] = 0} :
       \E caps \in [new -> Capacities] :
         offered' = [s \in Slots |-> IF s \in new THEN caps[s] ELSE 0]
  /\ UNCHANGED held

\* Deleting the bookable takes everything with it, on purpose.
Remove ==
  /\ offered' = [s \in Slots |-> 0]
  /\ held' = [b \in Bookers |-> None]

Next ==
  \/ \E b \in Bookers : (\E s \in Slots : Take(b, s)) \/ Withdraw(b)
  \/ Republish
  \/ Remove

Spec == Init /\ [][Next]_vars
=============================================================================
