----------------------------- MODULE MCBooking -----------------------------
(***************************************************************************)
(* Instances of Booking for TLC.                                           *)
(***************************************************************************)
EXTENDS Booking, TLC

\* Guests are interchangeable, and so are console requests of one kind.
Symmetric == Permutations(Bookers) \cup Permutations(Editors) \cup Permutations(Openers)
=============================================================================
