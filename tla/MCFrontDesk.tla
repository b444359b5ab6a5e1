----------------------------- MODULE MCFrontDesk -----------------------------
(* Small instances of the front desk for TLC.                               *)
EXTENDS FrontDesk, TLC

\* Reservations, rooms and requests are only ever compared for equality.
Symmetry ==
  Permutations(Reservations) \cup Permutations(Rooms) \cup Permutations(Requests)
=============================================================================
