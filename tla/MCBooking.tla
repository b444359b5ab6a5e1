------------------------------- MODULE MCBooking -------------------------------
(* Small instances of the bookings for TLC.                                 *)
EXTENDS Booking, TLC

\* One room of each type.
OneRoomEach == [t \in RoomTypes |-> 1]

\* One date at a time, or all fields; there is only one type to choose.
OneDateOrAll == {{"from"}, {"to"}, Fields}

\* Rows, requests and external numbers are only ever compared for equality, and
\* so are room types that have equally many rooms.
Symmetry ==
  Permutations(Reservations) \cup Permutations(RoomTypes) \cup Permutations(Requests)
=============================================================================
