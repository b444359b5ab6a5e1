----------------------- MODULE ReservationStateMachine -----------------------
(***************************************************************************)
(* The status graph of a reservation, as the table VALID_TRANSITIONS that  *)
(* every reservation handler consults before it acts.                      *)
(***************************************************************************)

\* Every status a reservation row can hold.
ReservationStatus ==
  {"pending", "confirmed", "assigned", "checked_in", "stayover", "due_out",
   "checked_out", "no_show", "cancelled"}

\* The statuses each status may move to.
VALID_TRANSITIONS ==
  [ pending     |-> {"confirmed", "cancelled"},
    confirmed   |-> {"assigned", "cancelled", "no_show"},
    assigned    |-> {"checked_in", "cancelled", "no_show"},
    checked_in  |-> {"stayover", "checked_out"},
    stayover    |-> {"due_out", "checked_out"},
    due_out     |-> {"checked_out"},
    checked_out |-> {},
    no_show     |-> {},
    cancelled   |-> {} ]

\* assertTransition throws unless this holds.
ValidTransition(current, target) == target \in VALID_TRANSITIONS[current]

\* A guest is in the hotel.
InHouse == {"checked_in", "stayover", "due_out"}

\* Statuses reached only through a successful check-in.
AfterCheckIn == InHouse \cup {"checked_out"}

\* Statuses that a stay can only reach through a room assignment.
AfterAssignment == {"assigned"} \cup AfterCheckIn

\* What the front desk creates (pending) and what the booking channels
\* create (confirmed).
CreatedStatus == {"pending", "confirmed"}
=============================================================================
