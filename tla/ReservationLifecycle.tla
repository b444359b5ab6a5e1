------------------------- MODULE ReservationLifecycle -------------------------
(***************************************************************************)
(* What the reservation module promises, whatever handlers run and however *)
(* they interleave: every reservation walks along the status graph, one    *)
(* edge at a time.  It says nothing of rooms, folios, requests or events.  *)
(***************************************************************************)
EXTENDS ReservationStateMachine

CONSTANT Reservations

VARIABLE status

Init == status \in [Reservations -> CreatedStatus]

\* A statement of the database may move several reservations at once (the
\* night audit does), each along an edge of the graph.
Next ==
  /\ status' \in [Reservations -> ReservationStatus]
  /\ \A r \in Reservations :
       status'[r] = status[r] \/ ValidTransition(status[r], status'[r])

Spec == Init /\ [][Next]_status
=============================================================================
