------------------------------- MODULE FrontDesk -------------------------------
(***************************************************************************)
(* The reservation handlers of the API, the room status transitions they   *)
(* call, and the night audit's status updates, all running concurrently    *)
(* over one database.                                                      *)
(*                                                                         *)
(* A handler is an async function: it reads a row, and every later await   *)
(* lets the others run.  A request in flight is a record of what the       *)
(* handler has read so far and of the await it is about to resume from     *)
(* ("at").  Each action is one database statement, or one call that the    *)
(* handler's outcome depends on.  An early return or an exception leaves   *)
(* the request Idle.                                                       *)
(***************************************************************************)
EXTENDS Naturals, ReservationStateMachine, RoomStateMachine

CONSTANTS
  Reservations,   \* reservation rows, all already created
  Rooms,          \* the rooms of the one room type these reservations hold
  Requests,       \* requests the server may have in flight at once
  NoRoom,         \* roomId is null
  NoReservation,  \* a room request works for no reservation
  PatchTargets,   \* room statuses staff ask for directly
  LateFee         \* TRUE: departures are late and the hotel charges a fee

ASSUME FrontDeskAssumption ==
  /\ NoRoom \notin Rooms
  /\ NoReservation \notin Reservations
  /\ PatchTargets \subseteq RoomStatus
  /\ LateFee \in BOOLEAN

VARIABLES
  status,    \* reservations.status
  roomOf,    \* reservations.room_id
  room,      \* rooms.status
  folios,    \* automatic guest folios created for the reservation
  lateFees,  \* late check-out fees posted to it (two stands for any more)
  req,       \* the requests in flight
  vacated,   \* reservations whose check-out has put their room vacant_dirty
  announced  \* <<reservation, status>> of the events emitted

vars == <<status, roomOf, room, folios, lateFees, req, vacated, announced>>

\* The conditional UPDATE each handler passes to claimTransition: the statuses
\* it may start from and the status it writes.
ClaimOf ==
  [ confirm       |-> [from |-> {"pending"}, to |-> "confirmed"],
    assignRoom    |-> [from |-> {"confirmed"}, to |-> "assigned"],
    cancel        |-> [from |-> {"pending", "confirmed", "assigned"},
                       to   |-> "cancelled"],
    markNoShow    |-> [from |-> {"confirmed", "assigned"}, to |-> "no_show"],
    processNoShow |-> [from |-> {"confirmed", "assigned"}, to |-> "no_show"],
    checkIn       |-> [from |-> {"assigned"}, to |-> "checked_in"],
    checkOut      |-> [from |-> InHouse, to |-> "checked_out"] ]

Ops == DOMAIN ClaimOf

\* The awaits a handler can be suspended at.
Awaits == {"markNoShow", "readRoom", "claim", "createFolio", "settle",
           "roomStatus", "writeRoom", "freeRoom", "emit"}

Idle == [op |-> "idle", at |-> "idle", res |-> NoReservation, room |-> NoRoom,
         to |-> "vacant_clean"]

\* A handler at work on a reservation, or a room status request of its own.
Request ==
  [ op   : Ops,
    at   : Awaits,
    res  : Reservations,
    room : Rooms \cup {NoRoom},
    to   : {"occupied", "vacant_dirty"} ]
  \cup
  [ op   : {"transitionStatus"},
    at   : {"roomStatus", "writeRoom"},
    res  : {NoReservation},
    room : Rooms,
    to   : PatchTargets ]

Init ==
  /\ status \in [Reservations -> CreatedStatus]
  /\ roomOf = [r \in Reservations |-> NoRoom]
  /\ room \in [Rooms -> Assignable \cup {"vacant_dirty"}]
  /\ folios = [r \in Reservations |-> 0]
  /\ lateFees = [r \in Reservations |-> 0]
  /\ req = [q \in Requests |-> Idle]
  /\ vacated = {}
  /\ announced = {}

-----------------------------------------------------------------------------
(* The first half of each handler: read the row, check it, go on.          *)

\* A free slot takes a request, which has read reservation r in a status the
\* state machine lets op leave, and is suspended at the given await.
Begin(q, op, r, rm, at) ==
  /\ req[q] = Idle
  /\ ValidTransition(status[r], ClaimOf[op].to)
  /\ req' = [req EXCEPT ![q] = [op |-> op, at |-> at, res |-> r, room |-> rm,
                                to |-> IF op = "checkIn" THEN "occupied"
                                                         ELSE "vacant_dirty"]]
  /\ UNCHANGED <<status, roomOf, room, folios, lateFees, vacated, announced>>

Confirm(q, r) == Begin(q, "confirm", r, NoRoom, "claim")

Cancel(q, r) == Begin(q, "cancel", r, NoRoom, "claim")

MarkNoShow(q, r) == Begin(q, "markNoShow", r, NoRoom, "claim")

AssignRoom(q, r, rm) == Begin(q, "assignRoom", r, rm, "readRoom")

\* Check-in into the room the desk names, which is then validated, or into the
\* one assigned before, which is not looked at until markOccupied.
CheckIn(q, r) ==
  \/ \E rm \in Rooms : Begin(q, "checkIn", r, rm, "readRoom")
  \/ roomOf[r] # NoRoom /\ Begin(q, "checkIn", r, roomOf[r], "claim")

\* Check-out keeps the room id it reads here until it releases that room.
CheckOut(q, r) == Begin(q, "checkOut", r, roomOf[r], "settle")

\* The night audit has read r among its no-show candidates.
ProcessNoShow(q, r) ==
  /\ status[r] \in {"confirmed", "assigned"}
  /\ Begin(q, "processNoShow", r, roomOf[r], "markNoShow")

\* PATCH /rooms/:id/status, out-of-order, back-in-service.
PatchRoomStatus(q, rm, to) ==
  /\ req[q] = Idle
  /\ req' = [req EXCEPT ![q] = [op |-> "transitionStatus", at |-> "roomStatus",
                                res |-> NoReservation, room |-> rm, to |-> to]]
  /\ UNCHANGED <<status, roomOf, room, folios, lateFees, vacated, announced>>

-----------------------------------------------------------------------------
(* The rest of each handler, one await at a time.                          *)

\* Request q resumes at the next await, or ends.
Resume(q, at) == req' = [req EXCEPT ![q].at = at]

End(q) == req' = [req EXCEPT ![q] = Idle]

\* markNoShow reads the candidate again.
RereadNoShow(q) ==
  /\ req[q].at = "markNoShow"
  /\ IF ValidTransition(status[req[q].res], "no_show")
     THEN Resume(q, "claim")
     ELSE End(q)
  /\ UNCHANGED <<status, roomOf, room, folios, lateFees, vacated, announced>>

\* The room the desk named must be of the right type and in an assignable
\* status.  Nothing asks whether another reservation holds it.
ReadRoom(q) ==
  /\ req[q].at = "readRoom"
  /\ IF room[req[q].room] \in Assignable THEN Resume(q, "claim") ELSE End(q)
  /\ UNCHANGED <<status, roomOf, room, folios, lateFees, vacated, announced>>

\* Where a handler goes once its claim has won; the others return.
AfterClaim(op) ==
  CASE op = "cancel"        -> "emit"
    [] op = "checkIn"       -> "createFolio"
    [] op = "processNoShow" -> "createFolio"
    [] op = "checkOut"      -> "emit"
    [] OTHER                -> "return"

\* The handler goes on with what only the winner of the claim may do.
GoOn(q) ==
  IF AfterClaim(req[q].op) = "return" THEN End(q) ELSE Resume(q, AfterClaim(req[q].op))

\* Mutant: the UPDATE is by id alone, trusting the status read before.
UpdateById(q) == TRUE

\* The WHERE clause of the claim.
Matches(q) == status[req[q].res] \in ClaimOf[req[q].op].from

\* Mutant: nobody looks at how many rows the claim returned.
GoOnRegardless(q) == GoOn(q)

\* The claim matched no row: the handler throws.
NoRowMatched(q) == End(q)

\* The atomic conditional UPDATE.
ClaimTransition(q) ==
  LET op == req[q].op
      r  == req[q].res
  IN /\ req[q].at = "claim"
     /\ IF Matches(q)
        THEN /\ status' = [status EXCEPT ![r] = ClaimOf[op].to]
             /\ roomOf' = IF op \in {"assignRoom", "checkIn"}
                          THEN [roomOf EXCEPT ![r] = req[q].room]
                          ELSE roomOf
             /\ GoOn(q)
        ELSE NoRowMatched(q) /\ UNCHANGED <<status, roomOf>>
     /\ UNCHANGED <<room, folios, lateFees, vacated, announced>>

\* Where a handler goes after its folio is there: check-in hands the room over,
\* the audit frees the room it read with the candidate, if any.
AfterFolio(q) ==
  IF req[q].op = "checkIn" THEN Resume(q, "roomStatus")
  ELSE IF req[q].room # NoRoom THEN Resume(q, "freeRoom") ELSE End(q)

CreateAutoFolio(q) ==
  /\ req[q].at = "createFolio"
  /\ folios' = [folios EXCEPT ![req[q].res] = @ + 1]
  /\ AfterFolio(q)
  /\ UNCHANGED <<status, roomOf, room, lateFees, vacated, announced>>

\* The audit needs no new folio when the hotel charges no no-show fee or the
\* guest has one already; a failure to post the fee is recorded and passed over.
SkipNoShowFolio(q) ==
  /\ req[q].at = "createFolio"
  /\ req[q].op = "processNoShow"
  /\ AfterFolio(q)
  /\ UNCHANGED <<status, roomOf, room, folios, lateFees, vacated, announced>>

\* The audit clears the room of a reservation it has marked no_show, by id.
FreeRoom(q) ==
  /\ req[q].at = "freeRoom"
  /\ roomOf' = [roomOf EXCEPT ![req[q].res] = NoRoom]
  /\ End(q)
  /\ UNCHANGED <<status, room, folios, lateFees, vacated, announced>>

\* Check-out's folio work: the late fee goes to an open folio, then payments
\* are captured and folios settled, or the remaining authorizations voided.
SettleFolios(q) ==
  LET r == req[q].res
  IN /\ req[q].at = "settle"
     /\ lateFees' = IF LateFee /\ folios[r] > 0 /\ lateFees[r] < 2
                    THEN [lateFees EXCEPT ![r] = @ + 1]
                    ELSE lateFees
     /\ Resume(q, IF req[q].room = NoRoom THEN "claim" ELSE "roomStatus")
     /\ UNCHANGED <<status, roomOf, room, folios, vacated, announced>>

\* Mutant: check-out catches the refusal of the room service and goes on.
GoOnUnreleased(q) == IF req[q].op = "checkOut" THEN Resume(q, "claim") ELSE End(q)

\* The room service throws on an edge the graph lacks, and its caller with it.
RefuseRoom(q) == End(q)

\* transitionStatus reads the room and looks its status up in the graph.
ReadRoomStatus(q) ==
  /\ req[q].at = "roomStatus"
  /\ IF ValidRoomTransition(room[req[q].room], req[q].to)
     THEN Resume(q, "writeRoom")
     ELSE RefuseRoom(q)
  /\ UNCHANGED <<status, roomOf, room, folios, lateFees, vacated, announced>>

\* transitionStatus updates the room by id, whatever its status is by now.
WriteRoomStatus(q) ==
  LET op == req[q].op
  IN /\ req[q].at = "writeRoom"
     /\ room' = [room EXCEPT ![req[q].room] = req[q].to]
     /\ vacated' = IF op = "checkOut" THEN vacated \cup {req[q].res} ELSE vacated
     /\ IF op = "transitionStatus"
        THEN End(q)
        ELSE Resume(q, IF op = "checkOut" THEN "claim" ELSE "emit")
     /\ UNCHANGED <<status, roomOf, folios, lateFees, announced>>

\* reservation.cancelled, reservation.checked_in, reservation.checked_out.
Emit(q) ==
  /\ req[q].at = "emit"
  /\ announced' = announced \cup {<<req[q].res, ClaimOf[req[q].op].to>>}
  /\ End(q)
  /\ UNCHANGED <<status, roomOf, room, folios, lateFees, vacated>>

\* A call inside the handler throws (a folio number taken, an open balance at
\* express check-out, a lost connection), or the server stops: whatever the
\* handler has done so far stays done.
Abort(q) ==
  /\ req[q] # Idle
  /\ End(q)
  /\ UNCHANGED <<status, roomOf, room, folios, lateFees, vacated, announced>>

-----------------------------------------------------------------------------
(* The night audit's bulk updates, one statement each.                     *)

\* UPDATE ... SET status = target WHERE status = source AND <the dates match>.
AuditUpdate(source, target) ==
  \E due \in SUBSET {r \in Reservations : status[r] = source} :
    /\ due # {}
    /\ status' = [r \in Reservations |-> IF r \in due THEN target ELSE status[r]]
    /\ UNCHANGED <<roomOf, room, folios, lateFees, req, vacated, announced>>

\* Guests checked in before the business date.
AdvanceStayovers == AuditUpdate("checked_in", "stayover")

\* Guests leaving the day after the business date.
MarkDueOuts == AuditUpdate("stayover", "due_out")

-----------------------------------------------------------------------------
Handler(q) ==
  \/ \E r \in Reservations :
       \/ Confirm(q, r) \/ Cancel(q, r) \/ MarkNoShow(q, r)
       \/ \E rm \in Rooms : AssignRoom(q, r, rm)
       \/ CheckIn(q, r) \/ CheckOut(q, r) \/ ProcessNoShow(q, r)
  \/ \E rm \in Rooms, to \in PatchTargets : PatchRoomStatus(q, rm, to)
  \/ RereadNoShow(q) \/ ReadRoom(q) \/ ClaimTransition(q)
  \/ CreateAutoFolio(q) \/ SkipNoShowFolio(q) \/ FreeRoom(q)
  \/ SettleFolios(q) \/ ReadRoomStatus(q) \/ WriteRoomStatus(q)
  \/ Emit(q) \/ Abort(q)

Next ==
  \/ \E q \in Requests : Handler(q)
  \/ AdvanceStayovers
  \/ MarkDueOuts

Spec == Init /\ [][Next]_vars

-----------------------------------------------------------------------------
(* Properties.                                                             *)

\* Every variable, and every field of a request in flight, has its type.
TypeOK ==
  /\ status \in [Reservations -> ReservationStatus]
  /\ roomOf \in [Reservations -> Rooms \cup {NoRoom}]
  /\ room \in [Rooms -> RoomStatus]
  /\ folios \in [Reservations -> Nat]
  /\ lateFees \in [Reservations -> 0..2]
  /\ req \in [Requests -> Request \cup {Idle}]
  /\ vacated \subseteq Reservations
  /\ announced \subseteq Reservations \X ReservationStatus

Lifecycle == INSTANCE ReservationLifecycle WITH Reservations <- Reservations, status <- status

\* However the handlers interleave, and wherever one of them stops, the
\* reservation rows only ever walk along the status graph: the claim is what
\* makes the stale read before it harmless.
ImplementsLifecycle == Lifecycle!Spec

\* A guest who was assigned a room keeps one on the row for the whole stay, so
\* check-out always has a room to release (it skips the release of a null id):
\* no late write of the audit's room clearing hits a stay.
StayHasRoom == \A r \in Reservations : status[r] \in AfterAssignment => roomOf[r] # NoRoom

\* Check-out releases the room id it read when it started; nothing may move the
\* guest to another room in the meantime.
RoomFixedDuringStay ==
  [][\A r \in Reservations : status[r] \in AfterCheckIn => roomOf'[r] = roomOf[r]]_vars

\* Side effects of check-in run only for the request whose claim won, and the
\* audit looks for a folio first: no reservation gets two automatic folios.
AtMostOneAutoFolio == \A r \in Reservations : folios[r] <= 1

\* No reservation is checked out before its check-out has put its room
\* vacant_dirty, which is what creates the housekeeping task.
CheckedOutRoomVacated == \A r \in Reservations : status[r] = "checked_out" => r \in vacated

\* An event is only sent for a transition that happened: a subscriber who hears
\* that a reservation was cancelled or checked out finds it so for ever, and one
\* who hears of a check-in finds a guest who has been in the hotel.
EventsAreTrue ==
  \A e \in announced :
    IF e[2] = "checked_in" THEN status[e[1]] \in AfterCheckIn ELSE status[e[1]] = e[2]

-----------------------------------------------------------------------------
(* What the repository says of the front desk and the code does not keep.  *)

\* Comment above check-out's claim: it prevents double check-out races.  The
\* late fee is posted before the claim, so every attempt posts one.
OneLateFeePerStay == \A r \in Reservations : lateFees[r] <= 1
=============================================================================
