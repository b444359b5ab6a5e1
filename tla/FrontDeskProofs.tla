---------------------------- MODULE FrontDeskProofs ----------------------------
(***************************************************************************)
(* Proofs about the front desk, alone and beside the outside cancellers,   *)
(* for any number of reservations, rooms and requests in flight.           *)
(***************************************************************************)
EXTENDS BookingSources, TLAPS

-----------------------------------------------------------------------------
(* The inductive invariant.                                                *)

\* The status a reservation is in once op's claim has won, and ever after: a
\* stay goes on after check-in, the other outcomes are final.
Reached(op, s) ==
  IF op = "checkIn" THEN s \in AfterCheckIn ELSE s = ClaimOf[op].to

\* x stands behind its claim.
PastClaim(x) ==
  \/ x.at \in {"createFolio", "freeRoom", "emit"}
  \/ x.op = "checkIn" /\ x.at \in {"roomStatus", "writeRoom"}

\* Which handler can be at which await, with what room.
PlacesOK(x) ==
  /\ x.at = "readRoom" => x.op \in {"assignRoom", "checkIn"}
  /\ x.at = "settle" => x.op = "checkOut"
  /\ x.at = "markNoShow" => x.op = "processNoShow"
  /\ x.at = "createFolio" => x.op \in {"checkIn", "processNoShow"}
  /\ x.at = "freeRoom" => x.op = "processNoShow"
  /\ x.at \in {"roomStatus", "writeRoom"} =>
       x.op \in {"checkIn", "checkOut", "transitionStatus"}
  /\ x.at = "emit" => x.op \in {"cancel", "checkIn", "checkOut"}
  /\ x.op \in {"assignRoom", "checkIn", "checkOut"} => x.room # NoRoom

\* What a request past its claim, or past the room's release, relies on.
RequestOK(x) ==
  /\ PlacesOK(x)
  /\ PastClaim(x) => Reached(x.op, status[x.res])
  /\ x.op = "checkOut" /\ x.at = "claim" => x.res \in vacated

RequestsOK == \A q \in Requests : req[q] = Idle \/ RequestOK(req[q])

\* The folio is yet to be created, by one request only, until check-in or the
\* audit has created it; before either there is none.
FoliosOK ==
  /\ \A q \in Requests : req[q].at = "createFolio" =>
       /\ folios[req[q].res] = 0
       /\ \A p \in Requests :
            req[p].at = "createFolio" /\ req[p].res = req[q].res => p = q
  /\ \A r \in Reservations :
       status[r] \notin AfterCheckIn \cup {"no_show"} => folios[r] = 0

\* Only these are announced.
AnnouncedOK ==
  \A e \in announced : e[2] \in {"cancelled", "checked_in", "checked_out"}

IInv ==
  /\ TypeOK
  /\ StayHasRoom
  /\ RequestsOK
  /\ FoliosOK
  /\ AtMostOneAutoFolio
  /\ CheckedOutRoomVacated
  /\ AnnouncedOK
  /\ EventsAreTrue

-----------------------------------------------------------------------------
(* Facts about requests and claims that the proofs below use.              *)

\* The claim every handler makes is an edge of the status graph.
LEMMA ClaimsAreEdges ==
  ASSUME NEW op \in Ops, NEW s \in ClaimOf[op].from
  PROVE  /\ s \in ReservationStatus
         /\ ClaimOf[op].to \in ReservationStatus
         /\ ValidTransition(s, ClaimOf[op].to)
BY DEF Ops, ClaimOf, ValidTransition, VALID_TRANSITIONS, ReservationStatus, InHouse

LEMMA TargetsAreStatuses == \A op \in Ops : ClaimOf[op].to \in ReservationStatus
BY DEF Ops, ClaimOf, ReservationStatus

\* A request at an await is not idle; one that is not at work for a
\* reservation is a room status request.
LEMMA BusyRequest ==
  ASSUME TypeOK, NEW q \in Requests, req[q].at \in Awaits
  PROVE  /\ req[q] \in Request
         /\ req[q] # Idle
         /\ req[q].at \notin {"roomStatus", "writeRoom"} => req[q].op \in Ops
         /\ req[q].op # "transitionStatus" => req[q].op \in Ops
         /\ req[q].op \in Ops => req[q].res \in Reservations
         /\ req[q].room \in Rooms \cup {NoRoom}
<1>1. req[q] \in Request \cup {Idle}
  BY DEF TypeOK
<1>2. Idle.at \notin Awaits
  BY DEF Idle, Awaits
<1>3. req[q] \in Request
  BY <1>1, <1>2
<1>4. QED
  BY <1>2, <1>3, FrontDeskAssumption DEF Request, Awaits, Ops, ClaimOf

\* Going on to another await, or ending, keeps the requests' type.
LEMMA ResumeType ==
  ASSUME TypeOK, NEW q \in Requests, req[q] \in Request, NEW at \in Awaits,
         req[q].op \in Ops \/ at \in {"roomStatus", "writeRoom"},
         Resume(q, at)
  PROVE  req' \in [Requests -> Request \cup {Idle}]
<1>1. [req[q] EXCEPT !.at = at] \in Request
  <2>1. CASE req[q].op \in Ops
    BY <2>1 DEF Request, Ops, ClaimOf
  <2>2. CASE req[q].op \notin Ops
    BY <2>2 DEF Request
  <2>3. QED
    BY <2>1, <2>2
<1>2. QED
  BY <1>1 DEF Resume, TypeOK

LEMMA EndType ==
  ASSUME TypeOK, NEW q \in Requests, End(q)
  PROVE  req' \in [Requests -> Request \cup {Idle}]
BY DEF End, TypeOK

LEMMA BeginType ==
  ASSUME TypeOK, NEW q \in Requests, NEW op \in Ops, NEW r \in Reservations,
         NEW rm \in Rooms \cup {NoRoom}, NEW at \in Awaits,
         Begin(q, op, r, rm, at)
  PROVE  TypeOK'
<1> DEFINE x == [op |-> op, at |-> at, res |-> r, room |-> rm,
                 to |-> IF op = "checkIn" THEN "occupied" ELSE "vacant_dirty"]
<1>1. x \in Request
  BY DEF Request
<1>2. req' = [req EXCEPT ![q] = x]
  BY DEF Begin
<1>3. req' \in [Requests -> Request \cup {Idle}]
  BY <1>1, <1>2 DEF TypeOK
<1>4. QED
  BY <1>3 DEF Begin, TypeOK

-----------------------------------------------------------------------------
(* Type correctness.                                                       *)

LEMMA TypeInit == Init => TypeOK
BY FrontDeskAssumption
   DEF Init, TypeOK, CreatedStatus, ReservationStatus, RoomStatus, Assignable

LEMMA TypeBegins ==
  ASSUME TypeOK, NEW q \in Requests, NEW r \in Reservations,
         \/ Confirm(q, r) \/ Cancel(q, r) \/ MarkNoShow(q, r)
         \/ \E rm \in Rooms : AssignRoom(q, r, rm)
         \/ CheckIn(q, r) \/ CheckOut(q, r) \/ ProcessNoShow(q, r)
  PROVE  TypeOK'
<1> USE DEF Ops, ClaimOf, Awaits
<1>1. roomOf[r] \in Rooms \cup {NoRoom}
  BY DEF TypeOK
<1>2. CASE Confirm(q, r)
  BY <1>2, BeginType DEF Confirm
<1>3. CASE Cancel(q, r)
  BY <1>3, BeginType DEF Cancel
<1>4. CASE MarkNoShow(q, r)
  BY <1>4, BeginType DEF MarkNoShow
<1>5. CASE \E rm \in Rooms : AssignRoom(q, r, rm)
  BY <1>5, BeginType DEF AssignRoom
<1>6. CASE CheckIn(q, r)
  BY <1>6, <1>1, BeginType DEF CheckIn
<1>7. CASE CheckOut(q, r)
  BY <1>7, <1>1, BeginType DEF CheckOut
<1>8. CASE ProcessNoShow(q, r)
  BY <1>8, <1>1, BeginType DEF ProcessNoShow
<1>9. QED
  BY <1>2, <1>3, <1>4, <1>5, <1>6, <1>7, <1>8

LEMMA TypeStep == TypeOK /\ [Next]_vars => TypeOK'
<1> SUFFICES ASSUME TypeOK, [Next]_vars PROVE TypeOK'
  OBVIOUS
<1>1. ASSUME NEW q \in Requests, Handler(q) PROVE TypeOK'
  <2> USE DEF Awaits
  <2> DEFINE reqType == req' \in [Requests -> Request \cup {Idle}]
  <2>1. CASE \E r \in Reservations :
               \/ Confirm(q, r) \/ Cancel(q, r) \/ MarkNoShow(q, r)
               \/ \E rm \in Rooms : AssignRoom(q, r, rm)
               \/ CheckIn(q, r) \/ CheckOut(q, r) \/ ProcessNoShow(q, r)
    BY <2>1, TypeBegins
  <2>2. ASSUME NEW rm \in Rooms, NEW to \in PatchTargets, PatchRoomStatus(q, rm, to)
        PROVE  TypeOK'
    BY <2>2 DEF PatchRoomStatus, TypeOK, Request
  <2>3. CASE RereadNoShow(q)
    <3>1. reqType
      BY <2>3, BusyRequest, ResumeType, EndType DEF RereadNoShow
    <3>2. QED
      BY <2>3, <3>1 DEF RereadNoShow, TypeOK
  <2>4. CASE ReadRoom(q)
    <3>1. reqType
      BY <2>4, BusyRequest, ResumeType, EndType DEF ReadRoom
    <3>2. QED
      BY <2>4, <3>1 DEF ReadRoom, TypeOK
  <2>5. CASE ClaimTransition(q)
    <3>1. req[q].op \in Ops /\ req[q] \in Request /\ req[q].room \in Rooms \cup {NoRoom}
      BY <2>5, BusyRequest DEF ClaimTransition
    <3>2. GoOn(q) => reqType
      BY <3>1, ResumeType, EndType DEF GoOn, AfterClaim, Ops, ClaimOf
    <3>3. reqType
      BY <2>5, <3>2, EndType DEF ClaimTransition, NoRowMatched
    <3>4. QED
      BY <2>5, <3>1, <3>3, TargetsAreStatuses DEF ClaimTransition, TypeOK
  <2>6. CASE CreateAutoFolio(q)
    <3>1. reqType
      BY <2>6, BusyRequest, ResumeType, EndType DEF CreateAutoFolio, AfterFolio
    <3>0. req[q].res \in Reservations
      BY <2>6, BusyRequest DEF CreateAutoFolio
    <3>2. folios' \in [Reservations -> Nat]
      BY <2>6, <3>0 DEF CreateAutoFolio, TypeOK
    <3>3. QED
      BY <2>6, <3>1, <3>2 DEF CreateAutoFolio, TypeOK
  <2>7. CASE SkipNoShowFolio(q)
    <3>1. reqType
      BY <2>7, BusyRequest, ResumeType, EndType DEF SkipNoShowFolio, AfterFolio
    <3>2. QED
      BY <2>7, <3>1 DEF SkipNoShowFolio, TypeOK
  <2>8. CASE FreeRoom(q)
    <3>1. reqType
      BY <2>8, EndType DEF FreeRoom
    <3>2. QED
      BY <2>8, <3>1 DEF FreeRoom, TypeOK
  <2>9. CASE SettleFolios(q)
    <3>1. reqType
      BY <2>9, BusyRequest, ResumeType DEF SettleFolios
    <3>2. lateFees' \in [Reservations -> 0..2]
      <4>1. req[q].res \in Reservations
        BY <2>9, BusyRequest DEF SettleFolios
      <4>2. lateFees[req[q].res] < 2 => lateFees[req[q].res] + 1 \in 0..2
        BY <4>1 DEF TypeOK
      <4>3. QED
        BY <2>9, <4>1, <4>2 DEF SettleFolios, TypeOK
    <3>3. QED
      BY <2>9, <3>1, <3>2 DEF SettleFolios, TypeOK
  <2>10. CASE ReadRoomStatus(q)
    <3>1. reqType
      BY <2>10, BusyRequest, ResumeType, EndType DEF ReadRoomStatus, RefuseRoom
    <3>2. QED
      BY <2>10, <3>1 DEF ReadRoomStatus, TypeOK
  <2>11. CASE WriteRoomStatus(q)
    <3>1. req[q] \in Request /\ (req[q].op # "transitionStatus" => req[q].op \in Ops)
      BY <2>11, BusyRequest DEF WriteRoomStatus
    <3>2. reqType
      BY <2>11, <3>1, ResumeType, EndType DEF WriteRoomStatus
    <3>3. req[q].to \in RoomStatus
      BY <3>1, FrontDeskAssumption DEF Request, RoomStatus
    <3>4. req[q].op = "checkOut" => req[q].res \in Reservations
      BY <3>1 DEF Request
    <3>5. QED
      BY <2>11, <3>2, <3>3, <3>4 DEF WriteRoomStatus, TypeOK
  <2>12. CASE Emit(q)
    <3>1. req[q].op \in Ops /\ req[q].res \in Reservations
      BY <2>12, BusyRequest DEF Emit
    <3>2. reqType
      BY <2>12, EndType DEF Emit
    <3>3. QED
      BY <2>12, <3>1, <3>2, TargetsAreStatuses DEF Emit, TypeOK
  <2>13. CASE Abort(q)
    BY <2>13, EndType DEF Abort, TypeOK
  <2>14. QED
    BY <1>1, <2>1, <2>2, <2>3, <2>4, <2>5, <2>6, <2>7, <2>8, <2>9, <2>10, <2>11,
       <2>12, <2>13 DEF Handler
<1>2. CASE AdvanceStayovers
  BY <1>2 DEF AdvanceStayovers, AuditUpdate, TypeOK, ReservationStatus
<1>3. CASE MarkDueOuts
  BY <1>3 DEF MarkDueOuts, AuditUpdate, TypeOK, ReservationStatus
<1>4. CASE UNCHANGED vars
  BY <1>4 DEF vars, TypeOK
<1>5. QED
  BY <1>1, <1>2, <1>3, <1>4 DEF Next

\* The variables and requests keep their types in every behaviour.
THEOREM TypeCorrect == Spec => []TypeOK
<1>1. QED
  BY TypeInit, TypeStep, PTL DEF Spec

-----------------------------------------------------------------------------
(* The front desk implements the reservation lifecycle.                    *)

\* Whatever a step does, each reservation stays where it is or moves along an
\* edge of the status graph.
LEMMA StatusStep ==
  ASSUME TypeOK, [Next]_vars, NEW r \in Reservations
  PROVE  status'[r] = status[r] \/ ValidTransition(status[r], status'[r])
<1> DEFINE Moves == status'[r] = status[r] \/ ValidTransition(status[r], status'[r])
<1>1. ASSUME NEW q \in Requests, ClaimTransition(q) PROVE Moves
  <2>1. req[q].op \in Ops
    BY <1>1, BusyRequest DEF ClaimTransition, Awaits
  <2>2. CASE Matches(q)
    <3>1. status[req[q].res] \in ClaimOf[req[q].op].from
      BY <2>2 DEF Matches
    <3>2. status' = [status EXCEPT ![req[q].res] = ClaimOf[req[q].op].to]
      BY <1>1, <2>2 DEF ClaimTransition
    <3>3. ValidTransition(status[req[q].res], ClaimOf[req[q].op].to)
      BY <2>1, <3>1, ClaimsAreEdges
    <3>4. QED
      BY <3>2, <3>3 DEF TypeOK
  <2>3. CASE ~Matches(q)
    BY <1>1, <2>3 DEF ClaimTransition
  <2>4. QED
    BY <2>2, <2>3
<1>2. ASSUME NEW q \in Requests, Handler(q), ~ClaimTransition(q) PROVE UNCHANGED status
  BY <1>2
     DEF Handler, Confirm, Cancel, MarkNoShow, AssignRoom, CheckIn, CheckOut,
         ProcessNoShow, Begin, PatchRoomStatus, RereadNoShow, ReadRoom,
         CreateAutoFolio, SkipNoShowFolio, FreeRoom, SettleFolios, ReadRoomStatus,
         WriteRoomStatus, Emit, Abort
<1>3. CASE AdvanceStayovers
  BY <1>3 DEF AdvanceStayovers, AuditUpdate, ValidTransition, VALID_TRANSITIONS, TypeOK
<1>4. CASE MarkDueOuts
  BY <1>4 DEF MarkDueOuts, AuditUpdate, ValidTransition, VALID_TRANSITIONS, TypeOK
<1>5. CASE UNCHANGED vars
  BY <1>5 DEF vars
<1>6. QED
  BY <1>1, <1>2, <1>3, <1>4, <1>5 DEF Next

\* Whatever handlers run and wherever they stop, the reservation rows walk the
\* status graph: the front desk implements ReservationLifecycle.
THEOREM Refinement == Spec => ImplementsLifecycle
<1>1. Init => Lifecycle!Init
  BY DEF Init, Lifecycle!Init, CreatedStatus, Lifecycle!CreatedStatus
<1>2. TypeOK /\ TypeOK' /\ [Next]_vars => [Lifecycle!Next]_status
  <2> SUFFICES ASSUME TypeOK, TypeOK', [Next]_vars PROVE Lifecycle!Next
    OBVIOUS
  <2>1. status' \in [Reservations -> Lifecycle!ReservationStatus]
    BY DEF TypeOK, ReservationStatus, Lifecycle!ReservationStatus
  <2>2. \A r \in Reservations :
          status'[r] = status[r] \/ Lifecycle!ValidTransition(status[r], status'[r])
    BY StatusStep DEF ValidTransition, Lifecycle!ValidTransition, VALID_TRANSITIONS,
                      Lifecycle!VALID_TRANSITIONS
  <2>3. QED
    BY <2>1, <2>2 DEF Lifecycle!Next
<1>3. QED
  BY <1>1, <1>2, TypeCorrect, PTL DEF Spec, ImplementsLifecycle, Lifecycle!Spec

-----------------------------------------------------------------------------
(* What the claims protect.                                                *)

\* Nothing takes a reservation back out of where a claim has put it.
LEMMA ReachedStable ==
  ASSUME TypeOK, [Next]_vars, NEW r \in Reservations,
         NEW op \in {"cancel", "checkIn", "checkOut", "processNoShow"},
         Reached(op, status[r])
  PROVE  Reached(op, status'[r])
<1>1. status'[r] = status[r] \/ status'[r] \in VALID_TRANSITIONS[status[r]]
  BY StatusStep DEF ValidTransition
<1>2. CASE op = "checkIn"
  BY <1>1, <1>2 DEF Reached, AfterCheckIn, InHouse, VALID_TRANSITIONS
<1>3. CASE op # "checkIn"
  BY <1>1, <1>3 DEF Reached, ClaimOf, VALID_TRANSITIONS
<1>4. QED
  BY <1>2, <1>3

\* No reservation comes back to before check-in from a stay or a no-show, and
\* none gets an assignment but by its claim.
LEMMA StatusClosed ==
  ASSUME TypeOK, [Next]_vars, NEW r \in Reservations
  PROVE  /\ status[r] \in AfterCheckIn => status'[r] \in AfterCheckIn
         /\ status[r] \in {"no_show", "cancelled", "checked_out"} =>
              status'[r] = status[r]
<1>1. status'[r] = status[r] \/ status'[r] \in VALID_TRANSITIONS[status[r]]
  BY StatusStep DEF ValidTransition
<1>2. QED
  BY <1>1 DEF AfterCheckIn, InHouse, VALID_TRANSITIONS

-----------------------------------------------------------------------------
(* The inductive invariant holds.                                          *)

LEMMA InvInit == Init => IInv
<1> SUFFICES ASSUME Init PROVE IInv
  OBVIOUS
<1>1. TypeOK
  BY TypeInit
<1>2. StayHasRoom /\ CheckedOutRoomVacated
  BY DEF Init, StayHasRoom, CheckedOutRoomVacated, CreatedStatus, AfterAssignment,
         AfterCheckIn, InHouse
<1>3. RequestsOK
  BY DEF Init, RequestsOK
<1>4. FoliosOK /\ AtMostOneAutoFolio
  BY DEF Init, FoliosOK, AtMostOneAutoFolio, Idle
<1>5. AnnouncedOK /\ EventsAreTrue
  BY DEF Init, AnnouncedOK, EventsAreTrue
<1>6. QED
  BY <1>1, <1>2, <1>3, <1>4, <1>5 DEF IInv

\* A step of one handler leaves the other requests where they are.
LEMMA OthersUnchanged ==
  ASSUME TypeOK, NEW q \in Requests, Handler(q), NEW p \in Requests, p # q
  PROVE  req'[p] = req[p]
<1>1. \A at : Resume(q, at) => req'[p] = req[p]
  BY DEF Resume, TypeOK
<1>2. End(q) => req'[p] = req[p]
  BY DEF End, TypeOK
<1>3. \A op, r, rm, at : Begin(q, op, r, rm, at) => req'[p] = req[p]
  BY DEF Begin, TypeOK
<1>4. \A rm, to : PatchRoomStatus(q, rm, to) => req'[p] = req[p]
  BY DEF PatchRoomStatus, TypeOK
<1>5. QED
  BY <1>1, <1>2, <1>3, <1>4
     DEF Handler, Confirm, Cancel, MarkNoShow, AssignRoom, CheckIn, CheckOut,
         ProcessNoShow, RereadNoShow, ReadRoom, ClaimTransition, GoOn, NoRowMatched,
         CreateAutoFolio, SkipNoShowFolio, AfterFolio, FreeRoom, SettleFolios,
         ReadRoomStatus, RefuseRoom, WriteRoomStatus, Emit, Abort

\* What a request relies on stays true while others work.
LEMMA RequestStable ==
  ASSUME TypeOK, [Next]_vars, NEW p \in Requests, req[p] # Idle, RequestOK(req[p]),
         vacated \subseteq vacated'
  PROVE  /\ PlacesOK(req[p])
         /\ PastClaim(req[p]) => Reached(req[p].op, status'[req[p].res])
         /\ req[p].op = "checkOut" /\ req[p].at = "claim" => req[p].res \in vacated'
<1>1. ASSUME PastClaim(req[p]) PROVE Reached(req[p].op, status'[req[p].res])
  <2>1. req[p].at \in Awaits
    BY <1>1 DEF PastClaim, Awaits
  <2>2. req[p].op \in {"cancel", "checkIn", "checkOut", "processNoShow"}
    BY <1>1 DEF RequestOK, PastClaim, PlacesOK
  <2>3. req[p].res \in Reservations
    BY <2>1, <2>2, BusyRequest DEF Ops, ClaimOf
  <2>4. QED
    BY <1>1, <2>2, <2>3, ReachedStable DEF RequestOK
<1>2. QED
  BY <1>1 DEF RequestOK

LEMMA VacatedGrows ==
  ASSUME [Next]_vars
  PROVE  vacated \subseteq vacated'
<1>1. ASSUME NEW q \in Requests, Handler(q) PROVE vacated \subseteq vacated'
  BY <1>1
     DEF Handler, Confirm, Cancel, MarkNoShow, AssignRoom, CheckIn, CheckOut,
         ProcessNoShow, Begin, PatchRoomStatus, RereadNoShow, ReadRoom,
         ClaimTransition, CreateAutoFolio, SkipNoShowFolio, FreeRoom, SettleFolios,
         ReadRoomStatus, WriteRoomStatus, Emit, Abort
<1>2. QED
  BY <1>1 DEF Next, AdvanceStayovers, MarkDueOuts, AuditUpdate, vars

\* A handler that begins has done nothing yet; a check-out finds a room on the
\* reservation.
LEMMA BeginsOK ==
  ASSUME TypeOK, StayHasRoom, NEW q \in Requests, NEW r \in Reservations,
         \/ Confirm(q, r) \/ Cancel(q, r) \/ MarkNoShow(q, r)
         \/ \E rm \in Rooms : AssignRoom(q, r, rm)
         \/ CheckIn(q, r) \/ CheckOut(q, r) \/ ProcessNoShow(q, r)
  PROVE  RequestOK(req[q])' /\ req'[q].at # "createFolio"
<1> USE FrontDeskAssumption DEF Begin, TypeOK, RequestOK, PlacesOK, PastClaim
<1>2. CASE Confirm(q, r)
  BY <1>2 DEF Confirm
<1>3. CASE Cancel(q, r)
  BY <1>3 DEF Cancel
<1>4. CASE MarkNoShow(q, r)
  BY <1>4 DEF MarkNoShow
<1>5. CASE \E rm \in Rooms : AssignRoom(q, r, rm)
  BY <1>5 DEF AssignRoom
<1>6. CASE CheckIn(q, r)
  BY <1>6 DEF CheckIn
<1>7. CASE CheckOut(q, r)
  <2>1. ValidTransition(status[r], "checked_out")
    BY <1>7 DEF CheckOut, Begin, ClaimOf
  <2>2. status[r] \in AfterAssignment
    <3>1. status[r] \in ReservationStatus
      BY DEF TypeOK
    <3>2. QED
      BY <2>1, <3>1 DEF ValidTransition, VALID_TRANSITIONS, ReservationStatus,
                       AfterAssignment, AfterCheckIn, InHouse
  <2>3. roomOf[r] # NoRoom
    BY <2>2 DEF StayHasRoom
  <2>4. QED
    BY <1>7, <2>3 DEF CheckOut
<1>8. CASE ProcessNoShow(q, r)
  BY <1>8 DEF ProcessNoShow
<1>9. QED
  BY <1>2, <1>3, <1>4, <1>5, <1>6, <1>7, <1>8

\* The same record at another await.
LEMMA Resumed ==
  ASSUME TypeOK, NEW q \in Requests, req[q] \in Request, NEW at, Resume(q, at)
  PROVE  /\ req'[q].op = req[q].op /\ req'[q].res = req[q].res
         /\ req'[q].room = req[q].room /\ req'[q].at = at
BY DEF Resume, TypeOK, Request

LEMMA Ended ==
  ASSUME TypeOK, NEW q \in Requests, End(q)
  PROVE  req'[q] = Idle
BY DEF End, TypeOK

\* The request that takes a step may rely, at its next await, on what its step
\* has done and on what it relied on before.
LEMMA ActorOK ==
  ASSUME IInv, [Next]_vars, NEW q \in Requests, Handler(q)
  PROVE  req'[q] = Idle \/ RequestOK(req[q])'
<1> USE DEF IInv, Awaits
<1> DEFINE Stays == req'[q] = Idle \/ RequestOK(req[q])'
<1>1. ASSUME req[q].at \in Awaits
      PROVE  /\ RequestOK(req[q]) /\ req[q] \in Request
             /\ PastClaim(req[q]) => Reached(req[q].op, status'[req[q].res])
             /\ req[q].op = "checkOut" /\ req[q].at = "claim" => req[q].res \in vacated'
  BY <1>1, BusyRequest, RequestStable, VacatedGrows DEF RequestsOK
<1>2. CASE \E r \in Reservations :
             \/ Confirm(q, r) \/ Cancel(q, r) \/ MarkNoShow(q, r)
             \/ \E rm \in Rooms : AssignRoom(q, r, rm)
             \/ CheckIn(q, r) \/ CheckOut(q, r) \/ ProcessNoShow(q, r)
  BY <1>2, BeginsOK
<1>3. ASSUME NEW rm \in Rooms, NEW to \in PatchTargets, PatchRoomStatus(q, rm, to)
      PROVE  Stays
  BY <1>3 DEF PatchRoomStatus, TypeOK, RequestOK, PlacesOK, PastClaim
<1>4. CASE RereadNoShow(q)
  BY <1>1, <1>4, Resumed, Ended DEF RereadNoShow, RequestOK, PlacesOK, PastClaim
<1>5. CASE ReadRoom(q)
  BY <1>1, <1>5, Resumed, Ended DEF ReadRoom, RequestOK, PlacesOK, PastClaim
<1>6. CASE ClaimTransition(q)
  <2>1. /\ RequestOK(req[q]) /\ req[q] \in Request /\ req[q].op \in Ops
        /\ req[q].res \in Reservations
    BY <1>1, <1>6, BusyRequest DEF ClaimTransition
  <2>2. CASE Matches(q)
    <3>1. GoOn(q) /\ status'[req[q].res] = ClaimOf[req[q].op].to
      BY <1>6, <2>1, <2>2 DEF ClaimTransition, TypeOK
    <3>2. CASE AfterClaim(req[q].op) = "return"
      BY <3>1, <3>2, Ended DEF GoOn
    <3>3. CASE AfterClaim(req[q].op) # "return"
      <4>1. /\ req'[q].op = req[q].op /\ req'[q].res = req[q].res
            /\ req'[q].room = req[q].room /\ req'[q].at = AfterClaim(req[q].op)
        BY <2>1, <3>1, <3>3, Resumed DEF GoOn
      <4>2. req[q].op \in {"cancel", "checkIn", "processNoShow", "checkOut"}
        BY <3>3 DEF AfterClaim
      <4>3. PlacesOK(req'[q])
        BY <2>1, <4>1, <4>2 DEF AfterClaim, RequestOK, PlacesOK
      <4>4. Reached(req'[q].op, status'[req'[q].res])
        BY <3>1, <4>1, <4>2 DEF Reached, ClaimOf, AfterCheckIn, InHouse
      <4>5. req'[q].at # "claim"
        BY <4>1, <4>2 DEF AfterClaim
      <4>6. QED
        BY <4>3, <4>4, <4>5 DEF RequestOK, PastClaim, PlacesOK
    <3>4. QED
      BY <3>2, <3>3
  <2>3. CASE ~Matches(q)
    BY <1>6, <2>3, Ended DEF ClaimTransition, NoRowMatched
  <2>4. QED
    BY <2>2, <2>3
<1>7. CASE CreateAutoFolio(q)
  BY <1>1, <1>7, Resumed, Ended
     DEF CreateAutoFolio, AfterFolio, RequestOK, PlacesOK, PastClaim
<1>8. CASE SkipNoShowFolio(q)
  BY <1>1, <1>8, Resumed, Ended
     DEF SkipNoShowFolio, AfterFolio, RequestOK, PlacesOK, PastClaim
<1>9. CASE FreeRoom(q)
  BY <1>9, Ended DEF FreeRoom
<1>10. CASE SettleFolios(q)
  <2>1. req[q].room # NoRoom /\ Resume(q, "roomStatus")
    BY <1>1, <1>10 DEF SettleFolios, RequestOK, PlacesOK
  <2>2. QED
    BY <1>1, <1>10, <2>1, Resumed DEF SettleFolios, RequestOK, PlacesOK, PastClaim
<1>11. CASE ReadRoomStatus(q)
  BY <1>1, <1>11, Resumed, Ended
     DEF ReadRoomStatus, RefuseRoom, RequestOK, PlacesOK, PastClaim
<1>12. CASE WriteRoomStatus(q)
  <2>1. req[q].op = "checkOut" => req[q].res \in vacated'
    BY <1>12 DEF WriteRoomStatus
  <2>2. QED
    BY <1>1, <1>12, <2>1, Resumed, Ended
       DEF WriteRoomStatus, RequestOK, PlacesOK, PastClaim
<1>13. CASE Emit(q)
  BY <1>13, Ended DEF Emit
<1>14. CASE Abort(q)
  BY <1>14, Ended DEF Abort
<1>15. QED
  BY <1>2, <1>3, <1>4, <1>5, <1>6, <1>7, <1>8, <1>9, <1>10, <1>11, <1>12, <1>13,
     <1>14 DEF Handler

LEMMA RequestsStep ==
  ASSUME IInv, [Next]_vars
  PROVE  RequestsOK'
<1> SUFFICES ASSUME NEW p \in Requests PROVE req'[p] = Idle \/ RequestOK(req[p])'
  BY DEF RequestsOK
<1>1. ASSUME req'[p] = req[p] PROVE req'[p] = Idle \/ RequestOK(req[p])'
  BY <1>1, RequestStable, VacatedGrows DEF IInv, RequestsOK, RequestOK
<1>2. ASSUME NEW q \in Requests, Handler(q)
      PROVE  req'[p] = Idle \/ RequestOK(req[p])'
  BY <1>1, <1>2, ActorOK, OthersUnchanged DEF IInv
<1>3. QED
  BY <1>1, <1>2 DEF Next, AdvanceStayovers, MarkDueOuts, AuditUpdate, vars

\* How the status of one reservation can change: a request's claim, or the audit.
LEMMA StatusChange ==
  ASSUME TypeOK, [Next]_vars, NEW r \in Reservations, status'[r] # status[r]
  PROVE  \/ \E q \in Requests : /\ ClaimTransition(q) /\ Matches(q)
                                /\ req[q].res = r /\ req[q].op \in Ops
                                /\ status'[r] = ClaimOf[req[q].op].to
         \/ status[r] \in InHouse /\ status'[r] \in InHouse /\ roomOf' = roomOf
<1>1. ASSUME NEW q \in Requests, ClaimTransition(q)
      PROVE  /\ Matches(q) /\ req[q].res = r /\ req[q].op \in Ops
             /\ status'[r] = ClaimOf[req[q].op].to
  BY <1>1, BusyRequest DEF ClaimTransition, Awaits, TypeOK
<1>2. ASSUME NEW q \in Requests, Handler(q), ~ClaimTransition(q) PROVE FALSE
  BY <1>2
     DEF Handler, Confirm, Cancel, MarkNoShow, AssignRoom, CheckIn, CheckOut,
         ProcessNoShow, Begin, PatchRoomStatus, RereadNoShow, ReadRoom,
         CreateAutoFolio, SkipNoShowFolio, FreeRoom, SettleFolios, ReadRoomStatus,
         WriteRoomStatus, Emit, Abort
<1>3. CASE AdvanceStayovers
  BY <1>3 DEF AdvanceStayovers, AuditUpdate, InHouse, TypeOK
<1>4. CASE MarkDueOuts
  BY <1>4 DEF MarkDueOuts, AuditUpdate, InHouse, TypeOK
<1>5. QED
  BY <1>1, <1>2, <1>3, <1>4 DEF Next, vars

\* How the room of a reservation can change: the claim of an assignment or a
\* check-in, or the audit's clearing.
LEMMA RoomChange ==
  ASSUME TypeOK, [Next]_vars, NEW r \in Reservations, roomOf'[r] # roomOf[r]
  PROVE  \E q \in Requests :
           /\ req[q].res = r
           /\ \/ /\ ClaimTransition(q) /\ Matches(q)
                 /\ req[q].op \in {"assignRoom", "checkIn"}
                 /\ roomOf'[r] = req[q].room
              \/ req[q].at = "freeRoom" /\ UNCHANGED status
<1>1. ASSUME NEW q \in Requests, ClaimTransition(q)
      PROVE  /\ req[q].res = r /\ Matches(q)
             /\ req[q].op \in {"assignRoom", "checkIn"}
             /\ roomOf'[r] = req[q].room
  BY <1>1 DEF ClaimTransition, TypeOK
<1>2. ASSUME NEW q \in Requests, FreeRoom(q)
      PROVE  req[q].res = r /\ req[q].at = "freeRoom" /\ UNCHANGED status
  BY <1>2 DEF FreeRoom, TypeOK
<1>3. ASSUME NEW q \in Requests, Handler(q), ~ClaimTransition(q), ~FreeRoom(q)
      PROVE  FALSE
  BY <1>3
     DEF Handler, Confirm, Cancel, MarkNoShow, AssignRoom, CheckIn, CheckOut,
         ProcessNoShow, Begin, PatchRoomStatus, RereadNoShow, ReadRoom,
         CreateAutoFolio, SkipNoShowFolio, SettleFolios, ReadRoomStatus,
         WriteRoomStatus, Emit, Abort
<1>4. QED
  BY <1>1, <1>2, <1>3 DEF Next, AdvanceStayovers, MarkDueOuts, AuditUpdate, vars

LEMMA StayHasRoomStep ==
  ASSUME IInv, [Next]_vars
  PROVE  StayHasRoom'
<1> SUFFICES ASSUME NEW r \in Reservations, status'[r] \in AfterAssignment
             PROVE  roomOf'[r] # NoRoom
  BY DEF StayHasRoom
<1> USE DEF IInv
<1>1. CASE roomOf'[r] # roomOf[r]
  <2>1. PICK q \in Requests :
          /\ req[q].res = r
          /\ \/ /\ ClaimTransition(q) /\ Matches(q)
                /\ req[q].op \in {"assignRoom", "checkIn"}
                /\ roomOf'[r] = req[q].room
             \/ req[q].at = "freeRoom" /\ UNCHANGED status
    BY <1>1, RoomChange
  <2>2. req[q].at \in {"claim", "freeRoom"}
    BY <2>1 DEF ClaimTransition
  <2>3. RequestOK(req[q])
    BY <2>2, BusyRequest DEF RequestsOK, Awaits
  <2>4. CASE req[q].at = "claim"
    BY <2>1, <2>3, <2>4 DEF RequestOK, PlacesOK
  <2>5. CASE req[q].at = "freeRoom"
    <3>1. status[r] = "no_show" /\ UNCHANGED status
      BY <2>1, <2>3, <2>5
         DEF RequestOK, PastClaim, PlacesOK, Reached, ClaimOf, ClaimTransition
    <3>2. QED
      BY <3>1 DEF AfterAssignment, AfterCheckIn, InHouse
  <2>6. QED
    BY <2>2, <2>4, <2>5
<1>2. CASE roomOf'[r] = roomOf[r]
  <2>1. CASE status[r] \in AfterAssignment
    BY <1>2, <2>1 DEF StayHasRoom
  <2>2. CASE status[r] \notin AfterAssignment
    <3>1. PICK q \in Requests : /\ ClaimTransition(q) /\ Matches(q)
                                /\ req[q].res = r /\ req[q].op \in Ops
                                /\ status'[r] = ClaimOf[req[q].op].to
      BY <2>2, StatusChange DEF AfterAssignment, AfterCheckIn
    <3>2. req[q].op = "assignRoom"
      BY <2>2, <3>1 DEF Matches, Ops, ClaimOf, AfterAssignment, AfterCheckIn, InHouse
    <3>3. roomOf'[r] = req[q].room
      BY <3>1, <3>2 DEF ClaimTransition, TypeOK
    <3>4. RequestOK(req[q])
      BY <3>1, BusyRequest DEF RequestsOK, ClaimTransition, Awaits
    <3>5. QED
      BY <3>2, <3>3, <3>4 DEF RequestOK, PlacesOK
  <2>3. QED
    BY <2>1, <2>2
<1>3. QED
  BY <1>1, <1>2

LEMMA CheckedOutStep ==
  ASSUME IInv, [Next]_vars
  PROVE  CheckedOutRoomVacated'
<1> SUFFICES ASSUME NEW r \in Reservations, status'[r] = "checked_out"
             PROVE  r \in vacated'
  BY DEF CheckedOutRoomVacated
<1> USE DEF IInv
<1>1. CASE status[r] = "checked_out"
  BY <1>1, VacatedGrows DEF CheckedOutRoomVacated
<1>2. CASE status[r] # "checked_out"
  <2>1. PICK q \in Requests : /\ ClaimTransition(q) /\ Matches(q)
                              /\ req[q].res = r /\ req[q].op \in Ops
                              /\ status'[r] = ClaimOf[req[q].op].to
    BY <1>2, StatusChange DEF InHouse
  <2>2. req[q].op = "checkOut" /\ req[q].at = "claim"
    BY <2>1 DEF Ops, ClaimOf, ClaimTransition
  <2>3. RequestOK(req[q])
    BY <2>1, BusyRequest DEF RequestsOK, ClaimTransition, Awaits
  <2>4. QED
    BY <2>1, <2>2, <2>3, VacatedGrows DEF RequestOK
<1>3. QED
  BY <1>1, <1>2

\* Only a won claim of check-in or of the audit leads to a folio.
LEMMA EntersCreateFolio ==
  ASSUME IInv, [Next]_vars, NEW q \in Requests, req'[q].at = "createFolio"
  PROVE  \/ req'[q] = req[q] /\ ~CreateAutoFolio(q)
         \/ /\ ClaimTransition(q) /\ Matches(q) /\ req'[q].res = req[q].res
            /\ req[q].op \in {"checkIn", "processNoShow"}
            /\ req[q].res \in Reservations
<1> USE DEF IInv, Awaits
<1>1. Idle.at # "createFolio"
  BY DEF Idle
<1>2. CASE ClaimTransition(q)
  <2>1. /\ req[q].op \in Ops /\ req[q] \in Request /\ req[q].res \in Reservations
        /\ RequestOK(req[q])
    BY <1>2, BusyRequest DEF ClaimTransition, RequestsOK
  <2>2. Matches(q) /\ GoOn(q)
    BY <1>1, <1>2, Ended DEF ClaimTransition, NoRowMatched
  <2>3. AfterClaim(req[q].op) # "return" /\ Resume(q, AfterClaim(req[q].op))
    BY <1>1, <2>2, Ended DEF GoOn
  <2>4. req'[q].res = req[q].res /\ AfterClaim(req[q].op) = "createFolio"
    BY <2>1, <2>3, Resumed
  <2>5. req[q].op \in {"checkIn", "processNoShow"}
    BY <2>4 DEF AfterClaim
  <2>6. QED
    BY <1>2, <2>1, <2>2, <2>4, <2>5
<1>3. ASSUME Handler(q), ~ClaimTransition(q) PROVE FALSE
  <2>1. CASE \E r \in Reservations :
               \/ Confirm(q, r) \/ Cancel(q, r) \/ MarkNoShow(q, r)
               \/ \E rm \in Rooms : AssignRoom(q, r, rm)
               \/ CheckIn(q, r) \/ CheckOut(q, r) \/ ProcessNoShow(q, r)
    BY <2>1, BeginsOK
  <2>2. ASSUME NEW rm \in Rooms, NEW to \in PatchTargets, PatchRoomStatus(q, rm, to)
        PROVE  FALSE
    BY <2>2 DEF PatchRoomStatus, TypeOK
  <2>3. \A at : req[q] \in Request /\ Resume(q, at) => at = "createFolio"
    BY Resumed
  <2>4. ~End(q)
    BY <1>1, Ended
  <2>5. QED
    BY <1>3, <2>1, <2>2, <2>3, <2>4, BusyRequest
       DEF Handler, RereadNoShow, ReadRoom, CreateAutoFolio, SkipNoShowFolio,
           AfterFolio, FreeRoom, SettleFolios, ReadRoomStatus, RefuseRoom,
           WriteRoomStatus, Emit, Abort
<1>4. ASSUME req'[q] = req[q], CreateAutoFolio(q) PROVE FALSE
  BY <1>3, <1>4 DEF Handler, CreateAutoFolio, ClaimTransition
<1>5. ASSUME ~Handler(q) PROVE req'[q] = req[q]
  BY <1>5, OthersUnchanged DEF Next, AdvanceStayovers, MarkDueOuts, AuditUpdate, vars
<1>6. QED
  BY <1>2, <1>3, <1>4, <1>5

LEMMA FolioChange ==
  ASSUME TypeOK, [Next]_vars, NEW r \in Reservations, folios'[r] # folios[r]
  PROVE  \E q \in Requests : /\ CreateAutoFolio(q) /\ req[q].res = r
                             /\ folios'[r] = folios[r] + 1
<1>1. ASSUME NEW q \in Requests, CreateAutoFolio(q)
      PROVE  req[q].res = r /\ folios'[r] = folios[r] + 1
  BY <1>1 DEF CreateAutoFolio, TypeOK
<1>2. ASSUME NEW q \in Requests, Handler(q), ~CreateAutoFolio(q) PROVE FALSE
  BY <1>2
     DEF Handler, Confirm, Cancel, MarkNoShow, AssignRoom, CheckIn, CheckOut,
         ProcessNoShow, Begin, PatchRoomStatus, RereadNoShow, ReadRoom,
         ClaimTransition, SkipNoShowFolio, FreeRoom, SettleFolios, ReadRoomStatus,
         WriteRoomStatus, Emit, Abort
<1>3. QED
  BY <1>1, <1>2 DEF Next, AdvanceStayovers, MarkDueOuts, AuditUpdate, vars

\* A request about to create a folio has put its reservation where none but
\* its claim could.
LEMMA CreateFolioStatus ==
  ASSUME IInv, NEW q \in Requests, req[q].at = "createFolio"
  PROVE  /\ req[q].res \in Reservations
         /\ status[req[q].res] \in AfterCheckIn \cup {"no_show"}
<1>1. req[q].op \in Ops /\ req[q].res \in Reservations /\ RequestOK(req[q])
  BY BusyRequest DEF IInv, RequestsOK, Awaits
<1>2. req[q].op \in {"checkIn", "processNoShow"} /\ Reached(req[q].op, status[req[q].res])
  BY <1>1 DEF RequestOK, PlacesOK, PastClaim
<1>3. QED
  BY <1>1, <1>2 DEF Reached, ClaimOf

LEMMA FoliosStep ==
  ASSUME IInv, [Next]_vars
  PROVE  FoliosOK' /\ AtMostOneAutoFolio'
<1> USE DEF IInv
<1>1. ASSUME NEW q \in Requests, ClaimTransition(q), Matches(q),
             req[q].op \in {"checkIn", "processNoShow"}
      PROVE  status[req[q].res] \in {"confirmed", "assigned"}
  BY <1>1 DEF Matches, ClaimOf
<1>2. ASSUME NEW q \in Requests, req'[q].at = "createFolio"
      PROVE  folios'[req'[q].res] = 0
  <2>1. CASE req'[q] = req[q] /\ ~CreateAutoFolio(q)
    BY <1>2, <2>1, FolioChange, CreateFolioStatus DEF FoliosOK, CreateAutoFolio
  <2>2. CASE /\ ClaimTransition(q) /\ Matches(q) /\ req'[q].res = req[q].res
             /\ req[q].op \in {"checkIn", "processNoShow"}
             /\ req[q].res \in Reservations
    <3>1. folios[req[q].res] = 0
      BY <1>1, <2>2 DEF FoliosOK, AfterCheckIn, InHouse
    <3>2. QED
      BY <2>2, <3>1 DEF ClaimTransition
  <2>3. QED
    BY <1>2, <2>1, <2>2, EntersCreateFolio
<1>3. ASSUME NEW q \in Requests, req'[q].at = "createFolio",
             NEW p \in Requests, req'[p].at = "createFolio", req'[p].res = req'[q].res
      PROVE  p = q
  <2>1. ASSUME NEW x \in Requests, NEW y \in Requests, ClaimTransition(x), Matches(x),
               req[x].op \in {"checkIn", "processNoShow"},
               req[y].at = "createFolio", req[y].res = req[x].res
        PROVE  FALSE
    BY <1>1, <2>1, CreateFolioStatus DEF AfterCheckIn, InHouse
  <2>2. ASSUME ClaimTransition(p), ClaimTransition(q), p # q PROVE FALSE
    <3>1. req'[p] = req[p]
      BY <2>2, OthersUnchanged DEF Handler
    <3>2. QED
      BY <1>3, <2>2, <3>1 DEF ClaimTransition
  <2>3. QED
    BY <1>3, <2>1, <2>2, EntersCreateFolio DEF FoliosOK
<1>4. ASSUME NEW r \in Reservations, status'[r] \notin AfterCheckIn \cup {"no_show"}
      PROVE  folios'[r] = 0
  <2>1. status[r] \notin AfterCheckIn \cup {"no_show"}
    BY <1>4, StatusClosed
  <2>2. QED
    BY <2>1, FolioChange, CreateFolioStatus DEF FoliosOK, CreateAutoFolio
<1>5. ASSUME NEW r \in Reservations PROVE folios'[r] <= 1
  <2>1. ASSUME NEW q \in Requests, CreateAutoFolio(q), req[q].res = r
        PROVE  folios[r] = 0
    BY <2>1 DEF FoliosOK, CreateAutoFolio
  <2>2. QED
    BY <2>1, FolioChange DEF AtMostOneAutoFolio
<1>6. QED
  BY <1>2, <1>3, <1>4, <1>5 DEF FoliosOK, AtMostOneAutoFolio

LEMMA EventsStep ==
  ASSUME IInv, [Next]_vars
  PROVE  AnnouncedOK' /\ EventsAreTrue'
<1> USE DEF IInv
<1>1. ASSUME NEW e \in announced
      PROVE  /\ e[2] \in {"cancelled", "checked_in", "checked_out"}
             /\ IF e[2] = "checked_in" THEN status'[e[1]] \in AfterCheckIn
                                       ELSE status'[e[1]] = e[2]
  <2>1. e[1] \in Reservations
    BY DEF TypeOK
  <2>2. QED
    BY <2>1, StatusClosed DEF AnnouncedOK, EventsAreTrue
<1>2. ASSUME NEW q \in Requests, Emit(q), NEW e \in announced', e \notin announced
      PROVE  /\ e[2] \in {"cancelled", "checked_in", "checked_out"}
             /\ IF e[2] = "checked_in" THEN status'[e[1]] \in AfterCheckIn
                                       ELSE status'[e[1]] = e[2]
  <2>1. e[1] = req[q].res /\ e[2] = ClaimOf[req[q].op].to /\ UNCHANGED status
    BY <1>2 DEF Emit
  <2>2. RequestOK(req[q]) /\ req[q].at = "emit"
    BY <1>2, BusyRequest DEF Emit, RequestsOK, Awaits
  <2>3. /\ req[q].op \in {"cancel", "checkIn", "checkOut"}
        /\ Reached(req[q].op, status[req[q].res])
    BY <2>2 DEF RequestOK, PlacesOK, PastClaim
  <2>4. QED
    BY <2>1, <2>3 DEF Reached, ClaimOf
<1>3. announced' = announced \/ \E q \in Requests : Emit(q)
  <2>1. ASSUME NEW q \in Requests, Handler(q), ~Emit(q) PROVE announced' = announced
    BY <2>1
       DEF Handler, Confirm, Cancel, MarkNoShow, AssignRoom, CheckIn, CheckOut,
           ProcessNoShow, Begin, PatchRoomStatus, RereadNoShow, ReadRoom,
           ClaimTransition, CreateAutoFolio, SkipNoShowFolio, FreeRoom, SettleFolios,
           ReadRoomStatus, WriteRoomStatus, Abort
  <2>2. QED
    BY <2>1 DEF Next, AdvanceStayovers, MarkDueOuts, AuditUpdate, vars
<1>4. QED
  BY <1>1, <1>2, <1>3 DEF AnnouncedOK, EventsAreTrue

LEMMA InvStep == IInv /\ [Next]_vars => IInv'
BY TypeStep, StayHasRoomStep, RequestsStep, FoliosStep, CheckedOutStep, EventsStep
   DEF IInv

LEMMA Invariant == Spec => []IInv
BY InvInit, InvStep, PTL DEF Spec

\* A guest who was assigned a room keeps one for the whole stay.
THEOREM RoomKept == Spec => []StayHasRoom
<1>1. IInv => StayHasRoom
  BY DEF IInv
<1>2. QED
  BY <1>1, Invariant, PTL

\* No interleaving of check-ins and audits gives a reservation two folios.
THEOREM SingleFolio == Spec => []AtMostOneAutoFolio
<1>1. IInv => AtMostOneAutoFolio
  BY DEF IInv
<1>2. QED
  BY <1>1, Invariant, PTL

\* A departed guest's room has been put vacant_dirty.
THEOREM RoomReleased == Spec => []CheckedOutRoomVacated
<1>1. IInv => CheckedOutRoomVacated
  BY DEF IInv
<1>2. QED
  BY <1>1, Invariant, PTL

\* No event is sent for a transition that did not happen.
THEOREM EventsTrue == Spec => []EventsAreTrue
<1>1. IInv => EventsAreTrue
  BY DEF IInv
<1>2. QED
  BY <1>1, Invariant, PTL

\* From check-in on the room of a reservation does not change.
THEOREM RoomFixed == Spec => RoomFixedDuringStay
<1>1. ASSUME IInv, [Next]_vars, NEW r \in Reservations, status[r] \in AfterCheckIn
      PROVE  roomOf'[r] = roomOf[r]
  <2> SUFFICES ASSUME roomOf'[r] # roomOf[r] PROVE FALSE
    OBVIOUS
  <2> USE DEF IInv
  <2>1. PICK q \in Requests :
          /\ req[q].res = r
          /\ \/ /\ ClaimTransition(q) /\ Matches(q)
                /\ req[q].op \in {"assignRoom", "checkIn"}
                /\ roomOf'[r] = req[q].room
             \/ req[q].at = "freeRoom" /\ UNCHANGED status
    BY <1>1, RoomChange
  <2>2. CASE Matches(q) /\ req[q].op \in {"assignRoom", "checkIn"}
    BY <1>1, <2>1, <2>2 DEF Matches, ClaimOf, AfterCheckIn, InHouse
  <2>3. CASE req[q].at = "freeRoom"
    <3>1. RequestOK(req[q])
      BY <1>1, <2>3, BusyRequest DEF RequestsOK, Awaits
    <3>2. status[r] = "no_show"
      BY <2>1, <2>3, <3>1 DEF RequestOK, PastClaim, PlacesOK, Reached, ClaimOf
    <3>3. QED
      BY <1>1, <3>2 DEF AfterCheckIn, InHouse
  <2>4. QED
    BY <2>1, <2>2, <2>3
<1>2. IInv /\ [Next]_vars =>
        [\A r \in Reservations : status[r] \in AfterCheckIn => roomOf'[r] = roomOf[r]]_vars
  BY <1>1
<1>3. QED
  BY <1>2, Invariant, PTL DEF Spec, RoomFixedDuringStay

-----------------------------------------------------------------------------
(* The front desk beside the Connect API and the channel manager.          *)

\* What the two sources have read is of reservations there are; the front desk's variables
\* keep their types beside them.
AllTypeOK == TypeOK /\ cancelling \subseteq Sources \X Reservations

\* A step of the desk walks along the graph, and the sources only write "cancelled",
\* which has no edge out of it.
LEMMA CancelledStep ==
  ASSUME AllTypeOK, [AllNext]_allVars
  PROVE  AllTypeOK' /\ \A r \in Reservations : status[r] = "cancelled" => status'[r] = "cancelled"
<1> DEFINE Kept == \A r \in Reservations : status[r] = "cancelled" => status'[r] = "cancelled"
<1>1. ASSUME [Next]_vars, UNCHANGED cancelling PROVE AllTypeOK' /\ Kept
  <2>1. AllTypeOK' BY <1>1, TypeStep DEF AllTypeOK
  <2>2. ASSUME NEW r \in Reservations, status[r] = "cancelled" PROVE status'[r] = "cancelled"
    <3>1. status'[r] = status[r] \/ ValidTransition(status[r], status'[r])
      BY <1>1, StatusStep DEF AllTypeOK
    <3>2. ~ ValidTransition(status[r], status'[r])
      BY <2>2 DEF ValidTransition, VALID_TRANSITIONS
    <3> QED BY <2>2, <3>1, <3>2
  <2> QED BY <2>1, <2>2
<1>2. ASSUME NEW r \in Reservations, ConnectReads(r) \/ ChannelReads(r) PROVE AllTypeOK' /\ Kept
  <2>1. UNCHANGED vars BY <1>2 DEF ConnectReads, ChannelReads
  <2>2. TypeOK' BY <2>1, TypeStep DEF AllTypeOK
  <2>3. (cancelling' \subseteq Sources \X Reservations)
    BY <1>2 DEF AllTypeOK, ConnectReads, ChannelReads, Sources
  <2> QED BY <2>1, <2>2, <2>3 DEF AllTypeOK, vars
<1>3. ASSUME NEW r \in Reservations, NEW s \in Sources, WriteCancelled(s, r) PROVE AllTypeOK' /\ Kept
  <2>1. /\ status' = [status EXCEPT ![r] = "cancelled"] /\ UNCHANGED frontDeskVars
        /\ cancelling' = cancelling \ {<<s, r>>}
    BY <1>3 DEF WriteCancelled
  <2>2. status' \in [Reservations -> ReservationStatus]
    BY <2>1 DEF AllTypeOK, TypeOK, ReservationStatus
  <2>3. AllTypeOK' BY <2>1, <2>2 DEF AllTypeOK, TypeOK, frontDeskVars
  <2> QED BY <2>1, <2>3 DEF AllTypeOK, TypeOK
<1>4. ASSUME NEW r \in Reservations, NEW s \in Sources, DropCancellation(s, r) PROVE AllTypeOK' /\ Kept
  <2>1. UNCHANGED vars /\ cancelling' = cancelling \ {<<s, r>>} BY <1>4 DEF DropCancellation
  <2>2. TypeOK' BY <2>1, TypeStep DEF AllTypeOK
  <2> QED BY <2>1, <2>2 DEF AllTypeOK, vars
<1>5. CASE UNCHANGED allVars BY <1>5, <1>1 DEF allVars, vars
<1> QED BY <1>1, <1>2, <1>3, <1>4, <1>5 DEF AllNext

\* However the desk, the audit, the booking agents and the channels interleave, a cancelled
\* reservation stays cancelled.
THEOREM CancelledForGood == AllSpec => CancelledIsFinal
<1>1. AllInit => AllTypeOK BY TypeInit DEF AllInit, AllTypeOK
<1>2. AllTypeOK /\ [AllNext]_allVars => AllTypeOK' BY CancelledStep
<1>3. AllTypeOK /\ [AllNext]_allVars =>
        [\A r \in Reservations : status[r] = "cancelled" => status'[r] = "cancelled"]_allVars
  BY CancelledStep
<1> QED BY <1>1, <1>2, <1>3, PTL DEF AllSpec, CancelledIsFinal
===============================================================================
