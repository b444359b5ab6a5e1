-------------------------------- MODULE Booking --------------------------------
(***************************************************************************)
(* Selling nights: the availability search, and the six handlers that      *)
(* write reservations with a stay in them.  All but the channel's two ask  *)
(* the search first; the answer is a snapshot, and the row is written      *)
(* later.                                                                  *)
(*                                                                         *)
(* The search runs outside the transaction it is called in, and the rows   *)
(* are read at READ COMMITTED: nothing keeps two handlers from selling the *)
(* same night.                                                             *)
(***************************************************************************)
EXTENDS Integers, FiniteSets

CONSTANTS
  Reservations,    \* bound: rows that may be inserted
  RoomTypes,
  Rooms,           \* active rooms of each type
  OverbookingPct,  \* properties.overbookingPercentage
  LastNight,       \* bound: nights are numbered 0..LastNight
  Requests,        \* handlers in flight at once
  External,        \* external confirmation numbers, each with its channel's code
  NoExternal,      \* a booking without one
  FieldSets,       \* bound: which fields of a stay modify is given together
  MaxStarts        \* bound: handlers started in all

ASSUME BookingAssumption ==
  /\ IsFiniteSet(Reservations)
  /\ IsFiniteSet(Requests) /\ Requests # {}
  /\ Rooms \in [RoomTypes -> Nat]
  /\ OverbookingPct \in Nat
  /\ LastNight \in Nat
  /\ NoExternal \notin External
  /\ FieldSets \subseteq SUBSET {"type", "from", "to"}
  /\ MaxStarts \in Nat

VARIABLES
  status,    \* "absent" before the row is inserted, then "live"; "gone" when it
             \* is cancelled, a no-show or checked out, and no longer counted
  stay,      \* room type, arrival and departure of each reservation
  external,  \* its booking's external confirmation
  delivered, \* the reservations that a channel delivered (history)
  looked,    \* the nights of its stay whose availability was asked for (history)
  req,       \* handlers in flight
  started    \* handlers started so far

vars == <<status, stay, external, delivered, looked, req, started>>

rows == <<status, stay, external, delivered, looked>>

Nights == 0..LastNight

Stays == [type : RoomTypes, from : Nights, to : 1..(LastNight + 1)]

Fields == {"type", "from", "to"}

\* A row that has not been inserted occupies nothing.
NoStay == [type |-> "none", from |-> 0, to |-> 0]

\* A room of type p[1] for night p[2]: what a stay occupies.
RoomNights == RoomTypes \X Nights

Occupies(s) == {s.type} \X {n \in Nights : s.from <= n /\ n < s.to}

Idle == [op |-> "idle", at |-> "idle"]

Init ==
  /\ status = [r \in Reservations |-> "absent"]
  /\ stay = [r \in Reservations |-> NoStay]
  /\ external = [r \in Reservations |-> NoExternal]
  /\ delivered = {}
  /\ looked = [r \in Reservations |-> {}]
  /\ req = [q \in Requests |-> Idle]
  /\ started = 0

-----------------------------------------------------------------------------
(* The availability search.                                                *)

\* Rooms of the type, and the overbooking buffer.
Limit(t) == Rooms[t] + (Rooms[t] * OverbookingPct) \div 100

\* The reservations counted as sold.
Sold(p) == {r \in Reservations : status[r] = "live" /\ p \in Occupies(stay[r])}

\* Mutant: a night counts as available when as many are sold as may be.
FreeToTheBrim(p) == Cardinality(Sold(p)) <= Limit(p[1])

\* The search finds something available.
Free(p) == Cardinality(Sold(p)) < Limit(p[1])

-----------------------------------------------------------------------------
(* Requests.                                                               *)

Start(q, request) ==
  /\ req[q] = Idle
  /\ req' = [req EXCEPT ![q] = request]
  /\ started < MaxStarts /\ started' = started + 1

Resume(q, at, seen) ==
  req' = [req EXCEPT ![q].at = at, ![q].looked = seen, ![q].old = req[q].new]

End(q) == req' = [req EXCEPT ![q] = Idle]

\* A new row: nobody else is about to insert it.
Fresh(r) == status[r] = "absent" /\ \A q \in Requests : req[q] # Idle => req[q].res # r

\* About to insert r with stay s, having looked at some of its nights.
Booking(op, r, s, seen, e) ==
  [op |-> op, at |-> "insert", res |-> r, old |-> s, new |-> s,
   fields |-> Fields, looked |-> seen, external |-> e]

\* A stay with some of its fields replaced.
Updated(old, fields, s) ==
  [type |-> IF "type" \in fields THEN s.type ELSE old.type,
   from |-> IF "from" \in fields THEN s.from ELSE old.from,
   to |-> IF "to" \in fields THEN s.to ELSE old.to]

\* About to change some fields of r's stay, as it was read, to those of s.
Change(op, at, r, fields, s, seen) ==
  [op |-> op, at |-> at, res |-> r, old |-> IF op = "modify" THEN stay[r] ELSE s,
   new |-> Updated(stay[r], fields, s), fields |-> fields, looked |-> seen,
   external |-> NoExternal]

-----------------------------------------------------------------------------
(* New bookings.                                                           *)

\* The first night that the search returns for the room type.
FirstNight(s) == <<s.type, s.from>>

\* create insists on the first night.  The front desk may enter a number that a
\* channel has given the guest.
Create(q, r, s, e) ==
  /\ Fresh(r) /\ s.from < s.to
  /\ Free(FirstNight(s))
  /\ Start(q, Booking("create", r, s, {FirstNight(s)}, e))
  /\ UNCHANGED rows

\* The Connect API's book takes the minimum over all nights.
ConnectBook(q, r, s) ==
  /\ Fresh(r) /\ Occupies(s) # {}
  /\ \A p \in Occupies(s) : Free(p)
  /\ Start(q, Booking("connectBook", r, s, Occupies(s), NoExternal))
  /\ UNCHANGED rows

\* Mutant: a cancelled booking is not found again.
KnownIfLive(e) == \E r \in Reservations : external[r] = e /\ status[r] = "live"

\* The channel's external confirmation has been booked before.
Known(e) == \E r \in Reservations : external[r] = e

\* A channel's booking is looked up by its external confirmation, and taken in
\* whatever is available and whatever its dates.
ChannelBook(q, r, s, e) ==
  /\ Fresh(r)
  /\ ~Known(e)
  /\ Start(q, Booking("channelBook", r, s, {}, e))
  /\ UNCHANGED rows

Insert(q) ==
  LET r == req[q].res
  IN /\ req[q].at = "insert"
     /\ status' = [status EXCEPT ![r] = "live"]
     /\ stay' = [stay EXCEPT ![r] = req[q].new]
     /\ external' = [external EXCEPT ![r] = req[q].external]
     /\ delivered' = IF req[q].op = "channelBook" THEN delivered \cup {r} ELSE delivered
     /\ looked' = [looked EXCEPT ![r] = req[q].looked]
     /\ End(q)
     /\ UNCHANGED started

-----------------------------------------------------------------------------
(* Modifications.                                                          *)

\* modify reads a reservation that is not finished; dates it is given must
\* leave at least one night.
Modify(q, r, fields, s) ==
  LET change == Change("modify", "search", r, fields, s, looked[r])
  IN /\ status[r] = "live"
     /\ fields # {"type"} => change.new.from < change.new.to
     /\ Start(q, change)
     /\ UNCHANGED rows

\* The Connect API's modify reads one, too, and will write all fields of s: those
\* it was given, and the others as it has read them.
ConnectModify(q, r, s) ==
  /\ status[r] = "live"
  /\ Start(q, Change("connectModify", "search", r, Fields, s, {}))
  /\ UNCHANGED rows

\* The reservation, as it was read, is one of those sold for the night.
GivesBack(q, p) == p \in Occupies(req[q].old)

\* modify gives its own nights back, unless nothing has changed to ask for.
Search(q) ==
  LET new == Occupies(req[q].new)
  IN /\ req[q].at = "search" /\ req[q].op = "modify"
     /\ IF req[q].new = req[q].old THEN Resume(q, "write", req[q].looked)
        ELSE IF \A p \in new : GivesBack(q, p) \/ Free(p)
        THEN Resume(q, "write", {p \in new : p \in req[q].looked \/ Free(p)})
        ELSE End(q)
     /\ UNCHANGED <<rows, started>>

\* The Connect API's does not, and needs at least one night.
ConnectSearch(q) ==
  LET new == Occupies(req[q].new)
  IN /\ req[q].at = "search" /\ req[q].op = "connectModify"
     /\ IF new # {} /\ \A p \in new : Free(p) THEN Resume(q, "write", new) ELSE End(q)
     /\ UNCHANGED <<rows, started>>

\* A channel's modification finds a reservation of its booking, in any status,
\* and asks for no availability.
ChannelModify(q, r, s) ==
  /\ external[r] \in External
  /\ Start(q, Change("channelModify", "write", r, Fields, s, {}))
  /\ UNCHANGED rows

\* The given fields are written by id, whatever the row holds by now.
Write(q) ==
  LET r == req[q].res
  IN /\ req[q].at = "write"
     /\ stay' = [stay EXCEPT ![r] = Updated(@, req[q].fields, req[q].new)]
     /\ looked' = [looked EXCEPT ![r] = (@ \cup req[q].looked) \cap Occupies(stay'[r])]
     /\ End(q)
     /\ UNCHANGED <<status, external, delivered, started>>

-----------------------------------------------------------------------------
\* The front desk, the audit or a cancellation from outside ends a reservation.
Release(r) ==
  /\ status[r] = "live"
  /\ status' = [status EXCEPT ![r] = "gone"]
  /\ UNCHANGED <<stay, external, delivered, looked, req, started>>

\* A handler throws before its write, or the server stops.
Abort(q) ==
  /\ req[q] # Idle
  /\ End(q)
  /\ UNCHANGED <<rows, started>>

Handler(q) ==
  \/ \E r \in Reservations, s \in Stays :
       \/ \E e \in External \cup {NoExternal} : Create(q, r, s, e)
       \/ ConnectBook(q, r, s)
       \/ \E e \in External : ChannelBook(q, r, s, e)
       \/ \E fields \in FieldSets : Modify(q, r, fields, s)
       \/ ConnectModify(q, r, s)
       \/ ChannelModify(q, r, s)
  \/ Insert(q) \/ Search(q) \/ ConnectSearch(q) \/ Write(q) \/ Abort(q)

Next ==
  \/ \E q \in Requests : Handler(q)
  \/ \E r \in Reservations : Release(r)

Spec == Init /\ [][Next]_vars

-----------------------------------------------------------------------------
(* Properties.                                                             *)

Request ==
  [op : {"create", "connectBook", "channelBook", "modify", "connectModify", "channelModify"},
   at : {"insert", "search", "write"}, res : Reservations, old : Stays, new : Stays,
   fields : SUBSET Fields, looked : SUBSET RoomNights, external : External \cup {NoExternal}]

\* Every variable has its type, and a reservation only remembers nights it occupies.
TypeOK ==
  /\ status \in [Reservations -> {"absent", "live", "gone"}]
  /\ stay \in [Reservations -> Stays \cup {NoStay}]
  /\ external \in [Reservations -> External \cup {NoExternal}]
  /\ delivered \subseteq Reservations
  /\ looked \in [Reservations -> SUBSET RoomNights]
  /\ \A r \in Reservations : looked[r] \subseteq Occupies(stay[r])
  /\ req \in [Requests -> Request \cup {Idle}]
  /\ started \in 0..MaxStarts

\* The reservations sold for a night after somebody asked whether it was free.
SoldAfterLooking(p) == {r \in Sold(p) : p \in looked[r]}

\* "The race window is minimized": however bookings, modifications by single
\* fields and stale give-backs interleave, a night is oversold by at most as many
\* rooms as other handlers may be in flight, counting those who looked at it.
\* With one handler at a time it is not oversold at all.
OversellingIsBounded ==
  \A p \in RoomNights :
    Cardinality(SoldAfterLooking(p)) <= Limit(p[1]) + Cardinality(Requests) - 1

\* "Deduplication key": a channel's booking, delivered again and again, also after
\* it was cancelled, is stored no more often than deliveries may overlap.
DuplicatesAreBounded ==
  \A e \in External :
    Cardinality({r \in delivered : external[r] = e}) <= Cardinality(Requests)

-----------------------------------------------------------------------------
(* What the code says and does not keep.                                   *)

\* create refuses a stay with "No availability ... on the requested dates", but
\* only ever looks at the first of them, even with nobody else around.
CreatedWithinLimit ==
  [][\A q \in Requests : Insert(q) /\ req[q].op = "create"
       => \A p \in Occupies(req[q].new) : Cardinality(Sold(p)) < Limit(p[1])]_vars
=============================================================================
