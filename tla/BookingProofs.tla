----------------------------- MODULE BookingProofs -----------------------------
(***************************************************************************)
(* Why overselling is bounded, for any hotel, any stays and any number of  *)
(* handlers.  The invariant counts the claimants of a night: reservations  *)
(* sold for it after looking, and those that a handler in flight may yet   *)
(* write onto it because it has looked, or because it has given back a     *)
(* night that the reservation has lost in the meantime.  A night only gets *)
(* a new claimant when it is free, and then the claimants are among those  *)
(* sold, fewer than the limit, and one reservation for each request.       *)
(***************************************************************************)
EXTENDS Booking, FiniteSetTheorems, TLAPS

-----------------------------------------------------------------------------
(* The inductive invariant.                                                *)

\* A handler in flight may put r on night p.
MayTake(q, r, p) == req[q] # Idle /\ req[q].res = r /\ p \in req[q].looked

Claimants(p) ==
  SoldAfterLooking(p) \cup
  {r \in Reservations : status[r] # "gone" /\ \E q \in Requests : MayTake(q, r, p)}

\* A row about to be inserted is not there yet, nobody else has it, and the nights
\* asked for are those it will occupy.
InsertsOK ==
  \A q \in Requests : req[q] # Idle /\ req[q].at = "insert" =>
    /\ status[req[q].res] = "absent"
    /\ \A p \in Requests : p # q /\ req[p] # Idle => req[p].res # req[q].res
    /\ req[q].looked \subseteq Occupies(req[q].new)

\* A row that is there has a stay; only such a row has an external number, or was
\* delivered.
RowsOK ==
  \A r \in Reservations :
    /\ status[r] # "absent" => stay[r] \in Stays
    /\ external[r] \in External \/ r \in delivered => status[r] # "absent"

\* Only a row that is there is changed.
ChangesOK ==
  \A q \in Requests : req[q] # Idle /\ req[q].at # "insert" => status[req[q].res] # "absent"

ClaimantsBounded ==
  \A p \in RoomNights : Cardinality(Claimants(p)) <= Limit(p[1]) + Cardinality(Requests) - 1

\* A handler in flight will insert r as a channel's booking of e.
MayBook(q, r, e) ==
  req[q] # Idle /\ req[q].op = "channelBook" /\ req[q].res = r /\ req[q].external = e

\* Bookings of e, stored or under way.
BookingsOf(e) ==
  {r \in Reservations :
     (r \in delivered /\ external[r] = e) \/ \E q \in Requests : MayBook(q, r, e)}

BookingsBounded == \A e \in External : Cardinality(BookingsOf(e)) <= Cardinality(Requests)

IInv ==
  /\ TypeOK
  /\ InsertsOK
  /\ RowsOK
  /\ ChangesOK
  /\ ClaimantsBounded
  /\ BookingsBounded

-----------------------------------------------------------------------------
(* Facts about stays.                                                      *)

LEMMA StayNights == ASSUME NEW s \in Stays PROVE Occupies(s) \subseteq RoomNights
BY DEF Occupies, Stays, RoomNights

LEMMA FirstNightType ==
  ASSUME NEW s \in Stays, s.from < s.to
  PROVE  FirstNight(s) \in Occupies(s)
BY BookingAssumption DEF FirstNight, Occupies, Stays, Nights

LEMMA UpdatedType ==
  ASSUME NEW old \in Stays, NEW s \in Stays, NEW fields
  PROVE  Updated(old, fields, s) \in Stays
BY DEF Updated, Stays

LEMMA UpdatedWhole ==
  ASSUME NEW old, NEW s \in Stays PROVE Updated(old, Fields, s) = s
BY DEF Updated, Stays, Fields

LEMMA LimitType == ASSUME NEW p \in RoomNights PROVE Limit(p[1]) \in Nat
<1>1. Rooms[p[1]] \in Nat
  BY BookingAssumption DEF RoomNights
<1>2. Rooms[p[1]] * OverbookingPct \in Nat
  BY <1>1, BookingAssumption
<1>3. (Rooms[p[1]] * OverbookingPct) \div 100 \in Nat
  BY <1>2
<1>4. QED
  BY <1>1, <1>3 DEF Limit

-----------------------------------------------------------------------------
(* Facts about finite sets.                                                *)

LEMMA RequestCount == Cardinality(Requests) \in Nat \ {0}
BY BookingAssumption, FS_CardinalityType, FS_EmptySet

\* Smaller sets of reservations have fewer members.
LEMMA FewerReservations ==
  ASSUME NEW S \in SUBSET Reservations, NEW T \in SUBSET S
  PROVE  /\ IsFiniteSet(S) /\ Cardinality(S) \in Nat
         /\ Cardinality(T) \in Nat /\ Cardinality(T) <= Cardinality(S)
<1>1. IsFiniteSet(S)
  BY BookingAssumption, FS_Subset
<1>2. IsFiniteSet(T) /\ Cardinality(T) <= Cardinality(S)
  BY <1>1, FS_Subset
<1>3. QED
  BY <1>1, <1>2, FS_CardinalityType

\* The requests have no more reservations than there are requests.
LEMMA OneEach ==
  ASSUME NEW f, NEW T, T = {f[q] : q \in Requests}
  PROVE  IsFiniteSet(T) /\ Cardinality(T) <= Cardinality(Requests)
<1> DEFINE g == [q \in Requests |-> f[q]]
<1>1. g \in Surjection(Requests, T)
  BY DEF Surjection
<1>2. QED
  BY <1>1, FS_Surjection, BookingAssumption

LEMMA AtMostOneEach ==
  ASSUME NEW f, NEW S \in SUBSET Reservations,
         S \subseteq {f[q] : q \in Requests}
  PROVE  Cardinality(S) <= Cardinality(Requests)
<1> DEFINE T == {f[q] : q \in Requests}
<1>1. IsFiniteSet(T) /\ Cardinality(T) <= Cardinality(Requests)
  BY OneEach
<1>2. Cardinality(S) <= Cardinality(T)
  BY <1>1, FS_Subset
<1>3. IsFiniteSet(S)
  BY BookingAssumption, FS_Subset
<1>4. Cardinality(S) \in Nat /\ Cardinality(T) \in Nat /\ Cardinality(Requests) \in Nat
  BY <1>1, <1>3, RequestCount, FS_CardinalityType
<1>5. QED
  BY <1>1, <1>2, <1>4

\* One reservation for each request, and others.
LEMMA OthersAndOneEach ==
  ASSUME NEW f, NEW S \in SUBSET Reservations, NEW U \in SUBSET Reservations,
         S \subseteq U \cup {f[q] : q \in Requests}
  PROVE  Cardinality(S) <= Cardinality(U) + Cardinality(Requests)
<1>1. Cardinality(S \ U) <= Cardinality(Requests)
  BY AtMostOneEach
<1>2. IsFiniteSet(U) /\ IsFiniteSet(S \ U)
  BY BookingAssumption, FS_Subset
<1>3. Cardinality(U \cup (S \ U)) = Cardinality(U) + Cardinality(S \ U) - Cardinality(U \cap (S \ U))
  BY <1>2, FS_Union
<1>4. U \cap (S \ U) = {}
  OBVIOUS
<1>5. Cardinality(S) <= Cardinality(U \cup (S \ U)) /\ Cardinality(S) \in Nat
  BY FewerReservations
<1>6. Cardinality(U) \in Nat /\ Cardinality(S \ U) \in Nat /\ Cardinality(Requests) \in Nat
  BY <1>2, FS_CardinalityType, RequestCount
<1>7. Cardinality(U \cup (S \ U)) = Cardinality(U) + Cardinality(S \ U)
  BY <1>3, <1>4, <1>6, FS_EmptySet
<1>8. QED
  BY <1>1, <1>5, <1>6, <1>7
-----------------------------------------------------------------------------
(* Facts about requests.                                                   *)

LEMMA Busy ==
  ASSUME TypeOK, NEW q \in Requests, req[q] # Idle
  PROVE  req[q] \in Request
BY DEF TypeOK

LEMMA AtWork ==
  ASSUME TypeOK, NEW q \in Requests, req[q].at \in {"insert", "search", "write"}
  PROVE  req[q] # Idle /\ req[q] \in Request
BY DEF TypeOK, Idle

LEMMA Ended ==
  ASSUME TypeOK, NEW q \in Requests, End(q)
  PROVE  /\ req' \in [Requests -> Request \cup {Idle}]
         /\ req'[q] = Idle
         /\ \A p \in Requests : p # q => req'[p] = req[p]
BY DEF End, TypeOK

-----------------------------------------------------------------------------
(* The claimants of a night stay within bounds.                            *)

\* A step that adds no claimant keeps the bound.
LEMMA ClaimantsKept ==
  ASSUME ClaimantsBounded, NEW p \in RoomNights, Claimants(p)' \subseteq Claimants(p)
  PROVE  Cardinality(Claimants(p)') <= Limit(p[1]) + Cardinality(Requests) - 1
<1>1. Claimants(p) \in SUBSET Reservations
  BY DEF Claimants, SoldAfterLooking, Sold
<1>2. Cardinality(Claimants(p)') <= Cardinality(Claimants(p))
      /\ Cardinality(Claimants(p)') \in Nat /\ Cardinality(Claimants(p)) \in Nat
  BY <1>1, FewerReservations
<1>3. QED
  BY <1>2, LimitType, RequestCount DEF ClaimantsBounded

\* A free night may get any claimants that are not sold for it yet.
LEMMA ClaimantsOfFree ==
  ASSUME NEW p \in RoomNights, Free(p), UNCHANGED <<status, stay>>
  PROVE  Cardinality(Claimants(p)') <= Limit(p[1]) + Cardinality(Requests) - 1
<1> DEFINE f == [q \in Requests |-> req'[q].res]
<1>1. Sold(p) \in SUBSET Reservations /\ Claimants(p)' \in SUBSET Reservations
  BY DEF Claimants, SoldAfterLooking, Sold
<1>2. SoldAfterLooking(p)' \subseteq Sold(p)
  BY DEF SoldAfterLooking, Sold
<1>3. Claimants(p)' \subseteq Sold(p) \cup {f[q] : q \in Requests}
  BY <1>2 DEF Claimants, MayTake
<1> HIDE DEF f
<1>4. Cardinality(Claimants(p)') <= Cardinality(Sold(p)) + Cardinality(Requests)
  BY <1>1, <1>3, OthersAndOneEach
<1>5. Cardinality(Sold(p)) \in Nat /\ Cardinality(Claimants(p)') \in Nat
  BY <1>1, FewerReservations
<1>6. Cardinality(Sold(p)) < Limit(p[1])
  BY DEF Free
<1>7. QED
  BY <1>4, <1>5, <1>6, LimitType, RequestCount

\* A step that adds no booking of e keeps their bound.
LEMMA BookingsKept ==
  ASSUME BookingsBounded, NEW e \in External, BookingsOf(e)' \subseteq BookingsOf(e)
  PROVE  Cardinality(BookingsOf(e)') <= Cardinality(Requests)
<1>1. BookingsOf(e) \in SUBSET Reservations
  BY DEF BookingsOf
<1>2. Cardinality(BookingsOf(e)') <= Cardinality(BookingsOf(e))
      /\ Cardinality(BookingsOf(e)') \in Nat /\ Cardinality(BookingsOf(e)) \in Nat
  BY <1>1, FewerReservations
<1>3. QED
  BY <1>2, RequestCount DEF BookingsBounded

\* When none is stored, only those under way count.
LEMMA BookingsUnderWay ==
  ASSUME NEW e \in External, ~Known(e), UNCHANGED <<external, delivered>>
  PROVE  Cardinality(BookingsOf(e)') <= Cardinality(Requests)
<1> DEFINE f == [q \in Requests |-> req'[q].res]
<1>1. BookingsOf(e)' \subseteq {f[q] : q \in Requests}
  BY DEF BookingsOf, MayBook, Known
<1>2. BookingsOf(e)' \in SUBSET Reservations
  BY DEF BookingsOf
<1> HIDE DEF f
<1>3. QED
  BY <1>1, <1>2, AtMostOneEach
-----------------------------------------------------------------------------
(* The invariant holds initially.                                          *)

LEMMA Initially == Init => IInv
<1> SUFFICES ASSUME Init PROVE IInv
  OBVIOUS
<1>1. \A q \in Requests : req[q] = Idle
  BY DEF Init
<1>2. TypeOK
  BY BookingAssumption DEF Init, TypeOK
<1>3. InsertsOK
  BY <1>1 DEF InsertsOK
<1>4. ChangesOK
  BY <1>1 DEF ChangesOK
<1>5. RowsOK
  BY BookingAssumption DEF Init, RowsOK
<1>6. ClaimantsBounded
  <2> SUFFICES ASSUME NEW p \in RoomNights
               PROVE  Cardinality(Claimants(p)) <= Limit(p[1]) + Cardinality(Requests) - 1
    BY DEF ClaimantsBounded
  <2>1. Claimants(p) = {}
    BY <1>1 DEF Init, Claimants, SoldAfterLooking, Sold, MayTake
  <2>2. QED
    BY <2>1, FS_EmptySet, LimitType, RequestCount
<1>7. BookingsBounded
  <2> SUFFICES ASSUME NEW e \in External
               PROVE  Cardinality(BookingsOf(e)) <= Cardinality(Requests)
    BY DEF BookingsBounded
  <2>1. BookingsOf(e) = {}
    BY <1>1, BookingAssumption DEF Init, BookingsOf, MayBook
  <2>2. QED
    BY <2>1, FS_EmptySet, RequestCount
<1>8. QED
  BY <1>2, <1>3, <1>4, <1>5, <1>6, <1>7 DEF IInv

-----------------------------------------------------------------------------
(* A handler that starts has looked at free nights, or carries nights that *)
(* its reservation is already counted for; one that books a channel's      *)
(* number has not found it.                                                *)

LEMMA StartKeeps ==
  ASSUME IInv, NEW q \in Requests, NEW x \in Request, Start(q, x),
         UNCHANGED rows,
         x.at = "insert" => Fresh(x.res) /\ x.looked \subseteq Occupies(x.new),
         x.at # "insert" => status[x.res] # "absent",
         \A p \in x.looked : Free(p) \/ x.res \in SoldAfterLooking(p),
         x.op = "channelBook" => ~Known(x.external)
  PROVE  IInv'
<1> USE DEF rows
<1>1. /\ req' \in [Requests -> Request \cup {Idle}]
      /\ req'[q] = x /\ req[q] = Idle /\ x # Idle
      /\ \A p \in Requests : p # q => req'[p] = req[p]
  BY DEF Start, IInv, TypeOK, Request, Idle
<1>2. TypeOK'
  BY <1>1, BookingAssumption DEF IInv, TypeOK, Start
<1>3. InsertsOK'
  <2> SUFFICES ASSUME NEW a \in Requests, req'[a] # Idle, req'[a].at = "insert"
               PROVE  /\ status[req'[a].res] = "absent"
                      /\ \A b \in Requests : b # a /\ req'[b] # Idle => req'[b].res # req'[a].res
                      /\ req'[a].looked \subseteq Occupies(req'[a].new)
    BY DEF InsertsOK
  <2>1. CASE a = q
    BY <1>1, <2>1 DEF Fresh
  <2>2. CASE a # q
    <3>1. req'[a] = req[a] /\ status[req[a].res] = "absent"
          /\ req[a].looked \subseteq Occupies(req[a].new)
      BY <1>1, <2>2 DEF IInv, InsertsOK
    <3>2. x.res # req[a].res
      BY <1>1, <2>2, <3>1 DEF Fresh
    <3>3. QED
      BY <1>1, <2>2, <3>1, <3>2 DEF IInv, InsertsOK
  <2>3. QED
    BY <2>1, <2>2
<1>4. ChangesOK'
  BY <1>1 DEF IInv, ChangesOK
<1>5. RowsOK'
  BY DEF IInv, RowsOK
<1>6. ClaimantsBounded'
  <2> SUFFICES ASSUME NEW p \in RoomNights
               PROVE  Cardinality(Claimants(p)') <= Limit(p[1]) + Cardinality(Requests) - 1
    BY DEF ClaimantsBounded, Limit
  <2>1. CASE Free(p)
    BY <2>1, ClaimantsOfFree
  <2>2. CASE ~Free(p)
    <3>1. Claimants(p)' \subseteq Claimants(p)
      BY <1>1, <2>2 DEF Claimants, MayTake, SoldAfterLooking, Sold
    <3>2. QED
      BY <3>1, ClaimantsKept DEF IInv
  <2>3. QED
    BY <2>1, <2>2
<1>7. BookingsBounded'
  <2> SUFFICES ASSUME NEW e \in External
               PROVE  Cardinality(BookingsOf(e)') <= Cardinality(Requests)
    BY DEF BookingsBounded
  <2>1. CASE x.op = "channelBook" /\ x.external = e
    BY <2>1, BookingsUnderWay
  <2>2. CASE ~(x.op = "channelBook" /\ x.external = e)
    <3>1. BookingsOf(e)' \subseteq BookingsOf(e)
      BY <1>1, <2>2 DEF BookingsOf, MayBook
    <3>2. QED
      BY <3>1, BookingsKept DEF IInv
  <2>3. QED
    BY <2>1, <2>2
<1>8. QED
  BY <1>2, <1>3, <1>4, <1>5, <1>6, <1>7 DEF IInv

LEMMA CreateStep ==
  ASSUME IInv, NEW q \in Requests, NEW r \in Reservations, NEW s \in Stays,
         NEW e \in External \cup {NoExternal}, Create(q, r, s, e)
  PROVE  IInv'
<1> DEFINE x == Booking("create", r, s, {FirstNight(s)}, e)
<1>1. FirstNight(s) \in Occupies(s)
  BY FirstNightType DEF Create
<1>2. x \in Request
  BY <1>1, StayNights DEF Booking, Request
<1>3. QED
  BY <1>1, <1>2, StartKeeps, BookingAssumption DEF Create, Booking

LEMMA ConnectBookStep ==
  ASSUME IInv, NEW q \in Requests, NEW r \in Reservations, NEW s \in Stays,
         ConnectBook(q, r, s)
  PROVE  IInv'
<1> DEFINE x == Booking("connectBook", r, s, Occupies(s), NoExternal)
<1>1. x \in Request
  BY StayNights DEF Booking, Request
<1>2. QED
  BY <1>1, StartKeeps, BookingAssumption DEF ConnectBook, Booking

LEMMA ChannelBookStep ==
  ASSUME IInv, NEW q \in Requests, NEW r \in Reservations, NEW s \in Stays,
         NEW e \in External, ChannelBook(q, r, s, e)
  PROVE  IInv'
<1> DEFINE x == Booking("channelBook", r, s, {}, e)
<1>1. x \in Request
  BY DEF Booking, Request
<1>2. QED
  BY <1>1, StartKeeps DEF ChannelBook, Booking

LEMMA ModifyStep ==
  ASSUME IInv, NEW q \in Requests, NEW r \in Reservations, NEW s \in Stays,
         NEW fields \in FieldSets, Modify(q, r, fields, s)
  PROVE  IInv'
<1> DEFINE x == Change("modify", "search", r, fields, s, looked[r])
<1>1. status[r] = "live" /\ stay[r] \in Stays /\ looked[r] \subseteq Occupies(stay[r])
  BY DEF Modify, IInv, RowsOK, TypeOK
<1>2. Updated(stay[r], fields, s) \in Stays
  BY <1>1, UpdatedType
<1>3. x \in Request
  BY <1>1, <1>2, StayNights, BookingAssumption DEF Change, Request, Fields
<1>4. \A p \in x.looked : x.res \in SoldAfterLooking(p)
  BY <1>1 DEF Change, SoldAfterLooking, Sold
<1>5. Start(q, x) /\ UNCHANGED rows
  BY DEF Modify
<1>6. x.at = "search" /\ x.res = r /\ x.op = "modify"
  BY DEF Change
<1> HIDE DEF x
<1>7. QED
  BY <1>1, <1>3, <1>4, <1>5, <1>6, StartKeeps, BookingAssumption

LEMMA ConnectModifyStep ==
  ASSUME IInv, NEW q \in Requests, NEW r \in Reservations, NEW s \in Stays,
         ConnectModify(q, r, s)
  PROVE  IInv'
<1> DEFINE x == Change("connectModify", "search", r, Fields, s, {})
<1>1. x \in Request
  BY UpdatedWhole DEF Change, Request
<1>2. QED
  BY <1>1, StartKeeps, BookingAssumption DEF ConnectModify, Change

LEMMA ChannelModifyStep ==
  ASSUME IInv, NEW q \in Requests, NEW r \in Reservations, NEW s \in Stays,
         ChannelModify(q, r, s)
  PROVE  IInv'
<1> DEFINE x == Change("channelModify", "write", r, Fields, s, {})
<1>1. x \in Request
  BY UpdatedWhole DEF Change, Request
<1>2. status[r] # "absent"
  BY DEF ChannelModify, IInv, RowsOK
<1>3. QED
  BY <1>1, <1>2, StartKeeps, BookingAssumption DEF ChannelModify, Change
-----------------------------------------------------------------------------
(* The steps of a handler in flight.                                       *)

\* A handler that ends without writing takes nothing.
LEMMA EndKeeps ==
  ASSUME IInv, NEW q \in Requests, End(q),
         UNCHANGED <<rows, started>>
  PROVE  IInv'
<1> USE DEF rows
<1>1. /\ req' \in [Requests -> Request \cup {Idle}]
      /\ req'[q] = Idle
      /\ \A p \in Requests : p # q => req'[p] = req[p]
  BY Ended DEF IInv
<1>2. TypeOK'
  BY <1>1 DEF IInv, TypeOK
<1>3. InsertsOK'
  BY <1>1 DEF IInv, InsertsOK
<1>4. ChangesOK'
  BY <1>1 DEF IInv, ChangesOK
<1>5. RowsOK'
  BY DEF IInv, RowsOK
<1>6. ASSUME NEW p \in RoomNights
      PROVE  Cardinality(Claimants(p)') <= Limit(p[1]) + Cardinality(Requests) - 1
  <2>1. Claimants(p)' \subseteq Claimants(p)
    BY <1>1 DEF Claimants, MayTake, SoldAfterLooking, Sold
  <2>2. QED
    BY <2>1, ClaimantsKept DEF IInv
<1>7. ASSUME NEW e \in External
      PROVE  Cardinality(BookingsOf(e)') <= Cardinality(Requests)
  <2>1. BookingsOf(e)' \subseteq BookingsOf(e)
    BY <1>1 DEF BookingsOf, MayBook
  <2>2. QED
    BY <2>1, BookingsKept DEF IInv
<1>8. ClaimantsBounded' /\ BookingsBounded'
  BY <1>6, <1>7 DEF ClaimantsBounded, BookingsBounded, Limit
<1>9. QED
  BY <1>2, <1>3, <1>4, <1>5, <1>8 DEF IInv

\* A search that succeeds has found every night it adds free.
LEMMA SearchKeeps ==
  ASSUME IInv, NEW q \in Requests, req[q].at = "search",
         NEW seen \in SUBSET RoomNights, Resume(q, "write", seen),
         UNCHANGED <<rows, started>>,
         \A p \in seen : p \in req[q].looked \/ Free(p)
  PROVE  IInv'
<1> USE DEF rows
<1>1. req[q] # Idle /\ req[q] \in Request
  BY AtWork DEF IInv
<1> DEFINE x == [req[q] EXCEPT !.at = "write", !.looked = seen, !.old = req[q].new]
<1>2. /\ x \in Request /\ x # Idle /\ x.at = "write" /\ x.looked = seen
      /\ x.op = req[q].op /\ x.res = req[q].res /\ x.external = req[q].external
  BY <1>1 DEF Request, Idle
<1>3. req' = [req EXCEPT ![q] = x]
  BY <1>1 DEF Resume, Request, IInv, TypeOK
<1> HIDE DEF x
<1>4. /\ req' \in [Requests -> Request \cup {Idle}]
      /\ req'[q] = x
      /\ \A p \in Requests : p # q => req'[p] = req[p]
  BY <1>2, <1>3 DEF IInv, TypeOK
<1>5. TypeOK'
  BY <1>4 DEF IInv, TypeOK
<1>6. InsertsOK'
  BY <1>1, <1>2, <1>4 DEF IInv, InsertsOK
<1>7. ChangesOK'
  BY <1>1, <1>2, <1>4 DEF IInv, ChangesOK
<1>8. RowsOK'
  BY DEF IInv, RowsOK
<1>9. ASSUME NEW p \in RoomNights
      PROVE  Cardinality(Claimants(p)') <= Limit(p[1]) + Cardinality(Requests) - 1
  <2>1. CASE Free(p)
    BY <2>1, ClaimantsOfFree
  <2>2. CASE ~Free(p)
    <3>1. Claimants(p)' \subseteq Claimants(p)
      BY <1>1, <1>2, <1>4, <2>2 DEF Claimants, MayTake, SoldAfterLooking, Sold
    <3>2. QED
      BY <3>1, ClaimantsKept DEF IInv
  <2>3. QED
    BY <2>1, <2>2
<1>10. ASSUME NEW e \in External
      PROVE  Cardinality(BookingsOf(e)') <= Cardinality(Requests)
  <2>1. BookingsOf(e)' \subseteq BookingsOf(e)
    BY <1>1, <1>2, <1>4 DEF BookingsOf, MayBook
  <2>2. QED
    BY <2>1, BookingsKept DEF IInv
<1>11. ClaimantsBounded' /\ BookingsBounded'
  BY <1>9, <1>10 DEF ClaimantsBounded, BookingsBounded, Limit
<1>12. QED
  BY <1>5, <1>6, <1>7, <1>8, <1>11 DEF IInv

LEMMA SearchStep ==
  ASSUME IInv, NEW q \in Requests, Search(q) PROVE IInv'
<1>1. req[q] # Idle /\ req[q] \in Request
  BY AtWork DEF IInv, Search
<1>2. req[q].looked \subseteq RoomNights /\ Occupies(req[q].new) \subseteq RoomNights
  BY <1>1, StayNights DEF Request
<1>3. CASE req[q].new = req[q].old
  BY <1>2, <1>3, SearchKeeps DEF Search
<1>4. CASE req[q].new # req[q].old
           /\ \A p \in Occupies(req[q].new) : GivesBack(q, p) \/ Free(p)
  <2> DEFINE seen == {p \in Occupies(req[q].new) : p \in req[q].looked \/ Free(p)}
  <2>1. Resume(q, "write", seen)
    BY <1>4 DEF Search
  <2>2. seen \in SUBSET RoomNights
    BY <1>2
  <2>3. QED
    BY <2>1, <2>2, SearchKeeps DEF Search
<1>5. CASE End(q)
  BY <1>5, EndKeeps DEF Search
<1>6. QED
  BY <1>3, <1>4, <1>5 DEF Search

LEMMA ConnectSearchStep ==
  ASSUME IInv, NEW q \in Requests, ConnectSearch(q) PROVE IInv'
<1>1. req[q] # Idle /\ req[q] \in Request
  BY AtWork DEF IInv, ConnectSearch
<1>2. Occupies(req[q].new) \subseteq RoomNights
  BY <1>1, StayNights DEF Request
<1>3. CASE \A p \in Occupies(req[q].new) : Free(p)
  BY <1>2, <1>3, SearchKeeps, EndKeeps DEF ConnectSearch
<1>4. CASE End(q)
  BY <1>4, EndKeeps DEF ConnectSearch
<1>5. QED
  BY <1>3, <1>4 DEF ConnectSearch

\* The row to be inserted was a claimant of the nights it takes.
LEMMA InsertStep ==
  ASSUME IInv, NEW q \in Requests, Insert(q) PROVE IInv'
<1> DEFINE r == req[q].res
<1>1. req[q] # Idle /\ req[q] \in Request /\ r \in Reservations
  BY AtWork DEF IInv, Insert, Request
<1>2. status[r] = "absent" /\ req[q].looked \subseteq Occupies(req[q].new)
  BY <1>1 DEF IInv, InsertsOK, Insert
<1>3. /\ req' \in [Requests -> Request \cup {Idle}]
      /\ req'[q] = Idle
      /\ \A p \in Requests : p # q => req'[p] = req[p]
  BY Ended DEF IInv, Insert
<1>4. /\ req[q].new \in Stays /\ req[q].looked \subseteq RoomNights
      /\ req[q].external \in External \cup {NoExternal}
  BY <1>1 DEF Request
<1>5. /\ status'[r] = "live" /\ stay'[r] = req[q].new
      /\ external'[r] = req[q].external /\ looked'[r] = req[q].looked
      /\ delivered' = IF req[q].op = "channelBook" THEN delivered \cup {r} ELSE delivered
      /\ \A x \in Reservations : x # r =>
           /\ status'[x] = status[x] /\ stay'[x] = stay[x]
           /\ external'[x] = external[x] /\ looked'[x] = looked[x]
  BY <1>1 DEF Insert, IInv, TypeOK
<1>6. TypeOK'
  <2>1. /\ status' \in [Reservations -> {"absent", "live", "gone"}]
        /\ stay' \in [Reservations -> Stays \cup {NoStay}]
        /\ external' \in [Reservations -> External \cup {NoExternal}]
        /\ looked' \in [Reservations -> SUBSET RoomNights]
        /\ delivered' \subseteq Reservations
        /\ started' \in 0..MaxStarts
    BY <1>1, <1>4 DEF Insert, IInv, TypeOK
  <2>2. \A x \in Reservations : looked'[x] \subseteq Occupies(stay'[x])
    BY <1>2, <1>5 DEF IInv, TypeOK
  <2>3. QED
    BY <1>3, <2>1, <2>2 DEF TypeOK, Occupies
<1>7. InsertsOK'
  <2> SUFFICES ASSUME NEW a \in Requests, req'[a] # Idle, req'[a].at = "insert"
               PROVE  /\ status'[req'[a].res] = "absent"
                      /\ \A b \in Requests : b # a /\ req'[b] # Idle => req'[b].res # req'[a].res
                      /\ req'[a].looked \subseteq Occupies(req'[a].new)
    BY DEF InsertsOK, Occupies
  <2>1. a # q /\ req'[a] = req[a] /\ req[a] \in Request
    BY <1>3, Busy DEF IInv
  <2>2. /\ status[req[a].res] = "absent"
        /\ req[a].looked \subseteq Occupies(req[a].new)
        /\ req[q].res # req[a].res
    BY <1>1, <2>1 DEF IInv, InsertsOK
  <2>3. req[a].res \in Reservations
    BY <2>1 DEF Request
  <2>4. QED
    BY <1>3, <1>5, <2>1, <2>2, <2>3 DEF IInv, InsertsOK
<1>8. ChangesOK'
  <2> SUFFICES ASSUME NEW a \in Requests, req'[a] # Idle, req'[a].at # "insert"
               PROVE  status'[req'[a].res] # "absent"
    BY DEF ChangesOK
  <2>1. a # q /\ req'[a] = req[a] /\ req[a].res \in Reservations
    BY <1>3, Busy DEF IInv, Request
  <2>2. QED
    BY <1>5, <2>1 DEF IInv, ChangesOK
<1>9. RowsOK'
  BY <1>4, <1>5 DEF IInv, RowsOK
<1>10. ASSUME NEW p \in RoomNights
      PROVE  Cardinality(Claimants(p)') <= Limit(p[1]) + Cardinality(Requests) - 1
  <2>1. ASSUME NEW x \in Reservations, x \in Claimants(p)' PROVE x \in Claimants(p)
    <3>1. CASE x = r
      <4>1. CASE p \in looked'[r]
        BY <1>1, <1>2, <1>5, <3>1, <4>1 DEF Claimants, MayTake
      <4>2. CASE p \notin looked'[r]
        <5>1. PICK a \in Requests : req'[a] # Idle /\ req'[a].res = r /\ p \in req'[a].looked
          BY <2>1, <3>1, <4>2 DEF Claimants, MayTake, SoldAfterLooking
        <5>2. a # q /\ req[a] # Idle /\ req[a].res = r /\ p \in req[a].looked
          BY <1>3, <5>1
        <5>3. QED
          BY <1>1, <1>2, <3>1, <5>2 DEF Claimants, MayTake
      <4>3. QED
        BY <4>1, <4>2
    <3>2. CASE x # r
      BY <1>3, <1>5, <2>1, <3>2 DEF Claimants, MayTake, SoldAfterLooking, Sold
    <3>3. QED
      BY <3>1, <3>2
  <2>2. Claimants(p)' \subseteq Claimants(p)
    BY <2>1 DEF Claimants, SoldAfterLooking, Sold
  <2>3. QED
    BY <2>2, ClaimantsKept DEF IInv
<1>11. ASSUME NEW e \in External
       PROVE  Cardinality(BookingsOf(e)') <= Cardinality(Requests)
  <2>1. ASSUME NEW x \in Reservations, x \in BookingsOf(e)' PROVE x \in BookingsOf(e)
    <3>1. CASE x \in delivered' /\ external'[x] = e /\ x # r
      BY <1>5, <3>1 DEF BookingsOf
    <3>2. CASE x \in delivered' /\ external'[x] = e /\ x = r
      BY <1>1, <1>2, <1>5, <3>2 DEF BookingsOf, MayBook, IInv, RowsOK
    <3>3. CASE \E a \in Requests : MayBook(a, x, e)'
      BY <1>3, <3>3 DEF BookingsOf, MayBook
    <3>4. QED
      BY <2>1, <3>1, <3>2, <3>3 DEF BookingsOf
  <2>2. BookingsOf(e)' \subseteq BookingsOf(e)
    BY <2>1 DEF BookingsOf
  <2>3. QED
    BY <2>2, BookingsKept DEF IInv
<1>12. ClaimantsBounded' /\ BookingsBounded'
  BY <1>10, <1>11 DEF ClaimantsBounded, BookingsBounded, Limit
<1>13. QED
  BY <1>6, <1>7, <1>8, <1>9, <1>12 DEF IInv

\* The row that is written was already counted for the nights it keeps or takes.
LEMMA WriteStep ==
  ASSUME IInv, NEW q \in Requests, Write(q) PROVE IInv'
<1> DEFINE r == req[q].res
<1>1. req[q] # Idle /\ req[q] \in Request /\ r \in Reservations
  BY AtWork DEF IInv, Write, Request
<1>2. status[r] # "absent" /\ stay[r] \in Stays
  BY <1>1 DEF IInv, ChangesOK, RowsOK, Write
<1>3. /\ req' \in [Requests -> Request \cup {Idle}]
      /\ req'[q] = Idle
      /\ \A p \in Requests : p # q => req'[p] = req[p]
  BY Ended DEF IInv, Write
<1>4. Updated(stay[r], req[q].fields, req[q].new) \in Stays
  BY <1>1, <1>2, UpdatedType DEF Request
<1>5. /\ stay'[r] \in Stays
      /\ looked'[r] = (looked[r] \cup req[q].looked) \cap Occupies(stay'[r])
      /\ \A x \in Reservations : x # r => stay'[x] = stay[x] /\ looked'[x] = looked[x]
      /\ status' = status /\ external' = external /\ delivered' = delivered
  BY <1>1, <1>4 DEF Write, IInv, TypeOK
<1>6. TypeOK'
  <2>1. stay' \in [Reservations -> Stays \cup {NoStay}] /\ started' \in 0..MaxStarts
    BY <1>1, <1>4 DEF Write, IInv, TypeOK
  <2>2. looked'[r] \in SUBSET RoomNights /\ looked'[r] \subseteq Occupies(stay'[r])
    BY <1>5, StayNights
  <2>3. looked' \in [Reservations -> SUBSET RoomNights]
    BY <1>1, <1>5, <2>2 DEF Write, IInv, TypeOK
  <2>4. \A x \in Reservations : looked'[x] \subseteq Occupies(stay'[x])
    BY <1>5, <2>2 DEF IInv, TypeOK
  <2>5. QED
    BY <1>3, <1>5, <2>1, <2>3, <2>4 DEF IInv, TypeOK, Occupies
<1>7. InsertsOK'
  BY <1>3, <1>5 DEF IInv, InsertsOK, Occupies
<1>8. ChangesOK'
  BY <1>3, <1>5 DEF IInv, ChangesOK
<1>9. RowsOK'
  BY <1>5 DEF IInv, RowsOK
<1>10. ASSUME NEW p \in RoomNights
       PROVE  Cardinality(Claimants(p)') <= Limit(p[1]) + Cardinality(Requests) - 1
  <2>1. ASSUME NEW x \in Reservations, x \in SoldAfterLooking(p)', x = r
        PROVE  x \in Claimants(p)
    <3>1. status[r] = "live" /\ p \in looked[r] \cup req[q].looked
      BY <1>5, <2>1 DEF SoldAfterLooking, Sold
    <3>2. CASE p \in req[q].looked
      BY <1>1, <2>1, <3>1, <3>2 DEF Claimants, MayTake
    <3>3. CASE p \in looked[r]
      <4>1. p \in Occupies(stay[r])
        BY <1>1, <3>3 DEF IInv, TypeOK
      <4>2. QED
        BY <1>1, <2>1, <3>1, <3>3, <4>1 DEF Claimants, SoldAfterLooking, Sold
    <3>4. QED
      BY <3>1, <3>2, <3>3
  <2>2. ASSUME NEW x \in Reservations, x \in SoldAfterLooking(p)', x # r
        PROVE  x \in Claimants(p)
    BY <1>5, <2>2 DEF Claimants, SoldAfterLooking, Sold
  <2>3. Claimants(p)' \subseteq Claimants(p)
    BY <1>3, <1>5, <2>1, <2>2 DEF Claimants, MayTake, SoldAfterLooking, Sold
  <2>4. QED
    BY <2>3, ClaimantsKept DEF IInv
<1>11. ASSUME NEW e \in External
       PROVE  Cardinality(BookingsOf(e)') <= Cardinality(Requests)
  <2>1. BookingsOf(e)' \subseteq BookingsOf(e)
    BY <1>3, <1>5 DEF BookingsOf, MayBook
  <2>2. QED
    BY <2>1, BookingsKept DEF IInv
<1>12. ClaimantsBounded' /\ BookingsBounded'
  BY <1>10, <1>11 DEF ClaimantsBounded, BookingsBounded, Limit
<1>13. QED
  BY <1>6, <1>7, <1>8, <1>9, <1>12 DEF IInv

\* A reservation that is gone claims nothing, and is not brought back.
LEMMA ReleaseStep ==
  ASSUME IInv, NEW r \in Reservations, Release(r) PROVE IInv'
<1>1. /\ status[r] = "live" /\ status'[r] = "gone"
      /\ \A x \in Reservations : x # r => status'[x] = status[x]
      /\ UNCHANGED <<stay, external, delivered, looked, req, started>>
  BY DEF Release, IInv, TypeOK
<1>2. TypeOK'
  BY DEF Release, IInv, TypeOK, Occupies
<1>3. \A q \in Requests : req[q] # Idle => req[q].res \in Reservations
  BY Busy DEF IInv, Request
<1>4. InsertsOK' /\ ChangesOK' /\ RowsOK'
  BY <1>1, <1>3 DEF IInv, InsertsOK, ChangesOK, RowsOK, Occupies
<1>5. ASSUME NEW p \in RoomNights
      PROVE  Cardinality(Claimants(p)') <= Limit(p[1]) + Cardinality(Requests) - 1
  <2>1. Claimants(p)' \subseteq Claimants(p)
    BY <1>1 DEF Claimants, MayTake, SoldAfterLooking, Sold
  <2>2. QED
    BY <2>1, ClaimantsKept DEF IInv
<1>6. ASSUME NEW e \in External
      PROVE  Cardinality(BookingsOf(e)') <= Cardinality(Requests)
  <2>1. BookingsOf(e)' \subseteq BookingsOf(e)
    BY <1>1 DEF BookingsOf, MayBook
  <2>2. QED
    BY <2>1, BookingsKept DEF IInv
<1>7. ClaimantsBounded' /\ BookingsBounded'
  BY <1>5, <1>6 DEF ClaimantsBounded, BookingsBounded, Limit
<1>8. QED
  BY <1>2, <1>4, <1>7 DEF IInv

LEMMA Step == IInv /\ [Next]_vars => IInv'
<1> SUFFICES ASSUME IInv, [Next]_vars PROVE IInv'
  OBVIOUS
<1>1. CASE UNCHANGED vars
  BY <1>1 DEF vars, IInv, TypeOK, InsertsOK, RowsOK, ChangesOK, ClaimantsBounded, Claimants,
              SoldAfterLooking, Sold, MayTake, BookingsBounded, BookingsOf, MayBook
<1>2. ASSUME NEW q \in Requests, Handler(q) PROVE IInv'
  <2>1. ASSUME NEW r \in Reservations, NEW s \in Stays,
               \/ \E e \in External \cup {NoExternal} : Create(q, r, s, e)
               \/ ConnectBook(q, r, s)
               \/ ConnectModify(q, r, s) \/ ChannelModify(q, r, s)
        PROVE  IInv'
    BY <2>1, CreateStep, ConnectBookStep, ConnectModifyStep, ChannelModifyStep
  <2>2. ASSUME NEW r \in Reservations, NEW s \in Stays, NEW e \in External,
               ChannelBook(q, r, s, e)
        PROVE  IInv'
    BY <2>2, ChannelBookStep
  <2>3. ASSUME NEW r \in Reservations, NEW s \in Stays,
               NEW fields \in FieldSets, Modify(q, r, fields, s)
        PROVE  IInv'
    BY <2>3, ModifyStep
  <2>4. CASE Insert(q) \/ Search(q) \/ ConnectSearch(q) \/ Write(q)
    BY <2>4, InsertStep, SearchStep, ConnectSearchStep, WriteStep
  <2>5. CASE Abort(q)
    BY <2>5, EndKeeps DEF Abort
  <2>6. QED
    BY <1>2, <2>1, <2>2, <2>3, <2>4, <2>5 DEF Handler
<1>3. ASSUME NEW r \in Reservations, Release(r) PROVE IInv'
  BY <1>3, ReleaseStep
<1>4. QED
  BY <1>1, <1>2, <1>3 DEF Next

-----------------------------------------------------------------------------
(* Theorems.                                                               *)

THEOREM Invariant == Spec => []IInv
BY Initially, Step, PTL DEF Spec

\* Whatever the handlers do, every row and every request is well formed, and a row
\* only counts nights as looked at that it occupies.
THEOREM TypeCorrect == Spec => []TypeOK
BY Invariant, PTL DEF IInv

\* A night is never oversold, among those who asked for it, by more rooms than
\* there are other handlers in flight: the race window of create and modify costs
\* at most that, however the handlers interleave and whatever stays they write.
THEOREM OversellingBounded == Spec => []OversellingIsBounded
<1>1. IInv => OversellingIsBounded
  <2> SUFFICES ASSUME IInv, NEW p \in RoomNights
               PROVE  Cardinality(SoldAfterLooking(p)) <= Limit(p[1]) + Cardinality(Requests) - 1
    BY DEF OversellingIsBounded
  <2>1. Claimants(p) \in SUBSET Reservations /\ SoldAfterLooking(p) \in SUBSET Claimants(p)
    BY DEF Claimants, SoldAfterLooking, Sold
  <2>2. Cardinality(SoldAfterLooking(p)) <= Cardinality(Claimants(p))
        /\ Cardinality(SoldAfterLooking(p)) \in Nat /\ Cardinality(Claimants(p)) \in Nat
    BY <2>1, FewerReservations
  <2>3. QED
    BY <2>2, LimitType, RequestCount DEF IInv, ClaimantsBounded
<1>2. QED
  BY <1>1, Invariant, PTL

\* A channel's booking is never stored more often than its deliveries may overlap.
THEOREM DuplicatesBounded == Spec => []DuplicatesAreBounded
<1>1. IInv => DuplicatesAreBounded
  <2> SUFFICES ASSUME IInv, NEW e \in External
               PROVE  Cardinality({r \in delivered : external[r] = e}) <= Cardinality(Requests)
    BY DEF DuplicatesAreBounded
  <2> DEFINE S == {r \in delivered : external[r] = e}
  <2>1. BookingsOf(e) \in SUBSET Reservations /\ S \in SUBSET BookingsOf(e)
    BY DEF BookingsOf, IInv, TypeOK
  <2>2. Cardinality(S) <= Cardinality(BookingsOf(e))
        /\ Cardinality(S) \in Nat /\ Cardinality(BookingsOf(e)) \in Nat
    BY <2>1, FewerReservations
  <2>3. QED
    BY <2>2, RequestCount DEF IInv, BookingsBounded
<1>2. QED
  BY <1>1, Invariant, PTL
=============================================================================
