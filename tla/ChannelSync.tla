------------------------------ MODULE ChannelSync ------------------------------
(***************************************************************************)
(* Availability on its way to the channels: what is sold changes, and a    *)
(* push reads the availability of a window of dates, connection by         *)
(* connection, and sends it.  The listeners of the reservation events push *)
(* without being awaited, the channel manager's routes push by hand, and   *)
(* so does the handler of a channel's booking; nothing orders the pushes.  *)
(*                                                                         *)
(* One room type is modelled; the pushes of two types do not meet.  A      *)
(* request that a channel has given up on is not processed later.          *)
(***************************************************************************)
EXTENDS Integers, FiniteSets, Sequences

CONSTANTS
  Connections,  \* channel connections of the property
  SiteMinder,   \* those whose adapter is siteminder; the others are booking_com
  Dates,        \* days, as consecutive numbers
  TotalRooms, Buffer,  \* rooms of the type, and how many more may be sold
  MaxRetries,   \* attempts of an adapter's request
  Pushers,      \* bound: handlers in flight at once
  MaxStarts     \* bound: changes and pushes in all

ASSUME ChannelSyncAssumption ==
  /\ SiteMinder \subseteq Connections /\ Dates \subseteq Int
  /\ TotalRooms \in Nat /\ Buffer \in Nat /\ MaxRetries \in Nat \ {0} /\ MaxStarts \in Nat

VARIABLES
  sold,     \* of a date: reservations that occupy the room type
  conn,     \* of a connection: its row
  shown,    \* of a connection and a date: what the channel offers for sale
  pusher,   \* handlers in flight
  begun,    \* changes and pushes started so far
  excused   \* what a channel may show wrong, and why not is named below (history)

csVars == <<sold, conn, shown, pusher, begun, excused>>

IdlePusher == [at |-> "idle"]

\* The inventory controls of a connection's config, and whether rooms are mapped.
Controls == [mapped : BOOLEAN, half : BOOLEAN, overbooking : BOOLEAN]

AllMapped == [mapped |-> TRUE, half |-> FALSE, overbooking |-> TRUE]

-----------------------------------------------------------------------------
(* What is available, and what a connection is offered of it.              *)

\* searchAvailability, of one date: never negative.
Available(n) == IF n > TotalRooms + Buffer THEN 0 ELSE TotalRooms + Buffer - n

LessBuffer(n) == IF n > Buffer THEN n - Buffer ELSE 0

\* Without overbooking the buffer is taken off; a restricted inventory is a share
\* (here half) rounded down.
Offered(k, n) ==
  LET open == IF k.overbooking THEN Available(n) ELSE LessBuffer(Available(n))
  IN IF k.half THEN open \div 2 ELSE open

\* A connection that has been created, mapped and activated.
SetUp == [status |-> "active", isActive |-> TRUE, controls |-> AllMapped]

CSInit ==
  /\ sold = [d \in Dates |-> 0]
  /\ conn = [c \in Connections |-> SetUp]
  /\ shown = [c \in Connections |-> [d \in Dates |-> Available(0)]]
  /\ pusher = [p \in Pushers |-> IdlePusher] /\ begun = 0
  /\ excused = {}

\* getActiveConnections
ActiveConnections == {c \in Connections : conn[c].status = "active" /\ conn[c].isActive}

\* The nights of a window; departure is not one of them.
NightsOf(w) == {d \in Dates : w.from <= d /\ d < w.to}

\* A push covers both ends of its window: the search is asked up to the day after.
DatesOf(w) == {d \in Dates : w.from <= d /\ d <= w.to}

Windows == {w \in [from : Dates, to : Dates] : w.from < w.to}

\* A push of one window: its kind, and the one connection it is for, or all of them.
Push(kind, w, to) == [kind |-> kind, window |-> w, to |-> to]

\* The controls a handler has read, of no connection yet.
Unread == [c \in {} |-> AllMapped]

\* A handler that pushes, one after the other.
Pushing(work) ==
  [at |-> "list", work |-> work, conns |-> {}, rows |-> Unread, conn |-> "none", parts |-> <<>>,
   tries |-> 0, dirty |-> {}]

StartPush(p, work) ==
  /\ pusher[p] = IdlePusher
  /\ begun < MaxStarts /\ begun' = begun + 1
  /\ pusher' = [pusher EXCEPT ![p] = IF work = <<>> THEN IdlePusher ELSE Pushing(work)]

-----------------------------------------------------------------------------
(* What is sold changes.                                                   *)

\* The readings of these dates that are on their way are now out of date.
Outdate(changed, after) ==
  [q \in Pushers |-> IF after[q] # IdlePusher /\ after[q].at = "send"
                     THEN [after[q] EXCEPT !.dirty = @ \cup changed] ELSE after[q]]

\* A change of what is sold, the pushes that follow it, and the dates nobody is told of.
Change(p, delta, work, untold) ==
  LET changed == {d \in Dates : delta[d] # 0}
      started == [pusher EXCEPT ![p] = IF work = <<>> THEN IdlePusher ELSE Pushing(work)]
  IN /\ pusher[p] = IdlePusher
     /\ begun < MaxStarts /\ begun' = begun + 1
     /\ \A d \in Dates : sold[d] + delta[d] >= 0
     /\ sold' = [d \in Dates |-> sold[d] + delta[d]]
     /\ pusher' = Outdate(changed, started)
     /\ excused' = excused \cup (Connections \X (changed \cap untold))
     /\ UNCHANGED <<conn, shown>>

Book(w) == [d \in Dates |-> IF d \in NightsOf(w) THEN 1 ELSE 0]

Free(w) == [d \in Dates |-> IF d \in NightsOf(w) THEN -1 ELSE 0]

Move(old, new) == [d \in Dates |-> Book(new)[d] + Free(old)[d]]

\* reservation.created, reservation.cancelled, and a channel's booking or cancellation
\* with its dates: the window is pushed to all.
ReservationCreated(p, w) == Change(p, Book(w), <<Push("availability", w, "all")>>, {})

ReservationCancelled(p, w) == Change(p, Free(w), <<Push("availability", w, "all")>>, {})

\* Mutant: only the new window is pushed.
NewWindow(old, new) == <<Push("availability", new, "all")>>

\* Both windows, unless they are the same.
BothWindows(old, new) ==
  IF old = new THEN <<Push("availability", new, "all")>>
  ELSE <<Push("availability", new, "all"), Push("availability", old, "all")>>

ReservationModified(p, old, new) == Change(p, Move(old, new), BothWindows(old, new), {})

\* A channel's modification pushes the new window only.
ChannelModified(p, old, new) ==
  Change(p, Move(old, new), <<Push("availability", new, "all")>>, DatesOf(old) \ DatesOf(new))

\* Nothing is pushed: a Connect API booking, modification or cancellation, a no-show,
\* a check-out; and a cancellation in Booking.com's own format, which has no dates.
Silently(p, delta) == Change(p, delta, <<>>, Dates)

-----------------------------------------------------------------------------
(* The connections.                                                        *)

\* update; what was shown under the old row stays.
UpdateConnection(c, status, controls) ==
  /\ begun < MaxStarts /\ begun' = begun + 1
  /\ conn' = [conn EXCEPT ![c].status = status, ![c].controls = controls]
  /\ excused' = excused \cup ({c} \X Dates)
  /\ UNCHANGED <<sold, shown, pusher>>

Deactivate(c) ==
  /\ begun < MaxStarts /\ begun' = begun + 1
  /\ conn' = [conn EXCEPT ![c].isActive = FALSE, ![c].status = "inactive"]
  /\ excused' = excused \cup ({c} \X Dates)
  /\ UNCHANGED <<sold, shown, pusher>>

\* The routes of the channel manager, to one connection or to all.
ByHand(p, work) == StartPush(p, work) /\ UNCHANGED <<sold, conn, shown, excused>>

PushAvailability(p, w, to) == ByHand(p, <<Push("availability", w, to)>>)

PushRates(p, w, to) == ByHand(p, <<Push("rates", w, to)>>)

\* Availability to all of them, then rates to all of them.
PushFullARI(p, w, to) == ByHand(p, <<Push("availability", w, to), Push("rates", w, to)>>)

PushStopSell(p, w, c) == ByHand(p, <<Push("stop_sell", w, c)>>)

-----------------------------------------------------------------------------
(* A push.                                                                 *)

Now(p) == Head(pusher[p].work)

\* What this push leaves out: the connections it does not go to.
NotReached(p, cs) == (Connections \ cs) \X DatesOf(Now(p).window)

\* The connections are read once: the one asked for, whatever its status, or the
\* active ones.
ListConnections(p) ==
  LET cs == IF Now(p).to = "all" THEN ActiveConnections ELSE {Now(p).to}
  IN /\ pusher[p].at = "list"
     /\ pusher' = [pusher EXCEPT ![p].at = "read", ![p].conns = cs,
                                   ![p].rows = [c \in cs |-> conn[c].controls]]
     /\ excused' = excused \cup (IF Now(p).to = "all" THEN NotReached(p, cs) ELSE {})
     /\ UNCHANGED <<sold, conn, shown, begun>>

Nothing == [d \in {} |-> 0]

\* What a part says of the availability of the window's dates.
Saying(p, n) == [d \in DatesOf(Now(p).window) |-> n]

AvailabilityPart(p, c) == [d \in DatesOf(Now(p).window) |-> Offered(pusher[p].rows[c], sold[d])]

StopSellPart(p) == Saying(p, 0)

\* Rates go out without a word on availability.
RatePart == Nothing

\* So do restrictions, but SiteMinder's adapter sends them as an availability of one
\* room, or of none when the rate is closed.
RestrictionPart(p, c, closed) ==
  IF c \notin SiteMinder THEN Nothing ELSE Saying(p, IF closed THEN 0 ELSE 1)

\* What is sent to c, one request after the other.
PartsFor(p, c, closed) ==
  CASE Now(p).kind = "availability" -> <<AvailabilityPart(p, c)>>
    [] Now(p).kind = "stop_sell" -> <<StopSellPart(p)>>
    [] OTHER -> <<RatePart, RestrictionPart(p, c, closed)>>

\* The next connection; one without mappings is skipped.
ReadAvailability(p, c, closed) ==
  /\ pusher[p].at = "read" /\ c \in pusher[p].conns
  /\ IF pusher[p].rows[c].mapped
     THEN /\ pusher' = [pusher EXCEPT ![p].at = "send", ![p].conn = c, ![p].parts = PartsFor(p, c, closed),
                                      ![p].conns = @ \ {c}, ![p].tries = 0, ![p].dirty = {}]
          /\ UNCHANGED excused
     ELSE /\ pusher' = [pusher EXCEPT ![p].conns = @ \ {c}]
          /\ excused' = excused \cup ({c} \X DatesOf(Now(p).window))
  /\ UNCHANGED <<sold, conn, shown, begun>>

\* The channel takes in what is sent, and keeps what it has of the other dates.
TakenIn(c, part) ==
  [shown EXCEPT ![c] = [d \in Dates |-> IF d \in DOMAIN part THEN part[d] ELSE @[d]]]

\* The dates whose availability a part settles rightly: it was read for this push, and
\* neither what is sold nor the controls have changed since.
Settled(p, part) ==
  IF /\ Now(p).kind = "availability"
     /\ pusher[p].rows[pusher[p].conn] = conn[pusher[p].conn].controls
  THEN DOMAIN part \ pusher[p].dirty ELSE {}

\* The part has been answered; the next one follows even after a failure.
PushAnswered(p) ==
  pusher' = [pusher EXCEPT ![p].parts = Tail(@), ![p].tries = 0,
                           ![p].at = IF Len(pusher[p].parts) = 1 THEN "log" ELSE "send"]

\* Accepted: the dates are right, or excused if the reading was outdated or no reading.
SendAccepted(p) ==
  LET c == pusher[p].conn
      part == Head(pusher[p].parts)
  IN /\ pusher[p].at = "send"
     /\ shown' = TakenIn(c, part)
     /\ excused' = (excused \ ({c} \X Settled(p, part))) \cup ({c} \X (DOMAIN part \ Settled(p, part)))
     /\ PushAnswered(p)
     /\ UNCHANGED <<sold, conn, begun>>

\* The answer says no: it is not sent again.
SendRejected(p) ==
  /\ pusher[p].at = "send"
  /\ excused' = excused \cup ({pusher[p].conn} \X DOMAIN Head(pusher[p].parts))
  /\ PushAnswered(p)
  /\ UNCHANGED <<sold, conn, shown, begun>>

\* No answer, or an error status: it may have been taken in, and is sent again, the
\* same reading, until the attempts are used up.
SendLost(p, taken) ==
  LET c == pusher[p].conn
      part == Head(pusher[p].parts)
      last == pusher[p].tries + 1 = MaxRetries
  IN /\ pusher[p].at = "send"
     /\ shown' = IF taken THEN TakenIn(c, part) ELSE shown
     /\ excused' = excused \cup ({c} \X DOMAIN part)
     /\ IF last THEN PushAnswered(p) ELSE pusher' = [pusher EXCEPT ![p].tries = @ + 1]
     /\ UNCHANGED <<sold, conn, begun>>

\* The sync is logged, and but for a stop-sell its outcome is noted on the connection,
\* where no code decides by it.
LogSync(p) ==
  /\ pusher[p].at = "log"
  /\ pusher' = [pusher EXCEPT ![p].at = "read", ![p].conn = "none", ![p].dirty = {}]
  /\ UNCHANGED <<sold, conn, shown, begun, excused>>

\* Every connection has been pushed to: the next window.
NextWindow(p) ==
  /\ pusher[p].at = "read" /\ pusher[p].conns = {}
  /\ pusher' = [pusher EXCEPT ![p] = IF Len(@.work) = 1 THEN IdlePusher ELSE Pushing(Tail(@.work))]
  /\ UNCHANGED <<sold, conn, shown, begun, excused>>

\* A statement throws or the server stops: the other connections and windows hear nothing.
CutOff(p) ==
  /\ pusher[p] # IdlePusher
  /\ pusher' = [pusher EXCEPT ![p] = IdlePusher]
  /\ excused' = excused \cup
       (Connections \X UNION {DatesOf(pusher[p].work[i].window) : i \in DOMAIN pusher[p].work})
  /\ UNCHANGED <<sold, conn, shown, begun>>

-----------------------------------------------------------------------------
CSNext ==
  \/ \E p \in Pushers :
       \/ \E w \in Windows : ReservationCreated(p, w) \/ ReservationCancelled(p, w)
       \/ \E old, new \in Windows : ReservationModified(p, old, new) \/ ChannelModified(p, old, new)
       \/ \E w \in Windows : Silently(p, Book(w)) \/ Silently(p, Free(w))
       \/ \E w \in Windows, to \in Connections \cup {"all"} :
            PushAvailability(p, w, to) \/ PushRates(p, w, to) \/ PushFullARI(p, w, to)
       \/ \E w \in Windows, c \in Connections : PushStopSell(p, w, c)
       \/ ListConnections(p)
       \/ \E c \in Connections, closed \in BOOLEAN : ReadAvailability(p, c, closed)
       \/ SendAccepted(p) \/ SendRejected(p)
       \/ \E taken \in BOOLEAN : SendLost(p, taken)
       \/ LogSync(p) \/ NextWindow(p) \/ CutOff(p)
  \/ \E c \in Connections, s \in {"active", "error"}, k \in Controls : UpdateConnection(c, s, k)
  \/ \E c \in Connections : Deactivate(c)

CSSpec == CSInit /\ [][CSNext]_csVars

-----------------------------------------------------------------------------
(* Properties.                                                             *)

\* Rows, channels and handlers keep their types.
CSTypeOK ==
  /\ sold \in [Dates -> Nat] /\ shown \in [Connections -> [Dates -> Nat]]
  /\ conn \in [Connections -> [status : {"pending_setup", "active", "error", "inactive"}, isActive : BOOLEAN,
                               controls : Controls]]
  /\ excused \subseteq Connections \X Dates

\* At rest, a channel offers what the property has to offer it, except for the dates
\* whose last push was refused, given up, cut off, skipped, outdated when it arrived
\* or not about availability, and the changes nobody is told of.
ChannelIsCurrent ==
  (\A p \in Pushers : pusher[p] = IdlePusher) =>
     \A c \in Connections, d \in Dates :
       <<c, d>> \notin excused => shown[c][d] = Offered(conn[c].controls, sold[d])
=============================================================================
