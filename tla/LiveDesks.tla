------------------------------- MODULE LiveDesks -------------------------------
(***************************************************************************)
(* The dashboard at several desks: lists of reservations in each browser's *)
(* query cache, the buttons of their rows, the API behind them, and the    *)
(* events that tell the other desks to fetch again.                        *)
(*                                                                         *)
(* An event goes from WebhookService.emit over the in-process emitter to   *)
(* EventsService, which hands it to the gateway; the gateway sends it to   *)
(* the sockets that have joined the property's room, and the hook of a     *)
(* browser invalidates the queries whose key the event touches.  Nothing  *)
(* but the next answer of the API changes what a list shows.               *)
(***************************************************************************)
EXTENDS Naturals, Sequences, ReservationStateMachine

CONSTANTS
  Bookings,  \* reservation rows of the property
  Desks,     \* browsers with the dashboard open
  Api,       \* the callers without one: agents, scripts, channels
  Lists,     \* the lists, of those of QueryOf, that are looked at
  MaxPast,   \* bound: the statuses a row goes through
  Wildcard   \* the emitter is built with wildcards, so that '**' is a pattern, which
             \* EventsService counts on and app.module.ts does not ask for

ASSUME LiveDesksAssumption ==
  /\ Bookings # {}
  /\ Api \notin Desks
  /\ MaxPast \in Nat
  /\ Wildcard \in BOOLEAN

VARIABLES
  statusLog,  \* the statuses each reservation row has gone through; the last is its status
  call,       \* the call each desk, or the outside, has in flight
  page,       \* the page a desk has open
  cache,      \* its query cache
  sock,       \* its socket
  wire,       \* events sent to it and not delivered yet
  auth,       \* AUTH_ENABLED of the deployment
  owed        \* how far a desk has been told of each row: the length of its log then (history)

ldVars == <<statusLog, call, page, cache, sock, wire, auth, owed>>

Status(r) == statusLog[r][Len(statusLog[r])]

Present == [r \in Bookings |-> Len(statusLog[r])]

Unseen == [r \in Bookings |-> 0]

-----------------------------------------------------------------------------
(* What the pages ask for, and what the API takes.                         *)

\* The reservation list, unless the desk filters it.
ReservationList == [pages |-> {"reservations"}, statuses |-> ReservationStatus,
                    params |-> {"propertyId"}]

\* The tabs of the front desk, which the first page shows as well.
Arrivals == [pages |-> {"frontDesk", "home"}, statuses |-> {"confirmed"},
             params |-> {"propertyId", "status", "arrivalDate"}]

InHouseGuests == [pages |-> {"frontDesk", "home"}, statuses |-> {"checked_in"},
                  params |-> {"propertyId", "status"}]

Departures == [pages |-> {"frontDesk", "home"}, statuses |-> {"checked_in"},
               params |-> {"propertyId", "status", "departureDate"}]

\* The tape chart, and the stays of one guest.
Calendar == [pages |-> {"calendar"}, statuses |-> ReservationStatus,
             params |-> {"propertyId", "arrivalDateFrom", "arrivalDateTo"}]

GuestStays == [pages |-> {"guest"}, statuses |-> ReservationStatus,
               params |-> {"propertyId", "guestId"}]

QueryOf == [list |-> ReservationList, arrivals |-> Arrivals, inHouse |-> InHouseGuests,
            departures |-> Departures, calendar |-> Calendar, stays |-> GuestStays]

Pages == UNION {QueryOf[q].pages : q \in Lists}

\* The validation pipe refuses a request that names a field its DTO lacks.
ListParams == {"propertyId", "status", "arrivalDateFrom", "arrivalDateTo", "departureDateFrom",
               "departureDateTo", "guestId", "page", "limit"}

Answerable(q) == QueryOf[q].params \subseteq ListParams

\* The entries of a row's menu in the reservation list, by the status it shows.
ListButtons ==
  { [list |-> "list", op |-> "confirm", from |-> {"pending"}, body |-> {}],
    [list |-> "list", op |-> "checkIn", from |-> {"confirmed", "assigned"}, body |-> {}],
    [list |-> "list", op |-> "checkOut", from |-> {"checked_in"}, body |-> {}],
    [list |-> "list", op |-> "cancel", body |-> {"reason"},
     from |-> ReservationStatus \ {"cancelled", "checked_out", "no_show"}] }

\* The buttons of the arrivals and the departures tab.
FrontDeskButtons ==
  { [list |-> "arrivals", op |-> "checkIn", from |-> {"confirmed"},
     body |-> {"roomId", "idDocumentType", "idDocumentNumber"}],
    [list |-> "arrivals", op |-> "groupCheckIn", from |-> {"confirmed"}, body |-> {"reservationIds"}],
    [list |-> "departures", op |-> "checkOut", from |-> {"checked_in"}, body |-> {}],
    [list |-> "departures", op |-> "expressCheckOut", from |-> {"checked_in"}, body |-> {}] }

Buttons == {b \in ListButtons \cup FrontDeskButtons : b.list \in Lists}

\* The handlers: the fields they take, the status they claim, and whether they
\* send an event when they have.
CheckInFields == {"idType", "idNumber", "idCountry", "idExpiry", "skipDepositAuth", "depositAmount",
                  "paymentMethodId", "gatewayPaymentToken", "gatewayProvider", "cardLastFour",
                  "cardBrand", "roomId", "specialRequests", "registrationSigned"}

CheckOutFields == {"expressCheckout", "sendReceiptEmail", "receiptEmail", "lateCheckoutFee", "notes"}

Handlers ==
  [ confirm         |-> [takes |-> {}, to |-> "confirmed", emits |-> FALSE],
    assignRoom      |-> [takes |-> {"roomId"}, to |-> "assigned", emits |-> FALSE],
    cancel          |-> [takes |-> {"cancellationReason"}, to |-> "cancelled", emits |-> TRUE],
    markNoShow      |-> [takes |-> {}, to |-> "no_show", emits |-> FALSE],
    checkIn         |-> [takes |-> CheckInFields, to |-> "checked_in", emits |-> TRUE],
    groupCheckIn    |-> [takes |-> {"reservations"}, to |-> "checked_in", emits |-> TRUE],
    checkOut        |-> [takes |-> CheckOutFields, to |-> "checked_out", emits |-> TRUE],
    expressCheckOut |-> [takes |-> {}, to |-> "checked_out", emits |-> TRUE] ]

\* Mutant: what an event of a reservation touches leaves the reservations out.
KeysOfRooms(entity) == {"rooms", "housekeeping"}

\* The queries an event of an entity touches, by the first part of their key.
KeysOf(entity) ==
  [ reservation  |-> {"reservations", "rooms", "reports"},
    room         |-> {"rooms", "housekeeping"},
    housekeeping |-> {"housekeeping", "rooms"},
    folio        |-> {"folios", "payments"},
    payment      |-> {"payments", "folios"},
    audit        |-> {"audit", "reports"},
    channel      |-> {"channels"},
    agent        |-> {"agents", "agent-decisions", "agent-performance"},
    guest        |-> {"agent-decisions", "reviews"},
    connect      |-> {"connect"} ][entity]

-----------------------------------------------------------------------------
(* Calls.                                                                  *)

Idle == [op |-> "idle", r |-> CHOOSE r \in Bookings : TRUE, body |-> {}, at |-> "idle", wrote |-> 0]

Callers == Desks \cup {Api}

\* An entry of a desk's cache, as it is before the first fetch: what the list
\* shows, whether it is marked, the fetch under way, and whether that fetch, or
\* the one shown, was under way when the list should have been marked.
Unfetched == [seen |-> Unseen, invalid |-> FALSE, fetch |-> "idle", answer |-> Unseen,
              late |-> FALSE, missed |-> FALSE]

LDInit ==
  /\ statusLog \in [Bookings -> {<<s>> : s \in CreatedStatus}]
  /\ call = [c \in Callers |-> Idle]
  /\ page = [d \in Desks |-> "none"]
  /\ cache = [d \in Desks |-> [q \in Lists |-> Unfetched]]
  /\ sock = [d \in Desks |-> "off"]
  /\ wire = [d \in Desks |-> 0]
  /\ auth \in BOOLEAN
  /\ owed = [d \in Desks |-> Unseen]

browser == <<page, cache>>

net == <<sock, wire, auth>>

\* The lists a desk has on the screen.
Active(d) == {q \in Lists : page[d] \in QueryOf[q].pages}

\* The status the list shows of r, which only the API's last answer decides.
Shows(d, q, r) ==
  /\ cache[d][q].seen[r] > 0
  /\ statusLog[r][cache[d][q].seen[r]] \in QueryOf[q].statuses

ShownStatus(d, q, r) == statusLog[r][cache[d][q].seen[r]]

\* Somebody at desk d presses a button of a row.
Press(d, b, r) ==
  /\ call[d] = Idle
  /\ b.list \in Active(d) /\ Shows(d, b.list, r) /\ ShownStatus(d, b.list, r) \in b.from
  /\ call' = [call EXCEPT ![d] = [op |-> b.op, r |-> r, body |-> b.body, at |-> "asked",
                                  wrote |-> 0]]
  /\ UNCHANGED <<statusLog, browser, net, owed>>

\* The validation pipe and the state machine let a call through.
Takes(op, r, body) ==
  /\ body \subseteq Handlers[op].takes
  /\ ValidTransition(Status(r), Handlers[op].to)

\* The handler claims its transition and goes on to its event, if it sends one.
Claim(c, op, r) ==
  /\ Len(statusLog[r]) < MaxPast
  /\ statusLog' = [statusLog EXCEPT ![r] = Append(@, Handlers[op].to)]
  /\ call' = [call EXCEPT ![c] =
       IF c = Api /\ ~Handlers[op].emits THEN Idle
       ELSE [@ EXCEPT !.r = r, !.at = IF Handlers[op].emits THEN "emit" ELSE "done",
                      !.wrote = Len(statusLog[r]) + 1]]

\* A desk's call is served, or refused.
Serve(d) ==
  LET r == call[d].r
      op == call[d].op
  IN /\ call[d].at = "asked"
     /\ \/ Takes(op, r, call[d].body) /\ Claim(d, op, r)
        \/ /\ ~Takes(op, r, call[d].body)
           /\ call' = [call EXCEPT ![d].at = "refused"]
           /\ statusLog' = statusLog
     /\ UNCHANGED <<browser, net, owed>>

\* Somebody calls the API without the dashboard, and as its DTOs want it.
CallApi(op, r) ==
  /\ call[Api] = Idle /\ Takes(op, r, {})
  /\ Claim(Api, op, r)
  /\ UNCHANGED <<browser, net, owed>>

\* The sockets in the property's room.
Room == {d \in Desks : sock[d] = "joined"}

\* A desk in the room is owed what the event is about.
OweTo(desks, c) ==
  owed' = [d \in Desks |-> IF d \in desks /\ owed[d][call[c].r] < call[c].wrote
                           THEN [owed[d] EXCEPT ![call[c].r] = call[c].wrote]
                           ELSE owed[d]]

\* emit runs the listeners before it returns.  That of EventsService is
\* registered for '**', which is the name of no event.
Emit(c) ==
  /\ call[c].at = "emit"
  /\ wire' = [d \in Desks |-> IF Wildcard /\ d \in Room THEN wire[d] + 1 ELSE wire[d]]
  /\ OweTo(Room, c)
  /\ call' = [call EXCEPT ![c] = IF c = Api THEN Idle ELSE [@ EXCEPT !.at = "done"]]
  /\ UNCHANGED <<statusLog, browser, sock, auth>>

\* A statement after the claim throws, the server stops or the answer is lost.
Fail(c) ==
  /\ call[c].at \in {"emit", "done"}
  /\ call' = [call EXCEPT ![c] = IF c = Api THEN Idle ELSE [@ EXCEPT !.at = "refused"]]
  /\ UNCHANGED <<statusLog, browser, net, owed>>

\* The night audit's updates, which send no event of a reservation.
NightAudit(r) ==
  /\ \E to \in {"stayover", "due_out", "no_show"} :
       /\ ValidTransition(Status(r), to) /\ Len(statusLog[r]) < MaxPast
       /\ statusLog' = [statusLog EXCEPT ![r] = Append(@, to)]
  /\ UNCHANGED <<call, browser, net, owed>>

-----------------------------------------------------------------------------
(* The query cache, which is the library's.                                *)

Fetching(d, q) == cache[d][q].fetch # "idle"

\* The lists of a desk that begin a fetch; one they had under way is dropped.
Refetch(entry) == [entry EXCEPT !.fetch = "asked", !.answer = Unseen, !.late = FALSE]

\* invalidateQueries marks what matches; what is on the screen is fetched anew.
\* A first fetch under way is not begun again, nor is one that the desk has
\* turned away from, and the answer of either clears the mark.
Invalidate(d, keys) ==
  LET hit == IF "reservations" \in keys THEN Lists ELSE {}
      deaf == {q \in hit : Fetching(d, q) /\ (q \notin Active(d) \/ cache[d][q].seen = Unseen)}
      anew == (hit \cap Active(d)) \ deaf
  IN cache' = [cache EXCEPT ![d] =
          [q \in Lists |->
             LET entry == IF q \in anew THEN Refetch(cache[d][q]) ELSE cache[d][q]
             IN [entry EXCEPT !.invalid = @ \/ (q \in hit /\ entry.seen # Unseen),
                              !.late = @ \/ q \in deaf]]]

\* The lists in which nothing is under way begin a fetch.
Begin(d, lists) ==
  cache' = [cache EXCEPT ![d] =
    [q \in Lists |-> IF q \in lists /\ ~Fetching(d, q) THEN Refetch(cache[d][q]) ELSE cache[d][q]]]

\* A page that opens fetches what it does not have or knows to be old.
OpenPage(d, p) ==
  /\ page[d] # p /\ sock[d] # "off"
  /\ page' = [page EXCEPT ![d] = p]
  /\ Begin(d, {q \in Lists : p \in QueryOf[q].pages
                             /\ (cache[d][q].seen = Unseen \/ cache[d][q].invalid)})
  /\ UNCHANGED <<statusLog, call, net, owed>>

\* The window gets the focus (or the page is opened) when 30 seconds have gone.
Focus(d) ==
  /\ Active(d) # {}
  /\ Begin(d, Active(d))
  /\ UNCHANGED <<statusLog, call, page, net, owed>>

\* The API answers with the rows of this moment.
AnswerQuery(d, q) ==
  /\ cache[d][q].fetch = "asked" /\ Answerable(q)
  /\ cache' = [cache EXCEPT ![d][q].fetch = "answered", ![d][q].answer = Present]
  /\ UNCHANGED <<statusLog, call, page, net, owed>>

ReceiveAnswer(d, q) ==
  /\ cache[d][q].fetch = "answered"
  /\ cache' = [cache EXCEPT ![d][q] = [Unfetched EXCEPT !.seen = cache[d][q].answer,
                                                       !.missed = cache[d][q].late]]
  /\ UNCHANGED <<statusLog, call, page, net, owed>>

\* The answer is lost, or the API refuses: one more try, and then no more.
FailQuery(d, q) ==
  /\ cache[d][q].fetch = "answered" \/ (cache[d][q].fetch = "asked" /\ ~Answerable(q))
  /\ \E next \in {"asked", "idle"} :
       cache' = [cache EXCEPT ![d][q].fetch = next, ![d][q].answer = Unseen,
                               ![d][q].late = @ /\ next = "asked"]
  /\ UNCHANGED <<statusLog, call, page, net, owed>>

\* The desk hears of its own call, and fetches again what it may have changed.
Reply(d) ==
  /\ call[d].at \in {"done", "refused"}
  /\ IF call[d].at = "done"
     THEN Invalidate(d, {"reservations", "rooms"}) /\ OweTo({d}, d)
     ELSE UNCHANGED <<cache, owed>>
  /\ call' = [call EXCEPT ![d] = Idle]
  /\ UNCHANGED <<statusLog, page, net>>

-----------------------------------------------------------------------------
(* Sockets.                                                                *)

\* Choosing the property connects and asks to join its room.
ChooseProperty(d) ==
  /\ sock[d] = "off"
  /\ sock' = [sock EXCEPT ![d] = "asking"]
  /\ UNCHANGED <<statusLog, call, browser, wire, auth, owed>>

\* The gateway turns away a socket without a token, which the dashboard never
\* sends; without authentication it lets the socket join.
HandleConnection(d) ==
  /\ sock[d] = "asking"
  /\ sock' = [sock EXCEPT ![d] = IF auth THEN "rejected" ELSE "joined"]
  /\ UNCHANGED <<statusLog, call, browser, wire, auth, owed>>

\* What was on the way to a desk is lost, and so is the promise of it.
Forget(d) ==
  /\ wire' = [wire EXCEPT ![d] = 0]
  /\ owed' = IF wire[d] > 0 THEN [owed EXCEPT ![d] = Unseen] ELSE owed

\* The connection breaks and is made again by itself, as a new socket that has
\* joined no room: the dashboard asks to join only when the property changes.
Reconnect(d) ==
  /\ sock[d] = "joined"
  /\ sock' = [sock EXCEPT ![d] = "outside"]
  /\ Forget(d)
  /\ UNCHANGED <<statusLog, call, browser, auth>>

\* Another property is chosen: the room is left, and no page of this one open.
LeaveProperty(d) ==
  /\ sock[d] \in {"joined", "outside"}
  /\ sock' = [sock EXCEPT ![d] = "off"]
  /\ page' = [page EXCEPT ![d] = "none"]
  /\ Forget(d)
  /\ UNCHANGED <<statusLog, call, cache, auth>>

\* handleEvent of the hook.
DeliverEvent(d) ==
  /\ wire[d] > 0
  /\ wire' = [wire EXCEPT ![d] = @ - 1]
  /\ Invalidate(d, KeysOf("reservation"))
  /\ UNCHANGED <<statusLog, call, page, sock, auth, owed>>

-----------------------------------------------------------------------------
Desk(d) ==
  \/ \E b \in Buttons, r \in Bookings : Press(d, b, r)
  \/ \E p \in Pages : OpenPage(d, p)
  \/ \E q \in Lists : AnswerQuery(d, q) \/ ReceiveAnswer(d, q) \/ FailQuery(d, q)
  \/ Focus(d) \/ Reply(d)
  \/ ChooseProperty(d) \/ HandleConnection(d) \/ Reconnect(d) \/ LeaveProperty(d) \/ DeliverEvent(d)

Server ==
  \/ \E d \in Desks : Serve(d)
  \/ \E c \in Callers : Emit(c) \/ Fail(c)
  \/ \E op \in DOMAIN Handlers, r \in Bookings : CallApi(op, r)
  \/ \E r \in Bookings : NightAudit(r)

LDNext == Server \/ \E d \in Desks : Desk(d)

LDSpec == LDInit /\ [][LDNext]_ldVars

-----------------------------------------------------------------------------
(* Properties.                                                             *)

\* A list on the screen that waits for nothing: it has an answer, no fetch is
\* under way, it is not marked, and no event is on its way to the desk.
AtRest(d, q) ==
  /\ q \in Active(d)
  /\ cache[d][q].seen # Unseen /\ ~Fetching(d, q) /\ ~cache[d][q].invalid
  /\ wire[d] = 0

\* A list at rest shows no reservation as it was before a change the desk has
\* been told of, by the answer to its own call or by an event sent while it was
\* in the property's room; except that a fetch that was under way, and that the
\* library does not begin again, may have swallowed the news.
DesksFollow ==
  \A d \in Desks, q \in Lists :
    AtRest(d, q) /\ ~cache[d][q].missed => \A r \in Bookings : cache[d][q].seen[r] >= owed[d][r]
=============================================================================
