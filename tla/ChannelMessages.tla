---------------------------- MODULE ChannelMessages ----------------------------
(***************************************************************************)
(* What the adapters of Booking.com and SiteMinder say to a channel and    *)
(* understand of it: the messages an ARI push becomes, the answers and     *)
(* attempts of a request, and the reservations a channel reports, pulled   *)
(* or pushed.  Pure functions: who calls them, and in which order, is in   *)
(* ChannelSync and in Booking.                                             *)
(***************************************************************************)
EXTENDS Integers, FiniteSets, Sequences, FiniteSetsExt

-----------------------------------------------------------------------------
(* A request.  An attempt is what comes back of it: an HTTP status (none   *)
(* if nothing came in time) and what the body says.                        *)

Attempts == [http : {"none", "ok", "500", "other"}, body : {"success", "errors", "fault", "silent", "garbled"}]

\* parseOtaXml: accepted only if it says so and lists no error.
ParseOta(body) == [success |-> body = "success", errors |-> body = "errors", isFault |-> FALSE]

\* parseSoapResponse: a fault is an error too.
ParseSoap(body) ==
  [success |-> body = "success", errors |-> body \in {"errors", "fault"}, isFault |-> body = "fault"]

NetworkError == [success |-> FALSE, errors |-> TRUE, isFault |-> FALSE]

\* Booking.com: any status but ok, and a body that does not parse, is tried again.
BookingComFinal(a) == a.http = "ok" /\ a.body # "garbled"

\* SiteMinder: the body of a 500 is read like any other.
SiteMinderFinal(a) == a.http \in {"ok", "500"} /\ a.body # "garbled"

\* The first attempt that counts, or none: tries has one for each that may be made.
BookingComRequest(tries) ==
  LET final == {i \in DOMAIN tries : BookingComFinal(tries[i])}
  IN IF final = {} THEN NetworkError ELSE ParseOta(tries[Min(final)].body)

SiteMinderRequest(tries) ==
  LET final == {i \in DOMAIN tries : SiteMinderFinal(tries[i])}
  IN IF final = {} THEN NetworkError ELSE ParseSoap(tries[Min(final)].body)

\* testConnection: an answer that neither accepts nor complains is a connection; and
\* SiteMinder's says no to a fault only.
BookingComConnected(tries) ==
  LET r == BookingComRequest(tries) IN r.success \/ ~r.errors

SiteMinderConnected(tries) == ~SiteMinderRequest(tries).isFault

-----------------------------------------------------------------------------
(* Pushing.  An item is about a room code, a rate code where it has one    *)
(* and a date; a message has the key it is about and what it says.  Items  *)
(* and messages are functions of their places, tuples of numbers that are  *)
(* gone through in lexicographic order: the ARI service goes from room to  *)
(* room, or from rate plan to rate plan, and in each from day to day.      *)

Precedes(x, y) == \E k \in DOMAIN x : x[k] < y[k] /\ \A l \in 1..(k - 1) : x[l] = y[l]

LastOf(places) == CHOOSE x \in places : \A y \in places : y = x \/ Precedes(y, x)

\* What the channel makes of the messages: the last word on a key counts.
Told(messages, key) ==
  LET about == {x \in DOMAIN messages : messages[x].key = key}
  IN IF about = {} THEN "nothing" ELSE messages[LastOf(about)].says

\* Where the room of an item comes up first.
FirstOfRoom(items, x) ==
  CHOOSE y \in DOMAIN items : /\ items[y].room = items[x].room
                              /\ \A z \in DOMAIN items : items[z].room = items[x].room => z = y \/ Precedes(y, z)

\* The items are grouped by room, in the order in which the rooms come up.
BookingComAvailability(items) ==
  LET place(y) == <<FirstOfRoom(items, y)[1], FirstOfRoom(items, y)[2], y[1], y[2]>>
      item(x) == items[<<x[3], x[4]>>]
  IN [x \in {place(y) : y \in DOMAIN items} |->
        [key |-> <<item(x).room, item(x).date>>, says |-> item(x).available]]

BookingComRates(items) ==
  [i \in DOMAIN items |-> [key |-> <<items[i].room, items[i].rate, items[i].date>>, says |-> items[i].amount]]

\* Without a limit on the length of stay it is 1 to 999 nights.
Limits(x) == <<IF x.minLos = 0 THEN 1 ELSE x.minLos, IF x.maxLos = 0 THEN 999 ELSE x.maxLos>>

Rules(x) == [stay |-> Limits(x), cta |-> x.cta, ctd |-> x.ctd, closed |-> x.stopSell]

BookingComRestrictions(items) ==
  [i \in DOMAIN items |-> [key |-> <<items[i].room, items[i].rate, items[i].date>>, says |-> Rules(items[i])]]

\* SiteMinder's availability message carries the restriction of its room and date, the
\* last one of the list if there are several, and knows no rate plans.
SiteMinderAvailability(items, restrictions) ==
  [x \in DOMAIN items |->
     LET about == {y \in DOMAIN restrictions :
                     restrictions[y].room = items[x].room /\ restrictions[y].date = items[x].date}
     IN [key |-> <<items[x].room, items[x].date>>,
         says |-> [available |-> items[x].available,
                   rules |-> IF about = {} THEN "unchanged" ELSE Rules(restrictions[LastOf(about)])]]]

SiteMinderRates(items) == BookingComRates(items)

SiteMinderRestrictions(items) ==
  SiteMinderAvailability([i \in DOMAIN items |-> [room |-> items[i].room, date |-> items[i].date,
                                                  available |-> IF items[i].stopSell THEN 0 ELSE 1]], items)

\* pushRates of the ARI service: of each rate plan and day, the base amount and the first
\* restriction whose dates include the day.
RestrictionFor(restrictions, date) ==
  LET about == {i \in DOMAIN restrictions : restrictions[i].from <= date /\ date <= restrictions[i].to}
  IN IF about = {} THEN [closed |-> FALSE, minLos |-> 0] ELSE restrictions[Min(about)]

RestrictionItems(plans, days) ==
  [x \in (DOMAIN plans) \X days |->
     LET plan == plans[x[1]]
         r == RestrictionFor(plan.restrictions, x[2])
     IN [room |-> plan.room, rate |-> plan.rate, date |-> x[2], stopSell |-> r.closed, cta |-> FALSE,
         ctd |-> FALSE, minLos |-> r.minLos, maxLos |-> 0]]

RateItems(plans, days) ==
  [x \in (DOMAIN plans) \X days |->
     [room |-> plans[x[1]].room, rate |-> plans[x[1]].rate, date |-> x[2], amount |-> plans[x[1]].amount]]

-----------------------------------------------------------------------------
(* Reservations.  A channel's report has an id, a status, room stays and   *)
(* guests; codes that are not understood are UNKNOWN, dates are then 0.    *)

\* Two adults, unless several kinds of guests are counted.
Adults(counts) ==
  LET adults == {i \in DOMAIN counts : counts[i].kind = "adults"}
  IN IF Len(counts) < 2 \/ adults = {} THEN 2 ELSE counts[Max(adults)].count

\* A list where one element is expected has none of its attributes.
TheStay(report) ==
  IF Len(report.stays) = 1 THEN report.stays[1]
  ELSE [room |-> "UNKNOWN", rate |-> "UNKNOWN", from |-> 0, to |-> 0, counts |-> <<>>]

BookingComReservation(report) ==
  LET s == TheStay(report)
  IN [id |-> report.id, room |-> s.room, rate |-> s.rate, from |-> s.from, to |-> s.to, adults |-> Adults(s.counts),
      guest |-> IF Len(report.guests) = 1 THEN report.guests[1] ELSE "Guest Unknown",
      status |-> CASE report.status = "Cancel" -> "cancelled" [] report.status = "Modify" -> "modified" [] OTHER -> "new"]

SiteMinderReservation(report) == BookingComReservation(report)

\* A cancellation in Booking.com's own format knows the id and nothing else.
CancellationOnly(id) ==
  [id |-> id, room |-> "", rate |-> "", from |-> 0, to |-> 0, adults |-> 0, guest |-> "", status |-> "cancelled"]

-----------------------------------------------------------------------------
(* Processing.  books: of an external id, the reservation stored for it.   *)

Mapped(conn, r) == r.room \in conn.rooms /\ r.rate \in conn.rates

\* resolveRoomTypeId and resolveRatePlanId fail on a code that is not mapped.
Refused(books) == [books |-> books, ok |-> FALSE, confirm |-> FALSE]

Stored(books, r, status, confirm) ==
  [books |-> [id \in DOMAIN books \cup {r.id} |->
                IF id = r.id THEN [room |-> r.room, from |-> r.from, to |-> r.to, adults |-> r.adults, status |-> status]
                ELSE books[id]],
   ok |-> TRUE, confirm |-> confirm]

NewReservation(books, conn, r) ==
  IF Mapped(conn, r) THEN Stored(books, r, "confirmed", TRUE) ELSE Refused(books)

\* The status stays what it is, the channel is not told.
Modification(books, conn, r) ==
  IF Mapped(conn, r) THEN Stored(books, r, books[r.id].status, FALSE) ELSE Refused(books)

Cancellation(books, r) ==
  IF r.id \in DOMAIN books
  THEN [books |-> [books EXCEPT ![r.id].status = "cancelled"], ok |-> TRUE, confirm |-> FALSE]
  ELSE Refused(books)

\* Mutant: a report of a booking that is known is taken for a modification of it.
ProcessAgain(books, conn, r) ==
  IF r.status = "cancelled" THEN Cancellation(books, r)
  ELSE IF r.id \in DOMAIN books THEN Modification(books, conn, r) ELSE NewReservation(books, conn, r)

ProcessInbound(books, conn, r) ==
  IF r.status = "cancelled" THEN Cancellation(books, r)
  ELSE IF r.status = "modified" /\ r.id \in DOMAIN books THEN Modification(books, conn, r)
  ELSE IF r.id \in DOMAIN books THEN Refused(books)
  ELSE NewReservation(books, conn, r)

\* The books after each of the reports, one after the other.
BooksAfter(books, conn, rs) ==
  LET after[n \in 0..Len(rs)] == IF n = 0 THEN books ELSE ProcessInbound(after[n - 1], conn, rs[n]).books
  IN after

\* One that fails does not stop the next.  done and confirm: the places of the reports
\* that were processed, the bookings that were confirmed.
Processed(books, conn, rs) ==
  LET after == BooksAfter(books, conn, rs)
      one(n) == ProcessInbound(after[n - 1], conn, rs[n])
  IN [books |-> after[Len(rs)], done |-> {n \in DOMAIN rs : one(n).ok},
      confirm |-> {rs[n].id : n \in {n \in DOMAIN rs : one(n).confirm}}]

\* pullAndProcessReservations; a pull that was not accepted brings nothing.
Pull(books, conn, reports, answer) ==
  Processed(books, conn, IF answer.success THEN [i \in DOMAIN reports |-> BookingComReservation(reports[i])] ELSE <<>>)

\* receiveReservation: the first one that was processed is confirmed, whatever happened
\* to the others.  What is posted need not say Success, but must not list errors.
ReceiveReservation(books, conn, reports, body) ==
  LET result == Processed(books, conn, [i \in DOMAIN reports |-> BookingComReservation(reports[i])])
      none == [status |-> 400, confirmed |-> {}, books |-> books]
  IN IF ParseOta(body).errors \/ reports = <<>> THEN none
     ELSE IF ~conn.active THEN [none EXCEPT !.status = 500]
     ELSE IF result.done = {} THEN [none EXCEPT !.status = 500, !.books = result.books]
     ELSE [status |-> 200, confirmed |-> {reports[Min(result.done)].id}, books |-> result.books]

\* receiveCancellation
ReceiveCancellation(books, conn, id) ==
  LET result == Cancellation(books, CancellationOnly(id))
  IN IF ~conn.active \/ ~result.ok THEN [status |-> 500, books |-> books]
     ELSE [status |-> 200, books |-> result.books]

-----------------------------------------------------------------------------
(* Properties, of one question each.                                       *)

\* A request is accepted only if the channel has said so, and what Booking.com or
\* SiteMinder refuses is not asked again; Booking.com is never taken for connected
\* without an answer, while SiteMinder is unless it answers with a fault.
AnswersAreRead(tries) ==
  LET b == BookingComRequest(tries)
      s == SiteMinderRequest(tries)
      said(i) == tries[i].body = "success"
  IN /\ b.success => \E i \in DOMAIN tries : said(i) /\ tries[i].http = "ok"
     /\ s.success => \E i \in DOMAIN tries : said(i) /\ tries[i].http \in {"ok", "500"}
     /\ \A i \in DOMAIN tries :
          (BookingComFinal(tries[i]) /\ \A j \in 1..(i - 1) : ~BookingComFinal(tries[j])) => (b.success <=> said(i))
     /\ BookingComConnected(tries) => \E i \in DOMAIN tries : BookingComFinal(tries[i])
     /\ ~SiteMinderConnected(tries) <=> s.isFault
     /\ s.success => SiteMinderConnected(tries)

\* A channel ends up with the availability of every room and date that was pushed once.
AvailabilityIsRead(items) ==
  \A x \in DOMAIN items :
    LET key == <<items[x].room, items[x].date>>
    IN (\A y \in DOMAIN items : <<items[y].room, items[y].date>> = key => y = x) =>
         /\ Told(BookingComAvailability(items), key) = items[x].available
         /\ Told(SiteMinderAvailability(items, <<>>), key).available = items[x].available

\* Booking.com ends up with the amount and the rules of every rate on every day; at
\* SiteMinder the rules of a room and day are those of one of its rates, and its rooms for
\* sale one or none.
RatesAreRead(plans, days) ==
  LET rates == RateItems(plans, days)
      rules == RestrictionItems(plans, days)
      distinct == \A p, q \in DOMAIN plans : plans[p].rate = plans[q].rate => p = q
  IN \A x \in DOMAIN rates :
       LET key == <<rates[x].room, rates[x].rate, x[2]>>
           told == Told(SiteMinderRestrictions(rules), <<rates[x].room, x[2]>>)
       IN /\ distinct => /\ Told(BookingComRates(rates), key) = rates[x].amount
                         /\ Told(BookingComRestrictions(rules), key) = Rules(rules[x])
          /\ told.available = IF told.rules.closed THEN 0 ELSE 1
          /\ \E p \in DOMAIN plans : plans[p].room = rates[x].room /\ told.rules = Rules(rules[<<p, x[2]>>])

\* A complete report of one stay of one guest is understood as it was meant; a report
\* of several stays at once is never stored as new.
ReportsAreUnderstood(report, conn) ==
  LET r == BookingComReservation(report)
      nobody == [id \in {} |-> {}]
  IN /\ Len(report.stays) = 1 =>
          LET s == report.stays[1]
          IN /\ <<r.room, r.rate, r.from, r.to>> = <<s.room, s.rate, s.from, s.to>>
             /\ Len(s.counts) > 1 =>
                  \A i \in DOMAIN s.counts :
                    (s.counts[i].kind = "adults" /\ \A j \in DOMAIN s.counts : s.counts[j].kind = "adults" => j <= i)
                      => r.adults = s.counts[i].count
     /\ Len(report.stays) # 1 => ~ProcessInbound(nobody, conn, r).ok

\* However often a channel reports the same things, a booking is stored once and as it
\* was first reported, unless it reports a modification; it is confirmed to the channel
\* only when it is stored, so one whose confirmation was lost is never confirmed; what
\* is cancelled stays so.
ReportedTwice(reports, conn) ==
  LET answer == ParseOta("success")
      once == Pull([id \in {} |-> {}], conn, reports, answer)
      twice == Pull(once.books, conn, reports, answer)
  IN /\ once.confirm = DOMAIN once.books /\ twice.confirm \cap once.confirm = {}
     /\ DOMAIN once.books \subseteq DOMAIN twice.books
     /\ \A id \in DOMAIN once.books :
          /\ once.books[id].status = "cancelled" => twice.books[id].status = "cancelled"
          /\ (\A i \in DOMAIN reports : reports[i].id = id => reports[i].status = "Commit") =>
                LET first == Min({i \in DOMAIN reports :
                                    reports[i].id = id /\ Mapped(conn, BookingComReservation(reports[i]))})
                IN /\ twice.books[id] = once.books[id]
                   /\ once.books[id].adults = BookingComReservation(reports[first]).adults

\* Booking.com hears of one reservation, and of one that is now on the books, and of an
\* error only if nothing was stored; a cancellation is accepted only for a known booking.
PushesAreAnswered(reports, conn, body, id) ==
  LET empty == [x \in {} |-> {}]
      r == ReceiveReservation(empty, conn, reports, body)
      c == ReceiveCancellation(r.books, conn, id)
  IN /\ r.status = 200 <=> r.confirmed # {}
     /\ r.confirmed \subseteq DOMAIN r.books
     /\ r.status # 200 => r.books = empty
     /\ c.status = 200 => id \in DOMAIN r.books /\ c.books[id].status = "cancelled" /\ conn.active
=============================================================================
