--------------------------------- MODULE Reports ---------------------------------
(***************************************************************************)
(* The figures of a day: the revenue summary of the night audit, the       *)
(* reports, the insights of the Connect API, the dashboards of the         *)
(* housekeepers and of the agents.  Each is computed from the same rows on *)
(* its own.  A house h is [reservations, charges, payments, folios, rooms, *)
(* tasks, totalRooms]: sets of records.  Days are numbers, 0 for none;     *)
(* money is in cents, a rate of occupancy in hundredths of a percent.      *)
(***************************************************************************)
EXTENDS Integers, FiniteSets, Sequences, FiniteSetsExt, Functions, ReservationStateMachine

\* Halves up; of nothing, nothing.
Ratio(amount, parts) == IF parts <= 0 THEN 0 ELSE (2 * amount + parts) \div (2 * parts)

AmountOf(rows) == SumFunction([x \in rows |-> x.amount])

Magnitude(rows) == SumFunction([x \in rows |-> IF x.amount < 0 THEN -x.amount ELSE x.amount])

-----------------------------------------------------------------------------
(* What the figures are made of.                                           *)

\* The charges of a day, reversals apart; a charge that was reversed stays among them.
ChargesOf(h, day) == {c \in h.charges : c.day = day /\ ~c.reversal}

ReversalsOf(h, day) == {c \in h.charges : c.day = day /\ c.reversal}

OfType(rows, type) == {c \in rows : c.type = type}

CapturedOn(h, day) == {p \in h.payments : p.status = "captured" /\ p.day = day}

\* Night audit, financial summary, occupancy report: who is in the house by its status
\* and came by that day; when they leave does not matter.
RoomsSold(h, day) == {r \in h.reservations : r.status \in InHouse /\ r.from <= day}

\* Mutant: the day of departure counts as a night.
RoomsSoldOrLeaving(h, day) ==
  {r \in h.reservations : r.status \in InHouse \cup {"checked_out"} /\ r.from <= day /\ day <= r.to}

\* Occupancy trend: by the dates of the stay; who has left counts for its nights.
RoomsSoldOn(h, day) ==
  {r \in h.reservations : r.status \in InHouse \cup {"checked_out"} /\ r.from <= day /\ day < r.to}

\* Insights: those who are expected count too.
RoomsOccupiedOrBooked(h, day) ==
  {r \in h.reservations : r.status \in InHouse \cup {"confirmed", "assigned"} /\ r.from <= day /\ day < r.to}

ActiveRooms(h) == {x \in h.rooms : x.active}

OutOfUse(h) == Cardinality({x \in ActiveRooms(h) : x.status \in {"out_of_order", "out_of_service"}})

AvailableRooms(h) == h.totalRooms - OutOfUse(h)

-----------------------------------------------------------------------------
(* The reports.                                                            *)

Kpis(revenue, sold, available) ==
  LET adr == Ratio(revenue, sold)
  IN [sold |-> sold, occupancy |-> Ratio(10000 * sold, available), adr |-> adr, revenue |-> revenue,
      revpar |-> IF sold = 0 THEN 0 ELSE Ratio(revenue, available)]

\* generateRevenueSummary of the night audit.
RevenueSummary(h, day) ==
  [kpis |-> Kpis(AmountOf(OfType(ChargesOf(h, day), "room")), Cardinality(RoomsSold(h, day)), AvailableRooms(h)),
   tax |-> AmountOf(OfType(ChargesOf(h, day), "tax")), total |-> AmountOf(ChargesOf(h, day))]

FinancialSummary(h, day) ==
  [kpis |-> Kpis(AmountOf(OfType(ChargesOf(h, day), "room")), Cardinality(RoomsSold(h, day)), AvailableRooms(h)),
   total |-> AmountOf(ChargesOf(h, day)),
   byType |-> [t \in {c.type : c \in ChargesOf(h, day)} |-> AmountOf(OfType(ChargesOf(h, day), t))],
   payments |-> AmountOf(CapturedOn(h, day)),
   balanceDue |-> AmountOf({f \in h.folios : f.status = "open"})]

\* What is reversed that day is taken off the revenue of that day.
DailyRevenue(h, day) ==
  LET of(t) == AmountOf(OfType(ChargesOf(h, day), t))
      total == AmountOf(ChargesOf(h, day))
  IN [room |-> of("room"), tax |-> of("tax"), foodBeverage |-> of("food_beverage"),
      other |-> AmountOf({c \in ChargesOf(h, day) : c.type \notin {"room", "tax", "food_beverage"}}),
      total |-> total, adjustments |-> Magnitude(ReversalsOf(h, day)),
      net |-> total - Magnitude(ReversalsOf(h, day)), payments |-> AmountOf(CapturedOn(h, day))]

\* Occupied rooms by their status now, arrivals and departures by when they happened,
\* no-shows by the date they were due.
Occupancy(h, day) ==
  [occupied |-> Cardinality({x \in ActiveRooms(h) : x.status = "occupied"}),
   available |-> AvailableRooms(h),
   arrivals |-> Cardinality({r \in h.reservations : r.in = day}),
   departures |-> Cardinality({r \in h.reservations : r.out = day}),
   stayovers |-> Cardinality(RoomsSold(h, day)),
   noShows |-> Cardinality({r \in h.reservations : r.status = "no_show" /\ r.from = day}),
   cancellations |-> Cardinality({r \in h.reservations : r.status = "cancelled" /\ r.cancelled = day})]

OccupancyTrend(h, first, last) ==
  LET of(d) == Kpis(AmountOf(OfType(ChargesOf(h, d), "room")), Cardinality(RoomsSoldOn(h, d)), AvailableRooms(h))
  IN [daily |-> [d \in first..last |-> of(d)],
      revenue |-> AmountOf(UNION {OfType(ChargesOf(h, d), "room") : d \in first..last}),
      nights |-> SumFunction([d \in first..last |-> of(d).sold])]

-----------------------------------------------------------------------------
(* The insights of the Connect API.                                        *)

\* A stay's share of a night; the rooms out of order count as available.
NightShare(r) == Ratio(r.amount, IF r.to = r.from THEN 1 ELSE r.to - r.from)

RevenueInsights(h, day) ==
  LET rows == RoomsOccupiedOrBooked(h, day)
      sold == Cardinality(rows)
      revenue == SumFunction([r \in rows |-> NightShare(r)])
  IN [sold |-> sold, free |-> IF sold > h.totalRooms THEN 0 ELSE h.totalRooms - sold, revenue |-> revenue,
      occupancy |-> Ratio(10000 * sold, h.totalRooms), adr |-> Ratio(revenue, sold),
      revpar |-> Ratio(revenue, h.totalRooms)]

Suggestions(occupancy, free, totalRooms) ==
  UNION {IF occupancy > 9500 THEN {"stop_sell"} ELSE {},
         IF occupancy > 9000 THEN {"rate_increase"} ELSE {},
         IF occupancy < 4000 THEN {"rate_decrease"} ELSE {},
         IF occupancy < 4000 /\ 2 * free > totalRooms THEN {"open_channel"} ELSE {}}

\* What a guest is to be written about that day.
Triggers(r, day) ==
  UNION {IF r.from = day + 1 /\ r.status \in {"confirmed", "assigned"} THEN {"pre_arrival"} ELSE {},
         IF r.from = day /\ r.status = "assigned" THEN {"check_in_ready"} ELSE {},
         IF r.from < day /\ r.to > day + 1 /\ r.status \in {"checked_in", "stayover"} THEN {"in_stay_offer"} ELSE {},
         IF r.to = day + 1 /\ r.status \in InHouse THEN {"pre_departure"} ELSE {},
         IF r.status = "checked_out" /\ r.out = day THEN {"post_stay"} ELSE {}}

\* The tasks of the day, those of the rooms of today's arrivals first; staff for eight
\* hours of half an hour a task.
ArrivalRooms(h, day) ==
  {r.room : r \in {x \in h.reservations : x.from = day /\ x.status \in {"confirmed", "assigned"}}} \ {0}

HousekeepingPriority(h, t, day) ==
  IF t.room \in ArrivalRooms(h, day) THEN 1
  ELSE IF t.type = "deep_clean" THEN 2 ELSE IF t.status = "pending" THEN 3 ELSE 5

SuggestedStaff(tasks) == Max({1, (30 * Cardinality(tasks) + 479) \div 480})

-----------------------------------------------------------------------------
(* The dashboards.                                                         *)

RoomSummary(h) ==
  [s \in {x.status : x \in ActiveRooms(h)} |-> Cardinality({x \in ActiveRooms(h) : x.status = s})]

\* The housekeepers' dashboard of a day, and their figures of a period.
Dashboard(h, day) ==
  LET tasks == {t \in h.tasks : t.day = day}
      status(s) == Cardinality({t \in tasks : t.status = s})
      staff == {t.by : t \in tasks} \ {"nobody"}
  IN [rooms |-> RoomSummary(h),
      tasks |-> [s \in {"pending", "assigned", "in_progress", "completed", "inspected", "skipped"} |-> status(s)],
      total |-> Cardinality(tasks),
      staff |-> [k \in staff |->
                   [assigned |-> Cardinality({t \in tasks : t.by = k}),
                    completed |-> Cardinality({t \in tasks : t.by = k /\ t.status \in {"completed", "inspected"}}),
                    inProgress |-> Cardinality({t \in tasks : t.by = k /\ t.status = "in_progress"})]],
      urgent |-> {t \in tasks : t.priority >= 5 \/ t.maintenance}]

\* Of the tasks that are done; a rate is in percent, the mean is per housekeeper.
Analytics(h, first, last) ==
  LET done == {t \in h.tasks : t.day \in first..last /\ t.status \in {"completed", "inspected"}}
      staff == {t.by : t \in done} \ {"nobody"}
      total == Cardinality(done)
  IN [total |-> total,
      byType |-> [k \in {t.type : t \in done} |-> Cardinality({t \in done : t.type = k})],
      inspected |-> Ratio(100 * Cardinality({t \in done : t.status = "inspected"}), total),
      maintenance |-> Ratio(100 * Cardinality({t \in done : t.maintenance}), total),
      byStaff |-> [k \in staff |-> Cardinality({t \in done : t.by = k})],
      perStaff |-> Ratio(total, IF staff = {} THEN 1 ELSE Cardinality(staff))]

\* Of an agent: the last two hundred decisions, the last first; the list of agents
\* counts what is pending among the last five.
Performance(decisions) ==
  LET seen == {i \in DOMAIN decisions : i <= 200}
      with(S) == Cardinality({i \in seen : decisions[i] \in S})
  IN [total |-> Cardinality(seen), approved |-> with({"approved", "auto_executed"}), rejected |-> with({"rejected"}),
      automatic |-> with({"auto_executed"}), rate |-> Ratio(100 * with({"approved", "auto_executed"}), Cardinality(seen))]

PendingDecisions(decisions) == Cardinality({i \in DOMAIN decisions : i <= 5 /\ decisions[i] = "pending"})

-----------------------------------------------------------------------------
(* Properties.                                                             *)

\* The revenue of a day is the same in all reports: with its types it is the total, with
\* the adjustments taken off, a charge reversed on its own day counts for nothing.
RevenueAgrees(h, day) ==
  LET audit == RevenueSummary(h, day)
      finance == FinancialSummary(h, day)
      daily == DailyRevenue(h, day)
      trend == OccupancyTrend(h, day, day)
      cancelledOut == {c \in ChargesOf(h, day) : \E v \in ReversalsOf(h, day) : v.of = c.id}
  IN /\ audit.total = finance.total /\ finance.total = daily.total /\ audit.tax = daily.tax
     /\ audit.kpis.revenue = daily.room /\ finance.kpis.revenue = daily.room /\ trend.revenue = daily.room
     /\ daily.room + daily.tax + daily.foodBeverage + daily.other = daily.total
     /\ SumFunction(finance.byType) = finance.total
     /\ finance.payments = daily.payments
     /\ (/\ \A v \in ReversalsOf(h, day) : \E c \in cancelledOut : v.of = c.id /\ v.amount = -c.amount
         /\ \A v, w \in ReversalsOf(h, day) : v.of = w.of => v = w
         /\ \A c \in ChargesOf(h, day) : c.amount >= 0)
        => daily.net = AmountOf(ChargesOf(h, day) \ cancelledOut)

\* The audit, the financial summary, the trend and the occupancy report agree on the rooms
\* sold tonight if nobody has overstayed or left early; and then
\* nobody is counted who is not expected to be in the house.
RoomsSoldAgree(h, day) ==
  (\A r \in h.reservations : /\ r.status \in InHouse => day < r.to
                             /\ r.status = "checked_out" => r.to <= day)
  => LET n == Cardinality(RoomsSoldOn(h, day))
     IN /\ RevenueSummary(h, day).kpis = FinancialSummary(h, day).kpis
        /\ FinancialSummary(h, day).kpis = OccupancyTrend(h, day, day).daily[day]
        /\ Occupancy(h, day).stayovers = n
        /\ RoomsSoldOn(h, day) \subseteq RoomsOccupiedOrBooked(h, day)

\* A night's revenue per room is never more than per room sold as long as no more are sold
\* than there are (and no credits exceed what was charged), and a day that is nearly sold
\* out is never called a slow one.
FiguresAreSane(h, day) ==
  LET k == FinancialSummary(h, day).kpis
      i == RevenueInsights(h, day)
      hints == Suggestions(i.occupancy, i.free, h.totalRooms)
  IN /\ k.sold <= AvailableRooms(h) => k.occupancy \in 0..10000 /\ (k.revenue >= 0 => k.revpar <= k.adr)
     /\ i.sold <= h.totalRooms => i.revpar <= i.adr /\ i.occupancy \in 0..10000
     /\ "stop_sell" \in hints => "rate_increase" \in hints /\ "rate_decrease" \notin hints
     /\ "open_channel" \in hints => "rate_decrease" \in hints

\* A guest is written to once a day at most, and only about a stay that is on.
OneTriggerADay(h, day) ==
  \A r \in h.reservations :
    /\ Cardinality(Triggers(r, day)) <= 1
    /\ r.status \in {"cancelled", "no_show"} => Triggers(r, day) = {}

\* The dashboards count every task once: by status, and by housekeeper those that are
\* given to one; the period of one day is that day; pending decisions are never more
\* than those not decided.
TasksAreCounted(h, day) ==
  LET board == Dashboard(h, day)
      stats == Analytics(h, day, day)
      given == {t \in h.tasks : t.day = day /\ t.by # "nobody"}
  IN /\ SumFunction(board.tasks) = board.total
     /\ SumFunction([k \in DOMAIN board.staff |-> board.staff[k].assigned]) = Cardinality(given)
     /\ stats.total = board.tasks["completed"] + board.tasks["inspected"]
     /\ SumFunction(stats.byType) = stats.total /\ SumFunction(stats.byStaff) <= stats.total
     /\ \A k \in DOMAIN stats.byStaff : board.staff[k].completed = stats.byStaff[k]
     /\ \A t, u \in h.tasks : (t.room \in ArrivalRooms(h, day) /\ u.room \notin ArrivalRooms(h, day)) =>
          HousekeepingPriority(h, t, day) < HousekeepingPriority(h, u, day)

\* An agent's figures add up: what is decided is never more than what there is, and what
\* is listed as pending never more than what is not decided.
PerformanceAddsUp(decisions) ==
  LET p == Performance(decisions)
  IN /\ p.approved + p.rejected <= p.total /\ p.automatic <= p.approved
     /\ p.total <= 200 => PendingDecisions(decisions) <= Cardinality(DOMAIN decisions) - p.approved - p.rejected

\* Everything the reports say of one house on one day.
ReportsAgree(h, day) ==
  /\ RevenueAgrees(h, day) /\ RoomsSoldAgree(h, day) /\ FiguresAreSane(h, day)
  /\ OneTriggerADay(h, day) /\ TasksAreCounted(h, day)
=============================================================================
