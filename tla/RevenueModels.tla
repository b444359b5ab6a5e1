----------------------------- MODULE RevenueModels -----------------------------
(***************************************************************************)
(* The formulas of the revenue agents: demand forecast, dynamic pricing,   *)
(* overbooking, cancellation risk and channel mix, and the counts of       *)
(* booked rooms they start from.  Shares and rates are percentages, money  *)
(* is in dollars unless a definition says otherwise; where the program has *)
(* a floating-point number, the scale is named and rounding is downwards.  *)
(***************************************************************************)
EXTENDS Integers, FiniteSets, Sequences, FiniteSetsExt

Least(a, b) == IF a < b THEN a ELSE b
Most(a, b) == IF a > b THEN a ELSE b

-----------------------------------------------------------------------------
(* Rooms on the books.  A reservation is [id, from, to, status]; days are  *)
(* numbers, today is 0.                                                    *)

\* The nights of a reservation; one that leaves on the day it arrives has one.
OccupiedNights(r) == r.from..(Most(r.to, r.from + 1) - 1)

\* searchAvailability: everybody who has not left, not come or cancelled.
SoldTo(rs, d) ==
  Cardinality({r \in rs : /\ r.status \notin {"cancelled", "no_show", "checked_out"}
                          /\ r.from <= d /\ d < r.to})

\* The demand agent: arrivals from today on, unless cancelled; 90 days ahead.
DemandOnTheBooks(rs, d) ==
  Cardinality({r \in rs : /\ r.status # "cancelled" /\ 0 <= r.from /\ r.from <= 90
                          /\ d \in OccupiedNights(r)})

\* Mutant: the overbooking agent counts arrivals only.
ArrivalsOnly(rs, d) == Cardinality({r \in rs : r.status # "cancelled" /\ r.from = d})

\* The overbooking agent: whoever is here in the next 14 days, unless cancelled.
OverbookingOnTheBooks(rs, d) ==
  Cardinality({r \in rs : /\ r.status # "cancelled" /\ r.from <= 14 /\ 0 <= r.to
                          /\ d \in OccupiedNights(r) /\ 0 <= d /\ d <= 14})

\* buildHistoricalDays: every night of whoever arrived in the last year or will
\* arrive, unless cancelled; the future is part of the history.
Historical(rs) == {r \in rs : r.status # "cancelled" /\ r.from >= -365}

HistoricalDays(rs) == UNION {OccupiedNights(r) : r \in Historical(rs)}

HistoricalOccupancy(rs, d, totalRooms) ==
  IF totalRooms = 0 THEN 0
  ELSE Least(100, (100 * Cardinality({r \in Historical(rs) : d \in OccupiedNights(r)})) \div totalRooms)

\* The share of all reservations ever that did not come, or were cancelled.
ShareOf(rs, status) ==
  IF rs = {} THEN 10 ELSE (100 * Cardinality({r \in rs : r.status = status})) \div Cardinality(rs)

-----------------------------------------------------------------------------
(* Demand forecast: occupancies in hundredths of a percent.                *)

SelectModel(historyDays) == IF historyDays >= 90 THEN "statistical" ELSE "heuristic"

Booked(onTheBooks, totalRooms) == IF totalRooms = 0 THEN 0 ELSE (100 * onTheBooks) \div totalRooms

Clamped(x) == Least(10000, Most(0, x))

\* The more is booked, the more the pace counts against the average.
Blend(average, booked, weight) == Clamped(average * (100 - weight) + booked * weight)

\* sameDay: the occupancies of this day of the week, the latest first.
Mean(s) ==
  LET total[i \in 0..Len(s)] == IF i = 0 THEN 0 ELSE s[i] + total[i - 1]
  IN IF s = <<>> THEN 0 ELSE total[Len(s)] \div Len(s)

\* The later a day, the more it weighs: 1, 1/2, 1/3 ...
WeightedMean(s) ==
  LET occ[i \in 0..Len(s)] == IF i = 0 THEN 0 ELSE (60 * s[i]) \div i + occ[i - 1]
      weight[i \in 0..Len(s)] == IF i = 0 THEN 0 ELSE 60 \div i + weight[i - 1]
  IN occ[Len(s)] \div weight[Len(s)]

HeuristicForecast(sameDay, isWeekend, booked) ==
  Blend(IF sameDay # <<>> THEN Mean(sameDay) ELSE IF isWeekend THEN 70 ELSE 50,
        booked, Least(60, booked))

\* The average is scaled by how this month compares with all of the history.
StatisticalForecast(sameDay, monthly, overall, daysOut, booked) ==
  LET average == IF sameDay # <<>> THEN WeightedMean(sameDay) ELSE 50
      seasonal == IF overall = 0 THEN average ELSE (average * monthly) \div overall
  IN Blend(seasonal, booked, Least(70, booked + (IF daysOut < 14 THEN 20 ELSE 0)))

ClassifyDemand(occupancy) ==
  IF occupancy >= 8500 THEN "peak"
  ELSE IF occupancy >= 6500 THEN "high"
  ELSE IF occupancy >= 4000 THEN "moderate" ELSE "low"

-----------------------------------------------------------------------------
(* Pricing: multipliers in hundred-thousandths.                            *)

Percent(x, p) == (x * p) \div 100

\* The base rate is multiplied by the demand ...
ByDemand(occupancy) ==
  IF occupancy > 85 THEN 125000 + (occupancy - 85) * 1670
  ELSE IF occupancy > 70 THEN 110000 + (occupancy - 70) * 1000
  ELSE IF occupancy > 40 THEN 95000 + (occupancy - 40) * 330
  ELSE 80000 + occupancy * 375

\* ... the pace of booking ...
ByPace(m, pace) == IF pace > 120 THEN Percent(m, 105) ELSE IF pace < 80 THEN Percent(m, 95) ELSE m

\* ... the days that are left: at the last minute demand decides which way ...
ByLeadTime(m, occupancy, daysOut) ==
  IF daysOut <= 3 THEN Percent(m, IF occupancy > 70 THEN 110 ELSE 85)
  ELSE IF daysOut <= 7 /\ occupancy > 60 THEN Percent(m, 105) ELSE m

\* ... and the weekend; then the adjustment is capped and the rate bounded by its floor
\* and, after it, by its ceiling, and rounded to the dollar.
RecommendedRate(q) ==
  LET demand == ByLeadTime(ByPace(ByDemand(q.occupancy), q.pace), q.occupancy, q.daysOut)
      wanted == q.base * (IF q.weekend THEN Percent(demand, 100 + q.premium) ELSE demand)
      unit(dollars) == 100000 * dollars
      capped == Most(Least(wanted, Percent(unit(q.base), 100 + q.maxAdjust)), Percent(unit(q.base), 100 - q.maxAdjust))
  IN (Least(Most(capped, unit(q.floor)), unit(q.ceiling)) + 50000) \div 100000

AdjustmentPct(q) == (200 * (RecommendedRate(q) - q.base) + q.base) \div (2 * q.base)

\* A rate is recommended only for a plan with a price, and a change of two percent.
IsRecommended(q) == q.base > 0 /\ (AdjustmentPct(q) >= 2 \/ AdjustmentPct(q) <= -2)

-----------------------------------------------------------------------------
(* Overbooking: rooms in hundredths.                                       *)

\* The rooms expected to become free, by no-shows and cancellations.
ExpectedVacancies(q) == q.onTheBooks * (q.noShow + q.cancelled)

Excess(q, count) == Most(0, 100 * (q.onTheBooks + count - q.totalRooms) - ExpectedVacancies(q))

\* The probability of walking a guest, in percent.
WalkProbability(q, count) == Least(100, Excess(q, count) \div (count + 1))

\* What overbooking by count is expected to bring, in hundredths of a percent of a dollar.
ExpectedValue(q, count) ==
  100 * count * q.adr * (100 - q.noShow) - Excess(q, count) * q.walkCost * WalkProbability(q, count)

Counts(q) == 0..((ExpectedVacancies(q) * 3 + 199) \div 200)

Acceptable(q) ==
  {c \in Counts(q) : Excess(q, c) <= q.maxWalk * (c + 1) /\ ExpectedValue(q, c) > 0}

\* The first of the best counts, none if none is worth it; not below the occupancy at
\* which the agent starts.
OverbookCount(q) ==
  LET best == {c \in Acceptable(q) : \A b \in Acceptable(q) : ExpectedValue(q, b) <= ExpectedValue(q, c)}
  IN IF best = {} \/ 100 * q.onTheBooks < q.minOccupancy * q.totalRooms THEN 0 ELSE Min(best)

\* The risk that is reported is cut off at the limit.
WalkRisk(q) == Least(q.maxWalk, WalkProbability(q, OverbookCount(q)))

-----------------------------------------------------------------------------
(* Cancellation risk: probabilities in thousandths of a percent.           *)

SourceRates == [ota |-> 25, gds |-> 18, agent |-> 15, phone |-> 10, direct |-> 8,
                corporate |-> 5, walk_in |-> 2, group |-> 12]

When(condition, x, p) == IF condition THEN Percent(x, p) ELSE x

CancelProbability(q) ==
  LET source == 1000 * (IF q.source \in DOMAIN SourceRates THEN SourceRates[q.source] ELSE 15)
      guest == When(q.isVip, When(q.isRepeat, When(q.hasDeposit, source, 40), 60), 70)
      lead == When(q.leadTime > 90, When(q.leadTime \in 31..90, guest, 120), 140)
      near == When(q.daysUntil <= 2, When(q.daysUntil \in 3..7, lead, 80), 50)
  IN Least(95000, Most(1000, near))

\* What the agent knows of a reservation: its source, the status of the payments on its
\* folio and of the guest's stays; days since the booking and to the arrival.
RiskQuestion(r) ==
  [source |-> IF r.source = "none" THEN "direct" ELSE r.source,
   hasDeposit |-> r.payments \cap {"captured", "settled", "authorized"} # {},
   isRepeat |-> "checked_out" \in r.stays, isVip |-> r.vip,
   leadTime |-> Most(0, r.arrival - r.booked), daysUntil |-> Most(0, r.arrival)]

ClassifyRisk(p) == IF p >= 40000 THEN "high" ELSE IF p >= 15000 THEN "medium" ELSE "low"

-----------------------------------------------------------------------------
(* Channel mix.                                                            *)

\* Net revenue of a booking, in ten-thousandths of a dollar.
NetRevenue(rate, commission, cancelled) == rate * (100 - commission) * (100 - cancelled)

\* The rooms a channel is given: at high occupancy the dear ones are closed first.
AllocatedRooms(commission, occupancy, totalRooms) ==
  IF occupancy >= 95 THEN (IF commission > 10 THEN 0 ELSE totalRooms)
  ELSE IF occupancy >= 80
       THEN (IF commission > 15 THEN 0 ELSE IF commission > 10 THEN Percent(totalRooms, 30) ELSE totalRooms)
  ELSE IF occupancy >= 50 /\ commission > 18 THEN Percent(totalRooms, 50) ELSE totalRooms

-----------------------------------------------------------------------------
(* Properties, of one question each.                                       *)

\* The agents count the same rooms for a night of the next two weeks as the search for
\* availability, and as the history they forecast from, if everybody arrives today or
\* later, for a night at least, and is still expected.
CountsAgree(rs, totalRooms) ==
  (\A r \in rs : r.from >= 0 /\ r.to > r.from /\ r.status \in {"confirmed", "assigned", "cancelled"}) =>
     \A d \in 0..14 :
       /\ DemandOnTheBooks(rs, d) = SoldTo(rs, d)
       /\ OverbookingOnTheBooks(rs, d) = SoldTo(rs, d)
       /\ d \in HistoricalDays(rs) <=> SoldTo(rs, d) > 0
       /\ HistoricalOccupancy(rs, d, totalRooms) = Least(100, Booked(SoldTo(rs, d), totalRooms))

\* The forecast for a night, and the rate that follows from it.
Forecast(q, booked) ==
  IF q.model = "heuristic" THEN HeuristicForecast(q.sameDay, q.weekend, booked)
  ELSE StatisticalForecast(q.sameDay, 60, 50, q.daysOut, booked)

RateFor(q, booked) == RecommendedRate([q EXCEPT !.occupancy = Forecast(q, booked) \div 100])

\* A forecast is a share, a rate keeps to its floor, its ceiling and the largest
\* adjustment, and once half of what is usual for the day is booked (below that the
\* forecast falls), another booking never lowers the rate.
RateFollowsBookings(q) ==
  LET r == RateFor(q, q.booked)
      usual == IF q.sameDay = <<>> THEN 70 ELSE Mean(q.sameDay)
  IN /\ Forecast(q, q.booked) \in 0..10000
     /\ q.floor <= q.ceiling =>
          /\ r \in q.floor..q.ceiling
          /\ 100 * (r - q.base) > q.maxAdjust * q.base + 50 => r = q.floor
          /\ 100 * (q.base - r) > q.maxAdjust * q.base + 50 => r = q.ceiling
     /\ q.model = "heuristic" /\ 2 * q.booked >= usual => r <= RateFor(q, q.booked + 1)

\* Overbooking is recommended only at a risk of walking a guest that is allowed, and
\* that risk is the one reported.
OverbookingWithinRisk(q) ==
  OverbookCount(q) > 0 => /\ WalkProbability(q, OverbookCount(q)) <= q.maxWalk
                          /\ WalkRisk(q) = WalkProbability(q, OverbookCount(q))

\* A deposit, an earlier stay and a nearer arrival never make a cancellation likelier, a
\* longer lead time never less likely; and no booking is ever rated a high risk.
RiskIsOrdered(r) ==
  LET risk(x) == CancelProbability(RiskQuestion(x))
  IN /\ \A p \in {"captured", "authorized"} : risk([r EXCEPT !.payments = @ \cup {p}]) <= risk(r)
     /\ risk([r EXCEPT !.stays = @ \cup {"checked_out"}]) <= risk(r)
     /\ risk([r EXCEPT !.booked = @ - 30]) >= risk(r)
     /\ r.arrival > 0 => risk([r EXCEPT !.arrival = @ - 1, !.booked = @ - 1]) <= risk(r)
     /\ ClassifyRisk(risk(r)) # "high"

\* A dearer channel never gets more rooms than a cheaper one, no channel more when the
\* house is fuller, one that costs a tenth or less is never cut.
DearChannelsFirst(q) ==
  LET rooms(c, o) == AllocatedRooms(c, o, q.totalRooms)
  IN /\ rooms(q.commission + 1, q.occupancy) <= rooms(q.commission, q.occupancy)
     /\ rooms(q.commission, q.occupancy + 1) <= rooms(q.commission, q.occupancy)
     /\ q.commission <= 10 => rooms(q.commission, q.occupancy) = q.totalRooms
=============================================================================
