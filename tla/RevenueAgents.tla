----------------------------- MODULE RevenueAgents -----------------------------
(***************************************************************************)
(* What the revenue agents recommend for a property, in the order in which *)
(* they build on each other: the demand forecast is stored, and pricing,   *)
(* overbooking and the channel mix start from the last one stored.  A      *)
(* reservation is [id, from, to, status, amount, channel, source, payments,*)
(* stays, vip, booked]; day 0 is today.                                    *)
(***************************************************************************)
EXTENDS RevenueModels, Functions

-----------------------------------------------------------------------------
(* Demand.                                                                 *)

\* The occupancies of one weekday, the latest first, in percent.
SameDay(rs, totalRooms, d) ==
  LET days == {h \in HistoricalDays(rs) : h % 7 = d % 7}
      latest(i) == CHOOSE h \in days : Cardinality({g \in days : g >= h}) = i
  IN [i \in 1..Cardinality(days) |-> HistoricalOccupancy(rs, latest(i), totalRooms)]

IsWeekend(d) == d % 7 \in {5, 6}

\* The occupancies of the next days, 90 in the program, in hundredths of a percent; by
\* the model for a history of less than 90 days.
DemandForecast(rs, totalRooms, days) ==
  [d \in 0..(days - 1) |->
     HeuristicForecast(SameDay(rs, totalRooms, d), IsWeekend(d), Booked(DemandOnTheBooks(rs, d), totalRooms))]

-----------------------------------------------------------------------------
(* Pricing.                                                                *)

\* Without bounds of its own a plan keeps to three fifths and three times its rate.
PriceQuestion(plan, config, forecast, d) ==
  [base |-> plan.base, occupancy |-> forecast[d] \div 100, pace |-> 100, daysOut |-> Most(1, d), weekend |-> IsWeekend(d),
   premium |-> config.premium, maxAdjust |-> config.maxAdjust,
   floor |-> IF plan.floor = 0 THEN Percent(plan.base, 60) ELSE plan.floor,
   ceiling |-> IF plan.ceiling = 0 THEN 3 * plan.base ELSE plan.ceiling]

\* For a plan with a price and every forecast within the horizon.
AdjustmentsOf(p, config, forecast) ==
  LET q(d) == PriceQuestion(p, config, forecast, d)
  IN {[plan |-> p.id, day |-> d, rate |-> RecommendedRate(q(d))] :
        d \in {d \in DOMAIN forecast : d < config.horizon /\ p.base > 0 /\ IsRecommended(q(d))}}

RateAdjustments(plans, config, forecast) == UNION {AdjustmentsOf(p, config, forecast) : p \in plans}

-----------------------------------------------------------------------------
(* Overbooking.                                                            *)

\* 150 dollars where there is no forecast of the rate.
OverbookingQuestion(rs, totalRooms, limits, adrs, d) ==
  [totalRooms |-> totalRooms, onTheBooks |-> OverbookingOnTheBooks(rs, d), noShow |-> ShareOf(rs, "no_show"),
   cancelled |-> ShareOf(rs, "cancelled"), adr |-> IF d \in DOMAIN adrs THEN adrs[d] ELSE 150,
   walkCost |-> limits.walkCost, maxWalk |-> limits.maxWalk, minOccupancy |-> limits.minOccupancy]

\* The rooms to sell beyond those there are, by day of the next two weeks.
OverbookingLevels(rs, totalRooms, limits, adrs) ==
  LET q(d) == OverbookingQuestion(rs, totalRooms, limits, adrs, d)
      days == {d \in 0..13 : OverbookCount(q(d)) > 0}
  IN IF totalRooms = 0 THEN [d \in {} |-> 0] ELSE [d \in days |-> OverbookCount(q(d))]

-----------------------------------------------------------------------------
(* Cancellations.                                                          *)

\* Those to come that may still be cancelled.
Expected(rs) == {r \in rs : r.from >= 0 /\ r.status \notin {"cancelled", "checked_out", "no_show"}}

\* In thousandths of a percent, and in cents.
RiskOf(r) == CancelProbability(RiskQuestion([source |-> r.source, payments |-> r.payments, stays |-> r.stays, vip |-> r.vip,
                                             arrival |-> r.from, booked |-> r.booked]))

AtRisk(r) == (r.amount * RiskOf(r)) \div 1000

\* Over a table, and a share or an amount of each of its rows.
RiskIn(rows) == SumFunction([r \in rows |-> RiskOf(r)])

AmountIn(rows) == SumFunction([r \in rows |-> r.amount])

\* aggregateByDate
DateAggregates(rs) ==
  [d \in {r.from : r \in Expected(rs)} |->
     LET rows == {r \in Expected(rs) : r.from = d}
     IN [count |-> Cardinality(rows), expected |-> RiskIn(rows), atRisk |-> SumFunction([r \in rows |-> AtRisk(r)])]]

RiskSummary(rs) ==
  [level \in {"high", "medium", "low"} |-> Cardinality({r \in Expected(rs) : ClassifyRisk(RiskOf(r)) = level})]

-----------------------------------------------------------------------------
(* Channel mix.                                                            *)

BookingsOf(rs, channel) == {r \in rs : r.channel = channel}

\* A channel without bookings: a tenth cancelled, three in a hundred of the direct ones,
\* and 150 dollars a booking.
ChannelMetrics(rs, channel, commission) ==
  LET bookings == BookingsOf(rs, channel)
      assumed == IF channel = "direct" THEN 3 ELSE 10
      share == IF bookings = {} THEN assumed
               ELSE (100 * Cardinality({r \in bookings : r.status = "cancelled"})) \div Cardinality(bookings)
      rate == IF bookings = {} THEN 150 ELSE AmountIn(bookings) \div Cardinality(bookings)
  IN [channel |-> channel, commission |-> commission, count |-> Cardinality(bookings),
      net |-> NetRevenue(rate, commission, share)]

\* The mean of the next seven forecasts, half if there is none.
NextWeek(forecast) ==
  LET days == {d \in DOMAIN forecast : d < 7}
  IN IF days = {} THEN 50 ELSE SumFunction([d \in days |-> forecast[d]]) \div (100 * Cardinality(days))

\* One of the orders in which those that bring more come first.
Ranked(metrics) ==
  CHOOSE order \in [1..Cardinality(metrics) -> metrics] :
    /\ \A m \in metrics : \E i \in DOMAIN order : order[i] = m
    /\ \A i, j \in DOMAIN order : i < j => order[i].net >= order[j].net

\* The active channels with their commissions, and the direct one, the best first; of
\* a hundred rooms, whatever there are.
Allocations(rs, commissions, forecast) ==
  LET metrics == {ChannelMetrics(rs, c, commissions[c]) : c \in DOMAIN commissions} \cup {ChannelMetrics(rs, "direct", 0)}
      ranked == Ranked(metrics)
  IN [i \in DOMAIN ranked |-> [channel |-> ranked[i].channel, net |-> ranked[i].net, commission |-> ranked[i].commission,
                               rooms |-> AllocatedRooms(ranked[i].commission, NextWeek(forecast), 100)]]

-----------------------------------------------------------------------------
(* Property.                                                               *)

\* Of one property on one day: rates are recommended at most once for a plan and a day,
\* for days that are forecast and within the bounds of the plan; rooms are overbooked
\* only on days that are nearly full, within the risk allowed and for no more than may be
\* expected to fall out, half as many again; the risks by date are those of all expected
\* guests, each at one date, and no more than are on the books for it; the channels come
\* by what they bring, the direct one is never closed, and one that cancels more or
\* costs more is worth less.
AgentsBuildOnEachOther(q) ==
  LET forecast == DemandForecast(q.rs, q.rooms, q.days)
      rates == RateAdjustments(q.plans, q.config, forecast)
      levels == OverbookingLevels(q.rs, q.rooms, q.limits, q.adrs)
      dates == DateAggregates(q.rs)
      mix == Allocations(q.rs, q.commissions, forecast)
      counts == [d \in DOMAIN dates |-> dates[d].count]
  IN /\ \A a \in rates : /\ a.day \in DOMAIN forecast /\ a.day < q.config.horizon
                         /\ \A b \in rates : a.plan = b.plan /\ a.day = b.day => a = b
                         /\ \A p \in q.plans : p.id = a.plan =>
                              LET o == PriceQuestion(p, q.config, forecast, a.day)
                              IN o.floor <= o.ceiling => a.rate \in o.floor..o.ceiling
     /\ \A d \in DOMAIN levels :
          LET o == OverbookingQuestion(q.rs, q.rooms, q.limits, q.adrs, d)
          IN /\ 100 * o.onTheBooks >= q.limits.minOccupancy * q.rooms
             /\ 200 * levels[d] < 3 * ExpectedVacancies(o) + 200
             /\ WalkProbability(o, levels[d]) <= q.limits.maxWalk
     /\ SumFunction(counts) = Cardinality(Expected(q.rs))
     /\ SumFunction([d \in DOMAIN dates |-> dates[d].expected]) = RiskIn(Expected(q.rs))
     /\ SumFunction(counts) = SumFunction(RiskSummary(q.rs))
     /\ \A d \in DOMAIN dates : d <= 90 => counts[d] <= DemandOnTheBooks(q.rs, d)
     /\ \A i, j \in DOMAIN mix : i < j => mix[i].net >= mix[j].net
     /\ \E i \in DOMAIN mix : mix[i].channel = "direct" /\ mix[i].rooms = 100
     /\ \A c \in DOMAIN q.commissions :
          LET m(commission, rs) == ChannelMetrics(rs, c, commission).net
              lost == {[r EXCEPT !.status = "cancelled"] : r \in BookingsOf(q.rs, c)} \cup (q.rs \ BookingsOf(q.rs, c))
          IN /\ m(q.commissions[c] + 5, q.rs) <= m(q.commissions[c], q.rs)
             /\ m(q.commissions[c], lost) <= m(q.commissions[c], q.rs)
             /\ BookingsOf(q.rs, c) # {} => m(q.commissions[c], lost) = 0
=============================================================================
