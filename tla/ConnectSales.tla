------------------------------ MODULE ConnectSales ------------------------------
(***************************************************************************)
(* What an outside agent is offered through the Connect API, what a        *)
(* booking, a modification and a cancellation of it cost, and the rate of  *)
(* a derived plan.  Pure functions of what a request has read; money is in *)
(* cents, days are numbers.  A restriction of a plan is [from, to, closed, *)
(* minLos, maxLos, weekday, extra]: 0 is no limit, extra is what a night   *)
(* of that weekday costs more, 0 nothing.                                  *)
(***************************************************************************)
EXTENDS Integers, FiniteSets, Sequences, FiniteSetsExt, Functions

Half(amount, parts) == (2 * amount + parts) \div (2 * parts)

Smaller(a, b) == IF a < b THEN a ELSE b

Larger(a, b) == IF a > b THEN a ELSE b

StayNights(stay) == stay.from..(stay.to - 1)

-----------------------------------------------------------------------------
(* The search.                                                             *)

\* The place of a property among the active ones.
Rank(list, i) == Cardinality({j \in 1..i : list[j].active})

\* A page of the active properties, at most a hundred, as the places in the table, which
\* is read in one order.
Page(list, limit, offset) ==
  {i \in DOMAIN list : /\ list[i].active
                       /\ offset < Rank(list, i) /\ Rank(list, i) <= offset + Smaller(limit, 100)}

\* listProperties: a page is asked for anything and has one property at least.
ListPage(list, limit, offset) == Page(list, Larger(limit, 1), Larger(offset, 0))

\* Mutant: a restriction of the day of departure only does not count.
TouchingNights(plan, stay) ==
  {i \in DOMAIN plan.restrictions : plan.restrictions[i].from < stay.to /\ plan.restrictions[i].to > stay.from}

\* The restrictions that touch the stay, its day of departure included.
Touching(plan, stay) ==
  {i \in DOMAIN plan.restrictions : plan.restrictions[i].from <= stay.to /\ plan.restrictions[i].to >= stay.from}

\* The longest minimum, the shortest maximum; a limit that is not given is none.
MinStay(rs) == Max({0} \cup {r.minLos : r \in rs})

MaxStay(rs) ==
  LET limits == {r.maxLos : r \in rs} \ {0}
  IN IF limits = {} THEN 0 ELSE Min(limits)

\* A rate that is closed on one day, or whose limits the stay does not keep, is not
\* offered; that it is closed to arrival or departure is only reported.
ForSale(plan, stay) ==
  LET rs == {plan.restrictions[i] : i \in Touching(plan, stay)}
      nights == stay.to - stay.from
  IN /\ plan.active
     /\ \A r \in rs : ~r.closed
     /\ nights >= MinStay(rs)
     /\ MaxStay(rs) = 0 \/ nights <= MaxStay(rs)

\* The last restriction with an extra for the weekday counts, whatever its dates.
NightRate(plan, stay, day) ==
  LET dear == {i \in Touching(plan, stay) : plan.restrictions[i].extra # 0 /\ plan.restrictions[i].weekday = day % 7}
  IN plan.base + (IF dear = {} THEN 0 ELSE plan.restrictions[Max(dear)].extra)

\* The rates of the nights.
NightRates(plan, stay) == [d \in StayNights(stay) |-> NightRate(plan, stay, d)]

\* Every night with its tax; the nights are rounded for themselves, the total once.
NightlyTotals(plan, stay, tax) ==
  [d \in StayNights(stay) |-> Half(NightRates(plan, stay)[d] * (100 + tax), 100)]

Quote(plan, stay, tax) == Half(SumFunction(NightRates(plan, stay)) * (100 + tax), 100)

\* What is free on every night of the stay.
FreeThroughout(free, type, stay) == Min({free[type][d] : d \in StayNights(stay)})

Results(q) ==
  {o \in q.types \X q.plans :
     /\ FreeThroughout(q.free, o[1], q.stay) > 0
     /\ o[2].type = o[1] /\ ForSale(o[2], q.stay)}

-----------------------------------------------------------------------------
(* Booking, modifying, cancelling.                                         *)

\* book asks for a room and an active plan of the property, and for nothing that the
\* search has checked besides.
Accepted(q, type, plan) == FreeThroughout(q.free, type, q.stay) > 0 /\ plan.active

BookedTotal(plan, stay) == plan.base * (stay.to - stay.from)

\* A modification without dates, room type or plan leaves the total alone; one that has
\* them needs a room and takes any plan there is.
ModifiedTotal(total, plan, stay, moved) == IF moved THEN BookedTotal(plan, stay) ELSE total

CostDifference(total, plan, stay, moved) == ModifiedTotal(total, plan, stay, moved) - total

\* A promotional rate is forfeited; others are free until 24 hours before three in the
\* afternoon of the arrival, and cost the first night after that.
Penalty(type, total, nights, hours) ==
  IF type = "promotional" THEN total
  ELSE IF hours >= 24 THEN 0 ELSE Half(total, IF nights = 0 THEN 1 ELSE nights)

Refund(type, total, nights, hours) ==
  LET n == IF nights = 0 THEN 1 ELSE nights
  IN IF type = "promotional" THEN 0
     ELSE IF hours >= 24 THEN total ELSE Half(total * (n - 1), n)

-----------------------------------------------------------------------------
(* Derived plans.                                                          *)

\* create: a derived plan needs a parent, which must not be its own parent.
ParentAccepted(plans, parent) == parent \in DOMAIN plans /\ plans[parent].parent # parent

\* calculateDerivedRate goes one step: a parent that is derived counts with its own
\* base amount.
DerivedRate(plans, p) ==
  LET plan == plans[p]
      parent == plans[plan.parent].base
  IN IF plan.type # "derived" \/ plan.parent = "none" THEN plan.base
     ELSE Larger(0, IF plan.percentage THEN Half(parent * (100 + plan.value), 100) ELSE parent + plan.value)

-----------------------------------------------------------------------------
(* Properties, of one question each.                                       *)

Apart(a, b) == IF a > b THEN a - b ELSE b - a

\* Whatever the search offers can be booked as long as nothing else happens, is open
\* and within its limits on every night, and costs what was quoted, but for the tax and
\* the extras, which the booking does not know; the nights add up to the total, but for
\* a cent each.
OffersHold(q) ==
  \A o \in Results(q) :
    LET plan == o[2]
        rs == {plan.restrictions[i] : i \in DOMAIN plan.restrictions}
        nights == q.stay.to - q.stay.from
        quote == Quote(plan, q.stay, q.tax)
        sum == SumFunction(NightlyTotals(plan, q.stay, q.tax))
    IN /\ Accepted(q, o[1], plan)
       /\ \A r \in rs, d \in q.stay.from..q.stay.to :
            r.from <= d /\ d <= r.to => /\ ~r.closed /\ nights >= r.minLos
                                        /\ r.maxLos = 0 \/ nights <= r.maxLos
       /\ Apart(sum, quote) <= nights
       /\ (\A r \in rs : r.extra = 0) => quote = Half(BookedTotal(plan, q.stay) * (100 + q.tax), 100)
       /\ (\A r \in rs : r.extra >= 0) => quote >= BookedTotal(plan, q.stay)

\* Penalty and refund make up the total, or a cent more; a free cancellation stays free
\* the earlier it comes, and moving a stay there and back costs nothing.
CancellationAddsUp(q) ==
  LET penalty(h) == Penalty(q.type, q.total, q.nights, h)
      refund(h) == Refund(q.type, q.total, q.nights, h)
  IN /\ penalty(q.hours) + refund(q.hours) - q.total \in {0, 1}
     /\ penalty(q.hours) \in 0..q.total /\ refund(q.hours) \in 0..q.total
     /\ penalty(q.hours + 1) <= penalty(q.hours)
     /\ LET stay == [from |-> 0, to |-> q.nights]
            other == [from |-> 3, to |-> 4]
            plan == [base |-> q.base]
            moved == ModifiedTotal(BookedTotal(plan, stay), plan, other, TRUE)
        IN CostDifference(moved, plan, stay, TRUE) = - CostDifference(BookedTotal(plan, stay), plan, other, TRUE)

\* A derived rate is never negative, and is that of the whole chain of parents if the
\* parent is not derived itself.
DerivedRatesAreSound(plans) ==
  \A p \in DOMAIN plans :
    LET plan == plans[p]
        applied(amount) == IF plan.percentage THEN Half(amount * (100 + plan.value), 100) ELSE amount + plan.value
    IN /\ DerivedRate(plans, p) >= 0
       /\ (plan.type = "derived" /\ ParentAccepted(plans, plan.parent) /\ plans[plan.parent].type # "derived") =>
            DerivedRate(plans, p) = Larger(0, applied(DerivedRate(plans, plan.parent)))

\* Page after page, every active property is listed once, in the order of the table, and
\* no page is longer than a hundred.
PagesCover(list, limit) ==
  LET size == Smaller(Larger(limit, 1), 100)
      pages == [n \in 1..(Len(list) + 1) |-> ListPage(list, limit, (n - 1) * size)]
  IN /\ \A i \in DOMAIN list : Cardinality({n \in DOMAIN pages : i \in pages[n]}) = IF list[i].active THEN 1 ELSE 0
     /\ \A n \in DOMAIN pages : Cardinality(pages[n]) <= size
     /\ \A m, n \in DOMAIN pages : m < n => \A i \in pages[m], j \in pages[n] : i < j
=============================================================================
