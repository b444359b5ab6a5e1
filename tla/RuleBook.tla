-------------------------------- MODULE RuleBook --------------------------------
(***************************************************************************)
(* The rules that keep no state, and what they are asked: the bookings,    *)
(* rates, levels, risks, channels and properties of the revenue agents,    *)
(* the tasks, stays, recipients and reviews of the agents of the house,    *)
(* the houses and days of the reports, the searches, cancellations, rate   *)
(* plans and lists of the Connect API, the profiles, charges and prices of *)
(* the taxes, and the messages to and from the channels.                   *)
(* The constants are what is asked; their assumptions say what the columns *)
(* of the tables and the checks of the requests let through.               *)
(***************************************************************************)
EXTENDS RevenueAgents, OperationsModels, Reports, ConnectSales, Taxes, ChannelMessages

CONSTANTS
  AskedTables, AskedSizes, AskedRates, AskedLevels, AskedRisks, AskedChannels, AskedProperties,
  AskedTasks, AskedArrivals, AskedStaff, AskedStays, AskedRecipients, AskedEvents, AskedMailings, AskedRatings, AskedTopics,
  AskedHouses, AskedDays, AskedDecisions,
  AskedSearches, AskedCancellations, AskedPlans, AskedLists, AskedLimits,
  AskedProfiles, AskedAmounts, AskedCharges,
  AskedTries, AskedItems, AskedRatePlans, AskedNights, AskedReports, AskedPushes, AskedMappings, AskedBodies, AskedIds

\* What runs; the rules are asked in the behaviours where nothing else does.
VARIABLE part

-----------------------------------------------------------------------------
(* What the revenue agents are asked.                                      *)

\* The sources and statuses of the schema.
Sources == {"ota", "gds", "agent", "phone", "direct", "corporate", "walk_in", "group", "other", "none"}

PaymentStatuses == {"pending", "authorized", "captured", "settled", "refunded", "partially_refunded", "failed", "voided"}

StayStatuses == {"pending", "confirmed", "assigned", "checked_in", "stayover", "due_out", "checked_out", "cancelled", "no_show"}

\* A table of reservations.
StayTables == {rs \in SUBSET [id : Nat, from : Int, to : Int, status : StayStatuses] : IsFiniteSet(rs)}

\* What the pricing agent is asked: the rates of the same weekday, the bookings, the
\* plan and the configuration.
RateQuestions ==
  [model : {"heuristic", "statistical"}, sameDay : Seq(Nat), booked : Nat, weekend : BOOLEAN, daysOut : Nat,
   pace : Nat, base : Nat, premium : Nat, maxAdjust : Nat, floor : Nat, ceiling : Nat, occupancy : Int]

\* What the overbooking agent is asked about a night.
OverbookingQuestions ==
  [onTheBooks : Nat, totalRooms : Nat, noShow : Nat, cancelled : Nat, adr : Nat, walkCost : Nat,
   maxWalk : Nat, minOccupancy : Nat]

RiskReservations ==
  [source : Sources, payments : SUBSET PaymentStatuses, stays : SUBSET StayStatuses, vip : BOOLEAN,
   arrival : Int, booked : Int]

\* What the distribution agent is asked about a channel.
ChannelQuestions == [commission : Nat, occupancy : Nat, totalRooms : Nat]

\* What the agents find of a property: its bookings, plans and settings, the rates that
\* are forecast and the commissions of its channels.
PropertyBookings ==
  [id : Nat, from : Int, to : Int, status : StayStatuses, amount : Nat, channel : STRING, source : Sources,
   payments : SUBSET PaymentStatuses, stays : SUBSET StayStatuses, vip : BOOLEAN, booked : Int]

PropertyPlans == [id : STRING, base : Nat, floor : Nat, ceiling : Nat]

PropertyTables(q) ==
  /\ q.rs \subseteq PropertyBookings /\ IsFiniteSet(q.rs) /\ q.rooms \in Nat /\ q.days \in Nat
  /\ q.plans \subseteq PropertyPlans /\ \A p, o \in q.plans : p.id = o.id => p = o
  /\ q.config \in [premium : Nat, maxAdjust : Nat, horizon : Nat]
  /\ q.limits \in [walkCost : Nat, maxWalk : Nat, minOccupancy : Nat]
  /\ \A d \in DOMAIN q.adrs : q.adrs[d] \in Nat
  /\ IsFiniteSet(DOMAIN q.commissions) /\ \A c \in DOMAIN q.commissions : q.commissions[c] \in 0..100

ASSUME RevenueAssumption ==
  /\ AskedTables \subseteq StayTables /\ AskedSizes \subseteq Nat
  /\ AskedRates \subseteq RateQuestions /\ AskedLevels \subseteq OverbookingQuestions
  /\ AskedRisks \subseteq RiskReservations /\ AskedChannels \subseteq ChannelQuestions
  /\ \A q \in AskedProperties : PropertyTables(q)

\* Rates, overbooking, risks and channels follow from the bookings the way the agents
\* promise, each by itself, whatever they are asked about (RevenueModels), and one that
\* starts from what another has stored (RevenueAgents).
RevenueRulesHold ==
  part = "rules" =>
    /\ \A rs \in AskedTables, totalRooms \in AskedSizes : CountsAgree(rs, totalRooms)
    /\ \A q \in AskedRates : RateFollowsBookings(q)
    /\ \A q \in AskedLevels : OverbookingWithinRisk(q)
    /\ \A r \in AskedRisks : RiskIsOrdered(r)
    /\ \A q \in AskedChannels : DearChannelsFirst(q)
    /\ \A q \in AskedProperties : AgentsBuildOnEachOther(q)

-----------------------------------------------------------------------------
(* What the agents of the house are asked.                                 *)

\* Tasks with ids of their own.
TaskList(tasks) ==
  /\ tasks \subseteq [id : Nat, type : STRING, priority : Int, room : Nat, floor : Int, vip : BOOLEAN, status : STRING]
  /\ IsFiniteSet(tasks) /\ \A t, u \in tasks : t.id = u.id => t = u

AuditedFolios == [status : STRING, room : Nat, tax : Nat, charges : Int, payments : Int, amount : Int]

AuditedStays ==
  {s \in [status : STRING, arrival : Int, departure : Int, folios : SUBSET AuditedFolios,
          profile : [mean : Int, deviation : Nat, count : Nat]] : IsFiniteSet(s.folios)}

MailRecipients == [status : STRING, arrival : Int, hasEmail : BOOLEAN, consent : BOOLEAN, sent : SUBSET STRING]

ASSUME HouseAssumption ==
  /\ \A tasks \in AskedTasks : TaskList(tasks)
  /\ AskedStaff \subseteq Nat /\ AskedStays \subseteq AuditedStays
  /\ AskedRecipients \subseteq MailRecipients /\ AskedMailings \subseteq [enabled : SUBSET STRING, daysBefore : Nat]
  /\ AskedRatings \subseteq 1..5 /\ \A topics \in AskedTopics : topics \subseteq {Topics[i] : i \in DOMAIN Topics}

\* The housekeeping plan is fair, the anomalies of the night are found, mails are
\* welcome and drafts modest (OperationsModels).
HousePlanHolds ==
  part = "rules" =>
    /\ \A tasks \in AskedTasks, arrivals \in AskedArrivals, staff \in AskedStaff : PlanIsFair(tasks, arrivals, staff)
    /\ \A s \in AskedStays : AnomaliesAreFound(s)
    /\ \A r \in AskedRecipients, event \in AskedEvents, config \in AskedMailings : MailsAreWelcome(r, event, config)
    /\ \A rating \in AskedRatings, topics \in AskedTopics : DraftsStayModest(rating, topics)

-----------------------------------------------------------------------------
(* What the reports are made of.                                           *)

ChargeRows == [id : Nat, type : STRING, amount : Int, day : Nat, reversal : BOOLEAN, of : Nat]

\* The rows of the tables, with the statuses the schema has for them.
StayRows ==
  [id : Nat, status : StayStatuses, from : Nat, to : Nat, in : Nat, out : Nat, cancelled : Nat, amount : Nat, room : Nat]

RoomRows == [id : Nat, status : STRING, active : BOOLEAN]

TaskRows ==
  [id : Nat, room : Nat, type : STRING,
   status : {"pending", "assigned", "in_progress", "completed", "inspected", "skipped"}, day : Nat, by : STRING,
   priority : Int, maintenance : BOOLEAN]

\* A house: tables with finitely many rows, the charges with ids of their own.
Houses ==
  {h \in [reservations : SUBSET StayRows, charges : SUBSET ChargeRows, payments : SUBSET [status : STRING, day : Nat, amount : Int],
          folios : SUBSET [id : Nat, status : STRING, amount : Int], rooms : SUBSET RoomRows, tasks : SUBSET TaskRows,
          totalRooms : Nat] :
     /\ IsFiniteSet(h.reservations) /\ IsFiniteSet(h.charges) /\ IsFiniteSet(h.rooms) /\ IsFiniteSet(h.tasks)
     /\ \A c, d \in h.charges : c.id = d.id => c = d}

Verdicts == {"pending", "approved", "rejected", "auto_executed"}

ASSUME ReportsAssumption ==
  AskedHouses \subseteq Houses /\ AskedDays \subseteq Nat /\ AskedDecisions \subseteq Seq(Verdicts)

\* The reports of a day, each of which queries the tables for itself, agree with each
\* other, and the figures of an agent add up (Reports).
ReportsHold ==
  part = "rules" =>
    /\ \A h \in AskedHouses, day \in AskedDays : ReportsAgree(h, day)
    /\ \A decisions \in AskedDecisions : PerformanceAddsUp(decisions)

-----------------------------------------------------------------------------
(* What the Connect API is asked.                                          *)

\* What a plan's restrictions say, and a search that can be asked.
SaleLimits ==
  [from : Int, to : Int, closed : BOOLEAN, minLos : Nat, maxLos : Nat, weekday : Nat, extra : Int]

Askable(q) ==
  /\ q.stay.from \in Int /\ q.stay.to \in Int /\ q.stay.from < q.stay.to /\ q.tax \in Nat
  /\ \A p \in q.plans : p.base \in Nat /\ p.restrictions \in Seq(SaleLimits)

\* A reservation that is cancelled, some hours before three in the afternoon of its arrival
\* or after that.
Cancellable(q) == q.total \in Nat /\ q.nights \in Nat /\ q.hours \in Int /\ q.base \in Nat

\* A table of rate plans: the parent of a plan is one of them, if it has one.
PlanTable(plans) ==
  /\ "none" \notin DOMAIN plans
  /\ \A p \in DOMAIN plans : /\ plans[p].base \in Nat /\ plans[p].value \in Int /\ plans[p].percentage \in BOOLEAN
                             /\ plans[p].parent \in DOMAIN plans \cup {"none"}

\* Lists of properties.
PropertyLists == Seq([active : BOOLEAN])

ASSUME SalesAssumption ==
  /\ \A q \in AskedSearches : Askable(q)
  /\ \A q \in AskedCancellations : Cancellable(q)
  /\ \A plans \in AskedPlans : PlanTable(plans)
  /\ AskedLists \subseteq PropertyLists /\ AskedLimits \subseteq Int

\* An offer is for a stay that can be sold and adds up to its nights; a penalty and its
\* refund to what was paid; a derived rate follows its parent and is never negative; and
\* the pages of a list cover it (ConnectSales).
SalesHold ==
  part = "rules" =>
    /\ \A q \in AskedSearches : OffersHold(q)
    /\ \A q \in AskedCancellations : CancellationAddsUp(q)
    /\ \A plans \in AskedPlans : DerivedRatesAreSound(plans)
    /\ \A list \in AskedLists, limit \in AskedLimits : PagesCover(list, limit)

-----------------------------------------------------------------------------
(* What the taxes are asked about.                                         *)

\* Rules of a tax profile: no percentage is of more than a hundred, and a guest without a
\* VIP level is not exempt by it.
TaxRule(r) ==
  /\ r.rate \in Nat /\ r.split \in Nat /\ r.split <= 100 /\ r.min \in Nat /\ r.max \in Nat
  /\ r.type \in {"percentage", "split_component"} => r.rate <= 100
  /\ "none" \notin r.exempt

TaxRules(rules) == Len(rules) \in Nat /\ DOMAIN rules = 1..Len(rules) /\ \A i \in DOMAIN rules : TaxRule(rules[i])

\* Tables of tax profiles.
TaxTable(table) == DOMAIN table \subseteq Nat /\ \A i \in DOMAIN table : TaxRules(table[i].rules)

\* Charges that taxes are asked about, of some types and for guests of some VIP levels.
TaxCharges(types, vips) == [type : types, vip : vips, nights : Nat, night : Nat, date : Int]

ASSUME TaxesAssumption ==
  /\ \A table \in AskedProfiles : TaxTable(table)
  /\ AskedAmounts \subseteq Int
  /\ AskedCharges \subseteq TaxCharges(STRING, STRING)

\* Whatever the profile, the taxes of a charge are those of its rules that apply, an
\* exemption never makes it dearer, each night is taxed alike, and the price that is
\* backed out of one with taxes gives that one again (Taxes).
TaxesHold ==
  part = "rules" =>
    \A profiles \in AskedProfiles, amount \in AskedAmounts, q \in AskedCharges : TaxesAddUp(profiles, amount, q)

-----------------------------------------------------------------------------
(* What comes of the messages to the channels and from them.               *)

\* A rate plan with the limits of its dates, as the ARI service reads it.
StayLimits == [from : Nat, to : Nat, closed : BOOLEAN, minLos : Nat]

ChannelPlans == [room : STRING, rate : STRING, amount : Nat, restrictions : Seq(StayLimits)]

\* What a channel reports of a reservation.
ReportedStays == [room : STRING, rate : STRING, from : Nat, to : Nat, counts : Seq([kind : STRING, count : Nat])]

ChannelReports == [id : STRING, status : STRING, guests : Seq(STRING), stays : Seq(ReportedStays)]

\* The codes that a connection maps; no room of the property is called UNKNOWN.
Mappings == {conn \in [rooms : SUBSET STRING, rates : SUBSET STRING, active : BOOLEAN] : "UNKNOWN" \notin conn.rooms}

ASSUME MessagesAssumption ==
  /\ AskedTries \subseteq Seq(Attempts)
  /\ \A items \in AskedItems : DOMAIN items \subseteq Nat \X Nat
  /\ AskedRatePlans \subseteq Seq(ChannelPlans) /\ AskedNights \subseteq Nat
  /\ AskedReports \subseteq ChannelReports /\ AskedPushes \subseteq Seq(ChannelReports)
  /\ AskedMappings \subseteq Mappings

\* What an adapter answers, a channel reads and a report is taken for is what was meant,
\* as far as the formats can say it; and a report that comes twice books once
\* (ChannelMessages).
MessagesHold ==
  part = "rules" =>
    /\ \A tries \in AskedTries : AnswersAreRead(tries)
    /\ \A items \in AskedItems : AvailabilityIsRead(items)
    /\ \A plans \in AskedRatePlans : RatesAreRead(plans, AskedNights)
    /\ \A report \in AskedReports, conn \in AskedMappings : ReportsAreUnderstood(report, conn)
    /\ \A reports \in AskedPushes, conn \in AskedMappings :
         /\ ReportedTwice(reports, conn)
         /\ \A body \in AskedBodies, id \in AskedIds : PushesAreAnswered(reports, conn, body, id)
=============================================================================
