---------------------------- MODULE OperationsModels ----------------------------
(***************************************************************************)
(* What the agents of the house recommend: the plan of the housekeepers,   *)
(* the anomalies found before the night audit, the mails that are due to   *)
(* guests and the draft of an answer to a review.  Pure functions of what  *)
(* an agent has read; today is day 0, money is in cents.                   *)
(***************************************************************************)
EXTENDS Integers, FiniteSets, Sequences, Functions

-----------------------------------------------------------------------------
(* The housekeepers' plan.  A task is [id, type, priority, room, floor,    *)
(* vip, status], its id the place in which the query returns it; a room is *)
(* its number.                                                             *)

CleaningMinutes(type) ==
  CASE type = "stayover" -> 20 [] type = "deep_clean" -> 60 [] type = "inspection" -> 10 [] OTHER -> 30

\* Rooms of arriving VIPs, priority, departures, floor, number: smaller goes first, and
\* among equals the one that comes first already.
Urgency(t) ==
  <<IF t.vip THEN 0 ELSE 1, -t.priority, IF t.type = "checkout" THEN 0 ELSE 1, t.floor, t.room, t.id>>

Before(a, b) ==
  \E i \in 1..6 : Urgency(a)[i] < Urgency(b)[i] /\ \A j \in 1..(i - 1) : Urgency(a)[j] = Urgency(b)[j]

MostUrgent(tasks) == CHOOSE t \in tasks : \A u \in tasks : u = t \/ Before(t, u)

\* A room is marked VIP if any arrival of today, whatever its status, is a VIP's.
VipRooms(arrivals) == {a.room : a \in {x \in arrivals : x.vip # "none"}}

MarkVips(tasks, arrivals) == {[t EXCEPT !.vip = t.room \in VipRooms(arrivals)] : t \in tasks}

Actionable(tasks) == {t \in tasks : t.status \in {"pending", "assigned"}}

\* A plan has, of every task that is given, its housekeeper and its place on his list.
ListOf(plan, s) == {t \in DOMAIN plan : plan[t].to = s}

Workload(plan, s) == SumFunction([t \in ListOf(plan, s) |-> CleaningMinutes(t.type)])

\* Mutant: everybody has a turn.
NextInTurn(plan, staff) == (Cardinality(DOMAIN plan) % staff) + 1

\* The first of those with the least to do.
LeastLoaded(plan, staff) ==
  CHOOSE s \in 1..staff : \A o \in 1..staff : Workload(plan, s) < Workload(plan, o) \/ (Workload(plan, s) = Workload(plan, o) /\ s <= o)

GiveTo(plan, t, s) ==
  [u \in DOMAIN plan \cup {t} |->
     IF u = t THEN [to |-> s, place |-> Cardinality(ListOf(plan, s)) + 1] ELSE plan[u]]

\* The plans after each of the tasks, the most urgent first.
Planned(open, staff) ==
  LET plan[n \in 0..Cardinality(open)] ==
        IF n = 0 THEN [t \in {} |-> {}]
        ELSE GiveTo(plan[n - 1], MostUrgent(open \ DOMAIN plan[n - 1]), LeastLoaded(plan[n - 1], staff))
  IN plan

\* Without housekeepers nothing is given to anybody.
HousePlan(tasks, arrivals, staff) ==
  LET open == Actionable(MarkVips(tasks, arrivals))
  IN IF staff = 0 THEN [t \in {} |-> {}] ELSE Planned(open, staff)[Cardinality(open)]

\* The tasks of a list that are on another floor than the one before.
FloorChanges(plan, s) ==
  {t \in ListOf(plan, s) : \E u \in ListOf(plan, s) : plan[u].place = plan[t].place - 1 /\ u.floor # t.floor}

\* In percent; one room or none is as good as it gets.
RouteEfficiency(plan, s) ==
  LET rooms == Cardinality(ListOf(plan, s))
  IN IF rooms <= 1 THEN 100 ELSE 100 - (100 * Cardinality(FloorChanges(plan, s))) \div (rooms - 1)

-----------------------------------------------------------------------------
(* The anomalies of a stay: its status and departure, and its folios, of   *)
(* which only the open ones are looked at.                                 *)

OpenFolios(s) == {f \in s.folios : f.status = "open"}

DiffersBy(a, b) == IF a > b THEN a - b ELSE b - a

\* Thirty charges of a type make a profile; beyond two and a half deviations is unusual.
IsOutlier(amount, p) == p.count >= 30 /\ p.deviation > 0 /\ 2 * DiffersBy(amount, p.mean) > 5 * p.deviation

FolioAnomalies(s, f) ==
  UNION {IF f.room = 0 THEN {"unposted_charges"} ELSE {},
         IF f.room > 0 /\ f.tax = 0 THEN {"missing_tax"} ELSE {},
         IF /\ s.status \in {"due_out", "checked_out"}
            /\ f.charges > 0 /\ DiffersBy(f.charges, f.payments) > 1
         THEN {"payment_mismatch"} ELSE {},
         IF IsOutlier(f.amount, s.profile) THEN {"unusual_charge"} ELSE {}}

\* In-house and departed stays; a departed one without an open folio counts as unposted.
StayAnomalies(s) ==
  UNION {IF OpenFolios(s) = {} THEN {"unposted_charges"} ELSE {},
         UNION {FolioAnomalies(s, f) : f \in OpenFolios(s)},
         IF s.departure < 0 /\ s.status \in {"checked_in", "stayover"} THEN {"stale_checked_in"} ELSE {},
         IF Cardinality(OpenFolios(s)) > 1 THEN {"duplicate_folio"} ELSE {}}

Anomalies(s) ==
  CASE s.status \in {"checked_in", "stayover", "due_out", "checked_out"} -> StayAnomalies(s)
    [] s.status = "confirmed" /\ s.arrival <= 0 -> {"no_show_candidate"}
    [] OTHER -> {}

Severity(a) ==
  IF a \in {"payment_mismatch", "stale_checked_in", "missing_tax"} THEN "critical"
  ELSE IF a = "duplicate_folio" THEN "info" ELSE "warning"

-----------------------------------------------------------------------------
(* Mails to a guest about a reservation.                                   *)

EmailTypeFor(event) ==
  CASE event = "reservation.created" -> "confirmation" [] event = "reservation.checked_in" -> "welcome"
    [] event = "reservation.checked_out" -> "post_stay" [] OTHER -> "none"

\* An event asks for its own type; a run by hand looks at the arrivals to come.
TypesToGenerate(r, event, config) ==
  config.enabled \cap
    (IF EmailTypeFor(event) # "none" THEN {EmailTypeFor(event)}
     ELSE IF r.arrival < 0 \/ r.status \in {"cancelled", "no_show"} THEN {}
     ELSE IF r.arrival = 0 THEN {"day_of"}
     ELSE IF r.arrival <= config.daysBefore THEN {"pre_arrival"} ELSE {})

\* Only the confirmation goes to somebody who has not consented; no type goes twice.
EmailsDue(r, event, config) ==
  IF ~r.hasEmail THEN {}
  ELSE {t \in TypesToGenerate(r, event, config) \ r.sent : r.consent \/ t = "confirmation"}

-----------------------------------------------------------------------------
(* The draft of an answer to a review of a rating on some topics.          *)

Topics == <<"cleanliness", "location", "staff", "value", "amenities", "noise", "food", "parking", "wifi",
            "room_quality">>

Sentiment(rating) == IF rating >= 4 THEN "positive" ELSE IF rating = 3 THEN "mixed" ELSE "negative"

\* Nothing good is said of noise, parking or the net.
WithText(rating) ==
  LET all == {Topics[i] : i \in DOMAIN Topics}
  IN IF Sentiment(rating) = "negative" THEN all ELSE all \ {"noise", "parking", "wifi"}

\* The first four topics are gone through, and those with a text are addressed.
Addressed(rating, topics) ==
  LET found == {i \in DOMAIN Topics : Topics[i] \in topics}
  IN {Topics[i] : i \in {j \in found : Cardinality({k \in found : k < j}) < 4}} \cap WithText(rating)

\* Seventy percent, and up to twenty more for the topics covered.
DraftConfidence(rating, topics) ==
  70 + (IF topics = {} THEN 20 ELSE (20 * Cardinality(Addressed(rating, topics))) \div Cardinality(topics))

-----------------------------------------------------------------------------
(* Properties.                                                             *)

\* If there are housekeepers, every open task is planned, and each place on a list is
\* one task's; nobody is planned for more than another by more than the last task given;
\* a VIP's room is never left behind another of the same list; and no list is too short
\* for its changes of floor.
PlanIsFair(tasks, arrivals, staff) ==
  LET plan == HousePlan(tasks, arrivals, staff)
      open == Actionable(MarkVips(tasks, arrivals))
      onList(t) == ListOf(plan, plan[t].to)
  IN /\ staff > 0 => DOMAIN plan = open
     /\ \A t \in DOMAIN plan : plan[t].to \in 1..staff /\ plan[t].place \in 1..Cardinality(onList(t))
     /\ \A t \in DOMAIN plan : \A u \in onList(t) : u = t \/ plan[u].place # plan[t].place
     /\ \A t \in DOMAIN plan, o \in 1..staff :
          plan[t].place = Cardinality(onList(t)) => Workload(plan, plan[t].to) - CleaningMinutes(t.type) <= Workload(plan, o)
     /\ \A t \in DOMAIN plan : \A u \in onList(t) : t.vip /\ ~u.vip => plan[t].place < plan[u].place
     /\ \A s \in 1..staff : RouteEfficiency(plan, s) \in 0..100

\* A stay in order is not reported, and a departed guest whose open folio does not balance,
\* room charges without tax and a stay past its departure are always critical.
AnomaliesAreFound(s) ==
  LET critical == {a \in Anomalies(s) : Severity(a) = "critical"}
      inHouse == s.status \in {"checked_in", "stayover", "due_out"}
  IN /\ /\ inHouse /\ s.departure >= 0 /\ Cardinality(OpenFolios(s)) = 1
        /\ \A f \in OpenFolios(s) : f.room > 0 /\ f.tax > 0 /\ f.charges = f.payments /\ f.amount = s.profile.mean
        => Anomalies(s) = {}
     /\ (inHouse \/ s.status = "checked_out") =>
          \A f \in OpenFolios(s) :
            \/ f.room > 0 /\ f.tax = 0
            \/ s.status = "checked_out" /\ f.charges > 0 /\ f.payments = 0 /\ f.charges > 1
            => critical # {}
     /\ inHouse /\ s.status # "due_out" /\ s.departure < 0 => "stale_checked_in" \in critical

\* Nobody gets a mail twice, or one he has not consented to but the confirmation, and a
\* run by hand writes to nobody about a stay that is off or over.
MailsAreWelcome(r, event, config) ==
  \A t \in EmailsDue(r, event, config) :
    /\ t \notin r.sent /\ t \in config.enabled
    /\ r.consent \/ (t = "confirmation" /\ event = "reservation.created")
    /\ event = "none" => r.status \notin {"cancelled", "no_show"} /\ r.arrival >= 0

\* With the default threshold of 85 a review on more than five topics, or one that is not
\* negative and only about noise, parking or the net, is never answered on autopilot.
DraftsStayModest(rating, topics) ==
  /\ DraftConfidence(rating, topics) \in 70..90
  /\ Cardinality(topics) > 5 => DraftConfidence(rating, topics) < 85
  /\ rating >= 3 /\ topics # {} /\ topics \subseteq {"noise", "parking", "wifi"} =>
       DraftConfidence(rating, topics) = 70
=============================================================================
