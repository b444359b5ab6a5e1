------------------------------- MODULE RateParity -------------------------------
(***************************************************************************)
(* The rate overrides of a channel connection: a list inside its config,   *)
(* which every writer reads, changes and writes back whole.  The parity    *)
(* check and the effective rate both read it.  Amounts are hundredths of a *)
(* cent.                                                                   *)
(***************************************************************************)
EXTENDS Integers, FiniteSets

CONSTANTS
  Plans,        \* active rate plans mapped on the connection
  BaseAmount,   \* of every plan
  Days,         \* the dates of a dated override; 0 stands for no date
  Adjustments,  \* bound: how an override may change a rate
  Writers,      \* requests in flight
  MaxWrites     \* bound: requests started

ASSUME RateParityAssumption ==
  /\ BaseAmount \in Nat /\ Days \subseteq Nat \ {0} /\ MaxWrites \in Nat
  /\ Adjustments \subseteq [type : {"percentage", "fixed"}, value : Int]

VARIABLES
  overrides,   \* config.rateOverrides, a list: its entries with the request that put them there
  writer,      \* requests that have read the config and not written it yet
  started,     \* requests started so far
  expected,    \* the overrides that were set last and not removed (history)
  overlapping  \* two writers have held the config at once (history)

rpVars == <<overrides, writer, started, expected, overlapping>>

None == [op |-> "none"]

NoDate == 0

\* An override is for a range of dates, or for always.
Ranges == {<<NoDate, NoDate>>} \cup {r \in Days \X Days : r[1] <= r[2]}

Overrides == [plan : Plans, range : Ranges, adjust : Adjustments]

\* New entries go to the end, so that the list stands in the order of the requests that
\* made them.
Entry(o, n) == [plan |-> o.plan, range |-> o.range, adjust |-> o.adjust, by |-> n]

First(os) == CHOOSE o \in os : \A x \in os : o.by <= x.by

RPInit ==
  /\ overrides = {} /\ writer = [w \in Writers |-> None] /\ started = 0
  /\ expected = {} /\ overlapping = FALSE

-----------------------------------------------------------------------------
(* Reading the rates.                                                      *)

Dated(o) == o.range # <<NoDate, NoDate>>

Covers(o, day) == Dated(o) /\ o.range[1] <= day /\ day <= o.range[2]

\* applyOverrideDecimal
Applied(o) ==
  IF o.adjust.type = "percentage" THEN (BaseAmount * (100 + o.adjust.value)) \div 100
  ELSE BaseAmount + 100 * o.adjust.value

Of(plan) == {o \in overrides : o.plan = plan}

\* The rate under the first of a list of overrides, the base amount if there is none.
RateUnder(os) == IF os = {} THEN BaseAmount ELSE Applied(First(os))

\* checkParity: the first override of the plan, whatever its dates.
ParityRate(plan) == RateUnder(Of(plan))

AbsDiff(a, b) == IF a > b THEN a - b ELSE b - a

\* Within a cent of the base amount.
IsParity(plan) == AbsDiff(ParityRate(plan), BaseAmount) < 100

\* getEffectiveRate: the first dated override that covers the day, else the first
\* undated one; without a day only the undated one.
EffectiveRate(plan, day) ==
  LET dated == {o \in Of(plan) : day # NoDate /\ Covers(o, day)}
  IN RateUnder(IF dated # {} THEN dated ELSE {o \in Of(plan) : ~Dated(o)})

\* ari.service pushRates sends the base amount, whatever the overrides say.
PushedRate == BaseAmount

-----------------------------------------------------------------------------
(* Writing the overrides.                                                  *)

\* Mutant: a new override replaces every override of its plan.
SamePlan(o, plan, range) == o.plan = plan

\* The override for the same plan and dates.
SameKey(o, plan, range) == o.plan = plan /\ o.range = range

Without(os, plan, range) == {o \in os : ~SameKey(o, plan, range)}

\* A writer reads the connection and computes the list it will write, in which it has
\* dropped what has one of these keys, and added these.
BeginWrite(w, result, dropped, added) ==
  /\ writer[w] = None
  /\ started < MaxWrites /\ started' = started + 1
  /\ writer' = [writer EXCEPT ![w] =
                  [op |-> "write", result |-> result, dropped |-> dropped, added |-> added]]
  /\ overlapping' = (overlapping \/ \E v \in Writers \ {w} : writer[v] # None)
  /\ UNCHANGED <<overrides, expected>>

SetRateOverride(w, o) ==
  BeginWrite(w, Without(overrides, o.plan, o.range) \cup {Entry(o, started + 1)},
             {<<o.plan, o.range>>}, {o})

RemoveRateOverride(w, plan, range) ==
  BeginWrite(w, Without(overrides, plan, range), {<<plan, range>>}, {})

\* channel.service update with a config in it: it replaces the whole config by one
\* that somebody has read before.
UpdateConfig(w) == BeginWrite(w, overrides, {}, {})

\* The whole list is written back.  What is expected takes in what the writer was asked for,
\* and nothing else.
Write(w) ==
  /\ writer[w] # None
  /\ overrides' = writer[w].result
  /\ expected' = {o \in expected : <<o.plan, o.range>> \notin writer[w].dropped} \cup writer[w].added
  /\ writer' = [writer EXCEPT ![w] = None]
  /\ UNCHANGED <<started, overlapping>>

RPNext ==
  \E w \in Writers :
    \/ \E o \in Overrides : SetRateOverride(w, o)
    \/ \E plan \in Plans, range \in Ranges : RemoveRateOverride(w, plan, range)
    \/ UpdateConfig(w)
    \/ Write(w)

RPSpec == RPInit /\ [][RPNext]_rpVars

-----------------------------------------------------------------------------
(* Properties.                                                             *)

\* However the writers overlap, a plan has one override for the same dates at most.
OneOverridePerKey ==
  \A o, x \in overrides : o.plan = x.plan /\ o.range = x.range => o = x

\* Where no two writers overlap, what was set last and not removed is what is stored.
NoOverrideLost ==
  ~overlapping => expected = {[plan |-> o.plan, range |-> o.range, adjust |-> o.adjust] : o \in overrides}

\* Where no override of a plan has dates, the parity check and the effective rate of
\* every day agree; and where it finds parity, the rate that is pushed, which knows of
\* no override, is the effective one to the cent.
ParityTellsTheRate ==
  \A plan \in Plans :
    (\A o \in Of(plan) : ~Dated(o)) =>
       \A day \in Days \cup {NoDate} :
         /\ EffectiveRate(plan, day) = ParityRate(plan)
         /\ IsParity(plan) => AbsDiff(EffectiveRate(plan, day), PushedRate) < 100

\* The overrides are kept as they were set: one for a plan and its dates, none lost
\* without a race, and parity means what it says.
OverridesKept == OneOverridePerKey /\ NoOverrideLost /\ ParityTellsTheRate
=============================================================================
