--------------------------------- MODULE Taxes ---------------------------------
(***************************************************************************)
(* The taxes of a charge, and the price before tax backed out of one that  *)
(* includes it.  Money is in cents, rates and shares are in percent, flat  *)
(* rates in cents.  A rule is [type, rate, split, applies, exempt, min,    *)
(* max, compounding, active, from, to]; days are numbers, 0 stands for a   *)
(* limit or a date that is not given.                                      *)
(***************************************************************************)
EXTENDS Integers, FiniteSets, Sequences, FiniteSetsExt, Functions

\* To the cent, halves up; parts are what there are to a whole.
Rounded(amount, parts) == (2 * amount + parts) \div (2 * parts)

-----------------------------------------------------------------------------
(* The rules in force.                                                     *)

InForce(x, date) == x.active /\ x.from <= date /\ (x.to = 0 \/ date <= x.to)

\* The rules, in their order, of the first profile in force that the database returns;
\* none if there is none.
ActiveTaxProfile(profiles, date) ==
  LET found == {i \in DOMAIN profiles : InForce(profiles[i], date)}
  IN IF found = {} THEN <<>> ELSE profiles[Min(found)].rules

\* A rule without charge types is for all of them.
AppliesTo(rule, type) == rule.applies = {} \/ {type, "*"} \cap rule.applies # {}

\* The rules of a profile that are in force and for the charge, by their places.
RulesFor(rules, q) == {i \in DOMAIN rules : InForce(rules[i], q.date) /\ AppliesTo(rules[i], q.type)}

\* The guest's VIP level, the length of the stay or the number of the night may exempt
\* a charge; what the caller has not given exempts nobody.
Exempted(rule, q) ==
  \/ q.vip \in rule.exempt
  \/ rule.min > 0 /\ q.nights > 0 /\ q.nights >= rule.min
  \/ rule.max > 0 /\ q.night > 0 /\ q.night > rule.max

\* The tax of one rule; base is what compounding rules go by.
TaxOf(rule, amount, base, q) ==
  LET taxed == IF rule.compounding THEN base ELSE amount
  IN CASE rule.type = "percentage" -> Rounded(taxed * rule.rate, 100)
       [] rule.type = "split_component" -> Rounded(taxed * rule.split * rule.rate, 10000)
       [] rule.type = "flat_per_night" -> rule.rate * (IF q.nights = 0 THEN 1 ELSE q.nights)
       [] rule.type = "flat_per_stay" -> rule.rate
       [] OTHER -> 0

-----------------------------------------------------------------------------
(* The taxes of a charge.                                                  *)

\* What the rule in place i adds; a tax of nothing or less is left out.
Taxed(rules, i, amount, base, q) ==
  LET tax == TaxOf(rules[i], amount, base, q)
  IN IF i \in RulesFor(rules, q) /\ ~Exempted(rules[i], q) /\ tax > 0 THEN tax ELSE 0

\* The running base after each of the rules: the amount and the taxes so far.
RunningBase(rules, amount, q) ==
  LET base[i \in 0..Len(rules)] ==
        IF i = 0 THEN amount ELSE base[i - 1] + Taxed(rules, i, amount, base[i - 1], q)
  IN base

\* The tax items, by the places of their rules.
CalculateTaxes(profiles, amount, q) ==
  LET rules == ActiveTaxProfile(profiles, q.date)
      base == RunningBase(rules, amount, q)
      tax == [i \in DOMAIN rules |-> Taxed(rules, i, amount, base[i - 1], q)]
  IN [i \in {i \in DOMAIN rules : tax[i] # 0} |-> [rule |-> rules[i], amount |-> tax[i]]]

TaxTotal(items) == SumFunction([i \in DOMAIN items |-> items[i].amount])

\* The night audit posts a stay night by night, and says neither how many nights the
\* stay has nor which night it is.
NightAuditTaxes(profiles, amount, q) ==
  TaxTotal(CalculateTaxes(profiles, amount, [q EXCEPT !.nights = 0, !.night = 0]))

-----------------------------------------------------------------------------
(* The price before tax.                                                   *)

\* In hundredths of a percent, of the rules that apply, exempted or not.
PercentageOf(rule) ==
  CASE rule.type = "percentage" -> 100 * rule.rate
    [] rule.type = "split_component" -> rule.split * rule.rate
    [] OTHER -> 0

\* Mutant: the night tax is taken off once, however long the stay.
FlatPerStay(rule, q) == IF rule.type \in {"flat_per_night", "flat_per_stay"} THEN rule.rate ELSE 0

FlatOf(rule, q) ==
  CASE rule.type = "flat_per_night" -> rule.rate * (IF q.nights = 0 THEN 1 ELSE q.nights)
    [] rule.type = "flat_per_stay" -> rule.rate
    [] OTHER -> 0

\* All flat taxes are taken off, then all percentages at once, which takes nothing off
\* where no rule applies; the taxes are computed anew from the base that results.
BackCalculate(profiles, total, q) ==
  LET rules == ActiveTaxProfile(profiles, q.date)
      flat == SumFunction([i \in RulesFor(rules, q) |-> FlatOf(rules[i], q)])
      whole == 10000 + SumFunction([i \in RulesFor(rules, q) |-> PercentageOf(rules[i])])
      base == Rounded((total - flat) * 10000, whole)
  IN [base |-> base, taxes |-> CalculateTaxes(profiles, base, q)]

-----------------------------------------------------------------------------
(* Properties, of one question each.                                       *)

Distance(a, b) == IF a > b THEN a - b ELSE b - a

\* An exemption never makes a charge dearer, and neither does a later night; and without
\* compounding a tax does not depend on the other rules.
ExemptionsHelp(profiles, amount, q) ==
  LET total(x) == TaxTotal(CalculateTaxes(profiles, amount, x))
      items == CalculateTaxes(profiles, amount, q)
  IN /\ total(q) <= total([q EXCEPT !.vip = "none"])
     /\ q.night > 0 => total([q EXCEPT !.night = q.night + 1]) <= total(q)
     /\ \A i \in DOMAIN items :
          ~items[i].rule.compounding => items[i].amount = TaxOf(items[i].rule, amount, amount, q)

\* What the night audit posts for a stay covers the night taxes of the stay; the taxes
\* of the whole stay at once, a charge per stay among them, are never more.
EveryNightIsTaxed(profiles, amount, q) ==
  LET rules == ActiveTaxProfile(profiles, q.date)
  IN (\A i \in RulesFor(rules, q) : rules[i].type \in {"flat_per_night", "flat_per_stay"}) =>
       TaxTotal(CalculateTaxes(profiles, amount, q))
         <= (IF q.nights = 0 THEN 1 ELSE q.nights) * NightAuditTaxes(profiles, amount, q)

\* Where no rule compounds and nobody is exempt, the base and its taxes add up to the
\* price, but for a cent for each rule; a compounding rule makes them more than the
\* price, an exemption less.
PriceIsRecovered(profiles, total, q) ==
  LET back == BackCalculate(profiles, total, q)
      rules == ActiveTaxProfile(profiles, q.date)
      counted == RulesFor(rules, q)
      sum == back.base + TaxTotal(back.taxes)
      flat == SumFunction([i \in counted |-> FlatOf(rules[i], q)])
      simple == \A i \in counted : ~rules[i].compounding
      exempt(i) == Exempted(rules[i], q)
  IN total > flat =>
       /\ (simple /\ \A i \in counted : ~exempt(i)) => Distance(sum, total) <= Cardinality(counted)
       /\ (\A i \in counted : ~exempt(i)) => sum >= total - Cardinality(counted)
       /\ simple => sum <= total + Cardinality(counted)

\* Everything a tax profile says of one charge or one price.
TaxesAddUp(profiles, amount, q) ==
  /\ ExemptionsHelp(profiles, amount, q)
  /\ EveryNightIsTaxed(profiles, amount, q)
  /\ PriceIsRecovered(profiles, amount, q)
=============================================================================
