----------------------------- MODULE MCNightRules -----------------------------
(* Questions for TLC: prices and their taxes, and a house for the reports.  *)
EXTENDS Integers, Sequences, FiniteSets

-----------------------------------------------------------------------------
(* Two rules of a profile in either order, the first of any type, and prices *)
(* of a cent and a half to a hundred, given back or taken.                   *)

LOCAL TaxRules ==
  [type : {"percentage", "split_component", "flat_per_night", "flat_per_stay"}, rate : {7}, split : {33},
   applies : {{}, {"food"}}, exempt : {{}, {"gold"}}, min : {0, 3}, max : {0}, compounding : BOOLEAN,
   active : {TRUE}, from : {0}, to : {0, 1}]

LOCAL SecondRules ==
  LET rule(type, rate, max, compounding) ==
        [type |-> type, rate |-> rate, split |-> 0, applies |-> {"*"}, exempt |-> {}, min |-> 0, max |-> max,
         compounding |-> compounding, active |-> TRUE, from |-> 0, to |-> 0]
  IN {rule("percentage", 100, 0, c) : c \in BOOLEAN} \cup {rule("flat_per_night", 9, m, FALSE) : m \in {0, 2}}

TwoRuleProfiles ==
  UNION {{<<[active |-> TRUE, from |-> 0, to |-> 0, rules |-> <<a, b>>]>>,
          <<[active |-> TRUE, from |-> 0, to |-> 0, rules |-> <<b, a>>]>>} : a \in TaxRules, b \in SecondRules}

SomeCharges ==
  [type : {"room"}, vip : {"none", "gold"}, nights : {4}, night : {2, 3}, date : {1}]
    \cup [type : {"room"}, vip : {"none"}, nights : {0, 4}, night : {0}, date : {1, 2}]

-----------------------------------------------------------------------------
(* Houses of two rooms, with few reservations, charges and tasks.            *)

LOCAL OneStay ==
  {r \in [id : {1}, status : {"confirmed", "checked_in", "due_out", "checked_out", "no_show", "cancelled"},
          from : {1, 2}, to : {2, 3}, in : {0, 2}, out : {0}, cancelled : {0}, amount : {101}, room : {0, 1}] :
     r.in = 0 \/ r.status \in {"checked_in", "due_out", "checked_out"}}

LOCAL OtherStay ==
  [id |-> 2, status |-> "checked_in", from |-> 1, to |-> 4, in |-> 1, out |-> 0, cancelled |-> 0, amount |-> 200, room |-> 2]

LOCAL Charge(i) ==
  [id : {i}, type : {"room", "tax", "minibar"}, amount : {100, 51}, day : {2}, reversal : {FALSE}, of : {0}]

LOCAL Reversal(c) == [id |-> 9, type |-> c.type, amount |-> -c.amount, day |-> 2, reversal |-> TRUE, of |-> c.id]

LOCAL Task(i) ==
  [id : {i}, room : {1, 2}, type : {"deep_clean", "checkout"},
   status : {"pending", "in_progress", "completed", "inspected", "skipped"}, day : {2}, by : {"nobody", "ann"},
   priority : {0}, maintenance : {FALSE}]

LOCAL TwoRooms ==
  {{[id |-> 1, status |-> "occupied", active |-> TRUE], [id |-> 2, status |-> s, active |-> a]} :
     s \in {"vacant_dirty", "out_of_order"}, a \in BOOLEAN}

LOCAL Payments == {[status |-> "captured", day |-> 2, amount |-> 30], [status |-> "failed", day |-> 2, amount |-> 70]}

LOCAL House(reservations, charges, rooms, tasks, total) ==
  [reservations |-> reservations, charges |-> charges, payments |-> Payments, rooms |-> rooms, tasks |-> tasks,
   totalRooms |-> total, folios |-> {[id |-> 1, status |-> "open", amount |-> 12]}]

SomeHouses ==
  LET stays == {{r} : r \in OneStay} \cup {{r, OtherStay} : r \in OneStay}
      charges == {{}} \cup {{c} : c \in Charge(1)} \cup {{c, Reversal(c)} : c \in Charge(1)}
                   \cup {{c, d, Reversal(c)} : c \in Charge(1), d \in Charge(2)}
  IN {House(s, {c, Reversal(c)}, rooms, {}, total) :
        s \in stays, c \in {c \in Charge(1) : c.amount = 51}, rooms \in TwoRooms, total \in {1, 2}}
     \cup {House({}, c, rooms, {}, 2) : c \in charges, rooms \in TwoRooms}
     \cup {House({OtherStay}, {}, rooms, {t, u}, 2) : t \in Task(1), u \in {u \in Task(2) : u.room = 2}, rooms \in TwoRooms}

SomeVerdicts == UNION {[1..n -> {"pending", "approved", "rejected", "auto_executed"}] : n \in 0..5}
=============================================================================
