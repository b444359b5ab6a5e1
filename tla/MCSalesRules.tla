----------------------------- MODULE MCSalesRules -----------------------------
(* Questions for TLC: sales to agents, and messages from and to channels.   *)
EXTENDS Integers, Sequences, FiniteSets

-----------------------------------------------------------------------------
(* Offers of one room type over a week, cancellations, plans and pages.      *)

LOCAL SaleRestrictions ==
  [from : {0, 2, 3}, to : {2, 3, 5}, closed : BOOLEAN, minLos : {0, 2}, maxLos : {0, 2}, weekday : {2}, extra : {0, 500}]

LOCAL OpenRestrictions == {[r EXCEPT !.closed = FALSE, !.from = 0] : r \in SaleRestrictions}

LOCAL SalePlans ==
  [type : {"T"}, active : {TRUE}, base : {9999, 101},
   restrictions : {<<>>} \cup {<<r>> : r \in SaleRestrictions} \cup {<<a, b>> : a, b \in OpenRestrictions}]

LOCAL FreeRooms == {[t \in {"T"} |-> [d \in 0..6 |-> IF d = n THEN 0 ELSE 2]] : n \in {3, 6}}

Searches ==
  [types : {{"T"}}, plans : {{p} : p \in SalePlans},
   stay : {[from |-> 1, to |-> 2], [from |-> 1, to |-> 3], [from |-> 1, to |-> 4]}, tax : {14}, free : FreeRooms]

CancelledSales ==
  [type : {"bar", "promotional"}, total : {0, 101, 1000, 1001}, nights : 0..5, hours : {-3, 23, 24}, base : {101}]

DerivedPlans ==
  [{"a", "b"} -> [type : {"bar", "derived"}, parent : {"none", "a", "b"}, base : {100}, percentage : BOOLEAN, value : {-150, -10, 15}]]

Properties == UNION {[1..n -> [active : BOOLEAN]] : n \in 0..4}

-----------------------------------------------------------------------------
(* Requests with up to two attempts, the availability of two rooms and the   *)
(* rates of one over two dates, and up to two reports of one or two bookings. *)

Tries ==
  LET attempts == [http : {"none", "ok", "500", "other"}, body : {"success", "errors", "fault", "silent", "garbled"}]
  IN {<<a>> : a \in attempts} \cup [1..2 -> attempts]

TwoRoomItems == [{1, 2} \X {1, 2} -> [room : {"R1", "R2"}, date : {1, 2}, available : {0, 3}]]

RatePlans ==
  LET limits == [from : {1, 2}, to : {2}, closed : BOOLEAN, minLos : {0, 2}]
      lists == {<<>>} \cup {<<x>> : x \in limits}
                 \cup {<<x, [from |-> 1, to |-> 2, closed |-> TRUE, minLos |-> 3]>> : x \in limits}
  IN [1..2 -> [room : {"R1"}, rate : {"a", "b"}, amount : {90}, restrictions : lists]]

LOCAL Stay ==
  LET guests(n) == [kind |-> "adults", count |-> n]
  IN [room : {"R1", "R9"}, rate : {"a"}, from : {1}, to : {3},
      counts : {<<>>, <<guests(1)>>, <<guests(3), [kind |-> "children", count |-> 1]>>}]

OneReport ==
  [id : {"x", "y"}, status : {"Commit", "Modify", "Cancel"}, guests : {<<>>, <<"Ann">>},
   stays : {<<>>} \cup {<<s>> : s \in Stay} \cup {<<s, s>> : s \in Stay}]

LOCAL PlainReports == {r \in OneReport : r.guests # <<>> /\ Len(r.stays) = 1 /\ (\A s \in {r.stays[1]} : s.counts # <<>>)}

SomeReports == {<<>>} \cup {<<r>> : r \in PlainReports} \cup [1..2 -> PlainReports]

MappedCodes == [rooms : {{"R1"}}, rates : {{"a"}}, active : BOOLEAN]
=============================================================================
