----------------------------- MODULE MCAgentRules -----------------------------
(* Questions for TLC: what the agents of a property answer to.              *)
EXTENDS Integers, FiniteSets

-----------------------------------------------------------------------------
(* Revenue: two reservations, forecasts and rates, levels of overbooking,    *)
(* risks of cancellation, commissions, and a property of two rooms.          *)

TwoReservations ==
  {{a, b} : a \in [id : {1}, from : -1..1, to : 0..2, status : {"confirmed", "cancelled", "no_show", "checked_out", "assigned"}],
            b \in [id : {2}, from : {0}, to : {0, 1}, status : {"confirmed"}]}

SomeRates ==
  [model : {"heuristic", "statistical"}, sameDay : {<<>>, <<40>>, <<100, 40>>}, booked : {0, 20, 39, 45, 70, 85, 99},
   weekend : BOOLEAN, daysOut : {2, 6, 30}, pace : {70, 130}, base : {100}, premium : {15}, maxAdjust : {30},
   floor : {60, 90}, ceiling : {120, 300}, occupancy : {0}]

SomeLevels ==
  [totalRooms : {2, 20}, onTheBooks : {1, 2, 18, 20, 22}, noShow : {2, 10}, cancelled : {0, 10}, adr : {50, 150},
   walkCost : {150, 600}, maxWalk : {5, 50}, minOccupancy : {85}]

SomeRisks ==
  [source : {"none", "ota", "walk_in"}, payments : SUBSET {"captured", "failed"}, stays : SUBSET {"checked_out", "cancelled"},
   vip : BOOLEAN, arrival : {0, 1, 2, 3, 7, 8, 40}, booked : {-80, -20, 0}]

SomeCommissions == [commission : 0..20, occupancy : 40..99, totalRooms : {10}]

PropertiesOfTwoRooms ==
  LET first == [id : {1}, from : {-1, 0, 2}, to : {1, 3}, status : {"confirmed", "checked_out", "cancelled", "no_show"},
                amount : {300}, channel : {"booking_com", "direct"}, source : {"ota"}, payments : {{}, {"captured"}},
                stays : {{}}, vip : {FALSE}, booked : {-40}]
      second == [id : {2}, from : {0}, to : {3}, status : {"confirmed", "no_show"}, amount : {100},
                 channel : {"booking_com", "siteminder"}, source : {"none"}, payments : {{}}, stays : {{"checked_out"}},
                 vip : {TRUE}, booked : {-2}]
      third == [id : {3}, from : {0}, to : {3}, status : {"confirmed", "cancelled"}, amount : {200}, channel : {"direct"},
                source : {"direct"}, payments : {{}}, stays : {{}}, vip : {FALSE}, booked : {-100}]
  IN [rs : {{}} \cup {{a, b, c} : a \in first, b \in second, c \in third}, rooms : {2}, days : {0, 4},
      plans : {{[id |-> "p", base |-> 100, floor |-> 0, ceiling |-> 120], [id |-> "n", base |-> 0, floor |-> 0, ceiling |-> 0]}},
      config : {[premium |-> 15, maxAdjust |-> 30, horizon |-> 3]},
      limits : {[walkCost |-> 150, maxWalk |-> 30, minOccupancy |-> 85]}, adrs : {<<>>},
      commissions : {[booking_com |-> 18, siteminder |-> 12]}]

-----------------------------------------------------------------------------
(* Operations: up to four tasks in three rooms, stays with up to two folios, *)
(* reservations to be written to, and reviews.                               *)

LOCAL TaskRow(i) ==
  [id : {i}, type : {"checkout", "stayover", "deep_clean"}, priority : {0, 1}, room : {100 + i, 201}, floor : {1}, vip : {FALSE},
   status : {"pending", "completed"}]

TaskLists ==
  {{a, b} : a \in TaskRow(1), b \in TaskRow(2)}
    \cup {{a, b, c, [c EXCEPT !.id = 4, !.type = "stayover", !.floor = 2]} :
            a \in TaskRow(1), b \in {b \in TaskRow(2) : b.room = 102},
            c \in {c \in TaskRow(3) : c.room = 201 /\ c.status = "pending"}}

LOCAL FolioRows ==
  [status : {"open", "settled"}, room : {0, 2}, tax : {0, 2}, charges : {0, 100}, payments : {0, 100}, amount : {50}]

AuditedNights ==
  LET even == [status |-> "open", room |-> 1, tax |-> 1, charges |-> 50, payments |-> 50, amount |-> 50]
  IN [status : {"confirmed", "checked_in", "due_out", "checked_out", "stayover"}, arrival : {-1, 0, 1}, departure : {-1, 0, 1},
      folios : {{}} \cup {{f} : f \in FolioRows} \cup {{f, even} : f \in FolioRows},
      profile : {[mean |-> 50, deviation |-> 1, count |-> 40], [mean |-> 40, deviation |-> 1, count |-> 40]}]

Recipients ==
  [status : {"confirmed", "cancelled", "checked_out"}, arrival : {-1, 0, 1, 4}, hasEmail : BOOLEAN, consent : BOOLEAN,
   sent : SUBSET {"confirmation", "pre_arrival"}]

MailConfigs ==
  [enabled : {{"confirmation", "pre_arrival", "post_stay"}, {"day_of", "confirmation"}}, daysBefore : {3}]

NewVip == {{}, {[room |-> 201, vip |-> "gold"]}}

SomeTopics == SUBSET {"cleanliness", "location", "staff", "value", "amenities", "noise", "food", "parking", "wifi", "room_quality"}
=============================================================================
