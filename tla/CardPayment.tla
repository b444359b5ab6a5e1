----------------------------- MODULE CardPayment -----------------------------
(***************************************************************************)
(* One card (or Instapay) payment: its row in the payments table, the      *)
(* refund rows that point to it, the hold at the gateway, the handlers     *)
(* that authorize, capture, void and refund it, and the gateway's webhooks *)
(* that write the same row.                                                *)
(*                                                                         *)
(* Capture, void and refund first claim the row with a conditional UPDATE, *)
(* then call the gateway outside any transaction, and write the row back   *)
(* when the gateway says no.  A gateway call may take effect and its       *)
(* answer still be lost: the adapter reports that as a failure.            *)
(***************************************************************************)
EXTENDS Naturals

CONSTANTS
  Requests,   \* handlers and webhook deliveries in flight at once
  Amount,     \* amount of the payment, in units of the smallest refund
  Webhooks,   \* TRUE: the gateway's webhooks are processed (not in mock mode)
  Instapay,   \* TRUE: the gateway also announces the authorization
  Stops       \* TRUE: answers get lost and handlers stop half way

ASSUME PaymentAssumption ==
  /\ Amount \in Nat \ {0}
  /\ Webhooks \in BOOLEAN /\ Instapay \in BOOLEAN /\ Stops \in BOOLEAN

VARIABLES
  status,      \* payments.status; "absent" before the row is inserted
  booked,      \* sum of the refund rows of this payment
  intent,      \* the gateway's side: none, held, captured, canceled
  refunded,    \* what the gateway has paid back
  answered,    \* idempotency keys of calls the gateway has carried out
  events,      \* webhook events the gateway has raised; each may be delivered again
  req,         \* handlers in flight
  confirmed    \* a capture handler has seen the gateway's success

vars == <<status, booked, intent, refunded, answered, events, req, confirmed>>

gatewayVars == <<intent, refunded, answered, events>>

PaymentStatus ==
  {"absent", "authorized", "captured", "refunded", "partially_refunded",
   "failed", "voided"}

Refundable == {"captured", "settled", "partially_refunded"}

\* Mutant: the success event is mapped to the status before the capture.
EventStatusSwapped ==
  [ authorized |-> "authorized", succeeded |-> "authorized", failed |-> "failed",
    canceled |-> "voided", partlyRefunded |-> "partially_refunded",
    fullyRefunded |-> "refunded" ]

\* What each webhook event writes into the row.
EventStatus ==
  [ authorized |-> "authorized", succeeded |-> "captured", failed |-> "failed",
    canceled |-> "voided", partlyRefunded |-> "partially_refunded",
    fullyRefunded |-> "refunded" ]

Events == DOMAIN EventStatus

Ops == {"authorize", "capture", "void", "refund"}

Idle == [op |-> "idle", at |-> "idle", amount |-> 0, total |-> 0, prev |-> "absent"]

\* A handler of the payment, or the delivery of a webhook event.
Request ==
  [ op : Ops,
    at : {"claim", "gateway", "success", "failure"},
    amount : 0..Amount,          \* to refund
    total : 0..Amount,           \* refunded in all once this refund is through
    prev : PaymentStatus ]       \* status to go back to
  \cup
  [ op : Events, at : {"write"}, amount : {0}, total : {0}, prev : PaymentStatus ]

Init ==
  /\ status = "absent" /\ booked = 0 /\ confirmed = FALSE
  /\ intent = "none" /\ refunded = 0 /\ answered = {} /\ events = {}
  /\ req = [q \in Requests |-> Idle]

-----------------------------------------------------------------------------
(* The handlers.                                                           *)

Start(q, request) == req[q] = Idle /\ req' = [req EXCEPT ![q] = request]

Resume(q, at) == req' = [req EXCEPT ![q].at = at]

End(q) == req' = [req EXCEPT ![q] = Idle]

\* authorizePayment, on an open folio: the request this payment comes from.
Authorize(q) ==
  /\ status = "absent" /\ intent = "none"
  /\ \A p \in Requests : req[p].op # "authorize"
  /\ Start(q, [op |-> "authorize", at |-> "gateway", amount |-> 0, total |-> 0,
               prev |-> "absent"])
  /\ UNCHANGED <<status, booked, confirmed, gatewayVars>>

\* The row is inserted as authorized, or as failed.
InsertPayment(q) ==
  /\ req[q].op = "authorize" /\ req[q].at \in {"success", "failure"}
  /\ status' = IF req[q].at = "success" THEN "authorized" ELSE "failed"
  /\ End(q)
  /\ UNCHANGED <<booked, confirmed, gatewayVars>>

\* Mutant: the claim's UPDATE is by id alone.
ClaimAny == status # "absent"

\* The WHERE clause of the claim of a capture or a void.
Claimable == status = "authorized"

\* capturePayment and voidPayment claim an authorized row.
Claim(q, op, target) ==
  /\ Claimable
  /\ status' = target
  /\ Start(q, [op |-> op, at |-> "gateway", amount |-> 0, total |-> 0,
               prev |-> "authorized"])
  /\ UNCHANGED <<booked, confirmed, gatewayVars>>

Capture(q) == Claim(q, "capture", "captured")

Void(q) == Claim(q, "void", "voided")

\* A refund may not take the refunds beyond the amount of the payment.
WithinRemaining(amount) == amount + booked <= Amount

\* refundPayment reads the row and the sum of its refund rows.
Refund(q, amount) ==
  /\ status \in Refundable
  /\ WithinRemaining(amount)
  /\ Start(q, [op |-> "refund", at |-> "claim", amount |-> amount,
               total |-> booked + amount, prev |-> status])
  /\ UNCHANGED <<status, booked, confirmed, gatewayVars>>

\* Its claim asks for exactly the status it read.
ClaimRefund(q) ==
  /\ req[q].at = "claim"
  /\ IF status = req[q].prev
     THEN /\ status' = IF req[q].total >= Amount THEN "refunded"
                                                 ELSE "partially_refunded"
          /\ Resume(q, "gateway")
     ELSE End(q) /\ UNCHANGED status
  /\ UNCHANGED <<booked, confirmed, gatewayVars>>

\* The gateway said no, as far as the handler knows: write the old status back.
Revert(q) ==
  /\ req[q].at = "failure" /\ req[q].op # "authorize"
  /\ status' = req[q].prev
  /\ End(q)
  /\ UNCHANGED <<booked, confirmed, gatewayVars>>

\* The gateway said yes: a refund inserts its row; the folio is recalculated.
Complete(q) ==
  /\ req[q].at = "success" /\ req[q].op # "authorize"
  /\ booked' = IF req[q].op = "refund" THEN booked + req[q].amount ELSE booked
  /\ confirmed' = (confirmed \/ req[q].op = "capture")
  /\ End(q)
  /\ UNCHANGED <<status, gatewayVars>>

-----------------------------------------------------------------------------
(* The gateway.                                                            *)

\* Mutant: ref_<id>, one key for all refunds of a payment.
KeyWithoutTotal(request) == <<request.op, 0>>

\* cap_<id>, void_<id>, ref_<id>_<running total>; authorize sends no key.
IdempotencyKey(request) == <<request.op, request.total>>

\* The gateway carries out a call it has not seen before.
CarryOut(request) ==
  /\ \/ /\ request.op = "authorize" /\ intent = "none"
        /\ intent' = "held"
        /\ events' = events \cup (IF Instapay THEN {"authorized"} ELSE {})
        /\ UNCHANGED refunded
     \/ /\ request.op = "capture" /\ intent = "held"
        /\ intent' = "captured" /\ events' = events \cup {"succeeded"}
        /\ UNCHANGED refunded
     \/ /\ request.op = "void" /\ intent = "held"
        /\ intent' = "canceled" /\ events' = events \cup {"canceled"}
        /\ UNCHANGED refunded
     \/ /\ request.op = "refund" /\ intent = "captured"
        /\ refunded + request.amount <= Amount
        /\ refunded' = refunded + request.amount
        /\ events' = events \cup {IF refunded' < Amount THEN "partlyRefunded"
                                                        ELSE "fullyRefunded"}
        /\ UNCHANGED intent
  /\ answered' = answered \cup {IdempotencyKey(request)}

GatewayAccepts(q) ==
  /\ req[q].at = "gateway"
  /\ IdempotencyKey(req[q]) \notin answered
  /\ CarryOut(req[q])
  /\ \/ Resume(q, "success")
     \/ Stops /\ Resume(q, "failure")
  /\ UNCHANGED <<status, booked, confirmed>>

\* A repeated key gets the first answer again, and nothing is done twice.
GatewayReplays(q) ==
  /\ req[q].at = "gateway"
  /\ IdempotencyKey(req[q]) \in answered
  /\ Resume(q, "success")
  /\ UNCHANGED <<status, booked, confirmed, gatewayVars>>

\* It declines, or the call never reaches it; a declined charge is announced.
GatewayRefuses(q) ==
  /\ req[q].at = "gateway"
  /\ Resume(q, "failure")
  /\ \/ UNCHANGED events
     \/ /\ req[q].op \in {"authorize", "capture"} /\ intent # "captured"
        /\ events' = events \cup {"failed"}
  /\ UNCHANGED <<status, booked, confirmed, intent, refunded, answered>>

-----------------------------------------------------------------------------
(* The webhook controllers.                                                *)

\* Statuses in which each event is taken for old news.
Skips(event) ==
  IF event \in {"partlyRefunded", "fullyRefunded"}
  THEN {"refunded", "partially_refunded"}
  ELSE {EventStatus[event]}

\* The event's transaction id leads to the row; unknown ids are acknowledged
\* and dropped.
DeliverEvent(q, event) ==
  /\ Webhooks
  /\ event \in events
  /\ status \notin Skips(event) \cup {"absent"}
  /\ Start(q, [op |-> event, at |-> "write", amount |-> 0, total |-> 0,
               prev |-> status])
  /\ UNCHANGED <<status, booked, confirmed, gatewayVars>>

\* The row is then updated by id, whatever its status is by now.
ApplyEvent(q) ==
  /\ req[q].at = "write"
  /\ status' = EventStatus[req[q].op]
  /\ End(q)
  /\ UNCHANGED <<booked, confirmed, gatewayVars>>

\* A handler stops where it is: the server goes down, or the database does.
Abort(q) ==
  /\ Stops
  /\ req[q] # Idle
  /\ End(q)
  /\ UNCHANGED <<status, booked, confirmed, gatewayVars>>

-----------------------------------------------------------------------------
Handler(q) ==
  \/ Authorize(q) \/ InsertPayment(q)
  \/ Capture(q) \/ Void(q)
  \/ \E amount \in 1..Amount : Refund(q, amount)
  \/ ClaimRefund(q) \/ Revert(q) \/ Complete(q)
  \/ GatewayAccepts(q) \/ GatewayReplays(q) \/ GatewayRefuses(q)
  \/ \E event \in Events : DeliverEvent(q, event)
  \/ ApplyEvent(q)
  \/ Abort(q)

Next == \E q \in Requests : Handler(q)

Spec == Init /\ [][Next]_vars

-----------------------------------------------------------------------------
(* Properties.                                                             *)

\* Every variable has its type; no refund is asked for beyond the payment.
TypeOK ==
  /\ status \in PaymentStatus
  /\ booked \in Nat
  /\ intent \in {"none", "held", "captured", "canceled"}
  /\ refunded \in 0..Amount
  /\ answered \subseteq Ops \X (0..Amount)
  /\ events \subseteq Events
  /\ req \in [Requests -> Request \cup {Idle}]
  /\ confirmed \in BOOLEAN

\* q has claimed the row for a capture or a void and has not written it again.
Holds(q) == req[q].op \in {"capture", "void"}

\* "The DB wins the race": of all the captures and voids of a payment at most
\* one at a time has got past its claim, and while it is out no other can.
OneClaimAtATime ==
  \A q \in Requests : Holds(q) =>
    /\ status # "authorized"
    /\ \A p \in Requests : Holds(p) => p = q

\* A capture the gateway confirmed is never reopened: no late revert of a lost
\* race puts the row back to authorized, where a void could claim it.
ConfirmedStaysCaptured ==
  confirmed => status # "authorized" /\ \A q \in Requests : ~Holds(q)

\* No refund is booked that the gateway has not made, and never more than the
\* payment, even when answers are lost and refunds are tried again.
BookedRefundsWereMade == booked <= refunded
=============================================================================
