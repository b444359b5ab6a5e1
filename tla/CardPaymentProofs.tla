--------------------------- MODULE CardPaymentProofs ---------------------------
(***************************************************************************)
(* Proofs about a payment, for any number of requests in flight and any    *)
(* amount: the exclusion of captures and voids at a gateway that does not  *)
(* announce its authorizations (Stripe), the refunds at every gateway.     *)
(***************************************************************************)
EXTENDS MCCardPayment, TLAPS

-----------------------------------------------------------------------------
(* The inductive invariant.                                                *)

\* No event writes "authorized" into the row.
NoLateAuthorization ==
  "authorized" \notin events /\ \A q \in Requests : req[q].op # "authorized"

\* Until the row is inserted only the handler that will insert it is at work,
\* and there is one such handler.
BeforeTheRow ==
  /\ status = "absent" => ~confirmed
  /\ \A q \in Requests :
       /\ status = "absent" => req[q].op \in {"idle", "authorize"}
       /\ req[q].op = "authorize" => /\ status = "absent"
                                     /\ req[q].at # "claim"
                                     /\ \A p \in Requests :
                                          req[p].op = "authorize" => p = q

\* What each handler claimed from, and would write back.
PreviousOK ==
  \A q \in Requests :
    /\ req[q].op = "refund" => req[q].prev \in Refundable
    /\ Holds(q) => req[q].prev = "authorized"
    /\ req[q].at = "claim" => req[q].op = "refund"

IInv ==
  /\ TypeOK
  /\ NoLateAuthorization
  /\ BeforeTheRow
  /\ PreviousOK
  /\ OneClaimAtATime
  /\ ConfirmedStaysCaptured

-----------------------------------------------------------------------------
(* Facts about requests.                                                   *)

LEMMA BusyRequest ==
  ASSUME TypeOK, NEW q \in Requests,
         req[q].at \in {"claim", "gateway", "success", "failure", "write"}
  PROVE  /\ req[q] \in Request /\ req[q] # Idle
         /\ req[q].at = "write" <=> req[q].op \in Events
         /\ req[q].at # "write" => req[q].op \in Ops
         /\ req[q].amount \in 0..Amount /\ req[q].total \in 0..Amount
         /\ req[q].prev \in PaymentStatus
<1>1. req[q] \in Request \cup {Idle}
  BY DEF TypeOK
<1>2. req[q] \in Request /\ req[q] # Idle
  BY <1>1 DEF Idle
<1>3. QED
  BY <1>2, PaymentAssumption DEF Request, Ops, Events, EventStatus

LEMMA Resumed ==
  ASSUME TypeOK, NEW q \in Requests, req[q] \in Request, req[q].op \in Ops,
         NEW at \in {"claim", "gateway", "success", "failure"}, Resume(q, at)
  PROVE  /\ req' \in [Requests -> Request \cup {Idle}]
         /\ req'[q].op = req[q].op /\ req'[q].prev = req[q].prev
         /\ req'[q].at = at
         /\ \A p \in Requests : p # q => req'[p] = req[p]
<1>1. [req[q] EXCEPT !.at = at] \in Request
  BY DEF Request, Ops, Events, EventStatus
<1>2. QED
  BY <1>1 DEF Resume, TypeOK, Request

LEMMA Ended ==
  ASSUME TypeOK, NEW q \in Requests, End(q)
  PROVE  /\ req' \in [Requests -> Request \cup {Idle}]
         /\ req'[q] = Idle
         /\ \A p \in Requests : p # q => req'[p] = req[p]
BY DEF End, TypeOK

LEMMA Started ==
  ASSUME TypeOK, NEW q \in Requests, NEW x \in Request, Start(q, x)
  PROVE  /\ req' \in [Requests -> Request \cup {Idle}]
         /\ req'[q] = x
         /\ \A p \in Requests : p # q => req'[p] = req[p]
BY DEF Start, TypeOK

-----------------------------------------------------------------------------
(* Type correctness.                                                       *)

LEMMA TypeInit == Init => TypeOK
<1> SUFFICES ASSUME Init PROVE TypeOK
  OBVIOUS
<1>1. req \in [Requests -> Request \cup {Idle}]
  BY DEF Init
<1>2. status \in PaymentStatus
  BY DEF Init, PaymentStatus
<1>3. refunded \in 0..Amount
  BY PaymentAssumption DEF Init
<1>4. QED
  BY <1>1, <1>2, <1>3 DEF Init, TypeOK

LEMMA TypeStep == TypeOK /\ [Next]_vars => TypeOK'
<1> SUFFICES ASSUME TypeOK, NEW q \in Requests, Handler(q) PROVE TypeOK'
  BY DEF Next, vars, TypeOK
<1> USE PaymentAssumption
<1> DEFINE reqType == req' \in [Requests -> Request \cup {Idle}]
<1>1. status \in PaymentStatus
  BY DEF TypeOK
<1>2. CASE Authorize(q)
  <2> DEFINE x == [op |-> "authorize", at |-> "gateway", amount |-> 0, total |-> 0,
                   prev |-> "absent"]
  <2>1. x \in Request
    BY DEF Request, Ops, PaymentStatus
  <2>2. reqType
    BY <1>2, <2>1, Started DEF Authorize
  <2>3. QED
    BY <1>2, <2>2 DEF Authorize, gatewayVars, TypeOK
<1>3. CASE InsertPayment(q)
  <2>1. reqType
    BY <1>3, Ended DEF InsertPayment
  <2>2. QED
    BY <1>3, <2>1 DEF InsertPayment, gatewayVars, TypeOK, PaymentStatus
<1>4. ASSUME NEW op \in Ops, NEW target \in PaymentStatus, Claim(q, op, target)
      PROVE  TypeOK'
  <2> DEFINE x == [op |-> op, at |-> "gateway", amount |-> 0, total |-> 0,
                   prev |-> "authorized"]
  <2>1. x \in Request
    BY DEF Request, PaymentStatus
  <2>2. reqType
    BY <1>4, <2>1, Started DEF Claim
  <2>3. QED
    BY <1>4, <2>2 DEF Claim, gatewayVars, TypeOK
<1>5. CASE Capture(q) \/ Void(q)
  BY <1>4, <1>5 DEF Capture, Void, Ops, PaymentStatus
<1>6. ASSUME NEW amount \in 1..Amount, Refund(q, amount) PROVE TypeOK'
  <2> DEFINE x == [op |-> "refund", at |-> "claim", amount |-> amount,
                   total |-> booked + amount, prev |-> status]
  <2>1. booked + amount \in 0..Amount /\ amount \in 0..Amount
    BY <1>6 DEF Refund, WithinRemaining, TypeOK
  <2>2. x \in Request
    BY <1>1, <2>1 DEF Request, Ops
  <2>3. reqType
    BY <1>6, <2>2, Started DEF Refund
  <2>4. QED
    BY <1>6, <2>3 DEF Refund, gatewayVars, TypeOK
<1>7. CASE ClaimRefund(q)
  <2>1. req[q] \in Request /\ req[q].op \in Ops
    BY <1>7, BusyRequest DEF ClaimRefund
  <2>2. reqType
    BY <1>7, <2>1, Resumed, Ended DEF ClaimRefund
  <2>3. QED
    BY <1>1, <1>7, <2>2 DEF ClaimRefund, gatewayVars, TypeOK, PaymentStatus
<1>8. CASE Revert(q)
  <2>1. reqType /\ req[q].prev \in PaymentStatus
    BY <1>8, Ended, BusyRequest DEF Revert
  <2>2. QED
    BY <1>8, <2>1 DEF Revert, gatewayVars, TypeOK
<1>9. CASE Complete(q)
  <2>1. reqType /\ req[q].amount \in 0..Amount
    BY <1>9, Ended, BusyRequest DEF Complete
  <2>2. QED
    BY <1>9, <2>1 DEF Complete, gatewayVars, TypeOK
<1>10. CASE GatewayAccepts(q)
  <2>1. /\ req[q] \in Request /\ req[q].op \in Ops
        /\ req[q].amount \in 0..Amount /\ req[q].total \in 0..Amount
    BY <1>10, BusyRequest DEF GatewayAccepts
  <2>2. reqType
    BY <1>10, <2>1, Resumed DEF GatewayAccepts
  <2>3. answered' \subseteq Ops \X (0..Amount)
    BY <1>10, <2>1 DEF GatewayAccepts, CarryOut, IdempotencyKey, TypeOK
  <2>4. /\ intent' \in {"none", "held", "captured", "canceled"}
        /\ refunded' \in 0..Amount
    BY <1>10, <2>1 DEF GatewayAccepts, CarryOut, TypeOK
  <2>5. events' \subseteq Events
    BY <1>10 DEF GatewayAccepts, CarryOut, TypeOK, Events, EventStatus
  <2>6. QED
    BY <1>10, <2>2, <2>3, <2>4, <2>5 DEF GatewayAccepts, TypeOK
<1>11. CASE GatewayReplays(q)
  <2>1. req[q] \in Request /\ req[q].op \in Ops
    BY <1>11, BusyRequest DEF GatewayReplays
  <2>2. reqType
    BY <1>11, <2>1, Resumed DEF GatewayReplays
  <2>3. QED
    BY <1>11, <2>2 DEF GatewayReplays, gatewayVars, TypeOK
<1>12. CASE GatewayRefuses(q)
  <2>1. req[q] \in Request /\ req[q].op \in Ops
    BY <1>12, BusyRequest DEF GatewayRefuses
  <2>2. reqType
    BY <1>12, <2>1, Resumed DEF GatewayRefuses
  <2>3. QED
    BY <1>12, <2>2 DEF GatewayRefuses, TypeOK, Events, EventStatus
<1>13. ASSUME NEW event \in Events, DeliverEvent(q, event) PROVE TypeOK'
  <2> DEFINE x == [op |-> event, at |-> "write", amount |-> 0, total |-> 0,
                   prev |-> status]
  <2>1. x \in Request
    BY <1>1 DEF Request
  <2>2. reqType
    BY <1>13, <2>1, Started DEF DeliverEvent
  <2>3. QED
    BY <1>13, <2>2 DEF DeliverEvent, gatewayVars, TypeOK
<1>14. CASE ApplyEvent(q)
  <2>1. reqType /\ req[q].op \in Events
    BY <1>14, Ended, BusyRequest DEF ApplyEvent
  <2>2. EventStatus[req[q].op] \in PaymentStatus
    BY <2>1 DEF Events, EventStatus, PaymentStatus
  <2>3. QED
    BY <1>14, <2>1, <2>2 DEF ApplyEvent, gatewayVars, TypeOK
<1>15. CASE Abort(q)
  BY <1>15, Ended DEF Abort, gatewayVars, TypeOK
<1>16. QED
  BY <1>2, <1>3, <1>5, <1>6, <1>7, <1>8, <1>9, <1>10, <1>11, <1>12, <1>13, <1>14,
     <1>15 DEF Handler

\* The row, the gateway and the requests keep their types in every behaviour;
\* in particular no refund in flight goes beyond the amount of the payment.
THEOREM TypeCorrect == Spec => []TypeOK
<1>1. QED
  BY TypeInit, TypeStep, PTL DEF Spec

-----------------------------------------------------------------------------
(* The inductive invariant holds.                                          *)

LEMMA InvInit == Init => IInv
<1> SUFFICES ASSUME Init PROVE IInv
  OBVIOUS
<1>1. TypeOK
  BY TypeInit
<1>2. NoLateAuthorization /\ BeforeTheRow /\ PreviousOK
  BY DEF Init, NoLateAuthorization, BeforeTheRow, PreviousOK, Holds, Idle
<1>3. OneClaimAtATime /\ ConfirmedStaysCaptured
  BY DEF Init, OneClaimAtATime, ConfirmedStaysCaptured, Holds, Idle
<1>4. QED
  BY <1>1, <1>2, <1>3 DEF IInv

\* The parts of the invariant that are about the row and the requests hold
\* after a step that leaves the row alone and lets one request go on or end.
LEMMA QuietStep ==
  ASSUME IInv, TypeOK', NEW q \in Requests, UNCHANGED <<status, confirmed>>,
         \A p \in Requests : p # q => req'[p] = req[p],
         \/ req'[q] = Idle
         \/ /\ req'[q].op = req[q].op /\ req'[q].prev = req[q].prev
            /\ req'[q].at # "claim",
         "authorized" \notin events'
  PROVE  IInv'
<1> USE DEF IInv
<1>1. NoLateAuthorization'
  BY DEF NoLateAuthorization, Idle
<1>2. BeforeTheRow'
  BY DEF BeforeTheRow, Idle
<1>3. PreviousOK'
  BY DEF PreviousOK, Holds, Idle
<1>4. OneClaimAtATime' /\ ConfirmedStaysCaptured'
  BY DEF OneClaimAtATime, ConfirmedStaysCaptured, Holds, Idle
<1>5. QED
  BY <1>1, <1>2, <1>3, <1>4

LEMMA InvStep ==
  ASSUME ~Instapay, IInv, [Next]_vars
  PROVE  IInv'
<1>1. TypeOK'
  BY TypeStep DEF IInv
<1>2. CASE UNCHANGED vars
  BY <1>2 DEF IInv, vars, TypeOK, NoLateAuthorization, BeforeTheRow, PreviousOK,
              OneClaimAtATime, ConfirmedStaysCaptured, Holds
<1>3. ASSUME NEW q \in Requests, Handler(q) PROVE IInv'
  <2> USE <1>1, PaymentAssumption
  <2> DEFINE Others == \A p \in Requests : p # q => req'[p] = req[p]
  <2>0. TypeOK /\ NoLateAuthorization
    BY DEF IInv
  <2>1. CASE Authorize(q)
    <3> DEFINE x == [op |-> "authorize", at |-> "gateway", amount |-> 0, total |-> 0,
                     prev |-> "absent"]
    <3>1. x \in Request
      BY DEF Request, Ops, PaymentStatus
    <3>2. req'[q] = x /\ Others
      BY <2>0, <2>1, <3>1, Started DEF Authorize
    <3>3. NoLateAuthorization' /\ PreviousOK'
      BY <2>1, <3>2 DEF IInv, NoLateAuthorization, PreviousOK, Holds, Authorize, gatewayVars
    <3>4. BeforeTheRow'
      BY <2>1, <3>2 DEF IInv, BeforeTheRow, Authorize
    <3>5. OneClaimAtATime' /\ ConfirmedStaysCaptured'
      BY <2>1, <3>2 DEF IInv, OneClaimAtATime, ConfirmedStaysCaptured, Holds, Authorize
    <3>6. QED
      BY <3>3, <3>4, <3>5 DEF IInv
  <2>2. CASE InsertPayment(q)
    <3>1. req'[q] = Idle /\ Others
      BY <2>0, <2>2, Ended DEF InsertPayment
    <3>2. status = "absent" /\ status' # "absent" /\ ~confirmed /\ UNCHANGED confirmed
      BY <2>2 DEF IInv, BeforeTheRow, InsertPayment
    <3>3. NoLateAuthorization' /\ PreviousOK'
      BY <2>2, <3>1 DEF IInv, NoLateAuthorization, PreviousOK, Holds, InsertPayment,
                        gatewayVars, Idle
    <3>4. BeforeTheRow'
      BY <2>2, <3>1, <3>2 DEF IInv, BeforeTheRow, InsertPayment, Idle
    <3>5. \A p \in Requests : ~Holds(p)'
      BY <3>1, <3>2 DEF IInv, BeforeTheRow, Holds, Idle
    <3>6. OneClaimAtATime' /\ ConfirmedStaysCaptured'
      BY <3>2, <3>5 DEF OneClaimAtATime, ConfirmedStaysCaptured
    <3>7. QED
      BY <3>3, <3>4, <3>6 DEF IInv
  <2>3. ASSUME NEW op \in {"capture", "void"}, NEW target \in {"captured", "voided"},
               Claim(q, op, target)
        PROVE  IInv'
    <3> DEFINE x == [op |-> op, at |-> "gateway", amount |-> 0, total |-> 0,
                     prev |-> "authorized"]
    <3>1. x \in Request
      BY DEF Request, Ops, PaymentStatus
    <3>2. req'[q] = x /\ Others
      BY <2>0, <2>3, <3>1, Started DEF Claim
    <3>3. status = "authorized" /\ status' = target /\ UNCHANGED confirmed
      BY <2>3 DEF Claim, Claimable
    <3>4. NoLateAuthorization' /\ PreviousOK'
      BY <2>3, <3>2 DEF IInv, NoLateAuthorization, PreviousOK, Holds, Claim, gatewayVars
    <3>5. BeforeTheRow'
      BY <3>2, <3>3 DEF IInv, BeforeTheRow
    <3>6. \A p \in Requests : ~Holds(p)
      BY <3>3 DEF IInv, OneClaimAtATime
    <3>7. OneClaimAtATime' /\ ConfirmedStaysCaptured'
      BY <3>2, <3>3, <3>6 DEF IInv, OneClaimAtATime, ConfirmedStaysCaptured, Holds
    <3>8. QED
      BY <3>4, <3>5, <3>7 DEF IInv
  <2>4. ASSUME NEW amount \in 1..Amount, Refund(q, amount) PROVE IInv'
    <3> DEFINE x == [op |-> "refund", at |-> "claim", amount |-> amount,
                     total |-> booked + amount, prev |-> status]
    <3>1. x \in Request
      BY <2>0, <2>4 DEF Refund, WithinRemaining, Request, Ops, TypeOK
    <3>2. req'[q] = x /\ Others
      BY <2>0, <2>4, <3>1, Started DEF Refund
    <3>3. status \in Refundable /\ UNCHANGED <<status, confirmed>>
      BY <2>4 DEF Refund
    <3>4. NoLateAuthorization' /\ PreviousOK'
      BY <2>4, <3>2, <3>3 DEF IInv, NoLateAuthorization, PreviousOK, Holds, Refund, gatewayVars
    <3>5. BeforeTheRow'
      BY <3>2, <3>3 DEF IInv, BeforeTheRow, Refundable
    <3>6. OneClaimAtATime' /\ ConfirmedStaysCaptured'
      BY <3>2, <3>3 DEF IInv, OneClaimAtATime, ConfirmedStaysCaptured, Holds
    <3>7. QED
      BY <3>4, <3>5, <3>6 DEF IInv
  <2>5. CASE ClaimRefund(q)
    <3>1. req[q] \in Request /\ req[q].op = "refund" /\ req[q].prev \in Refundable
      BY <2>0, <2>5, BusyRequest DEF ClaimRefund, IInv, PreviousOK, Holds
    <3>2. CASE status = req[q].prev
      <4>1. /\ req'[q].op = "refund" /\ req'[q].prev = req[q].prev
            /\ req'[q].at = "gateway" /\ Others
        BY <2>0, <2>5, <3>1, <3>2, Resumed DEF ClaimRefund, Ops
      <4>2. /\ status \in Refundable /\ status' \in {"refunded", "partially_refunded"}
            /\ UNCHANGED confirmed
        BY <2>5, <3>1, <3>2 DEF ClaimRefund
      <4>3. NoLateAuthorization' /\ PreviousOK'
        BY <2>5, <3>1, <4>1 DEF IInv, NoLateAuthorization, PreviousOK, Holds, ClaimRefund,
                                gatewayVars
      <4>4. BeforeTheRow'
        BY <4>1, <4>2 DEF IInv, BeforeTheRow, Refundable
      <4>5. OneClaimAtATime' /\ ConfirmedStaysCaptured'
        BY <4>1, <4>2 DEF IInv, OneClaimAtATime, ConfirmedStaysCaptured, Holds
      <4>6. QED
        BY <4>3, <4>4, <4>5 DEF IInv
    <3>3. CASE status # req[q].prev
      BY <2>0, <2>5, <3>3, Ended, QuietStep
         DEF ClaimRefund, gatewayVars, NoLateAuthorization
    <3>4. QED
      BY <3>2, <3>3
  <2>6. CASE Revert(q)
    <3>1. req'[q] = Idle /\ Others /\ status' = req[q].prev /\ UNCHANGED confirmed
      BY <2>0, <2>6, Ended DEF Revert
    <3>2. req[q] \in Request /\ req[q].op \in {"capture", "void", "refund"}
      BY <2>0, <2>6, BusyRequest DEF Revert, Ops
    <3>3. NoLateAuthorization' /\ PreviousOK'
      BY <2>6, <3>1 DEF IInv, NoLateAuthorization, PreviousOK, Holds, Revert, gatewayVars, Idle
    <3>4. status # "absent"
      BY <3>2 DEF IInv, BeforeTheRow
    <3>5. CASE req[q].op = "refund"
      <4>1. status' \in Refundable
        BY <3>1, <3>5 DEF IInv, PreviousOK, Holds
      <4>2. BeforeTheRow'
        BY <3>1, <3>4, <4>1 DEF IInv, BeforeTheRow, Refundable, Idle
      <4>3. OneClaimAtATime' /\ ConfirmedStaysCaptured'
        BY <3>1, <4>1
           DEF IInv, OneClaimAtATime, ConfirmedStaysCaptured, Holds, Refundable, Idle
      <4>4. QED
        BY <3>3, <4>2, <4>3 DEF IInv
    <3>6. CASE req[q].op \in {"capture", "void"}
      <4>1. Holds(q) /\ ~confirmed /\ \A p \in Requests : ~Holds(p)'
        BY <3>1, <3>6
           DEF IInv, OneClaimAtATime, ConfirmedStaysCaptured, Holds, Idle
      <4>2. status' # "absent"
        BY <3>1, <3>6 DEF IInv, PreviousOK, Holds
      <4>3. BeforeTheRow'
        BY <3>1, <3>4, <4>2 DEF IInv, BeforeTheRow, Idle
      <4>4. OneClaimAtATime' /\ ConfirmedStaysCaptured'
        BY <3>1, <4>1 DEF OneClaimAtATime, ConfirmedStaysCaptured
      <4>5. QED
        BY <3>3, <4>3, <4>4 DEF IInv
    <3>7. QED
      BY <3>2, <3>5, <3>6
  <2>7. CASE Complete(q)
    <3>1. req'[q] = Idle /\ Others /\ UNCHANGED status
      BY <2>0, <2>7, Ended DEF Complete
    <3>2. CASE req[q].op # "capture"
      <4>1. confirmed' = confirmed
        BY <2>0, <2>7, <3>2 DEF Complete, TypeOK
      <4>2. QED
        BY <2>0, <2>7, <3>1, <4>1, QuietStep DEF Complete, gatewayVars, NoLateAuthorization
    <3>3. CASE req[q].op = "capture"
      <4>1. Holds(q) /\ status # "authorized" /\ \A p \in Requests : ~Holds(p)'
        BY <3>1, <3>3 DEF IInv, OneClaimAtATime, Holds, Idle
      <4>2. status # "absent"
        BY <3>3 DEF IInv, BeforeTheRow
      <4>3. NoLateAuthorization' /\ PreviousOK'
        BY <2>7, <3>1 DEF IInv, NoLateAuthorization, PreviousOK, Holds, Complete, gatewayVars,
                          Idle
      <4>4. BeforeTheRow'
        BY <3>1, <4>2 DEF IInv, BeforeTheRow, Idle
      <4>5. OneClaimAtATime' /\ ConfirmedStaysCaptured'
        BY <3>1, <4>1 DEF OneClaimAtATime, ConfirmedStaysCaptured
      <4>6. QED
        BY <4>3, <4>4, <4>5 DEF IInv
    <3>4. QED
      BY <3>2, <3>3
  <2>8. ASSUME req[q].at = "gateway",
               Resume(q, "success") \/ Resume(q, "failure")
        PROVE  /\ Others /\ req'[q].op = req[q].op /\ req'[q].prev = req[q].prev
               /\ req'[q].at # "claim"
    <3>1. req[q] \in Request /\ req[q].op \in Ops
      BY <2>0, <2>8, BusyRequest
    <3>2. QED
      BY <2>0, <2>8, <3>1, Resumed
  <2>9. CASE GatewayAccepts(q)
    <3>1. "authorized" \notin events'
      BY <2>0, <2>9 DEF GatewayAccepts, CarryOut, NoLateAuthorization
    <3>2. QED
      BY <2>8, <2>9, <3>1, QuietStep DEF GatewayAccepts
  <2>10. CASE GatewayReplays(q)
    BY <2>0, <2>8, <2>10, QuietStep DEF GatewayReplays, gatewayVars, NoLateAuthorization
  <2>11. CASE GatewayRefuses(q)
    BY <2>0, <2>8, <2>11, QuietStep DEF GatewayRefuses, NoLateAuthorization
  <2>12. ASSUME NEW event \in Events, DeliverEvent(q, event) PROVE IInv'
    <3> DEFINE x == [op |-> event, at |-> "write", amount |-> 0, total |-> 0,
                     prev |-> status]
    <3>1. x \in Request
      BY <2>0 DEF Request, TypeOK
    <3>2. req'[q] = x /\ Others
      BY <2>0, <2>12, <3>1, Started DEF DeliverEvent
    <3>3. /\ event \in {"succeeded", "failed", "canceled", "partlyRefunded", "fullyRefunded"}
          /\ status # "absent" /\ UNCHANGED <<status, confirmed, events>>
      BY <2>0, <2>12 DEF DeliverEvent, NoLateAuthorization, Events, EventStatus, gatewayVars
    <3>4. NoLateAuthorization' /\ PreviousOK'
      BY <3>2, <3>3 DEF IInv, NoLateAuthorization, PreviousOK, Holds
    <3>5. BeforeTheRow'
      BY <3>2, <3>3 DEF IInv, BeforeTheRow
    <3>6. OneClaimAtATime' /\ ConfirmedStaysCaptured'
      BY <3>2, <3>3 DEF IInv, OneClaimAtATime, ConfirmedStaysCaptured, Holds
    <3>7. QED
      BY <3>4, <3>5, <3>6 DEF IInv
  <2>13. CASE ApplyEvent(q)
    <3>1. req'[q] = Idle /\ Others /\ UNCHANGED confirmed
      BY <2>0, <2>13, Ended DEF ApplyEvent
    <3>2. req[q].op \in Events /\ req[q].op # "authorized"
      BY <2>0, <2>13, BusyRequest DEF ApplyEvent, NoLateAuthorization
    <3>3. status' \notin {"absent", "authorized"}
      BY <2>13, <3>2 DEF ApplyEvent, Events, EventStatus
    <3>4. status # "absent"
      BY <3>2 DEF IInv, BeforeTheRow, Events, EventStatus
    <3>5. NoLateAuthorization' /\ PreviousOK'
      BY <2>13, <3>1 DEF IInv, NoLateAuthorization, PreviousOK, Holds, ApplyEvent, gatewayVars,
                         Idle
    <3>6. BeforeTheRow'
      BY <3>1, <3>3, <3>4 DEF IInv, BeforeTheRow, Idle
    <3>7. OneClaimAtATime' /\ ConfirmedStaysCaptured'
      BY <3>1, <3>3 DEF IInv, OneClaimAtATime, ConfirmedStaysCaptured, Holds, Idle
    <3>8. QED
      BY <3>5, <3>6, <3>7 DEF IInv
  <2>14. CASE Abort(q)
    BY <2>0, <2>14, Ended, QuietStep DEF Abort, gatewayVars, NoLateAuthorization
  <2>15. QED
    BY <1>3, <2>1, <2>2, <2>3, <2>4, <2>5, <2>6, <2>7, <2>9, <2>10, <2>11, <2>12,
       <2>13, <2>14 DEF Handler, Capture, Void
<1>4. QED
  BY <1>2, <1>3 DEF Next

LEMMA Invariant ==
  ASSUME ~Instapay
  PROVE  Spec => []IInv
<1>1. IInv /\ [Next]_vars => IInv'
  BY InvStep
<1>2. QED
  BY InvInit, <1>1, PTL DEF Spec

\* Of all the captures and voids of a payment, from however many requests, at
\* most one at a time is past its claim.
THEOREM ClaimIsExclusive ==
  ASSUME ~Instapay
  PROVE  Spec => []OneClaimAtATime
<1>1. IInv => OneClaimAtATime
  BY DEF IInv
<1>2. QED
  BY <1>1, Invariant, PTL

\* Once the gateway has confirmed a capture to its handler, no late revert puts
\* the payment back to authorized.
THEOREM CaptureIsFinal ==
  ASSUME ~Instapay
  PROVE  Spec => []ConfirmedStaysCaptured
<1>1. IInv => ConfirmedStaysCaptured
  BY DEF IInv
<1>2. QED
  BY <1>1, Invariant, PTL

-----------------------------------------------------------------------------
(* Refunds that are never in flight together.                              *)

\* A refund in flight is through once the refunds come to its total; the keys the gateway
\* has answered, and the successes a handler has seen, come to no more than it has paid back.
RefundsAccounted ==
  /\ booked <= refunded
  /\ \A p, q \in Refunding(req) : p = q
  /\ \A q \in Refunding(req) :
       /\ req[q].total = booked + req[q].amount
       /\ req[q].at = "success" => req[q].total <= refunded
  /\ \A t \in 0..Amount : <<"refund", t>> \in answered => t <= refunded

LRInv == TypeOK /\ crowded \in BOOLEAN /\ (crowded \/ RefundsAccounted)

\* The accounts stand if no refund begins, and those in flight stay what they are.
LEMMA RefundsAside ==
  ASSUME TypeOK, RefundsAccounted, UNCHANGED <<booked, refunded>>,
         \A q \in Refunding(req') : q \in Refunding(req) /\ req'[q].amount = req[q].amount
                                    /\ req'[q].total = req[q].total,
         \A q \in Refunding(req') : req'[q].at = "success" => req'[q].total <= refunded,
         \A t \in 0..Amount : <<"refund", t>> \in answered' => <<"refund", t>> \in answered
  PROVE  RefundsAccounted'
BY DEF RefundsAccounted

LEMMA RefundStep ==
  ASSUME TypeOK, RefundsAccounted, NEW q \in Requests, Handler(q),
         \A p, r \in Refunding(req') : p = r
  PROVE  RefundsAccounted'
<1> USE PaymentAssumption DEF Refunding
<1>1. /\ booked \in Nat /\ refunded \in 0..Amount /\ Amount \in Nat
      /\ answered \subseteq Ops \X (0..Amount)
  BY DEF TypeOK
<1>2. ASSUME NEW x \in Request, x.op # "refund", Start(q, x), UNCHANGED <<booked, gatewayVars>>
      PROVE  RefundsAccounted'
  <2>1. req'[q] = x /\ \A p \in Requests : p # q => req'[p] = req[p]
    BY <1>2, Started
  <2>2. QED
    BY <1>2, <2>1, RefundsAside DEF gatewayVars, RefundsAccounted
<1>3. ASSUME End(q), UNCHANGED <<booked, gatewayVars>> PROVE RefundsAccounted'
  <2>1. req'[q].op = "idle" /\ \A p \in Requests : p # q => req'[p] = req[p]
    BY <1>3, Ended DEF Idle
  <2>2. QED
    BY <1>3, <2>1, RefundsAside DEF gatewayVars, RefundsAccounted
<1>4. ASSUME req[q].at \in {"claim", "gateway"}, NEW at \in {"gateway", "success", "failure"}, Resume(q, at)
      PROVE  /\ req[q] \in Request /\ req[q].op \in Ops
             /\ req'[q].op = req[q].op /\ req'[q].at = at
             /\ req'[q].amount = req[q].amount /\ req'[q].total = req[q].total
             /\ \A p \in Requests : p # q => req'[p] = req[p]
             /\ req[q].amount \in 0..Amount /\ req[q].total \in 0..Amount
  <2>1. req[q] \in Request /\ req[q].op \in Ops /\ req[q].amount \in 0..Amount /\ req[q].total \in 0..Amount
    BY <1>4, BusyRequest
  <2>2. req' = [req EXCEPT ![q] = [req[q] EXCEPT !.at = at]]
    BY <1>4 DEF Resume
  <2>3. /\ [req[q] EXCEPT !.at = at].op = req[q].op /\ [req[q] EXCEPT !.at = at].at = at
        /\ [req[q] EXCEPT !.at = at].amount = req[q].amount
        /\ [req[q] EXCEPT !.at = at].total = req[q].total
    BY <2>1 DEF Request, Ops, Events, EventStatus
  <2>4. QED
    BY <2>1, <2>2, <2>3 DEF TypeOK
<1>5. CASE Authorize(q)
  <2>1. [op |-> "authorize", at |-> "gateway", amount |-> 0, total |-> 0, prev |-> "absent"] \in Request
    BY DEF Request, Ops, PaymentStatus
  <2>2. QED
    BY <1>2, <1>5, <2>1 DEF Authorize
<1>6. CASE Capture(q) \/ Void(q)
  <2>1. \A op \in {"capture", "void"} :
          [op |-> op, at |-> "gateway", amount |-> 0, total |-> 0, prev |-> "authorized"] \in Request
    BY DEF Request, Ops, PaymentStatus
  <2>2. QED
    BY <1>2, <1>6, <2>1 DEF Capture, Void, Claim
<1>7. ASSUME NEW amount \in 1..Amount, Refund(q, amount) PROVE RefundsAccounted'
  <2> DEFINE x == [op |-> "refund", at |-> "claim", amount |-> amount,
                   total |-> booked + amount, prev |-> status]
  <2>1. x \in Request
    BY <1>1, <1>7 DEF Refund, WithinRemaining, Request, Ops, TypeOK
  <2>2. /\ req'[q] = x /\ \A p \in Requests : p # q => req'[p] = req[p]
        /\ UNCHANGED <<booked, refunded, answered>>
    BY <1>7, <2>1, Started DEF Refund, gatewayVars
  <2>3. \A p \in Refunding(req') : p = q
    BY <2>2
  <2>4. QED
    BY <2>2, <2>3 DEF RefundsAccounted
<1>8. CASE ClaimRefund(q)
  <2>1. CASE status = req[q].prev
    <3>1. Resume(q, "gateway") /\ UNCHANGED <<booked, refunded, answered>> /\ req[q].at = "claim"
      BY <1>8, <2>1 DEF ClaimRefund, gatewayVars
    <3>2. QED
      BY <1>4, <3>1, RefundsAside DEF RefundsAccounted
  <2>2. CASE status # req[q].prev
    BY <1>3, <1>8, <2>2 DEF ClaimRefund
  <2>3. QED
    BY <2>1, <2>2
<1>9. CASE Complete(q)
  <2>1. /\ req'[q].op = "idle" /\ \A p \in Requests : p # q => req'[p] = req[p]
        /\ UNCHANGED <<refunded, answered>>
    BY <1>9, Ended DEF Complete, Idle, gatewayVars
  <2>2. CASE req[q].op = "refund"
    <3>1. Refunding(req') = {}
      BY <2>1, <2>2 DEF RefundsAccounted
    <3>2. booked' = booked + req[q].amount /\ booked' <= refunded
      BY <1>9, <2>2 DEF Complete, RefundsAccounted
    <3>3. QED
      BY <2>1, <3>1, <3>2 DEF RefundsAccounted
  <2>3. CASE req[q].op # "refund"
    BY <1>3, <1>9, <2>3 DEF Complete
  <2>4. QED
    BY <2>2, <2>3
<1>10. CASE GatewayAccepts(q)
  <2>1. PICK at \in {"success", "failure"} : req[q].at = "gateway" /\ Resume(q, at)
    BY <1>10 DEF GatewayAccepts
  <2>2. /\ CarryOut(req[q]) /\ booked' = booked /\ answered' = answered \cup {<<req[q].op, req[q].total>>}
    BY <1>10 DEF GatewayAccepts, CarryOut, IdempotencyKey
  <2>3. /\ req'[q].op = req[q].op /\ req'[q].amount = req[q].amount /\ req'[q].total = req[q].total
        /\ req[q].amount \in 0..Amount /\ req[q].total \in 0..Amount
        /\ \A p \in Requests : p # q => req'[p] = req[p]
    BY <1>4, <2>1
  <2>4. CASE req[q].op = "refund"
    <3>1. refunded' = refunded + req[q].amount
      BY <2>2, <2>4 DEF CarryOut
    <3>2. req[q].total = booked + req[q].amount /\ booked <= refunded
      BY <2>4 DEF RefundsAccounted
    <3>3. \A p \in Refunding(req') : p = q
      BY <2>3, <2>4 DEF RefundsAccounted
    <3>4. \A t \in 0..Amount : <<"refund", t>> \in answered' => t <= refunded'
      <4>1. SUFFICES ASSUME NEW t \in 0..Amount, <<"refund", t>> \in answered' PROVE t <= refunded'
        OBVIOUS
      <4>2. CASE <<"refund", t>> \in answered
        <5>1. t <= refunded
          BY <4>2 DEF RefundsAccounted
        <5>2. QED
          BY <1>1, <2>3, <3>1, <5>1
      <4>3. CASE t = req[q].total
        BY <1>1, <2>3, <3>1, <3>2, <4>3
      <4>4. QED
        BY <2>2, <4>1, <4>2, <4>3
    <3>5. QED
      BY <1>1, <2>2, <2>3, <3>1, <3>2, <3>3, <3>4 DEF RefundsAccounted
  <2>5. CASE req[q].op # "refund"
    <3>1. refunded' = refunded
      BY <2>2, <2>5 DEF CarryOut
    <3>2. \A t \in 0..Amount : <<"refund", t>> \in answered' => <<"refund", t>> \in answered
      BY <2>2, <2>5
    <3>3. QED
      BY <2>2, <2>3, <2>5, <3>1, <3>2, RefundsAside DEF RefundsAccounted
  <2>6. QED
    BY <2>4, <2>5
<1>11. CASE GatewayReplays(q)
  <2>1. /\ req[q].at = "gateway" /\ Resume(q, "success") /\ <<req[q].op, req[q].total>> \in answered
        /\ UNCHANGED <<booked, refunded, answered>>
    BY <1>11 DEF GatewayReplays, IdempotencyKey, gatewayVars
  <2>2. /\ req'[q].op = req[q].op /\ req'[q].amount = req[q].amount /\ req'[q].total = req[q].total
        /\ req[q].total \in 0..Amount /\ \A p \in Requests : p # q => req'[p] = req[p]
    BY <1>4, <2>1
  <2>3. req[q].op = "refund" => req[q].total <= refunded
    BY <2>1, <2>2 DEF RefundsAccounted
  <2>4. QED
    BY <2>1, <2>2, <2>3, RefundsAside DEF RefundsAccounted
<1>12. CASE GatewayRefuses(q)
  <2>1. /\ req[q].at = "gateway" /\ Resume(q, "failure") /\ UNCHANGED <<booked, refunded, answered>>
    BY <1>12 DEF GatewayRefuses
  <2>2. /\ req'[q].op = req[q].op /\ req'[q].amount = req[q].amount /\ req'[q].total = req[q].total
        /\ req'[q].at = "failure" /\ \A p \in Requests : p # q => req'[p] = req[p]
    BY <1>4, <2>1
  <2>3. QED
    BY <2>1, <2>2, RefundsAside DEF RefundsAccounted
<1>13. ASSUME NEW event \in Events, DeliverEvent(q, event) PROVE RefundsAccounted'
  <2>1. [op |-> event, at |-> "write", amount |-> 0, total |-> 0, prev |-> status] \in Request
    BY DEF Request, TypeOK
  <2>2. event # "refund"
    BY DEF Events, EventStatus
  <2>3. QED
    BY <1>2, <1>13, <2>1, <2>2 DEF DeliverEvent
<1>14. CASE InsertPayment(q) \/ Revert(q) \/ ApplyEvent(q) \/ Abort(q)
  BY <1>3, <1>14 DEF InsertPayment, Revert, ApplyEvent, Abort
<1>15. QED
  BY <1>5, <1>6, <1>7, <1>8, <1>9, <1>10, <1>11, <1>12, <1>13, <1>14 DEF Handler

LEMMA LRInit == MCInit => LRInv
<1> SUFFICES ASSUME MCInit PROVE LRInv
  OBVIOUS
<1>1. TypeOK /\ crowded = FALSE
  BY TypeInit DEF MCInit
<1>2. Refunding(req) = {}
  BY DEF MCInit, Init, Refunding, Idle
<1>3. RefundsAccounted
  BY <1>2 DEF MCInit, Init, RefundsAccounted
<1>4. QED
  BY <1>1, <1>3 DEF LRInv

LEMMA LRStep == LRInv /\ [MCNext]_<<vars, crowded>> => LRInv'
<1> SUFFICES ASSUME LRInv, [MCNext]_<<vars, crowded>> PROVE LRInv'
  OBVIOUS
<1>1. TypeOK'
  BY TypeStep DEF LRInv, MCNext
<1>2. CASE UNCHANGED <<vars, crowded>>
  BY <1>1, <1>2 DEF LRInv, RefundsAccounted, Refunding, vars
<1>3. CASE MCNext
  <2>1. crowded' = (crowded \/ \E p, q \in Refunding(req') : p # q)
    BY <1>3 DEF MCNext
  <2>2. CASE crowded'
    BY <1>1, <2>1, <2>2 DEF LRInv
  <2>3. CASE ~crowded'
    <3>1. TypeOK /\ RefundsAccounted /\ \A p, r \in Refunding(req') : p = r
      BY <2>1, <2>3 DEF LRInv
    <3>2. PICK q \in Requests : Handler(q)
      BY <1>3 DEF MCNext, Next
    <3>3. RefundsAccounted'
      BY <3>1, <3>2, RefundStep
    <3>4. QED
      BY <1>1, <2>1, <3>3 DEF LRInv
  <2>4. QED
    BY <2>2, <2>3
<1>4. QED
  BY <1>2, <1>3

\* Whatever answers are lost, replayed or refused: while no two refunds of a payment are in
\* flight together, what is booked as refunded the gateway has paid back.
THEOREM LoneRefunds == MCSpec => []LoneRefundsWereMade
<1>1. LRInv => LoneRefundsWereMade
  BY DEF LRInv, RefundsAccounted, LoneRefundsWereMade, BookedRefundsWereMade
<1>2. QED
  BY <1>1, LRInit, LRStep, PTL DEF MCSpec
=============================================================================
