--------------------------------- MODULE Folio ---------------------------------
(***************************************************************************)
(* Folios and their running balance: charges, payments, reversals,         *)
(* transfers between folios, the city ledger, settling and closing.        *)
(*                                                                         *)
(* The rows of a folio are kept as the sums that recalculateBalance asks   *)
(* the database for.  Most handlers run without a transaction: insert      *)
(* rows, sum the charges, sum the payments, store the balance, each in a   *)
(* statement of its own.  Only a transfer holds row locks (SELECT ... FOR  *)
(* UPDATE) on its folios; a statement that inserts a row for a locked      *)
(* folio, or updates the folio, waits.                                     *)
(***************************************************************************)
EXTENDS Integers, FiniteSets

CONSTANTS
  Folios,     \* folio ids, ordered as their uuids are
  Requests,   \* handlers in flight at once
  NoRequest,  \* nobody holds the row lock
  Amounts,    \* amounts of charges, taxes and payments, in cents
  MaxStarts   \* bound: handlers started in all

ASSUME FolioAssumption ==
  /\ Folios \subseteq Nat \ {0}
  /\ NoRequest \notin Requests
  /\ Amounts \subseteq Nat \ {0}
  /\ MaxStarts \in Nat

VARIABLES
  status,    \* folios.status; "none" before the folio is created
  balance,   \* folios.balance
  charged,   \* sum of the folio's charge rows, taxes and reversals among them
  held,      \* sum of its authorized payments
  captured,  \* sum of its captured payments
  refunded,  \* sum of its payments that are refunded or partially_refunded
  paidBack,  \* sum of its refund rows, which are captured and negative
  holder,    \* the transfer that holds the folio's row lock
  req,       \* handlers in flight
  started,   \* handlers started so far
  stale      \* folios whose stored balance may have missed a row (history)

vars == <<status, balance, charged, held, captured, refunded, paidBack,
          holder, req, started, stale>>

payments == <<held, captured, refunded, paidBack>>

FolioStatus == {"none", "open", "settled", "closed"}

Ops == {"postCharge", "reverseCharge", "recordPayment", "authorizePayment",
        "capturePayment", "voidPayment", "refundPayment", "settle", "close",
        "transferCharge", "transferToCityLedger"}

Steps == {"insertCharge", "insertTax", "sumCharges", "sumPayments", "store",
          "insertPayment", "gateway", "countPending", "writeStatus",
          "lockFirst", "lockSecond", "readCharge", "moveCharge", "ledger"}

Idle == [op |-> "idle", at |-> "idle", folio |-> 0, target |-> 0,
         amount |-> 0, claim |-> 0, charged |-> 0, paid |-> 0, alone |-> TRUE]

\* A handler at work: its folio (and a transfer's target), its amount, what its
\* claim on a payment has moved, the sums it has read, and whether it has had the
\* folio to itself so far (history).
Request(op, at, f, amount) ==
  [op |-> op, at |-> at, folio |-> f, target |-> f,
   amount |-> amount, claim |-> 0, charged |-> 0, paid |-> 0, alone |-> TRUE]

Init ==
  /\ status \in [Folios -> {"none", "open"}]
  /\ balance = [f \in Folios |-> 0]
  /\ charged = [f \in Folios |-> 0]
  /\ held = [f \in Folios |-> 0]
  /\ captured = [f \in Folios |-> 0]
  /\ refunded = [f \in Folios |-> 0]
  /\ paidBack = [f \in Folios |-> 0]
  /\ holder = [f \in Folios |-> NoRequest]
  /\ req = [q \in Requests |-> Idle]
  /\ started = 0 /\ stale = {}

-----------------------------------------------------------------------------
(* Requests, locks and history.                                            *)

\* The sum of the rows with status captured.
Paid(f) == captured[f] - paidBack[f]

Touches(r, f) == f \in {r.folio, r.target}

Working(q, f) == req[q] # Idle /\ Touches(req[q], f)

\* Transfers queue for the folio's row lock; all other handlers mix freely.
Mixes(r, p, f) ==
  Working(p, f) /\ ~(r.op = "transferCharge" /\ req[p].op = "transferCharge")

Start(q, r) ==
  LET mixed == {p \in Requests : \E f \in Folios : Touches(r, f) /\ Mixes(r, p, f)}
  IN /\ req[q] = Idle
     /\ started < MaxStarts /\ started' = started + 1
     /\ req' = [p \in Requests |->
                  IF p = q THEN [r EXCEPT !.alone = (mixed = {})]
                  ELSE IF p \in mixed THEN [req[p] EXCEPT !.alone = FALSE]
                  ELSE req[p]]
     /\ stale' = stale \cup {f \in Folios : Touches(r, f) /\ \E p \in Requests : Mixes(r, p, f)}

Resume(q, at) == req' = [req EXCEPT ![q].at = at]

\* The handler returns or throws.
End(q) == req' = [req EXCEPT ![q] = Idle]

\* A transaction ends, and its locks with it.
Release(q) == holder' = [f \in Folios |-> IF holder[f] = q THEN NoRequest ELSE holder[f]]

\* No lock keeps q from inserting a row for folio f, or updating it.
Unlocked(f) == holder[f] = NoRequest

Add(sum, f, amount) == [sum EXCEPT ![f] = @ + amount]

-----------------------------------------------------------------------------
(* Charges.                                                                *)

\* postCharge of a charge, or of a reversal, on an open folio.
PostCharge(q, f, amount) ==
  /\ status[f] = "open"
  /\ Start(q, Request("postCharge", "insertCharge", f, amount))
  /\ UNCHANGED <<status, balance, charged, payments, holder>>

\* reverseCharge of an unlocked charge that has not been reversed, on a folio of
\* any status.
ReverseCharge(q, f, amount) ==
  /\ status[f] # "none"
  /\ Start(q, Request("reverseCharge", "insertCharge", f, -amount))
  /\ UNCHANGED <<status, balance, charged, payments, holder>>

InsertCharge(q) ==
  LET r == req[q]
  IN /\ r.at = "insertCharge" /\ Unlocked(r.folio)
     /\ charged' = Add(charged, r.folio, r.amount)
     /\ Resume(q, "insertTax")
     /\ UNCHANGED <<status, balance, payments, holder, started, stale>>

\* A new charge is followed by its taxes, a reversal by the reversals of the
\* taxes of its charge; untaxed charges and posted reversals have none.
InsertTax(q) ==
  LET r == req[q]
      sign == IF r.op = "reverseCharge" THEN -1 ELSE 1
  IN /\ r.at = "insertTax"
     /\ \/ UNCHANGED charged
        \/ /\ r.op = "reverseCharge" \/ r.amount > 0
           /\ Unlocked(r.folio)
           /\ \E tax \in Amounts : charged' = Add(charged, r.folio, sign * tax)
     /\ Resume(q, "sumCharges")
     /\ UNCHANGED <<status, balance, payments, holder, started, stale>>

-----------------------------------------------------------------------------
(* recalculateBalance outside a transaction.                               *)

SumCharges(q) ==
  /\ req[q].at = "sumCharges"
  /\ req' = [req EXCEPT ![q] = [@ EXCEPT !.at = "sumPayments",
                                         !.charged = charged[req[q].folio]]]
  /\ UNCHANGED <<status, balance, charged, payments, holder, started, stale>>

SumPayments(q) ==
  /\ req[q].at = "sumPayments"
  /\ req' = [req EXCEPT ![q] = [@ EXCEPT !.at = "store", !.paid = Paid(req[q].folio)]]
  /\ UNCHANGED <<status, balance, charged, payments, holder, started, stale>>

StoreBalance(q) ==
  LET r == req[q]
  IN /\ r.at = "store" /\ Unlocked(r.folio)
     /\ balance' = [balance EXCEPT ![r.folio] = r.charged - r.paid]
     /\ End(q)
     /\ stale' = IF r.alone THEN stale \ {r.folio} ELSE stale
     /\ UNCHANGED <<status, charged, payments, holder, started>>

-----------------------------------------------------------------------------
(* Payments.  CardPayment models how the claims on one payment race at the  *)
(* gateway; here it matters what they leave on the folio, so a refund waits *)
(* for the captures of its folio to be confirmed.                          *)

\* recordPayment and authorizePayment ask for an open folio.
RecordPayment(q, op, f, amount) ==
  /\ op \in {"recordPayment", "authorizePayment"}
  /\ status[f] = "open"
  /\ Start(q, Request(op, "insertPayment", f, amount))
  /\ UNCHANGED <<status, balance, charged, payments, holder>>

\* An authorization is a hold: the balance is not recalculated.
InsertPayment(q) ==
  LET r == req[q]
  IN /\ r.at = "insertPayment" /\ Unlocked(r.folio)
     /\ \/ /\ r.op = "recordPayment"
           /\ captured' = Add(captured, r.folio, r.amount)
           /\ Resume(q, "sumCharges") /\ UNCHANGED held
        \/ /\ r.op = "authorizePayment"
           /\ held' = Add(held, r.folio, r.amount)
           /\ End(q) /\ UNCHANGED captured
     /\ UNCHANGED <<status, balance, charged, refunded, paidBack, holder, started, stale>>

Claimable(f, amount) == amount <= held[f]

Capturing(f) == \E p \in Requests : req[p].op = "capturePayment" /\ req[p].folio = f

\* A capture or a void claims an authorized payment.
ClaimPayment(q, f, amount) ==
  /\ Claimable(f, amount)
  /\ held' = Add(held, f, -amount)
  /\ \/ /\ Start(q, [Request("capturePayment", "gateway", f, amount) EXCEPT !.claim = amount])
        /\ captured' = Add(captured, f, amount)
     \/ /\ Start(q, Request("voidPayment", "gateway", f, amount))
        /\ UNCHANGED captured
  /\ UNCHANGED <<status, balance, charged, refunded, paidBack, holder>>

\* A refund claims a captured payment, which is no longer counted as captured
\* from then on, or one that is partly refunded already.
ClaimRefund(q, f, amount, payment) ==
  /\ \/ /\ amount <= payment /\ payment <= captured[f] /\ ~Capturing(f)
        /\ Start(q, [Request("refundPayment", "gateway", f, amount) EXCEPT !.claim = payment])
        /\ captured' = Add(captured, f, -payment)
        /\ refunded' = Add(refunded, f, payment)
     \/ /\ amount + paidBack[f] <= refunded[f]
        /\ Start(q, Request("refundPayment", "gateway", f, amount))
        /\ UNCHANGED <<captured, refunded>>
  /\ UNCHANGED <<status, balance, charged, held, paidBack, holder>>

\* The gateway said yes; a refund is booked as a negative, captured payment.
GatewayAccepts(q) ==
  LET r == req[q]
  IN /\ r.at = "gateway"
     /\ \/ /\ r.op = "refundPayment" /\ Unlocked(r.folio)
           /\ paidBack' = Add(paidBack, r.folio, r.amount)
           /\ Resume(q, "sumCharges")
        \/ r.op = "capturePayment" /\ Resume(q, "sumCharges") /\ UNCHANGED paidBack
        \/ r.op = "voidPayment" /\ End(q) /\ UNCHANGED paidBack
     /\ UNCHANGED <<status, balance, charged, held, captured, refunded, holder, started, stale>>

\* It said no: the claim is undone, and the balance is not looked at.
GatewayRefuses(q) ==
  LET r == req[q]
  IN /\ r.at = "gateway"
     /\ \/ /\ r.op \in {"capturePayment", "voidPayment"}
           /\ held' = Add(held, r.folio, r.amount)
           /\ captured' = Add(captured, r.folio, -r.claim)
           /\ UNCHANGED refunded
        \/ /\ r.op = "refundPayment"
           /\ captured' = Add(captured, r.folio, r.claim)
           /\ refunded' = Add(refunded, r.folio, -r.claim)
           /\ UNCHANGED held
     /\ End(q)
     /\ UNCHANGED <<status, balance, charged, paidBack, holder, started, stale>>

-----------------------------------------------------------------------------
(* Settling and closing.                                                   *)

\* A balance of up to a cent either way counts as zero.
InBalance(amount) == amount \in -1..1

\* settle reads an open folio whose balance is zero.
Settle(q, f) ==
  /\ status[f] = "open" /\ InBalance(balance[f])
  /\ Start(q, Request("settle", "countPending", f, 0))
  /\ UNCHANGED <<status, balance, charged, payments, holder>>

\* Mutant: outstanding authorizations do not matter.
NonePending(f) == FALSE

\* The folio has authorized payments.
Pending(f) == held[f] > 0

CountPending(q) ==
  /\ req[q].at = "countPending"
  /\ IF Pending(req[q].folio) THEN End(q) ELSE Resume(q, "writeStatus")
  /\ UNCHANGED <<status, balance, charged, payments, holder, started, stale>>

\* close reads a settled folio.
Close(q, f) ==
  /\ status[f] = "settled"
  /\ Start(q, Request("close", "writeStatus", f, 0))
  /\ UNCHANGED <<status, balance, charged, payments, holder>>

WriteStatus(q) ==
  LET r == req[q]
  IN /\ r.at = "writeStatus" /\ Unlocked(r.folio)
     /\ status' = [status EXCEPT ![r.folio] = IF r.op = "settle" THEN "settled" ELSE "closed"]
     /\ End(q)
     /\ UNCHANGED <<balance, charged, payments, holder, started, stale>>

-----------------------------------------------------------------------------
(* Transfers.                                                              *)

TransferCharge(q, f, g, amount) ==
  /\ Start(q, [Request("transferCharge", "lockFirst", f, amount) EXCEPT !.target = g])
  /\ UNCHANGED <<status, balance, charged, payments, holder>>

\* Mutant: the source is locked before the target.
SourceFirst(r) == r.folio

\* The folio to lock first: the smaller id.
FirstLock(r) == IF r.folio < r.target THEN r.folio ELSE r.target

SecondLock(r) == IF FirstLock(r) = r.folio THEN r.target ELSE r.folio

Lock(q, f, at) ==
  /\ holder[f] \in {NoRequest, q}
  /\ holder' = [holder EXCEPT ![f] = q]
  /\ Resume(q, at)

LockFirst(q) ==
  /\ req[q].at = "lockFirst"
  /\ Lock(q, FirstLock(req[q]), "lockSecond")
  /\ UNCHANGED <<status, balance, charged, payments, started, stale>>

LockSecond(q) ==
  /\ req[q].at = "lockSecond"
  /\ Lock(q, SecondLock(req[q]), "readCharge")
  /\ UNCHANGED <<status, balance, charged, payments, started, stale>>

\* Both folios must be open, and the charge on the source and not locked by the
\* day close; otherwise the transaction is rolled back.
ReadCharge(q) ==
  LET r == req[q]
  IN /\ r.at = "readCharge"
     /\ \/ /\ status[r.folio] = "open" /\ status[r.target] = "open"
           /\ Resume(q, "moveCharge") /\ UNCHANGED holder
        \/ End(q) /\ Release(q)
     /\ UNCHANGED <<status, balance, charged, payments, started, stale>>

\* Mutant: only the folio that receives the charge is recalculated.
RecalculatesTarget(r, f) == f = r.target

\* The folios whose balances the transaction recalculates.
Recalculates(r, f) == Touches(r, f)

\* The charge moves, both balances are recalculated and the transaction
\* commits: nobody sees anything in between.
MoveCharge(q) ==
  LET r == req[q]
  IN /\ r.at = "moveCharge"
     /\ charged' = IF r.folio = r.target THEN charged
                   ELSE [charged EXCEPT ![r.folio] = @ - r.amount, ![r.target] = @ + r.amount]
     /\ balance' = [f \in Folios |-> IF Recalculates(r, f) THEN charged'[f] - Paid(f)
                                                           ELSE balance[f]]
     /\ End(q) /\ Release(q)
     /\ UNCHANGED <<status, payments, started, stale>>

\* transferToCityLedger reads a folio of any status with a balance to pay.
TransferToCityLedger(q, f) ==
  /\ balance[f] > 0
  /\ Start(q, Request("transferToCityLedger", "ledger", f, balance[f]))
  /\ UNCHANGED <<status, balance, charged, payments, holder>>

\* One transaction: a new folio, a payment of the old one's balance, a matching
\* fee on the new one (with tax, if fees are taxed), and both balances.
CommitLedger(q) ==
  LET r == req[q]
  IN /\ r.at = "ledger" /\ Unlocked(r.folio)
     /\ \E g \in {f \in Folios : status[f] = "none"}, tax \in Amounts \cup {0} :
          /\ status' = [status EXCEPT ![g] = "open"]
          /\ captured' = Add(captured, r.folio, r.amount)
          /\ charged' = Add(charged, g, r.amount + tax)
          /\ balance' = [balance EXCEPT
                           ![r.folio] = charged[r.folio] - (Paid(r.folio) + r.amount),
                           ![g] = r.amount + tax]
     /\ End(q)
     /\ stale' = IF r.alone THEN stale \ {r.folio} ELSE stale
     /\ UNCHANGED <<held, refunded, paidBack, holder, started>>

-----------------------------------------------------------------------------
\* Where a handler may have left rows that the balance does not know of.
Unbooked == {"gateway", "insertTax", "sumCharges", "sumPayments", "store"}

\* A handler throws or is cut off where it is: a transaction is rolled back,
\* the rows of the others stay.
Abort(q) ==
  LET r == req[q]
  IN /\ r # Idle
     /\ End(q) /\ Release(q)
     /\ stale' = IF r.at \in Unbooked THEN stale \cup {r.folio} ELSE stale
     /\ UNCHANGED <<status, balance, charged, payments, started>>

Handler(q) ==
  \/ \E f \in Folios, amount \in Amounts :
       \/ PostCharge(q, f, amount) \/ PostCharge(q, f, -amount)
       \/ ReverseCharge(q, f, amount)
       \/ \E op \in Ops : RecordPayment(q, op, f, amount)
       \/ ClaimPayment(q, f, amount)
       \/ \E payment \in Amounts : ClaimRefund(q, f, amount, payment)
       \/ \E g \in Folios : TransferCharge(q, f, g, amount)
  \/ \E f \in Folios : Settle(q, f) \/ Close(q, f) \/ TransferToCityLedger(q, f)
  \/ InsertCharge(q) \/ InsertTax(q)
  \/ SumCharges(q) \/ SumPayments(q) \/ StoreBalance(q)
  \/ InsertPayment(q) \/ GatewayAccepts(q) \/ GatewayRefuses(q)
  \/ CountPending(q) \/ WriteStatus(q)
  \/ LockFirst(q) \/ LockSecond(q) \/ ReadCharge(q) \/ MoveCharge(q)
  \/ CommitLedger(q)
  \/ Abort(q)

Next == \E q \in Requests : Handler(q)

Spec == Init /\ [][Next]_vars

-----------------------------------------------------------------------------
(* Properties.                                                             *)

Work == [op : Ops, at : Steps, folio : Folios, target : Folios, amount : Int,
         claim : Int, charged : Int, paid : Int, alone : BOOLEAN]

\* Every variable, and every field of a handler at work, has its type; no more is
\* claimed of authorized payments than there are.
TypeOK ==
  /\ status \in [Folios -> FolioStatus]
  /\ balance \in [Folios -> Int] /\ charged \in [Folios -> Int]
  /\ held \in [Folios -> Nat] /\ captured \in [Folios -> Int]
  /\ refunded \in [Folios -> Int] /\ paidBack \in [Folios -> Nat]
  /\ holder \in [Folios -> Requests \cup {NoRequest}]
  /\ req \in [Requests -> Work \cup {Idle}]
  /\ started \in 0..MaxStarts
  /\ stale \subseteq Folios

\* When nobody is at work on a folio, its stored balance is that of its rows,
\* unless handlers have overlapped on it or one was cut off; and then the next
\* booking that has the folio to itself repairs it.  Overlapping transfers do no
\* harm: the row locks order them.
BalanceMatchesRows ==
  \A f \in Folios : f \notin stale /\ (\A q \in Requests : ~Working(q, f))
    => balance[f] = charged[f] - Paid(f)

\* q waits for a lock that another handler p holds.
WaitsFor(q, p) ==
  /\ p # q
  /\ \/ req[q].at = "lockFirst" /\ holder[FirstLock(req[q])] = p
     \/ req[q].at = "lockSecond" /\ holder[SecondLock(req[q])] = p

\* Transfers never wait for each other in a circle of any length, whichever way they
\* move their charges: of every group of handlers, one waits for none of the others.
NoWaitCycle ==
  \A S \in SUBSET Requests : S # {} /\ IsFiniteSet(S)
    => \E q \in S : \A p \in S : ~WaitsFor(q, p)

\* Unless handlers have mixed on it, a folio is only ever settled when its rows,
\* not just its stored balance, are in balance and no payment is authorized.
SettledInBalance ==
  [][\A q \in Requests :
       WriteStatus(q) /\ req[q].op = "settle" /\ req[q].alone /\ req[q].folio \notin stale
       => InBalance(charged[req[q].folio] - Paid(req[q].folio)) /\ held[req[q].folio] = 0]_vars

-----------------------------------------------------------------------------
(* What the repository says of folios and the code does not keep.          *)

\* Schema: the balance is the running balance of charges and payments.  Once a
\* payment has been refunded, in part or in whole, it no longer counts, but its
\* refunds still count against the guest.
BalanceIsWhatIsOwed ==
  \A f \in Folios : f \notin stale /\ (\A q \in Requests : ~Working(q, f))
    => balance[f] = charged[f] - (captured[f] + refunded[f] - paidBack[f])
=============================================================================
