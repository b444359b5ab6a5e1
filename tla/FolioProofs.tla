------------------------------ MODULE FolioProofs ------------------------------
(***************************************************************************)
(* Proofs about folios: the balance that is stored, the locks of           *)
(* transfers, and what settling a folio means, for every number of folios  *)
(* and handlers.                                                           *)
(***************************************************************************)
EXTENDS Folio, FiniteSetTheorems, WellFoundedInduction, TLAPS

-----------------------------------------------------------------------------
(* The inductive invariant.                                                *)

TransferSteps == {"lockFirst", "lockSecond", "readCharge", "moveCharge"}

PaymentOps == {"recordPayment", "authorizePayment", "capturePayment", "voidPayment",
               "refundPayment"}

\* What an operation's steps are, and which folios and amounts it is about.
RequestOK(r) ==
  /\ r.op = "transferCharge" <=> r.at \in TransferSteps
  /\ r.op # "transferCharge" => r.target = r.folio
  /\ r.at = "gateway" => r.op \in {"capturePayment", "voidPayment", "refundPayment"}
  /\ r.at = "insertPayment" => r.op \in {"recordPayment", "authorizePayment"}
  /\ r.at = "countPending" => r.op = "settle"
  /\ r.op = "settle" => r.at \in {"countPending", "writeStatus"}
  /\ r.op \in PaymentOps => r.amount \in Nat
  /\ r.op = "voidPayment" => r.claim = 0

RequestsOK == \A q \in Requests : req[q] = Idle \/ RequestOK(req[q])

\* A transfer holds the lock it took first, then both.
HeldBy(r, f) ==
  \/ r.at = "lockSecond" /\ f = FirstLock(r)
  \/ r.at \in {"readCharge", "moveCharge"} /\ Touches(r, f)

LocksOK ==
  \A q \in Requests :
    /\ \A f \in Folios : holder[f] = q => HeldBy(req[q], f)
    /\ req[q].at = "lockSecond" => holder[FirstLock(req[q])] = q

\* Nobody but a transfer that has not looked yet knows of a folio that does not
\* exist, and it has no rows.
UnopenedOK ==
  \A f \in Folios : status[f] = "none" =>
    /\ balance[f] = 0 /\ charged[f] = 0 /\ held[f] = 0
    /\ captured[f] = 0 /\ refunded[f] = 0 /\ paidBack[f] = 0
    /\ \A q \in Requests : Touches(req[q], f) => req[q].op = "transferCharge"
                                                 /\ req[q].at # "moveCharge"

Transfer(r) == r.op = "transferCharge"

\* A handler that has had its folios to itself has them to itself still.
AloneOK ==
  \A q, p \in Requests, f \in Folios :
    q # p /\ Touches(req[q], f) /\ Touches(req[p], f) /\ req[q].alone
      => Transfer(req[q]) /\ Transfer(req[p])

\* The folio of one that has not is not to be trusted.
MixedOK ==
  \A q \in Requests, f \in Folios :
    Touches(req[q], f) /\ ~Transfer(req[q]) /\ ~req[q].alone => f \in stale

\* A handler that has had its folio to itself has summed the rows there are.
SumsAgree(r, c, p) ==
  /\ r.at = "sumPayments" => r.charged = c
  /\ r.at = "store" => r.charged - r.paid = c - p

SumsOK ==
  \A q \in Requests, f \in Folios :
    Touches(req[q], f) /\ ~Transfer(req[q]) /\ req[q].alone
      => SumsAgree(req[q], charged[f], Paid(f))

\* How the balance b, the charges c, the holds h and the payments p of a folio relate
\* while a handler is at work on it.
BooksAgree(r, b, c, h, p) ==
  /\ r.at \in {"insertCharge", "insertPayment", "countPending", "writeStatus", "ledger"}
       => b = c - p
  /\ r.at = "gateway" /\ r.op = "refundPayment" => b = c - (p + r.claim)
  /\ r.at = "gateway" /\ r.op # "refundPayment" => b = c - (p - r.claim)
  /\ r.op = "settle" => InBalance(b)
  /\ r.op = "settle" /\ r.at = "writeStatus" => h = 0

Balanced(f) == balance[f] = charged[f] - Paid(f)

BalancesOK ==
  \A f \in Folios \ stale :
    /\ (\A q \in Requests : Touches(req[q], f) => Transfer(req[q])) => Balanced(f)
    /\ \A q \in Requests : Touches(req[q], f) /\ ~Transfer(req[q])
         => BooksAgree(req[q], balance[f], charged[f], held[f], Paid(f))

IInv ==
  /\ TypeOK /\ RequestsOK /\ LocksOK /\ UnopenedOK
  /\ AloneOK /\ MixedOK /\ SumsOK /\ BalancesOK

-----------------------------------------------------------------------------
(* What happens to the handlers.                                           *)

LEMMA IdleIsNoWork == Idle \notin Work /\ \A f \in Folios : ~Touches(Idle, f)
BY FolioAssumption DEF Idle, Work, Ops, Touches

\* A handler that goes on, or returns, and the folio it may have put right.
Goes(q, x) ==
  /\ req' = [req EXCEPT ![q] = x]
  /\ req[q] # Idle
  /\ x = Idle \/ /\ x \in Work /\ RequestOK(x)
                 /\ x.op = req[q].op /\ x.alone = req[q].alone
                 /\ x.folio = req[q].folio /\ x.target = req[q].target
  /\ stale' \in SUBSET Folios
  /\ \A f \in stale \ stale' :
       req[q].alone /\ ~Transfer(req[q]) /\ f = req[q].folio /\ x = Idle

FirstSteps == {"insertCharge", "insertPayment", "gateway", "countPending", "writeStatus",
               "lockFirst", "ledger"}

\* A handler that begins.
Begins(q, x) ==
  x \in Work /\ RequestOK(x) /\ x.at \in FirstSteps /\ Start(q, x) /\ holder' = holder

LEMMA GoingOn ==
  ASSUME TypeOK, RequestsOK, NEW q \in Requests, NEW x, Goes(q, x)
  PROVE  /\ req' \in [Requests -> Work \cup {Idle}] /\ RequestsOK'
         /\ req'[q] = x /\ \A p \in Requests \ {q} : req'[p] = req[p]
<1>1. req' \in [Requests -> Work \cup {Idle}]
  BY DEF Goes, TypeOK
<1>2. req'[q] = x /\ \A p \in Requests \ {q} : req'[p] = req[p]
  BY DEF Goes, TypeOK
<1>3. RequestsOK'
  BY <1>2 DEF Goes, RequestsOK
<1>4. QED
  BY <1>1, <1>2, <1>3

LEMMA Beginning ==
  ASSUME TypeOK, RequestsOK, NEW q \in Requests, NEW x, Begins(q, x)
  PROVE  /\ req' \in [Requests -> Work \cup {Idle}] /\ RequestsOK'
         /\ req[q] = Idle
         /\ req'[q] = [x EXCEPT !.alone = \A p \in Requests, f \in Folios :
                                            Touches(x, f) => ~Mixes(x, p, f)]
         /\ \A p \in Requests \ {q} :
              req'[p] = IF \E f \in Folios : Touches(x, f) /\ Mixes(x, p, f)
                        THEN [req[p] EXCEPT !.alone = FALSE] ELSE req[p]
         /\ stale' = stale \cup {f \in Folios : Touches(x, f) /\ \E p \in Requests : Mixes(x, p, f)}
         /\ started' \in 0..MaxStarts
<1> DEFINE mixed == {p \in Requests : \E f \in Folios : Touches(x, f) /\ Mixes(x, p, f)}
<1>1. /\ req[q] = Idle /\ started < MaxStarts /\ started' = started + 1
      /\ req' = [p \in Requests |->
                   IF p = q THEN [x EXCEPT !.alone = (mixed = {})]
                   ELSE IF p \in mixed THEN [req[p] EXCEPT !.alone = FALSE]
                   ELSE req[p]]
      /\ stale' = stale \cup {f \in Folios : Touches(x, f) /\ \E p \in Requests : Mixes(x, p, f)}
  BY DEF Begins, Start
<1>2. (mixed = {}) <=> \A p \in Requests, f \in Folios : Touches(x, f) => ~Mixes(x, p, f)
  OBVIOUS
<1>3. req'[q] = [x EXCEPT !.alone = \A p \in Requests, f \in Folios :
                                     Touches(x, f) => ~Mixes(x, p, f)]
  BY <1>1, <1>2, Zenon
<1>4. \A p \in Requests \ {q} : req'[p] = IF p \in mixed THEN [req[p] EXCEPT !.alone = FALSE]
                                          ELSE req[p]
  BY <1>1
<1>5. \A p \in mixed : req[p] \in Work
  BY DEF Mixes, Working, TypeOK
<1>6. req' \in [Requests -> Work \cup {Idle}]
  <2>1. x \in Work
    BY DEF Begins
  <2>2. ASSUME NEW w \in Work, NEW b \in BOOLEAN
        PROVE  [w EXCEPT !.alone = b] \in Work
    BY DEF Work
  <2>3. (mixed = {}) \in BOOLEAN
    OBVIOUS
  <2>4. [x EXCEPT !.alone = (mixed = {})] \in Work
    BY <2>1, <2>2, <2>3
  <2>5. \A p \in mixed : [req[p] EXCEPT !.alone = FALSE] \in Work
    BY <1>5, <2>2
  <2>6. req \in [Requests -> Work \cup {Idle}]
    BY DEF TypeOK
  <2>7. QED
    BY <1>1, <2>4, <2>5, <2>6
<1>7. RequestsOK'
  <2>1. ASSUME NEW w \in Work, RequestOK(w), NEW b \in BOOLEAN
        PROVE  RequestOK([w EXCEPT !.alone = b])
    BY <2>1 DEF RequestOK, Work
  <2>2. RequestOK(req'[q])
    BY <2>1, <1>1, <1>3 DEF Begins
  <2>3. \A p \in mixed : RequestOK([req[p] EXCEPT !.alone = FALSE])
    BY <2>1, <1>5, IdleIsNoWork DEF RequestsOK
  <2>4. QED
    BY <2>2, <2>3, <1>4 DEF RequestsOK
<1>8. started' \in 0..MaxStarts
  BY <1>1, FolioAssumption DEF TypeOK
<1>9. QED
  BY <1>1, <1>3, <1>4, <1>6, <1>7, <1>8

-----------------------------------------------------------------------------
(* Types, and the shape of every step.                                     *)

TypedVars ==
  /\ status \in [Folios -> FolioStatus]
  /\ balance \in [Folios -> Int] /\ charged \in [Folios -> Int]
  /\ held \in [Folios -> Nat] /\ captured \in [Folios -> Int]
  /\ refunded \in [Folios -> Int] /\ paidBack \in [Folios -> Nat]
  /\ holder \in [Folios -> Requests \cup {NoRequest}]

LEMMA AtWork ==
  ASSUME TypeOK, RequestsOK, NEW q \in Requests, req[q].at \in Steps
  PROVE  /\ req[q] \in Work /\ req[q] # Idle /\ RequestOK(req[q])
         /\ req[q].folio \in Folios /\ req[q].target \in Folios
         /\ req[q].op \in Ops /\ req[q].alone \in BOOLEAN
         /\ req[q].amount \in Int /\ req[q].claim \in Int
         /\ req[q].charged \in Int /\ req[q].paid \in Int
<1>1. req[q] # Idle
  BY DEF Idle, Steps
<1>2. req[q] \in Work /\ RequestOK(req[q])
  BY <1>1 DEF TypeOK, RequestsOK
<1>3. QED
  BY <1>1, <1>2 DEF Work

LEMMA InsertChargeStep ==
  ASSUME TypeOK, RequestsOK, NEW q \in Requests, InsertCharge(q)
  PROVE  TypedVars' /\ Goes(q, [req[q] EXCEPT !.at = "insertTax"]) /\ started' = started
<1>1. req[q].at \in Steps
  BY DEF InsertCharge, Steps
<1>2. PICK r \in Work : r = req[q] /\ r # Idle /\ RequestOK(r)
  BY <1>1, AtWork
<1>3. TypedVars'
  <2>1. charged' = [charged EXCEPT ![r.folio] = charged[r.folio] + r.amount]
    BY <1>2 DEF InsertCharge, Add
  <2>2. charged' \in [Folios -> Int]
    BY <1>2, <2>1 DEF TypeOK, Work
  <2>3. QED
    BY <2>2 DEF InsertCharge, TypedVars, TypeOK, payments
<1>4. Goes(q, [req[q] EXCEPT !.at = "insertTax"])
  BY <1>2 DEF InsertCharge, Goes, TypeOK, Work, RequestOK, TransferSteps, Steps, Resume
<1>5. QED
  BY <1>3, <1>4 DEF InsertCharge

LEMMA InsertTaxStep ==
  ASSUME TypeOK, RequestsOK, NEW q \in Requests, InsertTax(q)
  PROVE  TypedVars' /\ Goes(q, [req[q] EXCEPT !.at = "sumCharges"]) /\ started' = started
<1>1. req[q].at \in Steps
  BY DEF InsertTax, Steps
<1>2. PICK r \in Work : r = req[q] /\ r # Idle /\ RequestOK(r)
  BY <1>1, AtWork
<1>3. TypedVars'
  BY <1>2, FolioAssumption DEF InsertTax, TypedVars, TypeOK, Add, payments
<1>4. Goes(q, [req[q] EXCEPT !.at = "sumCharges"])
  BY <1>2 DEF InsertTax, Goes, TypeOK, Work, RequestOK, TransferSteps, Steps, Resume
<1>5. QED
  BY <1>3, <1>4 DEF InsertTax

LEMMA SumChargesStep ==
  ASSUME TypeOK, RequestsOK, NEW q \in Requests, SumCharges(q)
  PROVE  /\ TypedVars' /\ started' = started
         /\ Goes(q, [req[q] EXCEPT !.at = "sumPayments", !.charged = charged[req[q].folio]])
<1>1. req[q].at \in Steps
  BY DEF SumCharges, Steps
<1>2. PICK r \in Work : r = req[q] /\ r # Idle /\ RequestOK(r)
  BY <1>1, AtWork
<1>3. TypedVars'
  BY <1>2 DEF SumCharges, TypedVars, TypeOK, payments
<1>4. Goes(q, [req[q] EXCEPT !.at = "sumPayments", !.charged = charged[req[q].folio]])
  BY <1>2 DEF SumCharges, Goes, TypeOK, Work, RequestOK, TransferSteps, Steps
<1>5. QED
  BY <1>3, <1>4 DEF SumCharges

LEMMA SumPaymentsStep ==
  ASSUME TypeOK, RequestsOK, NEW q \in Requests, SumPayments(q)
  PROVE  /\ TypedVars' /\ started' = started
         /\ Goes(q, [req[q] EXCEPT !.at = "store", !.paid = Paid(req[q].folio)])
<1>1. req[q].at \in Steps
  BY DEF SumPayments, Steps
<1>2. PICK r \in Work : r = req[q] /\ r # Idle /\ RequestOK(r)
  BY <1>1, AtWork
<1>3. TypedVars'
  BY <1>2 DEF SumPayments, TypedVars, TypeOK, payments
<1>6. Paid(r.folio) \in Int
  BY DEF Paid, TypeOK, Work
<1>4. Goes(q, [req[q] EXCEPT !.at = "store", !.paid = Paid(req[q].folio)])
  BY <1>2, <1>6 DEF SumPayments, Goes, TypeOK, Work, RequestOK, TransferSteps, Steps
<1>5. QED
  BY <1>3, <1>4 DEF SumPayments

LEMMA StoreBalanceStep ==
  ASSUME TypeOK, RequestsOK, NEW q \in Requests, StoreBalance(q)
  PROVE  TypedVars' /\ Goes(q, Idle) /\ started' = started
<1>1. req[q].at \in Steps
  BY DEF StoreBalance, Steps
<1>2. PICK r \in Work : r = req[q] /\ r # Idle /\ RequestOK(r)
  BY <1>1, AtWork
<1>3. TypedVars'
  BY <1>2 DEF StoreBalance, TypedVars, TypeOK, Work, payments
<1>4. Goes(q, Idle)
  BY <1>2 DEF StoreBalance, Goes, TypeOK, RequestOK, TransferSteps, End, Transfer
<1>5. QED
  BY <1>3, <1>4 DEF StoreBalance

LEMMA InsertPaymentStep ==
  ASSUME TypeOK, RequestsOK, NEW q \in Requests, InsertPayment(q)
  PROVE  /\ TypedVars' /\ started' = started
         /\ Goes(q, IF req[q].op = "recordPayment" THEN [req[q] EXCEPT !.at = "sumCharges"] ELSE Idle)
<1>1. req[q].at \in Steps
  BY DEF InsertPayment, Steps
<1>2. PICK r \in Work : r = req[q] /\ r # Idle /\ RequestOK(r)
  BY <1>1, AtWork
<1>3. TypedVars'
  BY <1>2 DEF InsertPayment, TypedVars, TypeOK, RequestOK, PaymentOps, Add
<1>4. Goes(q, IF req[q].op = "recordPayment" THEN [req[q] EXCEPT !.at = "sumCharges"] ELSE Idle)
  BY <1>2 DEF InsertPayment, Goes, TypeOK, Work, RequestOK, TransferSteps, Steps, Resume, End
<1>5. QED
  BY <1>3, <1>4 DEF InsertPayment

LEMMA GatewayAcceptsStep ==
  ASSUME TypeOK, RequestsOK, NEW q \in Requests, GatewayAccepts(q)
  PROVE  /\ TypedVars' /\ started' = started
         /\ Goes(q, IF req[q].op = "voidPayment" THEN Idle ELSE [req[q] EXCEPT !.at = "sumCharges"])
<1>1. req[q].at \in Steps
  BY DEF GatewayAccepts, Steps
<1>2. PICK r \in Work : r = req[q] /\ r # Idle /\ RequestOK(r)
  BY <1>1, AtWork
<1>3. TypedVars'
  BY <1>2 DEF GatewayAccepts, TypedVars, TypeOK, RequestOK, PaymentOps, Add
<1>4. Goes(q, IF req[q].op = "voidPayment" THEN Idle ELSE [req[q] EXCEPT !.at = "sumCharges"])
  BY <1>2 DEF GatewayAccepts, Goes, TypeOK, Work, RequestOK, TransferSteps, Steps, Resume, End
<1>5. QED
  BY <1>3, <1>4 DEF GatewayAccepts

LEMMA GatewayRefusesStep ==
  ASSUME TypeOK, RequestsOK, NEW q \in Requests, GatewayRefuses(q)
  PROVE  TypedVars' /\ Goes(q, Idle) /\ started' = started
<1>1. req[q].at \in Steps
  BY DEF GatewayRefuses, Steps
<1>2. PICK r \in Work : r = req[q] /\ r # Idle /\ RequestOK(r)
  BY <1>1, AtWork
<1>3. TypedVars'
  BY <1>2 DEF GatewayRefuses, TypedVars, TypeOK, Work, RequestOK, PaymentOps, Add
<1>4. Goes(q, Idle)
  BY <1>2 DEF GatewayRefuses, Goes, TypeOK, End
<1>5. QED
  BY <1>3, <1>4 DEF GatewayRefuses

LEMMA CountPendingStep ==
  ASSUME TypeOK, RequestsOK, NEW q \in Requests, CountPending(q)
  PROVE  /\ TypedVars' /\ started' = started
         /\ Goes(q, IF Pending(req[q].folio) THEN Idle ELSE [req[q] EXCEPT !.at = "writeStatus"])
<1>1. req[q].at \in Steps
  BY DEF CountPending, Steps
<1>2. PICK r \in Work : r = req[q] /\ r # Idle /\ RequestOK(r)
  BY <1>1, AtWork
<1>3. TypedVars'
  BY <1>2 DEF CountPending, TypedVars, TypeOK, payments
<1>4. Goes(q, IF Pending(req[q].folio) THEN Idle ELSE [req[q] EXCEPT !.at = "writeStatus"])
  BY <1>2 DEF CountPending, Goes, TypeOK, Work, RequestOK, TransferSteps, Steps, Resume, End
<1>5. QED
  BY <1>3, <1>4 DEF CountPending

LEMMA WriteStatusStep ==
  ASSUME TypeOK, RequestsOK, NEW q \in Requests, WriteStatus(q)
  PROVE  TypedVars' /\ Goes(q, Idle) /\ started' = started
<1>1. req[q].at \in Steps
  BY DEF WriteStatus, Steps
<1>2. PICK r \in Work : r = req[q] /\ r # Idle /\ RequestOK(r)
  BY <1>1, AtWork
<1>3. TypedVars'
  BY <1>2 DEF WriteStatus, FolioStatus, TypedVars, TypeOK, payments
<1>4. Goes(q, Idle)
  BY <1>2 DEF WriteStatus, Goes, TypeOK, End
<1>5. QED
  BY <1>3, <1>4 DEF WriteStatus

LEMMA LockFirstStep ==
  ASSUME TypeOK, RequestsOK, NEW q \in Requests, LockFirst(q)
  PROVE  TypedVars' /\ Goes(q, [req[q] EXCEPT !.at = "lockSecond"]) /\ started' = started
<1>1. req[q].at \in Steps
  BY DEF LockFirst, Steps
<1>2. PICK r \in Work : r = req[q] /\ r # Idle /\ RequestOK(r)
  BY <1>1, AtWork
<1>3. TypedVars'
  BY <1>2 DEF LockFirst, Lock, TypedVars, TypeOK, payments
<1>4. Goes(q, [req[q] EXCEPT !.at = "lockSecond"])
  BY <1>2 DEF LockFirst, Lock, Goes, TypeOK, Work, RequestOK, TransferSteps, Steps, Resume
<1>5. QED
  BY <1>3, <1>4 DEF LockFirst

LEMMA LockSecondStep ==
  ASSUME TypeOK, RequestsOK, NEW q \in Requests, LockSecond(q)
  PROVE  TypedVars' /\ Goes(q, [req[q] EXCEPT !.at = "readCharge"]) /\ started' = started
<1>1. req[q].at \in Steps
  BY DEF LockSecond, Steps
<1>2. PICK r \in Work : r = req[q] /\ r # Idle /\ RequestOK(r)
  BY <1>1, AtWork
<1>3. TypedVars'
  BY <1>2 DEF LockSecond, Lock, TypedVars, TypeOK, payments
<1>4. Goes(q, [req[q] EXCEPT !.at = "readCharge"])
  BY <1>2 DEF LockSecond, Lock, Goes, TypeOK, Work, RequestOK, TransferSteps, Steps, Resume
<1>5. QED
  BY <1>3, <1>4 DEF LockSecond

LEMMA MoveChargeStep ==
  ASSUME TypeOK, RequestsOK, NEW q \in Requests, MoveCharge(q)
  PROVE  TypedVars' /\ Goes(q, Idle) /\ started' = started
<1>1. req[q].at \in Steps
  BY DEF MoveCharge, Steps
<1>2. PICK r \in Work : r = req[q] /\ r # Idle /\ RequestOK(r)
  BY <1>1, AtWork
<1>3. TypedVars'
  <2>1. charged' \in [Folios -> Int]
    BY <1>2 DEF MoveCharge, TypeOK, Work
  <2>2. \A f \in Folios : charged'[f] - Paid(f) \in Int /\ balance[f] \in Int
    BY <2>1 DEF TypeOK, Paid
  <2>3. balance' \in [Folios -> Int]
    BY <2>2 DEF MoveCharge
  <2>4. holder' \in [Folios -> Requests \cup {NoRequest}]
    BY DEF MoveCharge, Release, TypeOK
  <2>5. QED
    BY <2>1, <2>3, <2>4 DEF MoveCharge, TypedVars, TypeOK, payments
<1>4. Goes(q, Idle)
  BY <1>2 DEF MoveCharge, Goes, TypeOK, End
<1>5. QED
  BY <1>3, <1>4 DEF MoveCharge

LEMMA CommitLedgerStep ==
  ASSUME TypeOK, RequestsOK, NEW q \in Requests, CommitLedger(q)
  PROVE  TypedVars' /\ Goes(q, Idle) /\ started' = started
<1>1. req[q].at \in Steps
  BY DEF CommitLedger, Steps
<1>2. PICK r \in Work : r = req[q] /\ r # Idle /\ RequestOK(r)
  BY <1>1, AtWork
<1>3. TypedVars'
  <2>1. PICK g \in Folios, tax \in Amounts \cup {0} :
          /\ status' = [status EXCEPT ![g] = "open"]
          /\ captured' = [captured EXCEPT ![r.folio] = captured[r.folio] + r.amount]
          /\ charged' = [charged EXCEPT ![g] = charged[g] + (r.amount + tax)]
          /\ balance' = [balance EXCEPT
                           ![r.folio] = charged[r.folio] - (Paid(r.folio) + r.amount),
                           ![g] = r.amount + tax]
    BY <1>2 DEF CommitLedger, Add
  <2>2. tax \in Int /\ r.folio \in Folios /\ r.amount \in Int
    BY <1>2, FolioAssumption DEF Work
  <2>3. Paid(r.folio) \in Int /\ charged[r.folio] \in Int
    BY <2>2 DEF TypeOK, Paid
  <2>4. status' \in [Folios -> FolioStatus]
    BY <2>1 DEF TypeOK, FolioStatus
  <2>5. captured' \in [Folios -> Int] /\ charged' \in [Folios -> Int]
    BY <2>1, <2>2 DEF TypeOK
  <2>6. balance' \in [Folios -> Int]
    BY <2>1, <2>2, <2>3 DEF TypeOK
  <2>7. QED
    BY <2>4, <2>5, <2>6 DEF CommitLedger, TypedVars, TypeOK
<1>4. Goes(q, Idle)
  BY <1>2 DEF CommitLedger, Goes, TypeOK, RequestOK, TransferSteps, End, Transfer
<1>5. QED
  BY <1>3, <1>4 DEF CommitLedger

LEMMA AbortStep ==
  ASSUME TypeOK, RequestsOK, NEW q \in Requests, Abort(q)
  PROVE  TypedVars' /\ Goes(q, Idle) /\ started' = started
<1>1. req[q].at \in Steps
  BY DEF Abort, TypeOK, Work
<1>2. PICK r \in Work : r = req[q] /\ r # Idle /\ RequestOK(r)
  BY <1>1, AtWork
<1>3. TypedVars'
  BY <1>2 DEF Abort, Release, TypedVars, TypeOK, payments
<1>4. Goes(q, Idle)
  BY <1>2 DEF Abort, Goes, TypeOK, Work, End
<1>5. QED
  BY <1>3, <1>4 DEF Abort

LEMMA ReadChargeStep ==
  ASSUME TypeOK, RequestsOK, NEW q \in Requests, ReadCharge(q)
  PROVE  /\ TypedVars' /\ started' = started
         /\ Goes(q, [req[q] EXCEPT !.at = "moveCharge"]) \/ Goes(q, Idle)
<1>1. req[q].at \in Steps
  BY DEF ReadCharge, Steps
<1>2. PICK r \in Work : r = req[q] /\ r # Idle /\ RequestOK(r)
  BY <1>1, AtWork
<1>3. TypedVars'
  BY DEF ReadCharge, Release, TypedVars, TypeOK, payments
<1>6. stale' = stale /\ started' = started
  BY DEF ReadCharge
<1>4. CASE Resume(q, "moveCharge")
  BY <1>2, <1>3, <1>4, <1>6 DEF ReadCharge, Goes, TypeOK, Work, RequestOK, TransferSteps, Steps,
                                Resume
<1>5. CASE End(q)
  BY <1>2, <1>3, <1>5, <1>6 DEF Goes, TypeOK, End
<1>7. QED
  BY <1>3, <1>4, <1>5 DEF ReadCharge

LEMMA Requested ==
  ASSUME NEW op \in Ops, NEW at \in Steps, NEW f \in Folios, NEW amount \in Int,
         NEW r, r = Request(op, at, f, amount)
  PROVE  /\ r \in Work
         /\ r.op = op /\ r.at = at /\ r.folio = f /\ r.target = f /\ r.amount = amount /\ r.claim = 0
BY DEF Request, Work

LEMMA Changed ==
  ASSUME NEW r \in Work
  PROVE  /\ \A g \in Folios : [r EXCEPT !.target = g] \in Work
         /\ \A claim \in Int : [r EXCEPT !.claim = claim] \in Work
BY DEF Work

LEMMA PostChargeStep ==
  ASSUME TypeOK, NEW q \in Requests, NEW f \in Folios, NEW amount \in Int,
         PostCharge(q, f, amount)
  PROVE  TypedVars' /\ Begins(q, Request("postCharge", "insertCharge", f, amount))
<1>1. TypedVars'
  BY DEF PostCharge, TypedVars, TypeOK, payments
<1>2. Begins(q, Request("postCharge", "insertCharge", f, amount))
  BY FolioAssumption DEF PostCharge, Begins, FirstSteps, Request, Work, RequestOK, PaymentOps,
                         TransferSteps, Ops, Steps
<1>3. QED
  BY <1>1, <1>2

LEMMA ReverseChargeStep ==
  ASSUME TypeOK, NEW q \in Requests, NEW f \in Folios, NEW amount \in Int,
         ReverseCharge(q, f, amount)
  PROVE  TypedVars' /\ Begins(q, Request("reverseCharge", "insertCharge", f, -amount))
<1>1. TypedVars'
  BY DEF ReverseCharge, TypedVars, TypeOK, payments
<1>2. Begins(q, Request("reverseCharge", "insertCharge", f, -amount))
  BY FolioAssumption DEF ReverseCharge, Begins, FirstSteps, Request, Work, RequestOK,
                         PaymentOps, TransferSteps, Ops, Steps
<1>3. QED
  BY <1>1, <1>2

LEMMA RecordPaymentStep ==
  ASSUME TypeOK, NEW q \in Requests, NEW op, NEW f \in Folios, NEW amount \in Amounts,
         RecordPayment(q, op, f, amount)
  PROVE  TypedVars' /\ Begins(q, Request(op, "insertPayment", f, amount))
<1>1. TypedVars'
  BY DEF RecordPayment, TypedVars, TypeOK, payments
<1>2. Begins(q, Request(op, "insertPayment", f, amount))
  BY FolioAssumption DEF RecordPayment, Begins, FirstSteps, Request, Work, RequestOK,
                         PaymentOps, TransferSteps, Ops, Steps
<1>3. QED
  BY <1>1, <1>2

LEMMA SettleStep ==
  ASSUME TypeOK, NEW q \in Requests, NEW f \in Folios, Settle(q, f)
  PROVE  TypedVars' /\ Begins(q, Request("settle", "countPending", f, 0))
<1>1. TypedVars'
  BY DEF Settle, TypedVars, TypeOK, payments
<1>2. Begins(q, Request("settle", "countPending", f, 0))
  BY FolioAssumption DEF Settle, Begins, FirstSteps, Request, Work, RequestOK, PaymentOps,
                         TransferSteps, Ops, Steps
<1>3. QED
  BY <1>1, <1>2

LEMMA CloseStep ==
  ASSUME TypeOK, NEW q \in Requests, NEW f \in Folios, Close(q, f)
  PROVE  TypedVars' /\ Begins(q, Request("close", "writeStatus", f, 0))
<1>1. TypedVars'
  BY DEF Close, TypedVars, TypeOK, payments
<1>2. Begins(q, Request("close", "writeStatus", f, 0))
  BY FolioAssumption DEF Close, Begins, FirstSteps, Request, Work, RequestOK, PaymentOps,
                         TransferSteps, Ops, Steps
<1>3. QED
  BY <1>1, <1>2

LEMMA TransferChargeStep ==
  ASSUME TypeOK, NEW q \in Requests, NEW f \in Folios, NEW g \in Folios, NEW amount \in Amounts,
         TransferCharge(q, f, g, amount)
  PROVE  TypedVars' /\ Begins(q, [Request("transferCharge", "lockFirst", f, amount) EXCEPT !.target = g])
<1>1. TypedVars'
  BY DEF TransferCharge, TypedVars, TypeOK, payments
<1>2. PICK r : r = Request("transferCharge", "lockFirst", f, amount)
  OBVIOUS
<1>3. amount \in Int /\ "transferCharge" \in Ops /\ "lockFirst" \in Steps
  BY FolioAssumption DEF Ops, Steps
<1>4. /\ [r EXCEPT !.target = g] \in Work /\ r \in Work
      /\ r.op = "transferCharge" /\ r.at = "lockFirst"
  BY <1>2, <1>3, Requested, Changed
<1>5. RequestOK([r EXCEPT !.target = g])
  BY <1>4 DEF RequestOK, Work, TransferSteps, PaymentOps
<1>6. Begins(q, [r EXCEPT !.target = g])
  BY <1>2, <1>4, <1>5 DEF TransferCharge, Begins, FirstSteps, Work
<1>7. QED
  BY <1>1, <1>2, <1>6

LEMMA TransferToCityLedgerStep ==
  ASSUME TypeOK, NEW q \in Requests, NEW f \in Folios, TransferToCityLedger(q, f)
  PROVE  TypedVars' /\ Begins(q, Request("transferToCityLedger", "ledger", f, balance[f]))
<1>1. TypedVars'
  BY DEF TransferToCityLedger, TypedVars, TypeOK, payments
<1>2. Begins(q, Request("transferToCityLedger", "ledger", f, balance[f]))
  BY FolioAssumption DEF TransferToCityLedger, TypeOK, Begins, FirstSteps, Request, Work,
                         RequestOK, PaymentOps, TransferSteps, Ops, Steps
<1>3. QED
  BY <1>1, <1>2

LEMMA ClaimPaymentStep ==
  ASSUME TypeOK, NEW q \in Requests, NEW f \in Folios, NEW amount \in Amounts,
         ClaimPayment(q, f, amount)
  PROVE  /\ TypedVars'
         /\ \/ Begins(q, [Request("capturePayment", "gateway", f, amount) EXCEPT !.claim = amount])
            \/ Begins(q, Request("voidPayment", "gateway", f, amount))
<1>1. amount \in Nat /\ held[f] \in Nat /\ captured[f] \in Int
  BY FolioAssumption DEF TypeOK
<1>2. held' = [held EXCEPT ![f] = held[f] + -amount] /\ held[f] + -amount \in Nat
  BY <1>1 DEF ClaimPayment, Claimable, Add
<1>3. captured' \in [Folios -> Int]
  BY <1>1 DEF ClaimPayment, Add, TypeOK
<1>4. TypedVars'
  BY <1>2, <1>3 DEF ClaimPayment, TypedVars, TypeOK
<1>5. CASE Start(q, [Request("capturePayment", "gateway", f, amount) EXCEPT !.claim = amount])
  <2>1. PICK r : r = Request("capturePayment", "gateway", f, amount)
    OBVIOUS
  <2>2. "capturePayment" \in Ops /\ "gateway" \in Steps
    BY DEF Ops, Steps
  <2>3. /\ [r EXCEPT !.claim = amount] \in Work /\ r \in Work
        /\ r.op = "capturePayment" /\ r.at = "gateway" /\ r.folio = r.target
        /\ r.amount = amount /\ r.claim = 0
    BY <1>1, <2>1, <2>2, Requested, Changed
  <2>4. RequestOK([r EXCEPT !.claim = amount])
    BY <1>1, <2>3 DEF RequestOK, Work, TransferSteps, PaymentOps
  <2>5. Begins(q, [r EXCEPT !.claim = amount])
    BY <1>5, <2>1, <2>3, <2>4 DEF ClaimPayment, Begins, FirstSteps, Work
  <2>6. QED
    BY <1>4, <2>1, <2>5
<1>6. CASE Start(q, Request("voidPayment", "gateway", f, amount))
  <2>1. PICK r : r = Request("voidPayment", "gateway", f, amount)
    OBVIOUS
  <2>2. "voidPayment" \in Ops /\ "gateway" \in Steps
    BY DEF Ops, Steps
  <2>3. /\ r \in Work /\ r \in Work
        /\ r.op = "voidPayment" /\ r.at = "gateway" /\ r.folio = r.target
        /\ r.amount = amount /\ r.claim = 0
    BY <1>1, <2>1, <2>2, Requested, Changed
  <2>4. RequestOK(r)
    BY <1>1, <2>3 DEF RequestOK, Work, TransferSteps, PaymentOps
  <2>5. Begins(q, r)
    BY <1>6, <2>1, <2>3, <2>4 DEF ClaimPayment, Begins, FirstSteps, Work
  <2>6. QED
    BY <1>4, <2>1, <2>5
<1>7. QED
  BY <1>5, <1>6 DEF ClaimPayment

LEMMA ClaimRefundStep ==
  ASSUME TypeOK, NEW q \in Requests, NEW f \in Folios, NEW amount \in Amounts,
         NEW payment \in Amounts, ClaimRefund(q, f, amount, payment)
  PROVE  /\ TypedVars'
         /\ \/ Begins(q, [Request("refundPayment", "gateway", f, amount) EXCEPT !.claim = payment])
            \/ Begins(q, Request("refundPayment", "gateway", f, amount))
<1>1. amount \in Nat /\ payment \in Nat /\ captured[f] \in Int /\ refunded[f] \in Int
  BY FolioAssumption DEF TypeOK
<1>2. captured' \in [Folios -> Int] /\ refunded' \in [Folios -> Int]
  BY <1>1 DEF ClaimRefund, Add, TypeOK
<1>3. TypedVars'
  BY <1>2 DEF ClaimRefund, TypedVars, TypeOK
<1>4. CASE Start(q, [Request("refundPayment", "gateway", f, amount) EXCEPT !.claim = payment])
  <2>1. PICK r : r = Request("refundPayment", "gateway", f, amount)
    OBVIOUS
  <2>2. "refundPayment" \in Ops /\ "gateway" \in Steps
    BY DEF Ops, Steps
  <2>3. /\ [r EXCEPT !.claim = payment] \in Work /\ r \in Work
        /\ r.op = "refundPayment" /\ r.at = "gateway" /\ r.folio = r.target
        /\ r.amount = amount /\ r.claim = 0
    BY <1>1, <2>1, <2>2, Requested, Changed
  <2>4. RequestOK([r EXCEPT !.claim = payment])
    BY <1>1, <2>3 DEF RequestOK, Work, TransferSteps, PaymentOps
  <2>5. Begins(q, [r EXCEPT !.claim = payment])
    BY <1>4, <2>1, <2>3, <2>4 DEF ClaimRefund, Begins, FirstSteps, Work
  <2>6. QED
    BY <1>3, <2>1, <2>5
<1>5. CASE Start(q, Request("refundPayment", "gateway", f, amount))
  <2>1. PICK r : r = Request("refundPayment", "gateway", f, amount)
    OBVIOUS
  <2>2. "refundPayment" \in Ops /\ "gateway" \in Steps
    BY DEF Ops, Steps
  <2>3. /\ r \in Work /\ r \in Work
        /\ r.op = "refundPayment" /\ r.at = "gateway" /\ r.folio = r.target
        /\ r.amount = amount /\ r.claim = 0
    BY <1>1, <2>1, <2>2, Requested, Changed
  <2>4. RequestOK(r)
    BY <1>1, <2>3 DEF RequestOK, Work, TransferSteps, PaymentOps
  <2>5. Begins(q, r)
    BY <1>5, <2>1, <2>3, <2>4 DEF ClaimRefund, Begins, FirstSteps, Work
  <2>6. QED
    BY <1>3, <2>1, <2>5
<1>6. QED
  BY <1>4, <1>5 DEF ClaimRefund

-----------------------------------------------------------------------------
(* Type correctness.                                                       *)

\* A handler that begins, or goes on.
Moves(q) == (\E x : Goes(q, x) /\ started' = started) \/ \E x : Begins(q, x)

LEMMA HandlerStep ==
  ASSUME TypeOK, RequestsOK, NEW q \in Requests, Handler(q)
  PROVE  TypedVars' /\ Moves(q)
<1>1. CASE \E f \in Folios, amount \in Amounts :
             \/ PostCharge(q, f, amount) \/ PostCharge(q, f, -amount)
             \/ ReverseCharge(q, f, amount)
             \/ \E op \in Ops : RecordPayment(q, op, f, amount)
  <2>1. PICK f \in Folios, amount \in Amounts :
             \/ PostCharge(q, f, amount) \/ PostCharge(q, f, -amount)
             \/ ReverseCharge(q, f, amount)
             \/ \E op \in Ops : RecordPayment(q, op, f, amount)
    BY <1>1
  <2>2. amount \in Int /\ -amount \in Int
    BY FolioAssumption
  <2>3. TypedVars' /\ \E x : Begins(q, x)
    BY <2>1, <2>2, PostChargeStep, ReverseChargeStep, RecordPaymentStep
  <2>4. QED
    BY <2>3 DEF Moves
<1>2. CASE \E f \in Folios, amount \in Amounts :
             \/ ClaimPayment(q, f, amount)
             \/ \E payment \in Amounts : ClaimRefund(q, f, amount, payment)
             \/ \E g \in Folios : TransferCharge(q, f, g, amount)
  <2>1. TypedVars' /\ \E x : Begins(q, x)
    BY <1>2, ClaimPaymentStep, ClaimRefundStep, TransferChargeStep
  <2>2. QED
    BY <2>1 DEF Moves
<1>3. CASE \E f \in Folios : Settle(q, f) \/ Close(q, f) \/ TransferToCityLedger(q, f)
  <2>1. TypedVars' /\ \E x : Begins(q, x)
    BY <1>3, SettleStep, CloseStep, TransferToCityLedgerStep
  <2>2. QED
    BY <2>1 DEF Moves
<1>4. CASE InsertCharge(q) \/ InsertTax(q) \/ SumCharges(q) \/ SumPayments(q) \/ StoreBalance(q)
  <2>1. TypedVars' /\ \E x : Goes(q, x) /\ started' = started
    BY <1>4, InsertChargeStep, InsertTaxStep, SumChargesStep, SumPaymentsStep, StoreBalanceStep
  <2>2. QED
    BY <2>1 DEF Moves
<1>5. CASE InsertPayment(q) \/ GatewayAccepts(q) \/ GatewayRefuses(q) \/ CountPending(q)
           \/ WriteStatus(q)
  <2>1. TypedVars' /\ \E x : Goes(q, x) /\ started' = started
    BY <1>5, InsertPaymentStep, GatewayAcceptsStep, GatewayRefusesStep, CountPendingStep,
       WriteStatusStep
  <2>2. QED
    BY <2>1 DEF Moves
<1>6. CASE LockFirst(q) \/ LockSecond(q) \/ ReadCharge(q) \/ MoveCharge(q) \/ CommitLedger(q)
           \/ Abort(q)
  <2>1. TypedVars' /\ \E x : Goes(q, x) /\ started' = started
    BY <1>6, LockFirstStep, LockSecondStep, ReadChargeStep, MoveChargeStep, CommitLedgerStep,
       AbortStep
  <2>2. QED
    BY <2>1 DEF Moves
<1>7. QED
  BY <1>1, <1>2, <1>3, <1>4, <1>5, <1>6 DEF Handler

LEMMA TypesKept ==
  ASSUME TypeOK, RequestsOK, NEW q \in Requests, TypedVars', Moves(q)
  PROVE  TypeOK' /\ RequestsOK'
<1>1. CASE \E x : Goes(q, x) /\ started' = started
  <2>1. PICK x : Goes(q, x) /\ started' = started
    BY <1>1
  <2>2. req' \in [Requests -> Work \cup {Idle}] /\ RequestsOK'
    BY <2>1, GoingOn
  <2>3. QED
    BY <2>1, <2>2 DEF TypeOK, TypedVars, Goes
<1>2. CASE \E x : Begins(q, x)
  <2>1. PICK x : Begins(q, x)
    BY <1>2
  <2>2. /\ req' \in [Requests -> Work \cup {Idle}] /\ RequestsOK'
        /\ stale' \in SUBSET Folios /\ started' \in 0..MaxStarts
    BY <2>1, Beginning DEF TypeOK
  <2>3. QED
    BY <2>2 DEF TypeOK, TypedVars
<1>3. QED
  BY <1>1, <1>2 DEF Moves

LEMMA InitTyped == Init => TypeOK /\ RequestsOK
BY FolioAssumption DEF Init, TypeOK, RequestsOK, FolioStatus

LEMMA NextTyped == TypeOK /\ RequestsOK /\ [Next]_vars => TypeOK' /\ RequestsOK'
<1>1. ASSUME TypeOK, RequestsOK, NEW q \in Requests, Handler(q)
      PROVE  TypeOK' /\ RequestsOK'
  BY <1>1, HandlerStep, TypesKept
<1>2. ASSUME TypeOK, RequestsOK, UNCHANGED vars
      PROVE  TypeOK' /\ RequestsOK'
  BY <1>2 DEF vars, payments, TypeOK, RequestsOK
<1>3. QED
  BY <1>1, <1>2 DEF Next

\* Every variable, and every field of a handler in flight, keeps its type: whatever
\* the claims on payments do, no more is claimed of the authorized ones than there is,
\* and each handler is at a step of its own operation.
THEOREM TypeCorrect == Spec => [](TypeOK /\ RequestsOK)
<1>1. QED
  BY InitTyped, NextTyped, PTL DEF Spec

-----------------------------------------------------------------------------
(* Who has a folio to himself.                                             *)

LEMMA GoesTouching ==
  ASSUME TypeOK, RequestsOK, NEW q \in Requests, NEW x, Goes(q, x),
         NEW p \in Requests, NEW f \in Folios, Touches(req'[p], f)
  PROVE  /\ Touches(req[p], f) /\ req'[p].op = req[p].op /\ req'[p].alone = req[p].alone
         /\ p # q => req'[p] = req[p]
         /\ p = q => x # Idle
<1>1. req'[q] = x /\ \A o \in Requests \ {q} : req'[o] = req[o]
  BY GoingOn
<1>2. CASE p # q
  BY <1>1, <1>2
<1>3. CASE p = q
  <2>1. x # Idle
    BY <1>1, <1>3, IdleIsNoWork
  <2>2. QED
    BY <1>1, <1>3, <2>1 DEF Goes, Touches
<1>4. QED
  BY <1>2, <1>3

LEMMA BeginsOwn ==
  ASSUME TypeOK, RequestsOK, NEW q \in Requests, NEW x, Begins(q, x)
  PROVE  /\ req[q] = Idle /\ \A f \in Folios : ~Touches(req[q], f)
         /\ req'[q].op = x.op /\ req'[q].at = x.at /\ req'[q].folio = x.folio
         /\ req'[q].target = x.target /\ req'[q].amount = x.amount /\ req'[q].claim = x.claim
         /\ \A f \in Folios : Touches(req'[q], f) <=> Touches(x, f)
         /\ req'[q].alone => \A o \in Requests, g \in Folios : Touches(x, g) => ~Mixes(x, o, g)
         /\ ~req'[q].alone => \E o \in Requests, g \in Folios : Touches(x, g) /\ Mixes(x, o, g)
<1>1. /\ req[q] = Idle /\ x \in Work
      /\ req'[q] = [x EXCEPT !.alone = \A o \in Requests, g \in Folios :
                                         Touches(x, g) => ~Mixes(x, o, g)]
  BY Beginning DEF Begins
<1>2. QED
  BY <1>1, IdleIsNoWork DEF Work, Touches

LEMMA BeginsOther ==
  ASSUME TypeOK, RequestsOK, NEW q \in Requests, NEW x, Begins(q, x),
         NEW p \in Requests, p # q
  PROVE  /\ req'[p].op = req[p].op /\ req'[p].at = req[p].at
         /\ req'[p].folio = req[p].folio /\ req'[p].target = req[p].target
         /\ req'[p].claim = req[p].claim /\ req'[p].charged = req[p].charged
         /\ req'[p].paid = req[p].paid
         /\ \A f \in Folios : Touches(req'[p], f) <=> Touches(req[p], f)
         /\ \A f \in Folios : Touches(req[p], f) => Working(p, f)
         /\ req'[p].alone => req[p].alone
         /\ req'[p].alone => ~\E g \in Folios : Touches(x, g) /\ Mixes(x, p, g)
         /\ ~req'[p].alone => \/ ~req[p].alone
                              \/ \E g \in Folios : Touches(x, g) /\ Mixes(x, p, g)
<1>1. req'[p] = IF \E g \in Folios : Touches(x, g) /\ Mixes(x, p, g)
                THEN [req[p] EXCEPT !.alone = FALSE] ELSE req[p]
  <2>1. \A o \in Requests \ {q} :
          req'[o] = IF \E f \in Folios : Touches(x, f) /\ Mixes(x, o, f)
                    THEN [req[o] EXCEPT !.alone = FALSE] ELSE req[o]
    BY Beginning, Zenon
  <2>2. p \in Requests \ {q}
    OBVIOUS
  <2>3. QED
    BY <2>1, <2>2, Zenon
<1>2. ASSUME \E g \in Folios : Touches(x, g) /\ Mixes(x, p, g)
      PROVE  req[p] \in Work
  BY <1>2 DEF Mixes, Working, TypeOK
<1>3. \A f \in Folios : Touches(req[p], f) => Working(p, f)
  BY IdleIsNoWork DEF Working
<1>4. QED
  BY <1>1, <1>2, <1>3 DEF Work, Touches

LEMMA AloneKept ==
  ASSUME TypeOK, RequestsOK, AloneOK, NEW q \in Requests, Moves(q)
  PROVE  AloneOK'
<1> SUFFICES ASSUME NEW a \in Requests, NEW b \in Requests, NEW f \in Folios, a # b,
                    Touches(req'[a], f), Touches(req'[b], f), req'[a].alone
             PROVE  Transfer(req'[a]) /\ Transfer(req'[b])
  BY DEF AloneOK, Touches, Transfer
<1>1. CASE \E x : Goes(q, x)
  BY <1>1, GoesTouching DEF AloneOK, Transfer
<1>2. CASE \E x : Begins(q, x)
  <2>1. PICK x : Begins(q, x)
    BY <1>2
  <2>2. ASSUME NEW p \in Requests, p # q, Touches(req'[p], f)
        PROVE  Touches(req[p], f) /\ Working(p, f)
    BY <2>1, <2>2, BeginsOther
  <2>3. Touches(req'[q], f) => Touches(x, f)
    BY <2>1, BeginsOwn
  <2>4. CASE a = q
    <3>1. Touches(x, f) /\ Touches(req[b], f) /\ ~Mixes(x, b, f)
      BY <2>1, <2>2, <2>3, <2>4, BeginsOwn
    <3>2. Transfer(x) /\ Transfer(req[b])
      BY <2>2, <2>4, <3>1 DEF Mixes, Transfer
    <3>3. req'[q].op = x.op
      BY <2>1, BeginsOwn
    <3>4. req'[b].op = req[b].op
      BY <2>1, <2>4, BeginsOther
    <3>5. QED
      BY <2>4, <3>2, <3>3, <3>4 DEF Transfer
  <2>5. CASE b = q
    <3>1. Touches(x, f) /\ Touches(req[a], f) /\ ~Mixes(x, a, f)
      BY <2>1, <2>2, <2>3, <2>5, BeginsOther
    <3>2. Transfer(x) /\ Transfer(req[a])
      BY <2>2, <2>5, <3>1 DEF Mixes, Transfer
    <3>3. req'[q].op = x.op
      BY <2>1, BeginsOwn
    <3>4. req'[a].op = req[a].op
      BY <2>1, <2>5, BeginsOther
    <3>5. QED
      BY <2>5, <3>2, <3>3, <3>4 DEF Transfer
  <2>6. CASE a # q /\ b # q
    <3>1. Touches(req[a], f) /\ Touches(req[b], f) /\ req[a].alone
      BY <2>1, <2>2, <2>6, BeginsOther
    <3>2. Transfer(req[a]) /\ Transfer(req[b])
      BY <3>1 DEF AloneOK
    <3>3. QED
      BY <2>1, <2>6, <3>2, BeginsOther DEF Transfer
  <2>7. QED
    BY <2>4, <2>5, <2>6
<1>3. QED
  BY <1>1, <1>2 DEF Moves

LEMMA MixedKept ==
  ASSUME TypeOK, RequestsOK, AloneOK, MixedOK, NEW q \in Requests, Moves(q)
  PROVE  MixedOK'
<1> SUFFICES ASSUME NEW p \in Requests, NEW f \in Folios, Touches(req'[p], f),
                    ~Transfer(req'[p]), ~req'[p].alone
             PROVE  f \in stale'
  BY DEF MixedOK, Touches, Transfer
<1>1. CASE \E x : Goes(q, x)
  <2>1. PICK x : Goes(q, x)
    BY <1>1
  <2>2. Touches(req[p], f) /\ ~Transfer(req[p]) /\ ~req[p].alone
    BY <2>1, GoesTouching DEF Transfer
  <2>3. f \in stale
    BY <2>2 DEF MixedOK
  <2>4. ASSUME f \notin stale' PROVE FALSE
    <3>1. req[q].alone /\ ~Transfer(req[q]) /\ f = req[q].folio /\ x = Idle
      BY <2>1, <2>3, <2>4 DEF Goes
    <3>2. p # q
      BY <2>1, <3>1, GoesTouching
    <3>3. QED
      BY <2>2, <3>1, <3>2 DEF AloneOK, Touches
  <2>5. QED
    BY <2>4
<1>2. CASE \E x : Begins(q, x)
  <2>1. PICK x : Begins(q, x)
    BY <1>2
  <2>2. stale' = stale \cup {g \in Folios : Touches(x, g) /\ \E o \in Requests : Mixes(x, o, g)}
    BY <2>1, Beginning
  <2>3. CASE p = q
    <3>1. x.target = x.folio /\ Touches(x, f)
      BY <2>1, <2>3, BeginsOwn DEF Begins, RequestOK, Transfer
    <3>2. PICK o \in Requests, g \in Folios : Touches(x, g) /\ Mixes(x, o, g)
      BY <2>1, <2>3, BeginsOwn
    <3>3. g = f
      BY <3>1, <3>2 DEF Touches
    <3>4. QED
      BY <2>2, <3>2, <3>3
  <2>4. CASE p # q
    <3>1. Touches(req[p], f) /\ ~Transfer(req[p])
      BY <2>1, <2>4, BeginsOther DEF Transfer
    <3>2. CASE ~req[p].alone
      BY <2>2, <3>1, <3>2 DEF MixedOK
    <3>3. CASE \E g \in Folios : Touches(x, g) /\ Mixes(x, p, g)
      <4>1. PICK g \in Folios : Touches(x, g) /\ Mixes(x, p, g)
        BY <3>3
      <4>2. RequestOK(req[p])
        BY <3>1, IdleIsNoWork DEF RequestsOK
      <4>3. g = f
        BY <3>1, <4>1, <4>2 DEF Mixes, Working, Touches, RequestOK, Transfer
      <4>4. QED
        BY <2>2, <4>1, <4>3
    <3>4. QED
      BY <2>1, <2>4, <3>2, <3>3, BeginsOther
  <2>5. QED
    BY <2>3, <2>4
<1>3. QED
  BY <1>1, <1>2 DEF Moves

-----------------------------------------------------------------------------
(* The locks of transfers.                                                 *)

Holding == {"lockSecond", "readCharge", "moveCharge"}

\* Whoever is not at one of the steps of a transfer that holds a lock holds none.
LEMMA NothingHeld ==
  ASSUME LocksOK, NEW p \in Requests, req[p].at \notin Holding, NEW f \in Folios
  PROVE  holder[f] # p
BY DEF LocksOK, HeldBy, Holding

\* A step of q that leaves q without locks and takes none from the others.
LEMMA Unheld ==
  ASSUME TypeOK, RequestsOK, LocksOK, NEW q \in Requests,
         req'[q].at # "lockSecond", \A f \in Folios : holder'[f] # q,
         \A p \in Requests \ {q} : /\ \A f \in Folios : HeldBy(req'[p], f) <=> HeldBy(req[p], f)
                                   /\ req'[p].at = req[p].at
                                   /\ FirstLock(req'[p]) = FirstLock(req[p])
                                   /\ req'[p].at = "lockSecond" => FirstLock(req[p]) \in Folios,
         \A f \in Folios, p \in Requests \ {q} : holder'[f] = p <=> holder[f] = p
  PROVE  LocksOK'
<1>1. ASSUME NEW p \in Requests
      PROVE  /\ \A f \in Folios : holder'[f] = p => HeldBy(req'[p], f)
             /\ req'[p].at = "lockSecond" => holder'[FirstLock(req'[p])] = p
  <2>1. CASE p = q
    BY <2>1
  <2>2. CASE p # q
    BY <2>2 DEF LocksOK
  <2>3. QED
    BY <2>1, <2>2
<1>2. QED
  BY <1>1 DEF LocksOK, HeldBy, FirstLock, Touches

LEMMA LocksOfBeginning ==
  ASSUME TypeOK, RequestsOK, LocksOK, NEW q \in Requests, NEW x, Begins(q, x)
  PROVE  LocksOK'
<1>1. req'[q].at # "lockSecond"
  BY BeginsOwn DEF Begins, FirstSteps
<1>2. \A f \in Folios : holder'[f] = holder[f] /\ holder'[f] # q
  <2>1. req[q].at \notin Holding
    BY BeginsOwn DEF Idle, Holding
  <2>2. QED
    BY <2>1, NothingHeld DEF Begins
<1>3. ASSUME NEW p \in Requests \ {q}
      PROVE  /\ \A f \in Folios : HeldBy(req'[p], f) <=> HeldBy(req[p], f)
             /\ req'[p].at = req[p].at
             /\ FirstLock(req'[p]) = FirstLock(req[p])
             /\ req'[p].at = "lockSecond" => FirstLock(req[p]) \in Folios
  <2>1. /\ req'[p].at = req[p].at /\ req'[p].folio = req[p].folio
        /\ req'[p].target = req[p].target
    BY BeginsOther
  <2>2. req[p].at = "lockSecond" => req[p].folio \in Folios /\ req[p].target \in Folios
    BY AtWork DEF Steps
  <2>3. QED
    BY <2>1, <2>2 DEF HeldBy, FirstLock, Touches
<1>4. QED
  BY <1>1, <1>2, <1>3, Unheld

\* A handler goes on, or returns, without locks.
LEMMA LocksOfGoing ==
  ASSUME TypeOK, RequestsOK, LocksOK, NEW q \in Requests, NEW x, Goes(q, x),
         x.at # "lockSecond", \A f \in Folios : holder'[f] # q,
         \A f \in Folios, p \in Requests \ {q} : holder'[f] = p <=> holder[f] = p
  PROVE  LocksOK'
<1>1. req'[q] = x /\ \A p \in Requests \ {q} : req'[p] = req[p]
  BY GoingOn
<1>2. ASSUME NEW p \in Requests \ {q}, req[p].at = "lockSecond"
      PROVE  FirstLock(req[p]) \in Folios
  BY <1>2, AtWork DEF FirstLock, Steps
<1>3. QED
  BY <1>1, <1>2, Unheld

LEMMA LocksOfUnlocked ==
  ASSUME TypeOK, RequestsOK, LocksOK, NEW q \in Requests, NEW x, Goes(q, x),
         holder' = holder, req[q].at \notin Holding, x.at # "lockSecond"
  PROVE  LocksOK'
<1>1. \A f \in Folios : holder'[f] # q
  BY NothingHeld
<1>2. QED
  BY <1>1, LocksOfGoing

LEMMA LocksOfRelease ==
  ASSUME TypeOK, RequestsOK, LocksOK, NEW q \in Requests, NEW x, Goes(q, x),
         Release(q), x.at # "lockSecond"
  PROVE  LocksOK'
<1>1. \A f \in Folios : holder'[f] # q
  BY FolioAssumption DEF Release
<1>2. \A f \in Folios, p \in Requests \ {q} : holder'[f] = p <=> holder[f] = p
  BY FolioAssumption DEF Release
<1>3. QED
  BY <1>1, <1>2, LocksOfGoing

\* A transfer takes the lock on g.
LEMMA LocksOfLocking ==
  ASSUME TypeOK, RequestsOK, LocksOK, NEW q \in Requests, NEW x, Goes(q, x),
         NEW g \in Folios, holder[g] \in {NoRequest, q}, holder' = [holder EXCEPT ![g] = q],
         x # Idle, HeldBy(x, g), \A f \in Folios : HeldBy(req[q], f) => HeldBy(x, f),
         x.at = "lockSecond" => g = FirstLock(x)
  PROVE  LocksOK'
<1>1. req'[q] = x /\ \A p \in Requests \ {q} : req'[p] = req[p]
  BY GoingOn
<1>2. holder'[g] = q /\ \A f \in Folios \ {g} : holder'[f] = holder[f]
  BY DEF TypeOK
<1>3. ASSUME NEW p \in Requests
      PROVE  /\ \A f \in Folios : holder'[f] = p => HeldBy(req'[p], f)
             /\ req'[p].at = "lockSecond" => holder'[FirstLock(req'[p])] = p
  <2>1. CASE p = q
    BY <1>1, <1>2, <2>1 DEF LocksOK
  <2>2. CASE p # q
    <3>1. req'[p] = req[p]
      BY <1>1, <2>2
    <3>2. \A f \in Folios : holder'[f] = p => HeldBy(req'[p], f)
      BY <1>2, <2>2, <3>1 DEF LocksOK
    <3>3. ASSUME req[p].at = "lockSecond"
          PROVE  holder'[FirstLock(req[p])] = p
      <4>1. FirstLock(req[p]) \in Folios /\ holder[FirstLock(req[p])] = p
        BY <3>3, AtWork DEF LocksOK, FirstLock, Steps
      <4>2. FirstLock(req[p]) # g
        BY <2>2, <4>1, FolioAssumption
      <4>3. QED
        BY <1>2, <4>1, <4>2
    <3>4. QED
      BY <3>1, <3>2, <3>3
  <2>3. QED
    BY <2>1, <2>2
<1>4. QED
  BY <1>3 DEF LocksOK, HeldBy, FirstLock, Touches

\* The steps of handlers that hold no locks.
Lockless(q) ==
  \/ InsertCharge(q) \/ InsertTax(q) \/ SumCharges(q) \/ SumPayments(q) \/ StoreBalance(q)
  \/ InsertPayment(q) \/ GatewayAccepts(q) \/ GatewayRefuses(q) \/ CountPending(q)
  \/ WriteStatus(q) \/ CommitLedger(q)

LEMMA LocklessStep ==
  ASSUME TypeOK, RequestsOK, LocksOK, NEW q \in Requests, Lockless(q)
  PROVE  LocksOK'
<1>1. /\ holder' = holder /\ req[q].at \notin Holding
      /\ req[q].at \in Steps
  BY DEF Lockless, InsertCharge, InsertTax, SumCharges, SumPayments, StoreBalance,
         InsertPayment,
         GatewayAccepts, GatewayRefuses, CountPending, WriteStatus, CommitLedger, Holding, Steps
<1>2. req[q] \in Work
  BY <1>1, AtWork
<1>3. PICK x : Goes(q, x) /\ x.at # "lockSecond"
  <2>1. Idle.at # "lockSecond"
    BY DEF Idle
  <2>6. ASSUME NEW at \in {"insertTax", "sumCharges", "sumPayments", "store", "writeStatus"}
        PROVE  /\ [req[q] EXCEPT !.at = at].at # "lockSecond"
               /\ \A c : [req[q] EXCEPT !.at = at, !.charged = c].at # "lockSecond"
               /\ \A c : [req[q] EXCEPT !.at = at, !.paid = c].at # "lockSecond"
    BY <1>2 DEF Work
  <2>2. CASE InsertCharge(q) \/ InsertTax(q) \/ StoreBalance(q)
    BY <2>1, <2>2, <2>6, InsertChargeStep, InsertTaxStep, StoreBalanceStep
  <2>7. CASE SumCharges(q) \/ SumPayments(q)
    BY <2>6, <2>7, SumChargesStep, SumPaymentsStep
  <2>8. CASE InsertPayment(q) \/ GatewayAccepts(q)
    BY <2>1, <2>6, <2>8, InsertPaymentStep, GatewayAcceptsStep
  <2>3. CASE GatewayRefuses(q) \/ CountPending(q)
    BY <2>1, <2>3, <2>6, GatewayRefusesStep, CountPendingStep
  <2>4. CASE WriteStatus(q) \/ CommitLedger(q)
    BY <2>1, <2>4, WriteStatusStep, CommitLedgerStep
  <2>5. QED
    BY <2>2, <2>3, <2>4, <2>7, <2>8 DEF Lockless
<1>4. QED
  BY <1>1, <1>3, LocksOfUnlocked

LEMMA LockStep ==
  ASSUME TypeOK, RequestsOK, LocksOK, NEW q \in Requests, LockFirst(q) \/ LockSecond(q)
  PROVE  LocksOK'
<1>1. req[q].at \in Steps
  BY DEF LockFirst, LockSecond, Steps
<1>2. PICK r \in Work : r = req[q]
  BY <1>1, AtWork
<1>3. /\ FirstLock(r) \in Folios /\ SecondLock(r) \in Folios
      /\ \A f \in Folios : Touches(r, f) <=> f = FirstLock(r) \/ f = SecondLock(r)
  BY DEF FirstLock, SecondLock, Touches, Work
<1>4. CASE LockFirst(q)
  <2>1. PICK x : x = [r EXCEPT !.at = "lockSecond"]
    OBVIOUS
  <2>2. Goes(q, x)
    BY <1>2, <1>4, <2>1, LockFirstStep
  <2>3. x.at = "lockSecond" /\ FirstLock(x) = FirstLock(r) /\ x # Idle
    BY <2>1 DEF Work, FirstLock, Idle
  <2>4. HeldBy(x, FirstLock(r)) /\ \A f \in Folios : ~HeldBy(r, f)
    BY <1>2, <1>4, <2>3 DEF HeldBy, LockFirst
  <2>5. holder[FirstLock(r)] \in {NoRequest, q} /\ holder' = [holder EXCEPT ![FirstLock(r)] = q]
    BY <1>2, <1>4 DEF LockFirst, Lock
  <2>6. QED
    BY <1>2, <1>3, <2>2, <2>3, <2>4, <2>5, LocksOfLocking
<1>5. CASE LockSecond(q)
  <2>1. PICK x : x = [r EXCEPT !.at = "readCharge"]
    OBVIOUS
  <2>2. Goes(q, x)
    BY <1>2, <1>5, <2>1, LockSecondStep
  <2>3. x.at = "readCharge" /\ x # Idle /\ \A f \in Folios : Touches(x, f) <=> Touches(r, f)
    BY <2>1 DEF Work, Touches, Idle
  <2>4. HeldBy(x, SecondLock(r)) /\ \A f \in Folios : HeldBy(r, f) => HeldBy(x, f)
    BY <1>2, <1>3, <1>5, <2>3 DEF HeldBy, LockSecond
  <2>5. holder[SecondLock(r)] \in {NoRequest, q} /\ holder' = [holder EXCEPT ![SecondLock(r)] = q]
    BY <1>2, <1>5 DEF LockSecond, Lock
  <2>6. QED
    BY <1>2, <1>3, <2>2, <2>3, <2>4, <2>5, LocksOfLocking
<1>6. QED
  BY <1>4, <1>5

LEMMA ReadChargeLocks ==
  ASSUME TypeOK, RequestsOK, LocksOK, NEW q \in Requests, ReadCharge(q)
  PROVE  LocksOK'
<1>1. req[q].at \in Steps /\ req[q].at = "readCharge"
  BY DEF ReadCharge, Steps
<1>2. PICK r \in Work : r = req[q]
  BY <1>1, AtWork
<1>3. CASE End(q) /\ Release(q)
  <2>1. Goes(q, Idle)
    <3>1. req'[q] = Idle
      BY <1>3 DEF End, TypeOK
    <3>2. Goes(q, [req[q] EXCEPT !.at = "moveCharge"]) => req'[q] = [r EXCEPT !.at = "moveCharge"]
      BY <1>2 DEF Goes, TypeOK
    <3>3. [r EXCEPT !.at = "moveCharge"] # Idle
      BY DEF Work, Idle
    <3>4. QED
      BY <3>1, <3>2, <3>3, ReadChargeStep
  <2>2. QED
    BY <1>3, <2>1, LocksOfRelease DEF Idle
<1>4. CASE Resume(q, "moveCharge") /\ holder' = holder
  <2>1. PICK x : x = [r EXCEPT !.at = "moveCharge"]
    OBVIOUS
  <2>2. req'[q] = x /\ \A p \in Requests \ {q} : req'[p] = req[p]
    BY <1>2, <1>4, <2>1 DEF Resume, TypeOK
  <2>3. x.at = "moveCharge" /\ \A f \in Folios : Touches(x, f) <=> Touches(r, f)
    BY <2>1 DEF Work, Touches
  <2>4. ASSUME NEW p \in Requests
        PROVE  /\ \A f \in Folios : holder'[f] = p => HeldBy(req'[p], f)
               /\ req'[p].at = "lockSecond" => holder'[FirstLock(req'[p])] = p
    <3>1. CASE p = q
      BY <1>1, <1>2, <1>4, <2>2, <2>3, <3>1 DEF LocksOK, HeldBy
    <3>2. CASE p # q
      BY <1>4, <2>2, <3>2 DEF LocksOK
    <3>3. QED
      BY <3>1, <3>2
  <2>5. QED
    BY <2>4 DEF LocksOK, HeldBy, FirstLock, Touches
<1>5. QED
  BY <1>3, <1>4 DEF ReadCharge

LEMMA LocksKept ==
  ASSUME TypeOK, RequestsOK, LocksOK, NEW q \in Requests, Handler(q)
  PROVE  LocksOK'
<1>1. CASE \E f \in Folios, amount \in Amounts :
             \/ PostCharge(q, f, amount) \/ PostCharge(q, f, -amount)
             \/ ReverseCharge(q, f, amount)
             \/ \E op \in Ops : RecordPayment(q, op, f, amount)
  <2>1. PICK f \in Folios, amount \in Amounts :
             \/ PostCharge(q, f, amount) \/ PostCharge(q, f, -amount)
             \/ ReverseCharge(q, f, amount)
             \/ \E op \in Ops : RecordPayment(q, op, f, amount)
    BY <1>1
  <2>2. amount \in Int /\ -amount \in Int
    BY FolioAssumption
  <2>3. \E x : Begins(q, x)
    BY <2>1, <2>2, PostChargeStep, ReverseChargeStep, RecordPaymentStep
  <2>4. QED
    BY <2>3, LocksOfBeginning
<1>2. CASE \E f \in Folios, amount \in Amounts :
             \/ ClaimPayment(q, f, amount)
             \/ \E payment \in Amounts : ClaimRefund(q, f, amount, payment)
             \/ \E g \in Folios : TransferCharge(q, f, g, amount)
  <2>1. \E x : Begins(q, x)
    BY <1>2, ClaimPaymentStep, ClaimRefundStep, TransferChargeStep
  <2>2. QED
    BY <2>1, LocksOfBeginning
<1>3. CASE \E f \in Folios : Settle(q, f) \/ Close(q, f) \/ TransferToCityLedger(q, f)
  <2>1. \E x : Begins(q, x)
    BY <1>3, SettleStep, CloseStep, TransferToCityLedgerStep
  <2>2. QED
    BY <2>1, LocksOfBeginning
<1>4. CASE Lockless(q)
  BY <1>4, LocklessStep
<1>5. CASE LockFirst(q) \/ LockSecond(q) \/ ReadCharge(q)
  BY <1>5, LockStep, ReadChargeLocks
<1>6. CASE MoveCharge(q) \/ Abort(q)
  <2>1. Goes(q, Idle) /\ Release(q)
    BY <1>6, MoveChargeStep, AbortStep DEF MoveCharge, Abort
  <2>2. QED
    BY <2>1, LocksOfRelease DEF Idle
<1>7. QED
  BY <1>1, <1>2, <1>3, <1>4, <1>5, <1>6 DEF Handler, Lockless

\* Of finite sets there is always one that has none of the others strictly inside.
LEMMA Smallest ==
  ASSUME NEW F, F # {}, \A U \in F : IsFiniteSet(U)
  PROVE  \E U \in F : \A V \in F : V \subseteq U => V = U
<1>1. F \subseteq FiniteSubsetsOf(UNION F)
  BY DEF FiniteSubsetsOf
<1>2. PICK U \in F : \A V \in F : <<V, U>> \notin StrictSubsetOrdering(UNION F)
  <2>1. IsWellFoundedOn(StrictSubsetOrdering(UNION F), FiniteSubsetsOf(UNION F))
    BY FS_StrictSubsetOrderingWellFounded
  <2>2. QED
    BY <1>1, <2>1, WFMin
<1>3. QED
  BY <1>2 DEF StrictSubsetOrdering

Above(S, x) == {y \in S : y > x}

\* Every finite set of numbers has a greatest one: that with the smallest set above it.
LEMMA Greatest ==
  ASSUME NEW S \in SUBSET Int, IsFiniteSet(S), S # {}
  PROVE  \E m \in S : \A k \in S : k <= m
<1> DEFINE F == {U \in SUBSET S : \E x \in S : U = Above(S, x)}
<1>1. \A U \in F : IsFiniteSet(U)
  BY FS_Subset
<1>2. \A x \in S : Above(S, x) \in F
  BY DEF Above
<1>3. \A U \in F : \E x \in S : U = Above(S, x)
  OBVIOUS
<1> HIDE DEF F
<1>4. F # {}
  BY <1>2
<1>5. PICK U \in F : \A V \in F : V \subseteq U => V = U
  BY <1>1, <1>4, Smallest
<1>6. PICK x \in S : U = Above(S, x)
  BY <1>3
<1>7. ASSUME NEW y \in S, y > x
      PROVE  FALSE
  <2>1. \A z \in S : z > y => z > x
    BY <1>7
  <2>2. Above(S, y) \subseteq Above(S, x)
    BY <2>1 DEF Above
  <2>3. y \in Above(S, x) /\ y \notin Above(S, y)
    BY <1>7 DEF Above
  <2>4. QED
    BY <1>2, <1>5, <1>6, <2>2, <2>3
<1>8. \A y \in S : y <= x
  BY <1>7
<1>9. QED
  BY <1>8

\* Whoever waits does so at one of its two locks, the smaller folio first.
LEMMA WaitingForSmaller ==
  ASSUME TypeOK, RequestsOK, LocksOK, NEW a \in Requests, NEW b \in Requests, WaitsFor(a, b)
  PROVE  /\ FirstLock(req[a]) \in Folios /\ SecondLock(req[a]) \in Folios
         /\ FirstLock(req[a]) <= SecondLock(req[a])
         /\ req[a].at \in {"lockFirst", "lockSecond"}
         /\ req[a].at = "lockSecond" => holder[SecondLock(req[a])] = b
         /\ req[b].at \in Holding
<1>1. req[a].at \in {"lockFirst", "lockSecond"}
  BY DEF WaitsFor
<1>2. req[a].folio \in Folios /\ req[a].target \in Folios
  BY <1>1, AtWork DEF Steps
<1>3. FirstLock(req[a]) \in Folios /\ SecondLock(req[a]) \in Folios
  BY <1>2 DEF FirstLock, SecondLock
<1>4. FirstLock(req[a]) <= SecondLock(req[a])
  <2>1. \A f \in Folios : f \in Int
    BY FolioAssumption
  <2>2. PICK f \in Folios, g \in Folios : f = req[a].folio /\ g = req[a].target
    BY <1>2
  <2>3. f \in Int /\ g \in Int
    BY <2>1
  <2>4. QED
    BY <2>2, <2>3 DEF FirstLock, SecondLock
<1>5. req[b].at \in Holding
  BY <1>3, NothingHeld DEF WaitsFor
<1>6. QED
  BY <1>1, <1>3, <1>4, <1>5 DEF WaitsFor

\* Whoever waits for one that waits at its second lock holds a smaller folio than it.
LEMMA WaitingGoesUp ==
  ASSUME TypeOK, RequestsOK, LocksOK, NEW a \in Requests, NEW b \in Requests, WaitsFor(a, b),
         req[a].at = "lockSecond", req[b].at = "lockSecond"
  PROVE  FirstLock(req[a]) < FirstLock(req[b])
<1>1. /\ FirstLock(req[a]) \in Folios /\ SecondLock(req[a]) \in Folios
      /\ FirstLock(req[a]) <= SecondLock(req[a]) /\ holder[SecondLock(req[a])] = b /\ a # b
  BY WaitingForSmaller DEF WaitsFor
<1>2. SecondLock(req[a]) = FirstLock(req[b])
  BY <1>1 DEF LocksOK, HeldBy
<1>3. FirstLock(req[a]) # SecondLock(req[a])
  BY <1>1 DEF LocksOK
<1>4. \A f \in Folios : f \in Int
  BY FolioAssumption
<1>5. PICK f \in Folios, g \in Folios : f = FirstLock(req[a]) /\ g = FirstLock(req[b])
  BY <1>1, <1>2
<1>6. QED
  BY <1>1, <1>2, <1>3, <1>4, <1>5

\* In a group where everyone waits for another of the group, everyone is waited for at its
\* second lock by one that holds less: the one that holds the greatest folio waits for none.
LEMMA LocksOrdered == TypeOK /\ RequestsOK /\ LocksOK => NoWaitCycle
<1> SUFFICES ASSUME TypeOK, RequestsOK, LocksOK, NEW S \in SUBSET Requests, S # {}, IsFiniteSet(S),
                    \A q \in S : \E p \in S : WaitsFor(q, p)
             PROVE  FALSE
  BY DEF NoWaitCycle
<1> DEFINE T == {q \in S : req[q].at = "lockSecond"}
           locks == {FirstLock(req[q]) : q \in T}
<1>1. ASSUME NEW q \in S
      PROVE  \E p \in T : WaitsFor(q, p)
  <2>1. PICK p \in S : WaitsFor(q, p)
    OBVIOUS
  <2>2. PICK r \in S : WaitsFor(p, r)
    OBVIOUS
  <2>3. req[p].at \in Holding /\ req[p].at \in {"lockFirst", "lockSecond"}
    BY <2>1, <2>2, WaitingForSmaller
  <2>4. QED
    BY <2>1, <2>3 DEF Holding
<1>2. IsFiniteSet(locks)
  <2>1. IsFiniteSet(T)
    BY FS_Subset
  <2>2. PICK first : first = [q \in T |-> FirstLock(req[q])]
    OBVIOUS
  <2>3. first \in Surjection(T, locks)
    BY <2>2 DEF Surjection
  <2>4. QED
    BY <2>1, <2>3, FS_Surjection
<1>3. \A q \in T : FirstLock(req[q]) \in Int
  <2>1. \A q \in T : \E p \in T : WaitsFor(q, p)
    BY <1>1
  <2>2. \A q \in T : FirstLock(req[q]) \in Folios
    BY <2>1, WaitingForSmaller
  <2>3. \A f \in Folios : f \in Int
    BY FolioAssumption
  <2>4. QED
    BY <2>2, <2>3
<1>4. locks \in SUBSET Int /\ locks # {}
  BY <1>1, <1>3
<1>5. PICK m \in locks : \A k \in locks : k <= m
  BY ONLY <1>2, <1>4, Greatest
<1>6. PICK q \in T : FirstLock(req[q]) = m
  BY <1>5
<1>7. PICK p \in T : WaitsFor(q, p)
  BY <1>1
<1>8. FirstLock(req[q]) < FirstLock(req[p]) /\ FirstLock(req[p]) \in locks
  BY <1>7, WaitingGoesUp
<1>9. PICK j \in Int, k \in Int : j = FirstLock(req[q]) /\ k = FirstLock(req[p])
  BY <1>3
<1>10. k <= m /\ j = m /\ j < k
  BY <1>5, <1>6, <1>8, <1>9
<1>11. QED
  BY <1>9, <1>10

-----------------------------------------------------------------------------
(* The rows and the balance of a folio.                                    *)

SameBooks(f) ==
  /\ balance'[f] = balance[f] /\ charged'[f] = charged[f] /\ held'[f] = held[f]
  /\ captured'[f] = captured[f] /\ refunded'[f] = refunded[f] /\ paidBack'[f] = paidBack[f]

BooksInv == UnopenedOK /\ SumsOK /\ BalancesOK

\* A folio that is not stale is shared by transfers, or had by one handler.
LEMMA HadByOne ==
  ASSUME AloneOK, MixedOK, NEW p \in Requests, NEW q \in Requests, p # q,
         NEW f \in Folios, Touches(req[p], f), Touches(req[q], f), ~Transfer(req[p])
  PROVE  ~req[p].alone /\ f \in stale
BY DEF AloneOK, MixedOK

LEMMA BooksOfGoing ==
  ASSUME TypeOK, RequestsOK, AloneOK, MixedOK, BooksInv, NEW q \in Requests, NEW x, Goes(q, x),
         \A f \in Folios : status'[f] = "none" => status[f] = "none" /\ SameBooks(f),
         x.at = "moveCharge" => status[x.folio] # "none" /\ status[x.target] # "none",
         \A f \in Folios : ~Touches(req[q], f)
           => SameBooks(f) \/ (status[f] = "none" /\ Balanced(f)'),
         \A f \in Folios \ stale' : Touches(req[q], f) =>
           IF Transfer(req[q]) THEN SameBooks(f) \/ Balanced(f)'
           ELSE IF x = Idle THEN Balanced(f)'
           ELSE BooksAgree(x, balance'[f], charged'[f], held'[f], Paid(f)'),
         \A f \in Folios : Touches(req[q], f) /\ ~Transfer(req[q]) /\ x # Idle /\ x.alone
           => SumsAgree(x, charged'[f], Paid(f)')
  PROVE  BooksInv'
<1>1. req'[q] = x /\ \A p \in Requests \ {q} : req'[p] = req[p]
  BY GoingOn
<1>2. \A f \in Folios : SameBooks(f) => Paid(f)' = Paid(f)
  BY DEF SameBooks, Paid
<1>3. ASSUME NEW f \in Folios, f \in stale, f \notin stale'
      PROVE  req[q].alone /\ ~Transfer(req[q]) /\ f = req[q].folio /\ x = Idle
  BY <1>3 DEF Goes
<1>4. UnopenedOK'
  <2>1. ASSUME NEW f \in Folios, status'[f] = "none"
        PROVE  /\ balance'[f] = 0 /\ charged'[f] = 0 /\ held'[f] = 0
               /\ captured'[f] = 0 /\ refunded'[f] = 0 /\ paidBack'[f] = 0
    BY <2>1 DEF BooksInv, UnopenedOK, SameBooks
  <2>2. ASSUME NEW f \in Folios, status'[f] = "none", NEW p \in Requests, Touches(req'[p], f)
        PROVE  req'[p].op = "transferCharge" /\ req'[p].at # "moveCharge"
    <3>1. Touches(req[p], f) /\ req'[p].op = req[p].op
      BY <2>2, GoesTouching
    <3>2. status[f] = "none"
      BY <2>2
    <3>3. req[p].op = "transferCharge" /\ req[p].at # "moveCharge"
      BY <3>1, <3>2 DEF BooksInv, UnopenedOK
    <3>4. CASE p = q
      BY <1>1, <2>2, <3>1, <3>2, <3>3, <3>4 DEF Touches
    <3>5. CASE p # q
      BY <1>1, <3>3, <3>5
    <3>6. QED
      BY <3>4, <3>5
  <2>3. QED
    BY <2>1, <2>2 DEF UnopenedOK, Touches
<1>5. ASSUME NEW p \in Requests, p # q, NEW f \in Folios, Touches(req'[p], f), ~Transfer(req'[p]),
             ~Touches(req[q], f)
      PROVE  SameBooks(f)
  BY <1>1, <1>5 DEF BooksInv, UnopenedOK, Transfer
<1>6. SumsOK'
  <2>1. ASSUME NEW p \in Requests, NEW f \in Folios, Touches(req'[p], f), ~Transfer(req'[p]),
               req'[p].alone
        PROVE  SumsAgree(req'[p], charged'[f], Paid(f)')
    <3>1. Touches(req[p], f) /\ ~Transfer(req[p]) /\ req[p].alone
      BY <2>1, GoesTouching DEF Transfer
    <3>2. CASE p = q
      <4>1. x # Idle
        BY <2>1, <3>2, GoesTouching
      <4>2. QED
        BY <1>1, <2>1, <3>1, <3>2, <4>1
    <3>3. CASE p # q
      <4>1. req'[p] = req[p]
        BY <1>1, <3>3
      <4>2. ~Touches(req[q], f)
        BY <3>1, <3>3, HadByOne
      <4>3. SameBooks(f)
        BY <1>5, <2>1, <3>3, <4>2
      <4>4. SumsAgree(req[p], charged[f], Paid(f))
        BY <3>1 DEF BooksInv, SumsOK
      <4>5. QED
        BY <1>2, <4>1, <4>3, <4>4 DEF SameBooks
    <3>4. QED
      BY <3>2, <3>3
  <2>2. QED
    BY <2>1 DEF SumsOK, Touches, Transfer, SumsAgree
<1>7. ASSUME NEW f \in Folios, f \notin stale',
             \A p \in Requests : Touches(req'[p], f) => Transfer(req'[p])
      PROVE  Balanced(f)'
  <2>1. \A p \in Requests \ {q} : Touches(req[p], f) => Transfer(req[p])
    BY <1>1, <1>7
  <2>2. CASE Touches(req[q], f) /\ ~Transfer(req[q])
    <3>1. x = Idle
      <4>1. x # Idle => Touches(x, f) /\ ~Transfer(x)
        BY <2>2 DEF Goes, Touches, Transfer
      <4>2. QED
        BY <1>1, <1>7, <4>1
    <3>2. QED
      BY <1>7, <2>2, <3>1
  <2>3. CASE Touches(req[q], f) => Transfer(req[q])
    <3>1. f \notin stale
      BY <1>3, <1>7, <2>3 DEF Touches
    <3>2. Balanced(f)
      BY <2>1, <2>3, <3>1 DEF BooksInv, BalancesOK
    <3>3. SameBooks(f) \/ Balanced(f)'
      BY <1>7, <2>3
    <3>4. QED
      BY <1>2, <3>2, <3>3 DEF Balanced, SameBooks
  <2>4. QED
    BY <2>2, <2>3
<1>8. ASSUME NEW f \in Folios, f \notin stale', NEW p \in Requests, Touches(req'[p], f),
             ~Transfer(req'[p])
      PROVE  BooksAgree(req'[p], balance'[f], charged'[f], held'[f], Paid(f)')
  <2>1. Touches(req[p], f) /\ ~Transfer(req[p])
    BY <1>8, GoesTouching DEF Transfer
  <2>2. CASE p = q
    <3>1. x # Idle
      BY <1>8, <2>2, GoesTouching
    <3>2. QED
      BY <1>1, <1>8, <2>1, <2>2, <3>1
  <2>3. CASE p # q
    <3>1. req'[p] = req[p]
      BY <1>1, <2>3
    <3>2. f \notin stale
      <4>1. ASSUME f \in stale PROVE FALSE
        <5>1. req[q].alone /\ ~Transfer(req[q]) /\ Touches(req[q], f)
          BY <1>3, <1>8, <4>1 DEF Touches
        <5>2. QED
          BY <2>1, <2>3, <5>1, HadByOne
      <4>2. QED
        BY <4>1
    <3>3. ~Touches(req[q], f)
      BY <2>1, <2>3, <3>2, HadByOne
    <3>4. SameBooks(f)
      BY <1>5, <1>8, <2>3, <3>3
    <3>5. BooksAgree(req[p], balance[f], charged[f], held[f], Paid(f))
      BY <2>1, <3>2 DEF BooksInv, BalancesOK
    <3>6. QED
      BY <1>2, <3>1, <3>4, <3>5 DEF SameBooks
  <2>4. QED
    BY <2>2, <2>3
<1>9. BalancesOK'
  BY <1>7, <1>8 DEF BalancesOK, Touches, Transfer, Balanced, BooksAgree, InBalance
<1>10. QED
  BY <1>4, <1>6, <1>9 DEF BooksInv

LEMMA BooksOfBeginning ==
  ASSUME TypeOK, RequestsOK, BooksInv, NEW q \in Requests, NEW x, Begins(q, x),
         UNCHANGED <<status, balance, charged, paidBack>>,
         \A f \in Folios : ~Touches(x, f) \/ Transfer(x) => SameBooks(f),
         ~Transfer(x) => status[x.folio] # "none",
         \A f \in Folios : f = x.folio /\ ~Transfer(x) /\ Balanced(f)
           => BooksAgree(x, balance'[f], charged'[f], held'[f], Paid(f)')
  PROVE  BooksInv'
<1>1. \A f \in Folios : SameBooks(f) => Paid(f)' = Paid(f)
  BY DEF SameBooks, Paid
<1>2. /\ x \in Work /\ x.at \in FirstSteps
      /\ \A f \in Folios : Touches(x, f) /\ ~Transfer(x) => f = x.folio
  BY DEF Begins, RequestOK, Transfer, Touches
<1>3. stale' = stale \cup {f \in Folios : Touches(x, f) /\ \E p \in Requests : Mixes(x, p, f)}
  BY Beginning
<1>4. req'[q].op = x.op /\ \A f \in Folios : Touches(req'[q], f) <=> Touches(x, f)
  BY BeginsOwn
<1>5. UnopenedOK'
  <2>1. ASSUME NEW f \in Folios, status'[f] = "none"
        PROVE  /\ balance'[f] = 0 /\ charged'[f] = 0 /\ held'[f] = 0
               /\ captured'[f] = 0 /\ refunded'[f] = 0 /\ paidBack'[f] = 0
    <3>1. status[f] = "none" /\ SameBooks(f)
      BY <1>2, <2>1
    <3>2. QED
      BY <3>1 DEF BooksInv, UnopenedOK, SameBooks
  <2>2. ASSUME NEW f \in Folios, status'[f] = "none", NEW p \in Requests, Touches(req'[p], f)
        PROVE  req'[p].op = "transferCharge" /\ req'[p].at # "moveCharge"
    <3>1. CASE p = q
      <4>1. req'[q].at = x.at
        BY BeginsOwn
      <4>2. Transfer(x)
        BY <1>2, <1>4, <2>2, <3>1
      <4>3. QED
        BY <1>2, <1>4, <3>1, <4>1, <4>2 DEF Transfer, FirstSteps
    <3>2. CASE p # q
      <4>1. Touches(req[p], f) /\ req'[p].op = req[p].op /\ req'[p].at = req[p].at
        BY <2>2, <3>2, BeginsOther
      <4>2. QED
        BY <2>2, <4>1 DEF BooksInv, UnopenedOK
    <3>3. QED
      BY <3>1, <3>2
  <2>3. QED
    BY <2>1, <2>2 DEF UnopenedOK, Touches
<1>6. SumsOK'
  <2>1. ASSUME NEW p \in Requests, NEW f \in Folios, Touches(req'[p], f), ~Transfer(req'[p]),
               req'[p].alone
        PROVE  SumsAgree(req'[p], charged'[f], Paid(f)')
    <3>1. CASE p = q
      <4>1. req'[q].at = x.at
        BY BeginsOwn
      <4>2. QED
        BY <1>2, <3>1, <4>1 DEF FirstSteps, SumsAgree
    <3>2. CASE p # q
      <4>1. /\ Touches(req[p], f) /\ Working(p, f) /\ req'[p].op = req[p].op /\ req[p].alone
            /\ ~\E g \in Folios : Touches(x, g) /\ Mixes(x, p, g)
        BY <2>1, <3>2, BeginsOther
      <4>2. /\ req'[p].at = req[p].at /\ req'[p].charged = req[p].charged
            /\ req'[p].paid = req[p].paid
        BY <3>2, BeginsOther
      <4>3. ~Transfer(req[p]) /\ ~Touches(x, f)
        BY <2>1, <4>1 DEF Mixes, Transfer
      <4>4. SameBooks(f)
        BY <4>3
      <4>5. SumsAgree(req[p], charged[f], Paid(f))
        BY <4>1, <4>3 DEF BooksInv, SumsOK
      <4>6. QED
        BY <1>1, <4>2, <4>4, <4>5 DEF SameBooks, SumsAgree
    <3>3. QED
      BY <3>1, <3>2
  <2>2. QED
    BY <2>1 DEF SumsOK, Touches, Transfer, SumsAgree
<1>7. ASSUME NEW f \in Folios, f \notin stale'
      PROVE  f \notin stale /\ \A p \in Requests : Touches(x, f) => ~Mixes(x, p, f)
  BY <1>3, <1>7
<1>8. ASSUME NEW f \in Folios, f \notin stale',
             \A p \in Requests : Touches(req'[p], f) => Transfer(req'[p])
      PROVE  Balanced(f)'
  <2>1. ASSUME NEW p \in Requests, Touches(req[p], f)
        PROVE  Transfer(req[p])
    <3>1. p # q
      BY <2>1, BeginsOwn
    <3>2. Touches(req'[p], f) /\ req'[p].op = req[p].op
      BY <2>1, <3>1, BeginsOther
    <3>3. QED
      BY <1>8, <3>2 DEF Transfer
  <2>2. Balanced(f)
    BY <1>7, <1>8, <2>1 DEF BooksInv, BalancesOK
  <2>3. Touches(x, f) => Transfer(x)
    BY <1>4, <1>8 DEF Transfer
  <2>4. SameBooks(f)
    BY <2>3
  <2>5. QED
    BY <1>1, <2>2, <2>4 DEF Balanced, SameBooks
<1>9. ASSUME NEW f \in Folios, f \notin stale', NEW p \in Requests, Touches(req'[p], f),
             ~Transfer(req'[p])
      PROVE  BooksAgree(req'[p], balance'[f], charged'[f], held'[f], Paid(f)')
  <2>1. CASE p = q
    <3>1. Touches(x, f) /\ ~Transfer(x) /\ f = x.folio
      BY <1>2, <1>4, <1>9, <2>1 DEF Transfer
    <3>2. \A o \in Requests : ~Touches(req[o], f)
      <4>1. ASSUME NEW o \in Requests, Touches(req[o], f) PROVE FALSE
        <5>1. o # q
          BY <4>1, BeginsOwn
        <5>2. Working(o, f)
          BY <4>1, <5>1, BeginsOther
        <5>3. QED
          BY <1>7, <1>9, <3>1, <5>2 DEF Mixes, Transfer
      <4>2. QED
        BY <4>1
    <3>3. Balanced(f)
      BY <1>7, <1>9, <3>2 DEF BooksInv, BalancesOK
    <3>4. BooksAgree(x, balance'[f], charged'[f], held'[f], Paid(f)')
      BY <3>1, <3>3
    <3>5. req'[q].op = x.op /\ req'[q].at = x.at /\ req'[q].claim = x.claim
      BY BeginsOwn
    <3>6. QED
      BY <2>1, <3>4, <3>5 DEF BooksAgree
  <2>2. CASE p # q
    <3>1. /\ Touches(req[p], f) /\ Working(p, f) /\ req'[p].op = req[p].op
          /\ req'[p].at = req[p].at /\ req'[p].claim = req[p].claim
      BY <1>9, <2>2, BeginsOther
    <3>2. ~Transfer(req[p]) /\ ~Touches(x, f)
      BY <1>7, <1>9, <3>1 DEF Mixes, Transfer
    <3>3. SameBooks(f)
      BY <3>2
    <3>4. BooksAgree(req[p], balance[f], charged[f], held[f], Paid(f))
      BY <1>7, <1>9, <3>1, <3>2 DEF BooksInv, BalancesOK
    <3>5. QED
      BY <1>1, <3>1, <3>3, <3>4 DEF SameBooks, BooksAgree
  <2>3. QED
    BY <2>1, <2>2
<1>10. BalancesOK'
  BY <1>8, <1>9 DEF BalancesOK, Touches, Transfer, Balanced, BooksAgree, InBalance
<1>11. QED
  BY <1>5, <1>6, <1>10 DEF BooksInv

\* A handler that begins by reading the folio.
LEMMA BooksOfReading ==
  ASSUME TypeOK, RequestsOK, BooksInv, NEW q \in Requests, NEW x, Begins(q, x),
         UNCHANGED <<status, balance, charged, payments>>,
         ~Transfer(x) => status[x.folio] # "none",
         x.at # "gateway",
         x.op = "settle" => InBalance(balance[x.folio]) /\ x.at = "countPending"
  PROVE  BooksInv'
<1>1. UNCHANGED <<status, balance, charged, held, captured, refunded, paidBack>>
  BY DEF payments
<1>2. \A f \in Folios : SameBooks(f)
  BY <1>1 DEF SameBooks
<1>3. ASSUME NEW f \in Folios, f = x.folio, Balanced(f)
      PROVE  BooksAgree(x, balance'[f], charged'[f], held'[f], Paid(f)')
  <2>1. balance[f] = charged[f] - Paid(f) /\ Paid(f)' = Paid(f)
    BY <1>1, <1>3 DEF Balanced, Paid
  <2>2. QED
    BY <1>1, <1>3, <2>1 DEF BooksAgree
<1>4. QED
  BY <1>1, <1>2, <1>3, BooksOfBeginning

LEMMA ReadingSteps ==
  ASSUME TypeOK, RequestsOK, BooksInv, NEW q \in Requests, NEW f \in Folios,
         \/ \E amount \in Int : PostCharge(q, f, amount) \/ ReverseCharge(q, f, amount)
         \/ \E op \in Ops, amount \in Amounts : RecordPayment(q, op, f, amount)
         \/ Settle(q, f) \/ Close(q, f) \/ TransferToCityLedger(q, f)
         \/ \E g \in Folios, amount \in Amounts : TransferCharge(q, f, g, amount)
  PROVE  BooksInv'
<1>1. CASE \E amount \in Int : PostCharge(q, f, amount)
  <2>1. PICK amount \in Int : PostCharge(q, f, amount)
    BY <1>1
  <2>2. PICK x : x = Request("postCharge", "insertCharge", f, amount)
    OBVIOUS
  <2>3. Begins(q, x)
    BY <2>1, <2>2, PostChargeStep
  <2>4. x.op = "postCharge" /\ x.at = "insertCharge" /\ x.folio = f
    BY <2>2 DEF Request
  <2>5. status[f] # "none" /\ UNCHANGED <<status, balance, charged, payments>>
    BY <2>1 DEF PostCharge
  <2>6. QED
    BY <2>3, <2>4, <2>5, BooksOfReading
<1>2. CASE \E amount \in Int : ReverseCharge(q, f, amount)
  <2>1. PICK amount \in Int : ReverseCharge(q, f, amount)
    BY <1>2
  <2>2. PICK x : x = Request("reverseCharge", "insertCharge", f, -amount)
    OBVIOUS
  <2>3. Begins(q, x)
    BY <2>1, <2>2, ReverseChargeStep
  <2>4. x.op = "reverseCharge" /\ x.at = "insertCharge" /\ x.folio = f
    BY <2>2 DEF Request
  <2>5. status[f] # "none" /\ UNCHANGED <<status, balance, charged, payments>>
    BY <2>1 DEF ReverseCharge
  <2>6. QED
    BY <2>3, <2>4, <2>5, BooksOfReading
<1>3. CASE \E op \in Ops, amount \in Amounts : RecordPayment(q, op, f, amount)
  <2>1. PICK op \in Ops, amount \in Amounts : RecordPayment(q, op, f, amount)
    BY <1>3
  <2>2. PICK x : x = Request(op, "insertPayment", f, amount)
    OBVIOUS
  <2>3. Begins(q, x)
    BY <2>1, <2>2, RecordPaymentStep
  <2>4. x.op = op /\ x.at = "insertPayment" /\ x.folio = f
    BY <2>2 DEF Request
  <2>5. /\ status[f] # "none" /\ UNCHANGED <<status, balance, charged, payments>>
        /\ op # "settle"
    BY <2>1 DEF RecordPayment
  <2>6. QED
    BY <2>3, <2>4, <2>5, BooksOfReading
<1>4. CASE Settle(q, f)
  <2>1. PICK x : x = Request("settle", "countPending", f, 0)
    OBVIOUS
  <2>2. Begins(q, x)
    BY <1>4, <2>1, SettleStep
  <2>3. x.at = "countPending" /\ x.folio = f
    BY <2>1 DEF Request
  <2>4. /\ status[f] # "none" /\ UNCHANGED <<status, balance, charged, payments>>
        /\ InBalance(balance[f])
    BY <1>4 DEF Settle
  <2>5. QED
    BY <2>2, <2>3, <2>4, BooksOfReading
<1>5. CASE Close(q, f)
  <2>1. PICK x : x = Request("close", "writeStatus", f, 0)
    OBVIOUS
  <2>2. Begins(q, x)
    BY <1>5, <2>1, CloseStep
  <2>3. x.op = "close" /\ x.at = "writeStatus" /\ x.folio = f
    BY <2>1 DEF Request
  <2>4. status[f] # "none" /\ UNCHANGED <<status, balance, charged, payments>>
    BY <1>5 DEF Close
  <2>5. QED
    BY <2>2, <2>3, <2>4, BooksOfReading
<1>6. CASE TransferToCityLedger(q, f)
  <2>1. PICK x : x = Request("transferToCityLedger", "ledger", f, balance[f])
    OBVIOUS
  <2>2. Begins(q, x)
    BY <1>6, <2>1, TransferToCityLedgerStep
  <2>3. x.op = "transferToCityLedger" /\ x.at = "ledger" /\ x.folio = f
    BY <2>1 DEF Request
  <2>4. status[f] # "none"
    BY <1>6 DEF TransferToCityLedger, BooksInv, UnopenedOK
  <2>5. QED
    BY <1>6, <2>2, <2>3, <2>4, BooksOfReading DEF TransferToCityLedger
<1>7. CASE \E g \in Folios, amount \in Amounts : TransferCharge(q, f, g, amount)
  <2>1. PICK g \in Folios, amount \in Amounts : TransferCharge(q, f, g, amount)
    BY <1>7
  <2>2. PICK x : x = [Request("transferCharge", "lockFirst", f, amount) EXCEPT !.target = g]
    OBVIOUS
  <2>3. Begins(q, x)
    BY <2>1, <2>2, TransferChargeStep
  <2>4. x.op = "transferCharge" /\ x.at = "lockFirst"
    BY <2>2 DEF Request
  <2>5. QED
    BY <2>1, <2>3, <2>4, BooksOfReading DEF TransferCharge, Transfer
<1>8. QED
  BY <1>1, <1>2, <1>3, <1>4, <1>5, <1>6, <1>7

LEMMA ClaimPaymentBooks ==
  ASSUME TypeOK, RequestsOK, BooksInv, NEW q \in Requests, NEW f \in Folios,
         NEW amount \in Amounts, ClaimPayment(q, f, amount)
  PROVE  BooksInv'
<1>1. /\ amount \in Nat \ {0} /\ held[f] \in Nat /\ captured[f] \in Int
      /\ paidBack[f] \in Nat /\ balance[f] \in Int /\ charged[f] \in Int
  BY FolioAssumption DEF TypeOK
<1>2. status[f] # "none"
  BY <1>1 DEF ClaimPayment, Claimable, BooksInv, UnopenedOK
<1>3. UNCHANGED <<status, balance, charged, refunded, paidBack>>
  BY DEF ClaimPayment
<1>4. \A g \in Folios : g # f => held'[g] = held[g] /\ captured'[g] = captured[g]
  BY DEF ClaimPayment, Add, TypeOK
<1>5. CASE Begins(q, [Request("capturePayment", "gateway", f, amount) EXCEPT !.claim = amount])
  <2>1. PICK x : x = [Request("capturePayment", "gateway", f, amount) EXCEPT !.claim = amount]
    OBVIOUS
  <2>2. /\ x.op = "capturePayment" /\ x.at = "gateway" /\ x.claim = amount
        /\ x.folio = f /\ x.target = f
    BY <2>1 DEF Request
  <2>3. captured'[f] = captured[f] + amount
    <3>1. \/ captured' = Add(captured, f, amount)
          \/ Start(q, Request("voidPayment", "gateway", f, amount))
      BY DEF ClaimPayment
    <3>2. req'[q].op = "capturePayment"
      BY <1>5, <2>1, <2>2, BeginsOwn
    <3>3. Start(q, Request("voidPayment", "gateway", f, amount)) => req'[q].op = "voidPayment"
      BY DEF Start, Request
    <3>4. QED
      BY <3>1, <3>2, <3>3 DEF Add, TypeOK
  <2>4. ASSUME Balanced(f)
        PROVE  BooksAgree(x, balance'[f], charged'[f], held'[f], Paid(f)')
    <3>1. Paid(f)' = Paid(f) + amount /\ Paid(f) \in Int
      BY <1>1, <1>3, <2>3 DEF Paid
    <3>2. balance[f] = charged[f] - (Paid(f)' - amount)
      BY <1>1, <2>4, <3>1 DEF Balanced
    <3>3. QED
      BY <1>3, <2>2, <3>2 DEF BooksAgree
  <2>5. \A g \in Folios : ~Touches(x, g) \/ Transfer(x) => SameBooks(g)
    BY <1>3, <1>4, <2>2 DEF Touches, Transfer, SameBooks
  <2>6. QED
    BY <1>2, <1>3, <1>5, <2>1, <2>2, <2>4, <2>5, BooksOfBeginning
<1>6. CASE Begins(q, Request("voidPayment", "gateway", f, amount))
  <2>1. PICK x : x = Request("voidPayment", "gateway", f, amount)
    OBVIOUS
  <2>2. /\ x.op = "voidPayment" /\ x.at = "gateway" /\ x.claim = 0
        /\ x.folio = f /\ x.target = f
    BY <2>1 DEF Request
  <2>3. captured' = captured
    <3>1. \/ captured' = captured
          \/ Start(q, [Request("capturePayment", "gateway", f, amount) EXCEPT !.claim = amount])
      BY DEF ClaimPayment
    <3>2. req'[q].op = "voidPayment"
      BY <1>6, <2>1, <2>2, BeginsOwn
    <3>3. Start(q, [Request("capturePayment", "gateway", f, amount) EXCEPT !.claim = amount])
            => req'[q].op = "capturePayment"
      BY DEF Start, Request
    <3>4. QED
      BY <3>1, <3>2, <3>3
  <2>4. ASSUME Balanced(f)
        PROVE  BooksAgree(x, balance'[f], charged'[f], held'[f], Paid(f)')
    <3>1. Paid(f)' = Paid(f) /\ Paid(f) \in Int
      BY <1>1, <1>3, <2>3 DEF Paid
    <3>2. balance[f] = charged[f] - (Paid(f)' - 0)
      BY <1>1, <2>4, <3>1 DEF Balanced
    <3>3. QED
      BY <1>3, <2>2, <3>2 DEF BooksAgree
  <2>5. \A g \in Folios : ~Touches(x, g) \/ Transfer(x) => SameBooks(g)
    BY <1>3, <1>4, <2>2 DEF Touches, Transfer, SameBooks
  <2>6. QED
    BY <1>2, <1>3, <1>6, <2>1, <2>2, <2>4, <2>5, BooksOfBeginning
<1>7. QED
  BY <1>5, <1>6, ClaimPaymentStep

LEMMA ClaimRefundBooks ==
  ASSUME TypeOK, RequestsOK, BooksInv, NEW q \in Requests, NEW f \in Folios,
         NEW amount \in Amounts, NEW payment \in Amounts, ClaimRefund(q, f, amount, payment)
  PROVE  BooksInv'
<1>1. /\ amount \in Nat \ {0} /\ payment \in Nat \ {0} /\ captured[f] \in Int
      /\ paidBack[f] \in Nat /\ balance[f] \in Int /\ charged[f] \in Int /\ refunded[f] \in Int
  BY FolioAssumption DEF TypeOK
<1>2. status[f] # "none"
  BY <1>1 DEF ClaimRefund, BooksInv, UnopenedOK
<1>3. UNCHANGED <<status, balance, charged, held, paidBack>>
  BY DEF ClaimRefund
<1>4. \A g \in Folios : g # f => captured'[g] = captured[g] /\ refunded'[g] = refunded[g]
  BY DEF ClaimRefund, Add, TypeOK
<1>5. CASE /\ Start(q, [Request("refundPayment", "gateway", f, amount) EXCEPT !.claim = payment])
           /\ captured' = Add(captured, f, -payment)
  <2>1. PICK x : x = [Request("refundPayment", "gateway", f, amount) EXCEPT !.claim = payment]
    OBVIOUS
  <2>2. /\ x.op = "refundPayment" /\ x.at = "gateway" /\ x.claim = payment
        /\ x.folio = f /\ x.target = f
    BY <2>1 DEF Request
  <2>3. captured'[f] = captured[f] + -payment
    BY <1>5 DEF Add, TypeOK
  <2>4. Begins(q, x)
    <3>1. \/ Begins(q, x) \/ Begins(q, Request("refundPayment", "gateway", f, amount))
      BY <2>1, ClaimRefundStep
    <3>2. ASSUME Begins(q, Request("refundPayment", "gateway", f, amount))
          PROVE  FALSE
      <4>1. req'[q].claim = 0
        BY <3>2, BeginsOwn DEF Request
      <4>2. req'[q].claim = payment
        BY <1>5 DEF Start, Request
      <4>3. QED
        BY <1>1, <4>1, <4>2
    <3>3. QED
      BY <3>1, <3>2
  <2>5. ASSUME Balanced(f)
        PROVE  BooksAgree(x, balance'[f], charged'[f], held'[f], Paid(f)')
    <3>1. Paid(f)' = Paid(f) + -payment /\ Paid(f) \in Int
      BY <1>1, <1>3, <2>3 DEF Paid
    <3>2. balance[f] = charged[f] - (Paid(f)' + payment)
      BY <1>1, <2>5, <3>1 DEF Balanced
    <3>3. QED
      BY <1>3, <2>2, <3>2 DEF BooksAgree
  <2>6. \A g \in Folios : ~Touches(x, g) \/ Transfer(x) => SameBooks(g)
    BY <1>3, <1>4, <2>2 DEF Touches, Transfer, SameBooks
  <2>7. QED
    BY <1>2, <1>3, <2>2, <2>4, <2>5, <2>6, BooksOfBeginning
<1>6. CASE /\ Start(q, Request("refundPayment", "gateway", f, amount))
           /\ captured' = captured
  <2>1. PICK x : x = Request("refundPayment", "gateway", f, amount)
    OBVIOUS
  <2>2. /\ x.op = "refundPayment" /\ x.at = "gateway" /\ x.claim = 0
        /\ x.folio = f /\ x.target = f
    BY <2>1 DEF Request
  <2>4. Begins(q, x)
    <3>1. \/ Begins(q, x)
          \/ Begins(q, [Request("refundPayment", "gateway", f, amount) EXCEPT !.claim = payment])
      BY <2>1, ClaimRefundStep
    <3>2. ASSUME Begins(q, [Request("refundPayment", "gateway", f, amount)
                              EXCEPT !.claim = payment])
          PROVE  FALSE
      <4>1. req'[q].claim = payment
        BY <3>2, BeginsOwn DEF Request
      <4>2. req'[q].claim = 0
        BY <1>6 DEF Start, Request
      <4>3. QED
        BY <1>1, <4>1, <4>2
    <3>3. QED
      BY <3>1, <3>2
  <2>5. ASSUME Balanced(f)
        PROVE  BooksAgree(x, balance'[f], charged'[f], held'[f], Paid(f)')
    <3>1. Paid(f)' = Paid(f) /\ Paid(f) \in Int
      BY <1>1, <1>3, <1>6 DEF Paid
    <3>2. balance[f] = charged[f] - (Paid(f)' + 0)
      BY <1>1, <2>5, <3>1 DEF Balanced
    <3>3. QED
      BY <1>3, <2>2, <3>2 DEF BooksAgree
  <2>6. \A g \in Folios : ~Touches(x, g) \/ Transfer(x) => SameBooks(g)
    BY <1>3, <1>4, <2>2 DEF Touches, Transfer, SameBooks
  <2>7. QED
    BY <1>2, <1>3, <2>2, <2>4, <2>5, <2>6, BooksOfBeginning
<1>7. QED
  BY <1>5, <1>6 DEF ClaimRefund

\* What a handler of one folio knows about it.
LEMMA OneFolio ==
  ASSUME TypeOK, RequestsOK, MixedOK, BooksInv, NEW q \in Requests,
         req[q].at \in Steps \ TransferSteps, NEW f \in Folios, f = req[q].folio
  PROVE  /\ ~Transfer(req[q]) /\ \A g \in Folios : Touches(req[q], g) <=> g = f
         /\ status[f] # "none"
         /\ f \notin stale => BooksAgree(req[q], balance[f], charged[f], held[f], Paid(f))
         /\ f \notin stale => req[q].alone
         /\ req[q].alone => SumsAgree(req[q], charged[f], Paid(f))
<1>1. ~Transfer(req[q]) /\ \A g \in Folios : Touches(req[q], g) <=> g = f
  BY AtWork DEF RequestOK, Transfer, Touches
<1>2. QED
  BY <1>1 DEF MixedOK, BooksInv, UnopenedOK, BalancesOK, SumsOK, Transfer

\* A step of a handler of folio f that leaves all other folios alone.
LEMMA BooksOfOne ==
  ASSUME TypeOK, RequestsOK, AloneOK, MixedOK, BooksInv, NEW q \in Requests,
         req[q].at \in Steps \ TransferSteps, NEW f \in Folios, f = req[q].folio,
         NEW x, Goes(q, x),
         \A g \in Folios \ {f} : status'[g] = status[g] /\ SameBooks(g),
         status'[f] = status[f] \/ status'[f] # "none",
         f \notin stale' =>
           IF x = Idle THEN Balanced(f)'
           ELSE BooksAgree(x, balance'[f], charged'[f], held'[f], Paid(f)'),
         x # Idle /\ x.alone => SumsAgree(x, charged'[f], Paid(f)')
  PROVE  BooksInv'
<1>1. /\ ~Transfer(req[q]) /\ \A g \in Folios : Touches(req[q], g) <=> g = f
      /\ status[f] # "none"
  BY OneFolio
<1>2. x.at # "moveCharge"
  <2>1. Idle.at # "moveCharge"
    BY DEF Idle
  <2>2. x # Idle => x.at # "moveCharge"
    BY <1>1 DEF Goes, RequestOK, Transfer, TransferSteps
  <2>3. QED
    BY <2>1, <2>2
<1>3. \A g \in Folios : status'[g] = "none" => status[g] = "none" /\ SameBooks(g)
  BY <1>1
<1>4. QED
  BY <1>1, <1>2, <1>3, BooksOfGoing

LEMMA InsertChargeBooks ==
  ASSUME TypeOK, RequestsOK, AloneOK, MixedOK, BooksInv, NEW q \in Requests, InsertCharge(q)
  PROVE  BooksInv'
<1>1. req[q].at \in Steps \ TransferSteps
  BY DEF InsertCharge, Steps, TransferSteps
<1>2. PICK r \in Work : r = req[q] /\ RequestOK(r)
  BY <1>1, AtWork
<1>3. PICK f \in Folios : f = r.folio
  BY DEF Work
<1>4. PICK x : x = [r EXCEPT !.at = "insertTax"]
  OBVIOUS
<1>5. x # Idle /\ x.at = "insertTax" /\ x.op # "settle" /\ Goes(q, x)
  BY <1>2, <1>4, InsertChargeStep DEF InsertCharge, RequestOK, Work, Idle
<1>6. \A g \in Folios \ {f} : status'[g] = status[g] /\ SameBooks(g)
  BY <1>2, <1>3 DEF InsertCharge, Add, SameBooks, TypeOK, payments
<1>7. status'[f] = status[f]
  BY DEF InsertCharge
<1>8. QED
  BY <1>1, <1>2, <1>3, <1>5, <1>6, <1>7, BooksOfOne DEF BooksAgree, SumsAgree

LEMMA InsertTaxBooks ==
  ASSUME TypeOK, RequestsOK, AloneOK, MixedOK, BooksInv, NEW q \in Requests, InsertTax(q)
  PROVE  BooksInv'
<1>1. req[q].at \in Steps \ TransferSteps
  BY DEF InsertTax, Steps, TransferSteps
<1>2. PICK r \in Work : r = req[q] /\ RequestOK(r)
  BY <1>1, AtWork
<1>3. PICK f \in Folios : f = r.folio
  BY DEF Work
<1>4. PICK x : x = [r EXCEPT !.at = "sumCharges"]
  OBVIOUS
<1>5. x # Idle /\ x.at = "sumCharges" /\ x.op # "settle" /\ Goes(q, x)
  BY <1>2, <1>4, InsertTaxStep DEF InsertTax, RequestOK, Work, Idle
<1>6. \A g \in Folios \ {f} : status'[g] = status[g] /\ SameBooks(g)
  BY <1>2, <1>3 DEF InsertTax, Add, SameBooks, TypeOK, payments
<1>7. status'[f] = status[f]
  BY DEF InsertTax
<1>8. QED
  BY <1>1, <1>2, <1>3, <1>5, <1>6, <1>7, BooksOfOne DEF BooksAgree, SumsAgree

LEMMA SumChargesBooks ==
  ASSUME TypeOK, RequestsOK, AloneOK, MixedOK, BooksInv, NEW q \in Requests, SumCharges(q)
  PROVE  BooksInv'
<1>1. req[q].at \in Steps \ TransferSteps
  BY DEF SumCharges, Steps, TransferSteps
<1>2. PICK r \in Work : r = req[q] /\ RequestOK(r)
  BY <1>1, AtWork
<1>3. PICK f \in Folios : f = r.folio
  BY DEF Work
<1>4. PICK x : x = [r EXCEPT !.at = "sumPayments", !.charged = charged[f]]
  OBVIOUS
<1>5. /\ x # Idle /\ x.at = "sumPayments" /\ x.op # "settle" /\ x.charged = charged[f]
      /\ Goes(q, x)
  BY <1>2, <1>3, <1>4, SumChargesStep DEF SumCharges, RequestOK, Work, Idle
<1>6. \A g \in Folios : status'[g] = status[g] /\ SameBooks(g)
  BY DEF SumCharges, SameBooks, payments
<1>7. QED
  BY <1>1, <1>2, <1>3, <1>5, <1>6, BooksOfOne DEF BooksAgree, SumsAgree, SameBooks

LEMMA SumPaymentsBooks ==
  ASSUME TypeOK, RequestsOK, AloneOK, MixedOK, BooksInv, NEW q \in Requests, SumPayments(q)
  PROVE  BooksInv'
<1>1. req[q].at \in Steps \ TransferSteps
  BY DEF SumPayments, Steps, TransferSteps
<1>2. PICK r \in Work : r = req[q] /\ RequestOK(r)
  BY <1>1, AtWork
<1>3. PICK f \in Folios : f = r.folio
  BY DEF Work
<1>4. PICK x : x = [r EXCEPT !.at = "store", !.paid = Paid(f)]
  OBVIOUS
<1>5. /\ x # Idle /\ x.at = "store" /\ x.op # "settle" /\ x.paid = Paid(f)
      /\ x.charged = r.charged /\ x.alone = r.alone /\ Goes(q, x)
  BY <1>2, <1>3, <1>4, SumPaymentsStep DEF SumPayments, RequestOK, Work, Idle
<1>6. \A g \in Folios : status'[g] = status[g] /\ SameBooks(g)
  BY DEF SumPayments, SameBooks, payments
<1>7. x.alone => SumsAgree(x, charged'[f], Paid(f)')
  <2>1. r.alone => r.charged = charged[f]
    BY <1>1, <1>2, <1>3, OneFolio DEF SumPayments, SumsAgree
  <2>2. Paid(f)' = Paid(f) /\ charged'[f] = charged[f]
    BY <1>6 DEF Paid, SameBooks
  <2>3. QED
    BY <1>5, <2>1, <2>2 DEF SumsAgree
<1>8. QED
  BY <1>1, <1>2, <1>3, <1>5, <1>6, <1>7, BooksOfOne DEF BooksAgree

LEMMA StoreBalanceBooks ==
  ASSUME TypeOK, RequestsOK, AloneOK, MixedOK, BooksInv, NEW q \in Requests, StoreBalance(q)
  PROVE  BooksInv'
<1>1. req[q].at \in Steps \ TransferSteps
  BY DEF StoreBalance, Steps, TransferSteps
<1>2. PICK r \in Work : r = req[q] /\ RequestOK(r)
  BY <1>1, AtWork
<1>3. PICK f \in Folios : f = r.folio
  BY DEF Work
<1>4. Goes(q, Idle)
  BY StoreBalanceStep
<1>5. \A g \in Folios \ {f} : status'[g] = status[g] /\ SameBooks(g)
  BY <1>2, <1>3 DEF StoreBalance, SameBooks, TypeOK, payments
<1>6. status'[f] = status[f]
  BY DEF StoreBalance
<1>7. ASSUME f \notin stale'
      PROVE  Balanced(f)'
  <2>1. r.alone
    BY <1>1, <1>2, <1>3, <1>7, OneFolio DEF StoreBalance
  <2>2. r.charged - r.paid = charged[f] - Paid(f)
    BY <1>1, <1>2, <1>3, <2>1, OneFolio DEF StoreBalance, SumsAgree
  <2>3. balance'[f] = r.charged - r.paid /\ charged'[f] = charged[f] /\ Paid(f)' = Paid(f)
    BY <1>2, <1>3 DEF StoreBalance, TypeOK, Paid, payments
  <2>4. QED
    BY <2>2, <2>3 DEF Balanced
<1>8. QED
  BY <1>1, <1>2, <1>3, <1>4, <1>5, <1>6, <1>7, BooksOfOne

LEMMA InsertPaymentBooks ==
  ASSUME TypeOK, RequestsOK, AloneOK, MixedOK, BooksInv, NEW q \in Requests, InsertPayment(q)
  PROVE  BooksInv'
<1>1. req[q].at \in Steps \ TransferSteps
  BY DEF InsertPayment, Steps, TransferSteps
<1>2. PICK r \in Work : r = req[q] /\ RequestOK(r)
  BY <1>1, AtWork
<1>3. PICK f \in Folios : f = r.folio
  BY DEF Work
<1>4. /\ r.amount \in Int /\ r.claim \in Int /\ balance[f] \in Int /\ charged[f] \in Int
      /\ held[f] \in Nat /\ captured[f] \in Int /\ refunded[f] \in Int /\ paidBack[f] \in Nat
  BY DEF Work, TypeOK
<1>5. \A g \in Folios \ {f} : status'[g] = status[g] /\ SameBooks(g)
  BY <1>2, <1>3 DEF InsertPayment, Add, SameBooks, TypeOK, payments
<1>6. status'[f] = status[f]
  BY DEF InsertPayment
<1>7. CASE r.op = "recordPayment"
  <2>1. PICK x : x = [r EXCEPT !.at = "sumCharges"]
    OBVIOUS
  <2>2. x # Idle /\ x.at = "sumCharges" /\ x.op # "settle" /\ Goes(q, x)
    BY <1>2, <1>7, <2>1, InsertPaymentStep DEF Work, Idle
  <2>3. QED
    BY <1>1, <1>2, <1>3, <1>5, <1>6, <2>2, BooksOfOne DEF BooksAgree, SumsAgree
<1>8. CASE r.op # "recordPayment"
  <2>1. Goes(q, Idle)
    BY <1>2, <1>8, InsertPaymentStep
  <2>2. ASSUME f \notin stale'
        PROVE  Balanced(f)'
    <3>1. Balanced(f)
      BY <1>1, <1>2, <1>3, <2>2, OneFolio DEF InsertPayment, BooksAgree, Balanced
    <3>2. UNCHANGED <<balance, charged, captured, paidBack>>
      BY <1>2, <1>8 DEF InsertPayment
    <3>3. QED
      BY <3>1, <3>2 DEF Balanced, Paid
  <2>3. QED
    BY <1>1, <1>2, <1>3, <1>5, <1>6, <2>1, <2>2, BooksOfOne
<1>9. QED
  BY <1>7, <1>8

LEMMA GatewayAcceptsBooks ==
  ASSUME TypeOK, RequestsOK, AloneOK, MixedOK, BooksInv, NEW q \in Requests, GatewayAccepts(q)
  PROVE  BooksInv'
<1>1. req[q].at \in Steps \ TransferSteps
  BY DEF GatewayAccepts, Steps, TransferSteps
<1>2. PICK r \in Work : r = req[q] /\ RequestOK(r)
  BY <1>1, AtWork
<1>3. PICK f \in Folios : f = r.folio
  BY DEF Work
<1>4. /\ r.amount \in Int /\ r.claim \in Int /\ balance[f] \in Int /\ charged[f] \in Int
      /\ held[f] \in Nat /\ captured[f] \in Int /\ refunded[f] \in Int /\ paidBack[f] \in Nat
  BY DEF Work, TypeOK
<1>5. \A g \in Folios \ {f} : status'[g] = status[g] /\ SameBooks(g)
  BY <1>2, <1>3 DEF GatewayAccepts, Add, SameBooks, TypeOK
<1>6. status'[f] = status[f]
  BY DEF GatewayAccepts
<1>7. CASE r.op # "voidPayment"
  <2>1. PICK x : x = [r EXCEPT !.at = "sumCharges"]
    OBVIOUS
  <2>2. x # Idle /\ x.at = "sumCharges" /\ x.op # "settle" /\ Goes(q, x)
    BY <1>2, <1>7, <2>1, GatewayAcceptsStep DEF Work, Idle, RequestOK, GatewayAccepts
  <2>3. QED
    BY <1>1, <1>2, <1>3, <1>5, <1>6, <2>2, BooksOfOne DEF BooksAgree, SumsAgree
<1>8. CASE r.op = "voidPayment"
  <2>1. Goes(q, Idle)
    BY <1>2, <1>8, GatewayAcceptsStep
  <2>2. ASSUME f \notin stale'
        PROVE  Balanced(f)'
    <3>1. BooksAgree(r, balance[f], charged[f], held[f], Paid(f))
      BY <1>1, <1>2, <1>3, <2>2, OneFolio DEF GatewayAccepts
    <3>2. r.at = "gateway" /\ r.claim = 0 /\ Paid(f) \in Int
      BY <1>2, <1>4, <1>8 DEF GatewayAccepts, RequestOK, Paid
    <3>3. Balanced(f)
      BY <1>8, <3>1, <3>2 DEF BooksAgree, Balanced
    <3>4. UNCHANGED <<balance, charged, captured, paidBack>>
      BY <1>2, <1>8 DEF GatewayAccepts
    <3>5. QED
      BY <3>3, <3>4 DEF Balanced, Paid
  <2>3. QED
    BY <1>1, <1>2, <1>3, <1>5, <1>6, <2>1, <2>2, BooksOfOne
<1>9. QED
  BY <1>7, <1>8

LEMMA GatewayRefusesBooks ==
  ASSUME TypeOK, RequestsOK, AloneOK, MixedOK, BooksInv, NEW q \in Requests, GatewayRefuses(q)
  PROVE  BooksInv'
<1>1. req[q].at \in Steps \ TransferSteps
  BY DEF GatewayRefuses, Steps, TransferSteps
<1>2. PICK r \in Work : r = req[q] /\ RequestOK(r)
  BY <1>1, AtWork
<1>3. PICK f \in Folios : f = r.folio
  BY DEF Work
<1>4. /\ r.amount \in Int /\ r.claim \in Int /\ balance[f] \in Int /\ charged[f] \in Int
      /\ held[f] \in Nat /\ captured[f] \in Int /\ refunded[f] \in Int /\ paidBack[f] \in Nat
  BY DEF Work, TypeOK
<1>5. \A g \in Folios \ {f} : status'[g] = status[g] /\ SameBooks(g)
  BY <1>2, <1>3 DEF GatewayRefuses, Add, SameBooks, TypeOK
<1>6. status'[f] = status[f] /\ Goes(q, Idle)
  BY GatewayRefusesStep DEF GatewayRefuses
<1>7. ASSUME f \notin stale'
      PROVE  Balanced(f)'
  <2>1. BooksAgree(r, balance[f], charged[f], held[f], Paid(f)) /\ r.at = "gateway"
    BY <1>1, <1>2, <1>3, <1>7, OneFolio DEF GatewayRefuses
  <2>2. UNCHANGED <<balance, charged, paidBack>>
    BY DEF GatewayRefuses
  <2>3. CASE r.op = "refundPayment"
    <3>1. captured'[f] = captured[f] + r.claim
      BY <1>2, <1>3, <2>3 DEF GatewayRefuses, Add, TypeOK
    <3>2. balance[f] = charged[f] - (Paid(f) + r.claim)
      BY <2>1, <2>3 DEF BooksAgree
    <3>3. QED
      BY <1>4, <2>2, <3>1, <3>2 DEF Balanced, Paid
  <2>4. CASE r.op # "refundPayment"
    <3>1. captured'[f] = captured[f] + -r.claim
      BY <1>2, <1>3, <2>4 DEF GatewayRefuses, Add, TypeOK
    <3>2. balance[f] = charged[f] - (Paid(f) - r.claim)
      BY <2>1, <2>4 DEF BooksAgree
    <3>3. QED
      BY <1>4, <2>2, <3>1, <3>2 DEF Balanced, Paid
  <2>5. QED
    BY <2>3, <2>4
<1>8. QED
  BY <1>1, <1>2, <1>3, <1>5, <1>6, <1>7, BooksOfOne

LEMMA CountPendingBooks ==
  ASSUME TypeOK, RequestsOK, AloneOK, MixedOK, BooksInv, NEW q \in Requests, CountPending(q)
  PROVE  BooksInv'
<1>1. req[q].at \in Steps \ TransferSteps
  BY DEF CountPending, Steps, TransferSteps
<1>2. PICK r \in Work : r = req[q] /\ RequestOK(r)
  BY <1>1, AtWork
<1>3. PICK f \in Folios : f = r.folio
  BY DEF Work
<1>4. /\ r.amount \in Int /\ r.claim \in Int /\ balance[f] \in Int /\ charged[f] \in Int
      /\ held[f] \in Nat /\ captured[f] \in Int /\ refunded[f] \in Int /\ paidBack[f] \in Nat
  BY DEF Work, TypeOK
<1>5. \A g \in Folios : status'[g] = status[g] /\ SameBooks(g) /\ Paid(g)' = Paid(g)
  BY DEF CountPending, SameBooks, payments, Paid
<1>6. f \notin stale' => BooksAgree(r, balance[f], charged[f], held[f], Paid(f))
  BY <1>1, <1>2, <1>3, OneFolio DEF CountPending
<1>7. r.at = "countPending" /\ r.op = "settle"
  BY <1>2 DEF CountPending, RequestOK
<1>8. CASE Pending(f)
  <2>1. Goes(q, Idle)
    BY <1>2, <1>3, <1>8, CountPendingStep
  <2>2. f \notin stale' => Balanced(f)'
    BY <1>5, <1>6, <1>7 DEF BooksAgree, Balanced, SameBooks
  <2>3. QED
    BY <1>1, <1>2, <1>3, <1>5, <2>1, <2>2, BooksOfOne
<1>9. CASE ~Pending(f)
  <2>1. PICK x : x = [r EXCEPT !.at = "writeStatus"]
    OBVIOUS
  <2>2. x # Idle /\ x.at = "writeStatus" /\ x.op = "settle" /\ Goes(q, x)
    BY <1>2, <1>3, <1>7, <1>9, <2>1, CountPendingStep DEF Work, Idle
  <2>3. held[f] = 0
    BY <1>4, <1>9 DEF Pending
  <2>4. f \notin stale' => BooksAgree(x, balance'[f], charged'[f], held'[f], Paid(f)')
    BY <1>5, <1>6, <1>7, <2>2, <2>3 DEF BooksAgree, SameBooks
  <2>5. QED
    BY <1>1, <1>2, <1>3, <1>5, <2>2, <2>4, BooksOfOne DEF SumsAgree
<1>10. QED
  BY <1>8, <1>9

LEMMA WriteStatusBooks ==
  ASSUME TypeOK, RequestsOK, AloneOK, MixedOK, BooksInv, NEW q \in Requests, WriteStatus(q)
  PROVE  BooksInv'
<1>1. req[q].at \in Steps \ TransferSteps
  BY DEF WriteStatus, Steps, TransferSteps
<1>2. PICK r \in Work : r = req[q] /\ RequestOK(r)
  BY <1>1, AtWork
<1>3. PICK f \in Folios : f = r.folio
  BY DEF Work
<1>4. /\ \A g \in Folios \ {f} : status'[g] = status[g]
      /\ status'[f] # "none"
      /\ \A g \in Folios : SameBooks(g) /\ Paid(g)' = Paid(g)
  BY <1>2, <1>3 DEF WriteStatus, SameBooks, payments, Paid, TypeOK
<1>5. Goes(q, Idle)
  BY WriteStatusStep
<1>6. f \notin stale' => Balanced(f)'
  <2>1. f \notin stale' => Balanced(f)
    BY <1>1, <1>2, <1>3, OneFolio DEF WriteStatus, BooksAgree, Balanced
  <2>2. QED
    BY <1>4, <2>1 DEF Balanced, SameBooks
<1>7. QED
  BY <1>1, <1>2, <1>3, <1>4, <1>5, <1>6, BooksOfOne

LEMMA CommitLedgerBooks ==
  ASSUME TypeOK, RequestsOK, AloneOK, MixedOK, BooksInv, NEW q \in Requests, CommitLedger(q)
  PROVE  BooksInv'
<1>1. req[q].at \in Steps \ TransferSteps
  BY DEF CommitLedger, Steps, TransferSteps
<1>2. PICK r \in Work : r = req[q] /\ RequestOK(r)
  BY <1>1, AtWork
<1>3. PICK f \in Folios : f = r.folio
  BY DEF Work
<1>4. /\ r.amount \in Int /\ r.claim \in Int /\ balance[f] \in Int /\ charged[f] \in Int
      /\ held[f] \in Nat /\ captured[f] \in Int /\ refunded[f] \in Int /\ paidBack[f] \in Nat
  BY DEF Work, TypeOK
<1>5. PICK g \in Folios, tax \in Amounts \cup {0} :
        /\ status[g] = "none" /\ status' = [status EXCEPT ![g] = "open"]
        /\ captured' = [captured EXCEPT ![f] = captured[f] + r.amount]
        /\ charged' = [charged EXCEPT ![g] = charged[g] + (r.amount + tax)]
        /\ balance' = [balance EXCEPT ![f] = charged[f] - (Paid(f) + r.amount),
                                      ![g] = r.amount + tax]
  BY <1>2, <1>3 DEF CommitLedger, Add
<1>6. UNCHANGED <<held, refunded, paidBack>>
  BY DEF CommitLedger
<1>7. tax \in Int
  BY <1>5, FolioAssumption
<1>8. /\ ~Transfer(r) /\ \A h \in Folios : Touches(r, h) <=> h = f
      /\ status[f] # "none"
  BY <1>1, <1>2, <1>3, OneFolio
<1>9. f # g
  BY <1>5, <1>8
<1>10. Balanced(f)'
  <2>1. /\ balance'[f] = charged[f] - (Paid(f) + r.amount) /\ charged'[f] = charged[f]
        /\ captured'[f] = captured[f] + r.amount /\ paidBack'[f] = paidBack[f]
    BY <1>5, <1>6, <1>9 DEF TypeOK
  <2>2. QED
    BY <1>4, <2>1 DEF Balanced, Paid
<1>11. Balanced(g)'
  <2>1. charged[g] = 0 /\ captured[g] = 0 /\ paidBack[g] = 0
    BY <1>5 DEF BooksInv, UnopenedOK
  <2>2. /\ balance'[g] = r.amount + tax /\ charged'[g] = 0 + (r.amount + tax)
        /\ captured'[g] = 0 /\ paidBack'[g] = 0
    BY <1>5, <1>6, <1>9, <2>1 DEF TypeOK
  <2>3. QED
    BY <1>4, <1>7, <2>2 DEF Balanced, Paid
<1>12. \A h \in Folios : h # f /\ h # g => SameBooks(h)
  BY <1>5, <1>6 DEF SameBooks, TypeOK
<1>13. \A h \in Folios : status'[h] = "none" => status[h] = "none" /\ SameBooks(h)
  BY <1>5, <1>8, <1>12 DEF TypeOK
<1>14. Goes(q, Idle) /\ Idle.at # "moveCharge"
  BY CommitLedgerStep DEF Idle
<1>15. QED
  BY <1>2, <1>5, <1>8, <1>10, <1>11, <1>12, <1>13, <1>14, BooksOfGoing

\* A transfer that looks at the folios, and writes nothing.
LEMMA BooksOfLooking ==
  ASSUME TypeOK, RequestsOK, AloneOK, MixedOK, BooksInv, NEW q \in Requests, NEW x, Goes(q, x),
         Transfer(req[q]), UNCHANGED <<status, balance, charged, payments>>,
         x.at = "moveCharge" => status[x.folio] # "none" /\ status[x.target] # "none"
  PROVE  BooksInv'
<1>1. UNCHANGED <<status, balance, charged, held, captured, refunded, paidBack>>
  BY DEF payments
<1>2. \A f \in Folios : SameBooks(f)
  BY <1>1 DEF SameBooks
<1>3. QED
  BY <1>1, <1>2, BooksOfGoing

LEMMA LookingSteps ==
  ASSUME TypeOK, RequestsOK, AloneOK, MixedOK, BooksInv, NEW q \in Requests,
         LockFirst(q) \/ LockSecond(q) \/ ReadCharge(q)
  PROVE  BooksInv'
<1>1. req[q].at \in Steps \cap TransferSteps
  BY DEF LockFirst, LockSecond, ReadCharge, Steps, TransferSteps
<1>2. PICK r \in Work : r = req[q] /\ RequestOK(r)
  BY <1>1, AtWork
<1>3. Transfer(req[q]) /\ UNCHANGED <<status, balance, charged, payments>>
  BY <1>1, <1>2 DEF RequestOK, Transfer, LockFirst, LockSecond, ReadCharge
<1>4. ASSUME NEW at \in Steps, at # "moveCharge", Goes(q, [req[q] EXCEPT !.at = at])
      PROVE  BooksInv'
  <2>1. PICK x : x = [r EXCEPT !.at = at]
    OBVIOUS
  <2>2. x.at = at
    BY <2>1 DEF Work
  <2>3. QED
    BY <1>2, <1>3, <1>4, <2>1, <2>2, BooksOfLooking
<1>5. CASE LockFirst(q) \/ LockSecond(q)
  BY <1>4, <1>5, LockFirstStep, LockSecondStep DEF Steps
<1>6. CASE ReadCharge(q)
  <2>1. CASE Goes(q, Idle)
    BY <1>3, <2>1, BooksOfLooking DEF Idle
  <2>2. CASE Goes(q, [req[q] EXCEPT !.at = "moveCharge"])
    <3>1. PICK x : x = [r EXCEPT !.at = "moveCharge"]
      OBVIOUS
    <3>2. /\ x.at = "moveCharge" /\ x.folio = r.folio /\ x.target = r.target
          /\ x # Idle /\ Goes(q, x)
      BY <1>2, <2>2, <3>1 DEF Work, Idle
    <3>3. req'[q] # Idle
      BY <3>2, GoingOn
    <3>4. ~End(q)
      BY <3>3 DEF End, TypeOK
    <3>5. status[r.folio] = "open" /\ status[r.target] = "open"
      BY <1>2, <1>6, <3>4 DEF ReadCharge
    <3>6. QED
      BY <1>3, <3>2, <3>5, BooksOfLooking
  <2>3. QED
    BY <1>6, <2>1, <2>2, ReadChargeStep
<1>7. QED
  BY <1>5, <1>6

LEMMA MoveChargeBooks ==
  ASSUME TypeOK, RequestsOK, AloneOK, MixedOK, BooksInv, NEW q \in Requests, MoveCharge(q)
  PROVE  BooksInv'
<1>1. req[q].at \in Steps \cap TransferSteps /\ req[q].at = "moveCharge"
  BY DEF MoveCharge, Steps, TransferSteps
<1>2. PICK r \in Work : r = req[q] /\ RequestOK(r)
  BY <1>1, AtWork
<1>3. Transfer(r)
  BY <1>1, <1>2 DEF RequestOK, Transfer
<1>4. UNCHANGED <<status, held, captured, refunded, paidBack>>
  BY DEF MoveCharge, payments
<1>5. ASSUME NEW f \in Folios, Touches(r, f)
      PROVE  Balanced(f)' /\ status[f] # "none"
  <2>1. balance'[f] = charged'[f] - Paid(f)
    BY <1>2, <1>5 DEF MoveCharge, Recalculates
  <2>2. Paid(f)' = Paid(f)
    BY <1>4 DEF Paid
  <2>3. status[f] # "none"
    BY <1>1, <1>2, <1>5 DEF BooksInv, UnopenedOK
  <2>4. QED
    BY <2>1, <2>2, <2>3 DEF Balanced
<1>6. ASSUME NEW f \in Folios, ~Touches(r, f)
      PROVE  SameBooks(f)
  <2>1. balance'[f] = balance[f]
    BY <1>2, <1>6 DEF MoveCharge, Recalculates
  <2>2. charged'[f] = charged[f]
    BY <1>2, <1>6 DEF MoveCharge, Touches, TypeOK
  <2>3. QED
    BY <1>4, <2>1, <2>2 DEF SameBooks
<1>7. \A f \in Folios : status'[f] = "none" => status[f] = "none" /\ SameBooks(f)
  BY <1>4, <1>5, <1>6
<1>8. Goes(q, Idle) /\ Idle.at # "moveCharge"
  BY MoveChargeStep DEF Idle
<1>9. QED
  BY <1>2, <1>3, <1>5, <1>6, <1>7, <1>8, BooksOfGoing

LEMMA AbortBooks ==
  ASSUME TypeOK, RequestsOK, AloneOK, MixedOK, BooksInv, NEW q \in Requests, Abort(q)
  PROVE  BooksInv'
<1>1. req[q].at \in Steps /\ Goes(q, Idle) /\ Idle.at # "moveCharge"
  BY AbortStep DEF Abort, TypeOK, Work, Idle
<1>2. PICK r \in Work : r = req[q] /\ RequestOK(r)
  BY <1>1, AtWork
<1>3. UNCHANGED <<status, balance, charged, payments>>
  BY DEF Abort
<1>4. CASE r.at \in TransferSteps
  BY <1>1, <1>2, <1>3, <1>4, BooksOfLooking DEF RequestOK, Transfer
<1>5. CASE r.at \notin TransferSteps
  <2>1. PICK f \in Folios : f = r.folio
    BY DEF Work
  <2>2. \A g \in Folios : status'[g] = status[g] /\ SameBooks(g) /\ Paid(g)' = Paid(g)
    BY <1>3 DEF SameBooks, payments, Paid
  <2>3. ASSUME f \notin stale'
        PROVE  Balanced(f)'
    <3>1. f \notin stale /\ r.at \notin Unbooked
      BY <1>2, <2>1, <2>3 DEF Abort
    <3>2. r.at \in {"insertCharge", "insertPayment", "countPending", "writeStatus", "ledger"}
      BY <1>1, <1>2, <1>5, <3>1 DEF Unbooked, Steps, TransferSteps
    <3>3. Balanced(f)
      BY <1>1, <1>2, <1>5, <2>1, <3>1, <3>2, OneFolio DEF BooksAgree, Balanced
    <3>4. QED
      BY <2>2, <3>3 DEF Balanced, SameBooks
  <2>4. QED
    BY <1>1, <1>2, <1>5, <2>1, <2>2, <2>3, BooksOfOne
<1>6. QED
  BY <1>4, <1>5

LEMMA BooksKept ==
  ASSUME TypeOK, RequestsOK, AloneOK, MixedOK, BooksInv, NEW q \in Requests, Handler(q)
  PROVE  BooksInv'
<1>1. CASE \E f \in Folios, amount \in Amounts :
             \/ PostCharge(q, f, amount) \/ PostCharge(q, f, -amount)
             \/ ReverseCharge(q, f, amount)
             \/ \E op \in Ops : RecordPayment(q, op, f, amount)
             \/ \E g \in Folios : TransferCharge(q, f, g, amount)
  <2>1. \A amount \in Amounts : amount \in Int /\ -amount \in Int
    BY FolioAssumption
  <2>2. QED
    BY <1>1, <2>1, ReadingSteps
<1>2. CASE \E f \in Folios, amount \in Amounts :
             \/ ClaimPayment(q, f, amount)
             \/ \E payment \in Amounts : ClaimRefund(q, f, amount, payment)
  BY <1>2, ClaimPaymentBooks, ClaimRefundBooks
<1>3. CASE \E f \in Folios : Settle(q, f) \/ Close(q, f) \/ TransferToCityLedger(q, f)
  BY <1>3, ReadingSteps
<1>4. CASE InsertCharge(q) \/ InsertTax(q) \/ SumCharges(q) \/ SumPayments(q) \/ StoreBalance(q)
  BY <1>4, InsertChargeBooks, InsertTaxBooks, SumChargesBooks, SumPaymentsBooks,
     StoreBalanceBooks
<1>5. CASE InsertPayment(q) \/ GatewayAccepts(q) \/ GatewayRefuses(q) \/ CountPending(q)
           \/ WriteStatus(q)
  BY <1>5, InsertPaymentBooks, GatewayAcceptsBooks, GatewayRefusesBooks, CountPendingBooks,
     WriteStatusBooks
<1>6. CASE LockFirst(q) \/ LockSecond(q) \/ ReadCharge(q) \/ MoveCharge(q) \/ CommitLedger(q)
           \/ Abort(q)
  BY <1>6, LookingSteps, MoveChargeBooks, CommitLedgerBooks, AbortBooks
<1>7. QED
  BY <1>1, <1>2, <1>3, <1>4, <1>5, <1>6 DEF Handler

-----------------------------------------------------------------------------
(* The invariant, and what follows from it.                                *)

LEMMA InitInvariant == Init => IInv
<1> SUFFICES ASSUME Init PROVE IInv
  OBVIOUS
<1>1. TypeOK /\ RequestsOK
  BY InitTyped
<1>2. \A q \in Requests : req[q] = Idle /\ req[q].at = "idle"
  BY DEF Init, Idle
<1>3. \A q \in Requests, f \in Folios : ~Touches(req[q], f) /\ holder[f] # q
  BY <1>2, IdleIsNoWork, FolioAssumption DEF Init
<1>4. LocksOK /\ AloneOK /\ MixedOK /\ SumsOK
  BY <1>2, <1>3 DEF LocksOK, AloneOK, MixedOK, SumsOK
<1>5. UnopenedOK /\ BalancesOK
  BY <1>3 DEF Init, UnopenedOK, BalancesOK, Balanced, Paid
<1>6. QED
  BY <1>1, <1>4, <1>5 DEF IInv

LEMMA NextInvariant == IInv /\ [Next]_vars => IInv'
<1> SUFFICES ASSUME IInv, [Next]_vars PROVE IInv'
  OBVIOUS
<1> USE DEF IInv
<1>1. ASSUME NEW q \in Requests, Handler(q)
      PROVE  IInv'
  <2>1. TypedVars' /\ Moves(q)
    BY <1>1, HandlerStep
  <2>2. TypeOK' /\ RequestsOK'
    BY <2>1, TypesKept
  <2>3. AloneOK' /\ MixedOK'
    BY <2>1, AloneKept, MixedKept
  <2>4. LocksOK'
    BY <1>1, LocksKept
  <2>5. BooksInv'
    BY <1>1, BooksKept DEF BooksInv
  <2>6. QED
    BY <2>2, <2>3, <2>4, <2>5 DEF BooksInv
<1>2. CASE UNCHANGED vars
  BY <1>2 DEF vars, payments, TypeOK, RequestsOK, LocksOK, UnopenedOK, AloneOK, MixedOK, SumsOK,
              BalancesOK, Balanced, Paid, HeldBy, Touches, Transfer, BooksAgree
<1>3. QED
  BY <1>1, <1>2 DEF Next

\* Everything above holds in every state the system reaches: what each handler knows of
\* its folio, of its locks and of the rows, is true however handlers interleave or stop.
THEOREM Invariant == Spec => []IInv
<1>1. QED
  BY InitInvariant, NextInvariant, PTL DEF Spec

LEMMA BalancesFollow == IInv => BalanceMatchesRows
<1> SUFFICES ASSUME IInv, NEW f \in Folios, f \notin stale, \A q \in Requests : ~Working(q, f)
             PROVE  balance[f] = charged[f] - Paid(f)
  BY DEF BalanceMatchesRows
<1>1. \A q \in Requests : ~Touches(req[q], f)
  BY IdleIsNoWork DEF Working
<1>2. QED
  BY <1>1 DEF IInv, BalancesOK, Balanced

\* The stored balance of a folio that nobody is at work on is that of its rows, for any
\* number of folios and of handlers that post, pay, refund, transfer or are cut off,
\* unless two handlers that were not both transfers have overlapped on it, or one was
\* cut off between its rows and the balance.
THEOREM BalancesMatch == Spec => []BalanceMatchesRows
<1>1. QED
  BY Invariant, BalancesFollow, PTL

\* However many transfers run at once, and whichever way they move their charges, no group of
\* them, of two or of any number, ever waits for its own row locks in a circle: they take
\* them in the order of the ids.
THEOREM TransfersNeverDeadlock == Spec => []NoWaitCycle
<1>1. IInv => NoWaitCycle
  BY LocksOrdered DEF IInv
<1>2. QED
  BY <1>1, Invariant, PTL

\* A folio that settle marks as settled has rows that balance, to within a cent, and no authorized
\* payment, unless handlers have mixed on it since settle read it.
THEOREM SettledIsInBalance == Spec => SettledInBalance
<1>1. ASSUME IInv, NEW q \in Requests, WriteStatus(q), req[q].op = "settle", req[q].alone,
             req[q].folio \notin stale
      PROVE  InBalance(charged[req[q].folio] - Paid(req[q].folio)) /\ held[req[q].folio] = 0
  <2>1. req[q].at = "writeStatus" /\ req[q].at \in Steps \ TransferSteps
    BY <1>1 DEF WriteStatus, Steps, TransferSteps
  <2>2. req[q].folio \in Folios
    BY <1>1, <2>1, AtWork DEF IInv
  <2>3. BooksAgree(req[q], balance[req[q].folio], charged[req[q].folio], held[req[q].folio],
                   Paid(req[q].folio))
    BY <1>1, <2>1, <2>2, OneFolio DEF IInv, BooksInv
  <2>4. QED
    BY <1>1, <2>1, <2>3 DEF BooksAgree
<1>2. IInv /\ [Next]_vars
        => [\A q \in Requests :
              WriteStatus(q) /\ req[q].op = "settle" /\ req[q].alone /\ req[q].folio \notin stale
              => InBalance(charged[req[q].folio] - Paid(req[q].folio))
                 /\ held[req[q].folio] = 0]_vars
  BY <1>1
<1>3. QED
  BY <1>2, Invariant, PTL DEF Spec, SettledInBalance

=============================================================================
