------------------------------ MODULE NightAudit ------------------------------
(***************************************************************************)
(* The nightly closing of the books: the audit run of a business date, the *)
(* room tariffs it posts, the lock it puts on the day's charges, and the   *)
(* desk that posts and reverses single charges meanwhile.                  *)
(*                                                                         *)
(* A run is created by an insert that a unique index decides.  It works    *)
(* through the reservations it has read, one statement at a time, and      *)
(* records what goes wrong with each; an exception outside that loop fails *)
(* the run, and a stopped server leaves it running.  What the run does to  *)
(* the reservations' statuses (no-shows, stayovers, due-outs) is in the    *)
(* FrontDesk module.                                                       *)
(***************************************************************************)
EXTENDS Naturals, FiniteSets, Sequences

CONSTANTS
  Reservations,  \* each with one guest folio
  Dates,         \* business dates, in order
  Requests,      \* handlers of the desk in flight at once
  MaxStarts      \* bound: handlers of the desk started in all

ASSUME NightAuditAssumption ==
  /\ Dates \subseteq Nat \ {0}
  /\ MaxStarts \in Nat

VARIABLES
  stay,     \* of a reservation: expected, in_house or departed
  folio,    \* its guest folio: none, open or settled
  charge,   \* the charge rows, numbered
  run,      \* of a business date: its audit run
  job,      \* the process that works on the run
  req,      \* handlers of the desk in flight
  started,  \* handlers of the desk started so far
  raced     \* charges that two handlers were reversing at once (history)

vars == <<stay, folio, charge, run, job, req, started, raced>>

NoRow == 0

\* A charge row: its folio (that of reservation res), its type, the day it is
\* for, the charge it reverses, the charge it is the tax of, who posted it, and
\* whether the audit was just about to post it (history).
Row(res, type, date, by) ==
  [res |-> res, type |-> type, date |-> date, reverses |-> NoRow, parent |-> NoRow,
   by |-> by, locked |-> FALSE, late |-> FALSE]

NoRun == [status |-> "none", errors |-> {}, read |-> {}]

Away == [at |-> "away", todo |-> {}, res |-> NoRow]

Idle == [at |-> "idle"]

Init ==
  /\ stay \in [Reservations -> {"expected", "in_house"}]
  /\ folio = [r \in Reservations |-> IF stay[r] = "in_house" THEN "open" ELSE "none"]
  /\ charge = <<>>
  /\ run = [d \in Dates |-> NoRun]
  /\ job = [d \in Dates |-> Away]
  /\ req = [q \in Requests |-> Idle] /\ started = 0 /\ raced = {}

-----------------------------------------------------------------------------
(* Charge rows.                                                            *)

Insert(row) == charge' = Append(charge, row)

NewRow == Len(charge) + 1

\* The rows that reverse row c.
Reversals(c) == {x \in DOMAIN charge : charge[x].reverses = c}

\* The taxes of row c that have not been reversed.
TaxesOf(c) ==
  {x \in DOMAIN charge : /\ charge[x].parent = c /\ charge[x].type = "tax"
                         /\ charge[x].reverses = NoRow}

\* The room charges of a folio for a day, reversals apart.
RoomCharges(r, d) ==
  {c \in DOMAIN charge : /\ charge[c].res = r /\ charge[c].date = d
                         /\ charge[c].type = "room" /\ charge[c].reverses = NoRow}

-----------------------------------------------------------------------------
(* The audit run.                                                          *)

\* The insert meets the unique index on property and date: whatever the status of
\* the run that is there, the caller returns or throws.
AlreadyThere(d) == run[d].status # "none"

\* runAudit inserts the run and announces it.
RunAudit(d) ==
  /\ ~AlreadyThere(d)
  /\ run' = [run EXCEPT ![d] = [NoRun EXCEPT !.status = "running"]]
  /\ job' = [job EXCEPT ![d] = [Away EXCEPT !.at = "read"]]
  /\ UNCHANGED <<stay, folio, charge, req, started, raced>>

Step(d, at) == job' = [job EXCEPT ![d].at = at]

\* postRoomTariffs reads the guests in house, whatever the date of their arrival.
ReadInHouse(d) ==
  LET inHouse == {r \in Reservations : stay[r] = "in_house"}
  IN /\ job[d].at = "read"
     /\ run' = [run EXCEPT ![d].read = inHouse]
     /\ job' = [job EXCEPT ![d] = [at |-> "tariff", todo |-> inHouse, res |-> NoRow]]
     /\ UNCHANGED <<stay, folio, charge, req, started, raced>>

\* Mutant: a reservation whose folio is not open is tried again.
Retry(d, r) == UNCHANGED job

\* One reservation is done with; an error is recorded and the loop goes on.
Done(d, r) ==
  job' = [job EXCEPT ![d] = [at |-> "tariff", todo |-> job[d].todo \ {r}, res |-> NoRow]]

Record(d, r) == run' = [run EXCEPT ![d].errors = @ \cup {r}]

\* Mutant: a reservation whose folio is not open is passed over.
SkipQuietly(d, r) == UNCHANGED run

NoOpenFolio(d, r) == Record(d, r)

\* Mutant: only the audit's own charges are looked for.
HasTariff(r, d) == \E c \in RoomCharges(r, d) : charge[c].by = "audit"

\* A room charge of the day, whoever posted it, and be it reversed since.
HasRoomCharge(r, d) == RoomCharges(r, d) # {}

\* The next reservation, and its open folio.
NextTariff(d) ==
  /\ job[d].at = "tariff"
  /\ \E r \in job[d].todo :
       \/ folio[r] # "open" /\ NoOpenFolio(d, r) /\ Done(d, r)
       \/ /\ folio[r] = "open"
          /\ job' = [job EXCEPT ![d] = [@ EXCEPT !.at = "look", !.res = r]]
          /\ UNCHANGED run
  /\ UNCHANGED <<stay, folio, charge, req, started, raced>>

\* Then the charge of the day.
LookForCharge(d) ==
  /\ job[d].at = "look"
  /\ IF HasRoomCharge(job[d].res, d) THEN Done(d, job[d].res) ELSE Step(d, "post")
  /\ UNCHANGED <<stay, folio, charge, run, req, started, raced>>

\* postCharge reads the folio again and inserts the charge.
PostTariff(d) ==
  LET r == job[d].res
  IN /\ job[d].at = "post"
     /\ IF folio[r] = "open"
        THEN /\ Insert(Row(r, "room", d, "audit"))
             /\ Step(d, "tax") /\ UNCHANGED run
        ELSE Record(d, r) /\ Done(d, r) /\ UNCHANGED charge
     /\ UNCHANGED <<stay, folio, req, started, raced>>

\* The charge this run has posted for r.
Posted(r, d) == {c \in RoomCharges(r, d) : charge[c].by = "audit"}

\* Its tax follows, or a statement throws and the charge stays without.
PostTax(d) ==
  LET r == job[d].res
  IN /\ job[d].at = "tax"
     /\ \/ /\ \E c \in Posted(r, d) :
                Insert([Row(r, "tax", d, "audit") EXCEPT !.parent = c])
           /\ UNCHANGED run
        \/ Record(d, r) /\ UNCHANGED charge
     /\ Done(d, r)
     /\ UNCHANGED <<stay, folio, req, started, raced>>

\* lockChargesForDate, after the loop and after what FrontDesk models.
LockChargesForDate(d) ==
  /\ job[d].at = "tariff" /\ job[d].todo = {}
  /\ charge' = [c \in DOMAIN charge |->
                  IF charge[c].date <= d THEN [charge[c] EXCEPT !.locked = TRUE] ELSE charge[c]]
  /\ Step(d, "complete")
  /\ UNCHANGED <<stay, folio, run, req, started, raced>>

CompleteAuditRun(d) ==
  /\ job[d].at = "complete"
  /\ run' = [run EXCEPT ![d].status = "completed"]
  /\ Step(d, "away")
  /\ UNCHANGED <<stay, folio, charge, req, started, raced>>

\* A statement outside the loop over the reservations throws; failAuditRun
\* replaces the errors recorded so far.
FailAuditRun(d) ==
  /\ \/ job[d].at \in {"read", "complete"}
     \/ job[d].at = "tariff" /\ job[d].todo = {}
  /\ run' = [run EXCEPT ![d].status = "failed", ![d].errors = {}]
  /\ Step(d, "away")
  /\ UNCHANGED <<stay, folio, charge, req, started, raced>>

\* The server stops: the run stays as it is, and nobody takes it up again.
Stop(d) ==
  /\ job[d].at # "away"
  /\ job' = [job EXCEPT ![d] = [Away EXCEPT !.at = "stopped"]]
  /\ UNCHANGED <<stay, folio, charge, run, req, started, raced>>

-----------------------------------------------------------------------------
(* The desk.                                                               *)

\* A check-in claims the reservation first and then opens the folio.
CheckIn(r) ==
  /\ stay[r] = "expected"
  /\ stay' = [stay EXCEPT ![r] = "in_house"]
  /\ UNCHANGED <<folio, charge, run, job, req, started, raced>>

OpenFolio(r) ==
  /\ stay[r] = "in_house" /\ folio[r] = "none"
  /\ folio' = [folio EXCEPT ![r] = "open"]
  /\ UNCHANGED <<stay, charge, run, job, req, started, raced>>

\* A check-out settles the folio first and then claims the reservation.
SettleFolio(r) ==
  /\ folio[r] = "open"
  /\ folio' = [folio EXCEPT ![r] = "settled"]
  /\ UNCHANGED <<stay, charge, run, job, req, started, raced>>

CheckOut(r) ==
  /\ stay[r] = "in_house" /\ folio[r] = "settled"
  /\ stay' = [stay EXCEPT ![r] = "departed"]
  /\ UNCHANGED <<folio, charge, run, job, req, started, raced>>

Start(q, request) ==
  /\ req[q] = Idle
  /\ started < MaxStarts /\ started' = started + 1
  /\ req' = [req EXCEPT ![q] = request]

End(q) == req' = [req EXCEPT ![q] = Idle]

\* postCharge of a room charge, for any day, on an open folio.
PostCharge(q, r, d) ==
  /\ folio[r] = "open"
  /\ Start(q, [at |-> "post", res |-> r, date |-> d])
  /\ UNCHANGED <<stay, folio, charge, run, job, raced>>

InsertCharge(q) ==
  /\ req[q].at = "post"
  /\ LET r == req[q].res
         d == req[q].date
     IN Insert([Row(r, "room", d, "desk") EXCEPT !.late = job[d].at = "post" /\ job[d].res = r])
  /\ End(q)
  /\ UNCHANGED <<stay, folio, run, job, started, raced>>

\* The day close has not locked the charge.
Reversible(c) == charge[c].reverses = NoRow /\ ~charge[c].locked

\* A charge, its taxes, and the charge it is the tax of.
Family(c) == ({c} \cup TaxesOf(c) \cup {charge[c].parent}) \ {NoRow}

ReversalAwaits == {"check", "reverse", "reverseOnly", "cascade", "taxes", "tax"}

\* Other handlers are reversing a charge of the family.
Contested(c) ==
  \E q \in Requests :
    req[q].at \in ReversalAwaits /\ req[q].row \in Family(c)

Reversing(at, c) == [at |-> at, row |-> c, new |-> NoRow, todo |-> {}, tax |-> NoRow]

\* reverseCharge reads the charge; postCharge of a reversal, on an open folio,
\* reads it too but does not ask whether it has been reversed.
ReverseCharge(q, c) ==
  /\ Reversible(c)
  /\ Start(q, Reversing("check", c))
  /\ raced' = IF Contested(c) THEN raced \cup Family(c) ELSE raced
  /\ UNCHANGED <<stay, folio, charge, run, job>>

PostReversal(q, c) ==
  /\ Reversible(c) /\ folio[charge[c].res] = "open"
  /\ Start(q, Reversing("reverseOnly", c))
  /\ raced' = raced \cup Family(c)
  /\ UNCHANGED <<stay, folio, charge, run, job>>

\* Mutant: only locked charges are refused.
ReversedOrNot(c) == TRUE

Unreversed(c) == Reversals(c) = {}

CheckReversed(q) ==
  /\ req[q].at = "check"
  /\ IF Unreversed(req[q].row) THEN req' = [req EXCEPT ![q].at = "reverse"] ELSE End(q)
  /\ UNCHANGED <<stay, folio, charge, run, job, started, raced>>

\* The reversal is dated like its charge, and is not locked.
InsertReversal(q) ==
  LET c == req[q].row
  IN /\ req[q].at \in {"reverse", "reverseOnly"}
     /\ Insert([Row(charge[c].res, charge[c].type, charge[c].date, "desk")
                  EXCEPT !.reverses = c])
     /\ IF req[q].at = "reverseOnly" THEN End(q)
        ELSE req' = [req EXCEPT ![q].at = "cascade", ![q].new = NewRow]
     /\ UNCHANGED <<stay, folio, run, job, started, raced>>

\* reverseCharge reads the taxes of the charge ...
Cascade(q) ==
  /\ req[q].at = "cascade"
  /\ req' = [req EXCEPT ![q].at = "taxes", ![q].todo = TaxesOf(req[q].row)]
  /\ UNCHANGED <<stay, folio, charge, run, job, started, raced>>

\* ... and passes over those that have been reversed ...
NextTax(q) ==
  /\ req[q].at = "taxes"
  /\ \/ \E x \in req[q].todo :
          req' = [req EXCEPT ![q].todo = @ \ {x}, ![q].tax = x,
                             ![q].at = IF Unreversed(x) THEN "tax" ELSE "taxes"]
     \/ req[q].todo = {} /\ End(q)
  /\ UNCHANGED <<stay, folio, charge, run, job, started, raced>>

\* ... and reverses the others, one by one.
ReverseTax(q) ==
  LET x == req[q].tax
  IN /\ req[q].at = "tax"
     /\ Insert([Row(charge[x].res, "tax", charge[x].date, "desk")
                  EXCEPT !.reverses = x, !.parent = req[q].new])
     /\ req' = [req EXCEPT ![q].at = "taxes"]
     /\ UNCHANGED <<stay, folio, run, job, started, raced>>

Abort(q) ==
  /\ req[q] # Idle
  /\ End(q)
  /\ UNCHANGED <<stay, folio, charge, run, job, started, raced>>

-----------------------------------------------------------------------------
Audit(d) ==
  \/ ReadInHouse(d) \/ NextTariff(d) \/ LookForCharge(d) \/ PostTariff(d) \/ PostTax(d)
  \/ LockChargesForDate(d) \/ CompleteAuditRun(d) \/ FailAuditRun(d)

Desk ==
  \/ \E r \in Reservations : CheckIn(r) \/ OpenFolio(r) \/ SettleFolio(r) \/ CheckOut(r)
  \/ \E q \in Requests :
       \/ \E r \in Reservations, d \in Dates : PostCharge(q, r, d)
       \/ \E c \in DOMAIN charge : ReverseCharge(q, c) \/ PostReversal(q, c)
       \/ InsertCharge(q) \/ CheckReversed(q) \/ InsertReversal(q)
       \/ Cascade(q) \/ NextTax(q) \/ ReverseTax(q)
       \/ Abort(q)

Next ==
  \/ \E d \in Dates : RunAudit(d) \/ Audit(d) \/ Stop(d)
  \/ Desk

Spec == Init /\ [][Next]_vars

\* The event loop runs an audit that has begun to its end, unless the server stops.
FairSpec == Spec /\ \A d \in Dates : WF_vars(Audit(d))

-----------------------------------------------------------------------------
(* Properties.                                                             *)

\* Folios, charges, runs, and the processes at work keep their types.
TypeOK ==
  /\ stay \in [Reservations -> {"expected", "in_house", "departed"}]
  /\ folio \in [Reservations -> {"none", "open", "settled"}]
  /\ charge \in Seq([res : Reservations, type : {"room", "tax"}, date : Dates,
                     reverses : 0..Len(charge), parent : 0..Len(charge),
                     by : {"audit", "desk"}, locked : BOOLEAN, late : BOOLEAN])
  /\ run \in [Dates -> [status : {"none", "running", "completed", "failed"},
                       errors : SUBSET Reservations, read : SUBSET Reservations]]
  /\ \A d \in Dates : job[d].todo \subseteq run[d].read
  /\ \A q \in Requests : req[q].at \in ReversalAwaits
                         => {req[q].row} \cup req[q].todo \subseteq DOMAIN charge
  /\ started \in 0..MaxStarts /\ raced \subseteq DOMAIN charge

\* A night is charged once, however often its audit is asked for, stops or
\* fails, and a room charge the desk has posted for it is respected, unless it
\* was posted just when the audit had looked.
NightChargedOnce ==
  \A r \in Reservations, d \in Dates :
    \A tariff \in Posted(r, d), c \in RoomCharges(r, d) :
      c < tariff => charge[c].late

\* A completed run has passed over nobody: each guest it read has a room charge
\* for the night, and its tax if the run posted it, or is named in its errors.
CompletedRunAccounts ==
  \A d \in Dates : run[d].status = "completed" =>
    \A r \in run[d].read \ run[d].errors :
      /\ RoomCharges(r, d) # {}
      /\ \A c \in Posted(r, d) : TaxesOf(c) # {}

\* No charge, and no tax, is reversed twice, unless two reversals of it or of
\* its family overlapped or one was posted as a plain charge.
ReversedOnce ==
  \A c \in DOMAIN charge :
    {c, charge[c].parent} \cap raced = {} => Cardinality(Reversals(c)) <= 1

\* An audit that has begun completes or fails, unless the server stops under it.
EveryRunEnds ==
  \A d \in Dates :
    run[d].status = "running" ~> run[d].status # "running" \/ job[d].at = "stopped"
=============================================================================
