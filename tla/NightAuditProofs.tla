---------------------------- MODULE NightAuditProofs ----------------------------
(***************************************************************************)
(* Proofs about the night audit: a night is charged once, a completed run  *)
(* accounts for every guest it read, and a charge is reversed once, for    *)
(* every number of reservations, dates, and handlers at the desk.          *)
(***************************************************************************)
EXTENDS NightAudit, FiniteSetTheorems, SequenceTheorems, TLAPS

-----------------------------------------------------------------------------
(* The inductive invariant: the books of each date ...                     *)

JobSteps == {"away", "read", "tariff", "look", "post", "tax", "complete", "stopped"}

JobRecord == [at : JobSteps, todo : SUBSET Reservations, res : Reservations \cup {NoRow}]

\* The process that works on a run, and the status of the run meanwhile.
JobOK(d) ==
  /\ job[d].at \in {"look", "post", "tax"} => job[d].res \in job[d].todo
  /\ job[d].at \in {"away", "read", "complete", "stopped"} => job[d].todo = {}
  /\ job[d].at # "away" => run[d].status = "running"

\* Whatever the audit has not seen since it looked is marked.
LateOK(d) ==
  \A r \in Reservations : job[d].at = "post" /\ job[d].res = r =>
    \A c \in RoomCharges(r, d) : charge[c].late

ChargedOnce(d) ==
  \A r \in Reservations : \A tariff \in Posted(r, d) : \A c \in RoomCharges(r, d) :
    c < tariff => charge[c].late

\* The audit has posted nothing for those it still has to go through.
FreshOK(d) ==
  \A r \in Reservations :
    (\/ job[d].at = "read" \/ run[d].status = "none"
     \/ r \in job[d].todo /\ ~(job[d].at = "tax" /\ job[d].res = r))
      => Posted(r, d) = {}

\* The tax that comes next has one charge to go with.
TaxingOK(d) ==
  \A r \in Reservations : job[d].at = "tax" /\ job[d].res = r =>
    \A c, e \in Posted(r, d) : c = e

Accounted(r, d) ==
  RoomCharges(r, d) # {} /\ \A c \in Posted(r, d) : TaxesOf(c) # {}

AccountsOK(d) ==
  job[d].at \in {"tariff", "look", "post", "tax", "complete"} \/ run[d].status = "completed" =>
    \A r \in run[d].read \ (run[d].errors \cup job[d].todo) : Accounted(r, d)

BooksOK(d) ==
  JobOK(d) /\ LateOK(d) /\ ChargedOnce(d) /\ FreshOK(d) /\ TaxingOK(d) /\ AccountsOK(d)

-----------------------------------------------------------------------------
(* ... and the desk.                                                       *)

ChargeRow(n) ==
  [res : Reservations, type : {"room", "tax"}, date : Dates, reverses : 0..n, parent : 0..n,
   by : {"audit", "desk"}, locked : BOOLEAN, late : BOOLEAN]

PostRequest == [at : {"post"}, res : Reservations, date : Dates]

ReversalRequest(n) ==
  [at : ReversalAwaits, row : 1..n, new : 0..n, todo : SUBSET (1..n), tax : 0..n]

Request(n) == {Idle} \cup PostRequest \cup ReversalRequest(n)

\* Only taxes hang on another row.
RowsOK == \A c \in DOMAIN charge : charge[c].parent # NoRow => charge[c].type = "tax"

Reverses(x) == x.at \in ReversalAwaits

\* A handler reverses a row that is no reversal, and the taxes of that row.
ReverserOK(x) ==
  /\ charge[x.row].reverses = NoRow
  /\ \A t \in x.todo : charge[t].parent = x.row /\ charge[t].reverses = NoRow
  /\ x.at = "tax" => /\ x.tax \in DOMAIN charge /\ charge[x.tax].parent = x.row
                     /\ charge[x.tax].reverses = NoRow
  /\ x.at = "reverseOnly" => x.row \in raced

\* A handler about to reverse a row alone finds it unreversed.
FirstOK(x) ==
  /\ x.at = "reverse" /\ {x.row, charge[x.row].parent} \cap raced = {} => Reversals(x.row) = {}
  /\ x.at = "tax" /\ {x.tax, x.row} \cap raced = {} => Reversals(x.tax) = {}

DeskOK ==
  \A q \in Requests : Reverses(req[q]) => ReverserOK(req[q]) /\ FirstOK(req[q])

\* Two handlers that may reverse the same row have noticed.
Clash(x, y) == x.row = y.row \/ charge[x.row].parent = y.row

PairsOK ==
  \A p, q \in Requests : p # q /\ Reverses(req[p]) /\ Reverses(req[q]) =>
    (Clash(req[p], req[q]) => req[q].row \in raced)

UniqueOK ==
  \A c \in DOMAIN charge : {c, charge[c].parent} \cap raced = {} =>
    \A x, y \in Reversals(c) : x = y

Typed ==
  /\ TypeOK /\ job \in [Dates -> JobRecord] /\ req \in [Requests -> Request(Len(charge))]

IInv ==
  /\ Typed /\ RowsOK /\ DeskOK /\ PairsOK /\ UniqueOK
  /\ \A d \in Dates : BooksOK(d)

-----------------------------------------------------------------------------
(* Charge rows.                                                            *)

LEMMA Rows ==
  ASSUME TypeOK
  PROVE  /\ charge \in Seq(ChargeRow(Len(charge))) /\ Len(charge) \in Nat
         /\ DOMAIN charge = 1..Len(charge)
         /\ \A c \in DOMAIN charge : charge[c] \in ChargeRow(Len(charge))
<1>1. charge \in Seq(ChargeRow(Len(charge)))
  BY DEF TypeOK, ChargeRow
<1>2. QED
  BY <1>1, LenProperties, ElementOfSeq

\* Every row that was there is there still, and at most its lock has changed; the
\* rows of S are new.
SameRow(c) ==
  /\ charge'[c].res = charge[c].res /\ charge'[c].type = charge[c].type
  /\ charge'[c].date = charge[c].date /\ charge'[c].reverses = charge[c].reverses
  /\ charge'[c].parent = charge[c].parent /\ charge'[c].by = charge[c].by
  /\ charge'[c].late = charge[c].late

Grows(S) ==
  /\ charge' \in Seq(ChargeRow(Len(charge')))
  /\ DOMAIN charge' = DOMAIN charge \cup S
  /\ \A c \in DOMAIN charge : SameRow(c) /\ c \notin S
  /\ \A c \in DOMAIN charge : \A e \in S : c < e

LEMMA Kept ==
  ASSUME TypeOK, charge' = charge
  PROVE  Grows({})
BY Rows DEF Grows, SameRow

LEMMA Inserted ==
  ASSUME TypeOK, NEW row \in ChargeRow(Len(charge)), Insert(row)
  PROVE  Grows({NewRow}) /\ charge'[NewRow] = row /\ Len(charge') = NewRow
<1> DEFINE n == Len(charge)
<1>1. /\ charge \in Seq(ChargeRow(n)) /\ n \in Nat /\ DOMAIN charge = 1..n
  BY Rows
<1>2. ChargeRow(n) \subseteq ChargeRow(n + 1)
  <2>1. 0..n \subseteq 0..(n + 1)
    BY <1>1
  <2>2. QED
    BY <2>1 DEF ChargeRow
<1>3. charge \in Seq(ChargeRow(n + 1)) /\ row \in ChargeRow(n + 1)
  BY <1>1, <1>2, SeqMonotonic
<1>4. /\ charge' \in Seq(ChargeRow(n + 1)) /\ Len(charge') = n + 1
      /\ charge'[n + 1] = row /\ \A c \in 1..n : charge'[c] = charge[c]
  BY <1>1, <1>3 DEF Insert
<1>5. DOMAIN charge' = 1..(n + 1)
  BY <1>4, LenProperties
<1>6. 1..(n + 1) = (1..n) \cup {n + 1} /\ \A c \in 1..n : c < n + 1
  BY <1>1
<1>7. QED
  BY <1>1, <1>4, <1>5, <1>6 DEF Grows, SameRow, NewRow

LEMMA Locked ==
  ASSUME TypeOK, NEW d,
         charge' = [c \in DOMAIN charge |->
                      IF charge[c].date <= d THEN [charge[c] EXCEPT !.locked = TRUE] ELSE charge[c]]
  PROVE  Grows({}) /\ Len(charge') = Len(charge)
<1> DEFINE n == Len(charge)
<1>1. /\ n \in Nat /\ DOMAIN charge = 1..n /\ \A c \in 1..n : charge[c] \in ChargeRow(n)
  BY Rows
<1>2. \A c \in 1..n : charge'[c] = charge[c] \/ charge'[c] = [charge[c] EXCEPT !.locked = TRUE]
  BY <1>1
<1>3. \A c \in 1..n : charge'[c] \in ChargeRow(n) /\ SameRow(c)
  <2>1. \A x \in ChargeRow(n) : LET y == [x EXCEPT !.locked = TRUE]
                                IN /\ y \in ChargeRow(n) /\ y.res = x.res /\ y.type = x.type
                                   /\ y.date = x.date /\ y.reverses = x.reverses
                                   /\ y.parent = x.parent /\ y.by = x.by /\ y.late = x.late
    BY DEF ChargeRow
  <2>2. QED
    BY <1>1, <1>2, <2>1 DEF SameRow
<1>4. charge' \in [1..n -> ChargeRow(n)]
  <2>1. charge' = [c \in 1..n |-> charge'[c]]
    BY <1>1
  <2>2. QED
    BY <1>3, <2>1
<1>5. charge' \in Seq(ChargeRow(n))
  BY <1>1, <1>4, SeqDef
<1>6. DOMAIN charge' = 1..n /\ Len(charge') = n
  BY <1>1, <1>4, <1>5, LenProperties
<1>7. QED
  BY <1>1, <1>3, <1>5, <1>6 DEF Grows

\* What joins the sets of rows the handlers look at.
LEMMA Joined ==
  ASSUME TypeOK, NEW S, Grows(S)
  PROVE  /\ \A r, d : RoomCharges(r, d)' = RoomCharges(r, d) \cup
              {c \in S : /\ charge'[c].res = r /\ charge'[c].date = d
                         /\ charge'[c].type = "room" /\ charge'[c].reverses = NoRow}
         /\ \A r, d : Posted(r, d)' = Posted(r, d) \cup
              {c \in S : /\ charge'[c].res = r /\ charge'[c].date = d
                         /\ charge'[c].type = "room" /\ charge'[c].reverses = NoRow
                         /\ charge'[c].by = "audit"}
         /\ \A c : TaxesOf(c)' = TaxesOf(c) \cup
              {x \in S : /\ charge'[x].parent = c /\ charge'[x].type = "tax"
                         /\ charge'[x].reverses = NoRow}
         /\ \A c : Reversals(c)' = Reversals(c) \cup {x \in S : charge'[x].reverses = c}
         /\ \A r, d : RoomCharges(r, d) \subseteq DOMAIN charge
                      /\ Posted(r, d) \subseteq RoomCharges(r, d)
<1>1. \A r, d : RoomCharges(r, d)' = RoomCharges(r, d) \cup
        {c \in S : /\ charge'[c].res = r /\ charge'[c].date = d
                   /\ charge'[c].type = "room" /\ charge'[c].reverses = NoRow}
  BY DEF Grows, SameRow, RoomCharges
<1>2. \A r, d : RoomCharges(r, d) \subseteq DOMAIN charge /\ Posted(r, d) \subseteq RoomCharges(r, d)
  BY DEF RoomCharges, Posted
<1>3. \A r, d : Posted(r, d)' = Posted(r, d) \cup
        {c \in S : /\ charge'[c].res = r /\ charge'[c].date = d
                   /\ charge'[c].type = "room" /\ charge'[c].reverses = NoRow
                   /\ charge'[c].by = "audit"}
  BY <1>1, <1>2 DEF Posted, Grows, SameRow
<1>4. \A c : TaxesOf(c)' = TaxesOf(c) \cup
        {x \in S : /\ charge'[x].parent = c /\ charge'[x].type = "tax"
                   /\ charge'[x].reverses = NoRow}
  BY DEF Grows, SameRow, TaxesOf
<1>5. \A c : Reversals(c)' = Reversals(c) \cup {x \in S : charge'[x].reverses = c}
  BY DEF Grows, SameRow, Reversals
<1>6. QED
  BY <1>1, <1>2, <1>3, <1>4, <1>5

-----------------------------------------------------------------------------
(* The books of a date nobody works on: new rows may only help them.       *)

\* The desk and the audits of other dates post no tariff for the date, and mark
\* what they post behind its audit's back.
Aside(e, S) ==
  \A c \in S : charge'[c].type = "room" /\ charge'[c].reverses = NoRow /\ charge'[c].date = e =>
    /\ charge'[c].by # "audit"
    /\ job[e].at = "post" /\ job[e].res = charge'[c].res => charge'[c].late

LEMMA Accounting ==
  ASSUME TypeOK, NEW S, Grows(S), NEW r, NEW d, Accounted(r, d), Posted(r, d)' = Posted(r, d)
  PROVE  Accounted(r, d)'
<1>1. RoomCharges(r, d) \subseteq RoomCharges(r, d)' /\ \A c : TaxesOf(c) \subseteq TaxesOf(c)'
  BY Joined
<1>2. QED
  BY <1>1 DEF Accounted

LEMMA AsideKeepsBooks ==
  ASSUME TypeOK, NEW e \in Dates, BooksOK(e), NEW S, Grows(S), Aside(e, S),
         job'[e] = job[e], run'[e] = run[e]
  PROVE  BooksOK(e)'
<1> USE DEF BooksOK
<1>1. ASSUME NEW r PROVE Posted(r, e)' = Posted(r, e)
  <2>1. Posted(r, e)' = Posted(r, e) \cup
          {c \in S : /\ charge'[c].res = r /\ charge'[c].date = e
                     /\ charge'[c].type = "room" /\ charge'[c].reverses = NoRow
                     /\ charge'[c].by = "audit"}
    BY Joined
  <2>2. \A c \in S : ~(/\ charge'[c].res = r /\ charge'[c].date = e
                       /\ charge'[c].type = "room" /\ charge'[c].reverses = NoRow
                       /\ charge'[c].by = "audit")
    BY DEF Aside
  <2>3. QED
    BY <2>1, <2>2
<1>2. \A r : /\ RoomCharges(r, e) \subseteq DOMAIN charge /\ Posted(r, e) \subseteq DOMAIN charge
             /\ \A c \in RoomCharges(r, e)' : c \in RoomCharges(r, e) \/ c \in S
  BY Joined
<1>3. \A c \in DOMAIN charge : charge'[c].late = charge[c].late /\ c \notin S
  BY DEF Grows, SameRow
<1>4. JobOK(e)'
  BY DEF JobOK
<1>5. LateOK(e)'
  <2> SUFFICES ASSUME NEW r \in Reservations, job[e].at = "post", job[e].res = r,
                      NEW c \in RoomCharges(r, e)'
               PROVE  charge'[c].late
    BY DEF LateOK
  <2>1. CASE c \in RoomCharges(r, e)
    BY <1>2, <1>3, <2>1 DEF LateOK
  <2>2. CASE c \in S
    <3>1. /\ charge'[c].type = "room" /\ charge'[c].reverses = NoRow /\ charge'[c].date = e
          /\ charge'[c].res = r
      BY DEF RoomCharges
    <3>2. QED
      BY <2>2, <3>1 DEF Aside
  <2>3. QED
    BY <1>2, <2>1, <2>2
<1>6. ChargedOnce(e)'
  <2> SUFFICES ASSUME NEW r \in Reservations, NEW tariff \in Posted(r, e),
                      NEW c \in RoomCharges(r, e)', c < tariff
               PROVE  charge'[c].late
    BY <1>1 DEF ChargedOnce
  <2>1. tariff \in DOMAIN charge
    BY <1>2
  <2>2. c \notin S
    <3> SUFFICES ASSUME c \in S PROVE FALSE
      OBVIOUS
    <3>1. tariff < c
      BY <2>1 DEF Grows
    <3>2. tariff \in Nat /\ c \in Nat
      <4>1. tariff \in 1..Len(charge) /\ Len(charge) \in Nat
        BY <2>1, Rows
      <4>2. c \in 1..Len(charge') /\ Len(charge') \in Nat
        BY LenProperties DEF Grows
      <4>3. QED
        BY <4>1, <4>2
    <3>3. QED
      BY <3>1, <3>2
  <2>3. c \in RoomCharges(r, e)
    BY <1>2, <2>2
  <2>4. QED
    BY <1>2, <1>3, <2>3 DEF ChargedOnce
<1>7. FreshOK(e)' /\ TaxingOK(e)'
  BY <1>1 DEF FreshOK, TaxingOK
<1>8. AccountsOK(e)'
  BY <1>1, Accounting DEF AccountsOK
<1>9. QED
  BY <1>4, <1>5, <1>6, <1>7, <1>8

\* The audit of d takes a step, and the others do not.
LEMMA OneAudit ==
  ASSUME Typed, NEW d \in Dates, NEW S, Grows(S), \A e \in Dates : BooksOK(e),
         NEW jb, NEW rn, job' = [job EXCEPT ![d] = jb], run' = [run EXCEPT ![d] = rn],
         \A c \in S : charge'[c].date = d,
         BooksOK(d)'
  PROVE  \A e \in Dates : BooksOK(e)'
<1> SUFFICES ASSUME NEW e \in Dates, e # d PROVE BooksOK(e)'
  OBVIOUS
<1>1. job'[e] = job[e] /\ run'[e] = run[e]
  BY DEF Typed, TypeOK
<1>2. Aside(e, S)
  BY DEF Aside
<1>3. QED
  BY <1>1, <1>2, AsideKeepsBooks DEF Typed

-----------------------------------------------------------------------------
(* The desk, while rows are added that reverse nothing.                    *)

LEMMA Widening ==
  ASSUME TypeOK, Len(charge') \in Nat, Len(charge) <= Len(charge')
  PROVE  Request(Len(charge)) \subseteq Request(Len(charge'))
<1>1. 1..Len(charge) \subseteq 1..Len(charge') /\ 0..Len(charge) \subseteq 0..Len(charge')
  BY Rows
<1>2. QED
  BY <1>1 DEF Request, ReversalRequest

LEMMA Reversers ==
  ASSUME Typed, NEW q \in Requests, Reverses(req[q])
  PROVE  /\ req[q] \in ReversalRequest(Len(charge)) /\ req[q].row \in DOMAIN charge
         /\ req[q].todo \subseteq DOMAIN charge /\ req[q].row \in Nat /\ req[q].row # NoRow
         /\ charge[req[q].row] \in ChargeRow(Len(charge))
<1>1. req[q] \in Request(Len(charge))
  BY DEF Typed
<1>2. req[q] \in ReversalRequest(Len(charge))
  BY <1>1 DEF Request, PostRequest, Idle, Reverses, ReversalAwaits
<1>3. QED
  BY <1>2, Rows DEF Typed, ReversalRequest, NoRow

\* No row is reversed before it is there.
LEMMA NewRowsAreUnreversed ==
  ASSUME TypeOK, NEW c, c \notin DOMAIN charge, c # NoRow
  PROVE  Reversals(c) = {}
<1>1. \A x \in DOMAIN charge : charge[x].reverses \in 0..Len(charge)
  BY Rows DEF ChargeRow
<1>2. QED
  BY <1>1, Rows DEF Reversals, NoRow

\* So it is when a handler that reverses nothing begins or ends.
LEMMA AddingKeepsDesk ==
  ASSUME Typed, RowsOK, DeskOK, PairsOK, UniqueOK, NEW S, Grows(S), UNCHANGED raced,
         req' \in [Requests -> Request(Len(charge))],
         \A q \in Requests : Reverses(req'[q]) => req'[q] = req[q],
         Len(charge) <= Len(charge'),
         \A c \in S : /\ charge'[c].reverses = NoRow
                      /\ charge'[c].parent # NoRow => charge'[c].type = "tax"
  PROVE  RowsOK' /\ DeskOK' /\ PairsOK' /\ UniqueOK' /\ req' \in [Requests -> Request(Len(charge'))]
<1>0. TypeOK
  BY DEF Typed
<1>1. Len(charge') \in Nat /\ DOMAIN charge' = 1..Len(charge')
  BY LenProperties DEF Grows
<1>2. req' \in [Requests -> Request(Len(charge'))]
  BY <1>0, <1>1, Widening DEF Typed
<1>3. /\ \A c \in DOMAIN charge : SameRow(c) /\ c \in DOMAIN charge'
      /\ \A c \in DOMAIN charge' : c \in DOMAIN charge \/ c \in S
  BY DEF Grows
<1>4. ASSUME NEW c \in Nat \ {NoRow} PROVE Reversals(c)' = Reversals(c)
  <2>1. Reversals(c)' = Reversals(c) \cup {x \in S : charge'[x].reverses = c}
    BY <1>0, Joined
  <2>2. \A x \in S : charge'[x].reverses # c
    OBVIOUS
  <2>3. QED
    BY <2>1, <2>2
<1>5. RowsOK'
  BY <1>3 DEF RowsOK, SameRow
<1>6. ASSUME NEW q \in Requests, Reverses(req'[q])
      PROVE  ReverserOK(req[q])' /\ FirstOK(req[q])'
  <2> PICK x : x = req[q] /\ x = req'[q] /\ Reverses(x)
    BY <1>6
  <2>1. /\ x.row \in DOMAIN charge /\ x.todo \subseteq DOMAIN charge /\ x.row \in Nat /\ x.row # NoRow
        /\ ReverserOK(x) /\ FirstOK(x)
    BY <1>6, Reversers DEF DeskOK
  <2>2. ReverserOK(x)'
    BY <1>3, <2>1 DEF ReverserOK, SameRow
  <2>3. x.at = "tax" => x.tax \in Nat \ {NoRow}
    BY <1>0, <2>1, Rows DEF ReverserOK, NoRow
  <2>4. FirstOK(x)'
    BY <1>3, <1>4, <2>1, <2>3 DEF FirstOK, SameRow
  <2>5. QED
    BY <2>2, <2>4
<1>7. DeskOK'
  BY <1>6 DEF DeskOK, Reverses
<1>8. PairsOK'
  BY <1>3, Reversers DEF PairsOK, Clash, Reverses, SameRow
<1>9. UniqueOK'
  <2> SUFFICES ASSUME NEW c \in DOMAIN charge', {c, charge'[c].parent} \cap raced = {}
               PROVE  \A x, y \in Reversals(c)' : x = y
    BY DEF UniqueOK
  <2>1. c \in Nat \ {NoRow}
    BY <1>1 DEF NoRow
  <2>2. CASE c \in DOMAIN charge
    BY <1>3, <1>4, <2>1, <2>2 DEF UniqueOK, SameRow
  <2>3. CASE c \notin DOMAIN charge
    BY <1>0, <1>4, <2>1, <2>3, NewRowsAreUnreversed
  <2>4. QED
    BY <2>2, <2>3
<1>10. QED
  BY <1>2, <1>5, <1>7, <1>8, <1>9

-----------------------------------------------------------------------------
(* The steps of an audit.                                                  *)

RunRecord ==
  [status : {"none", "running", "completed", "failed"},
   errors : SUBSET Reservations, read : SUBSET Reservations]

LEMMA AuditStep ==
  ASSUME IInv, NEW d \in Dates, NEW S, Grows(S), Len(charge) <= Len(charge'),
         NEW jb \in JobRecord, NEW rn \in RunRecord, jb.todo \subseteq rn.read,
         job' = [job EXCEPT ![d] = jb], run' = [run EXCEPT ![d] = rn],
         UNCHANGED <<stay, folio, req, started, raced>>,
         \A c \in S : /\ charge'[c].reverses = NoRow /\ charge'[c].date = d
                      /\ charge'[c].parent # NoRow => charge'[c].type = "tax",
         BooksOK(d)'
  PROVE  IInv'
<1> USE DEF IInv
<1>1. \A e \in Dates : BooksOK(e)'
  BY OneAudit
<1>2. RowsOK' /\ DeskOK' /\ PairsOK' /\ UniqueOK' /\ req' \in [Requests -> Request(Len(charge'))]
  BY AddingKeepsDesk DEF Typed
<1>3. job' \in [Dates -> JobRecord] /\ run' \in [Dates -> RunRecord]
  BY DEF Typed, TypeOK, RunRecord
<1>4. \A e \in Dates : job'[e].todo \subseteq run'[e].read
  BY DEF Typed, TypeOK
<1>5. charge' \in Seq(ChargeRow(Len(charge'))) /\ DOMAIN charge \subseteq DOMAIN charge'
  BY DEF Grows
<1>6. TypeOK'
  BY <1>3, <1>4, <1>5 DEF Typed, TypeOK, RunRecord, ChargeRow
<1>7. QED
  BY <1>1, <1>2, <1>3, <1>6 DEF Typed

LEMMA SameCharges ==
  ASSUME TypeOK, Grows({})
  PROVE  /\ \A r, d : /\ RoomCharges(r, d)' = RoomCharges(r, d) /\ Posted(r, d)' = Posted(r, d)
                      /\ Accounted(r, d)' <=> Accounted(r, d)
                      /\ \A c \in RoomCharges(r, d) : charge'[c].late = charge[c].late
         /\ \A c : Reversals(c)' = Reversals(c) /\ TaxesOf(c)' = TaxesOf(c)
<1>0. DOMAIN charge' = DOMAIN charge /\ \A c \in DOMAIN charge : SameRow(c)
  BY DEF Grows
<1>1. \A r, d : RoomCharges(r, d)' = RoomCharges(r, d) /\ Posted(r, d)' = Posted(r, d)
  BY <1>0 DEF RoomCharges, Posted, SameRow
<1>2. \A c : Reversals(c)' = Reversals(c) /\ TaxesOf(c)' = TaxesOf(c)
  BY <1>0 DEF Reversals, TaxesOf, SameRow
<1>3. \A r, d : \A c \in RoomCharges(r, d) : charge'[c].late = charge[c].late
  BY DEF RoomCharges, Grows, SameRow
<1>4. QED
  BY <1>1, <1>2, <1>3 DEF Accounted

\* A step that posts nothing.
LEMMA AuditMoves ==
  ASSUME IInv, NEW d \in Dates, NEW jb \in JobRecord, NEW rn \in RunRecord,
         job' = [job EXCEPT ![d] = jb], run' = [run EXCEPT ![d] = rn],
         UNCHANGED <<stay, folio, req, started, raced>>, Grows({}), Len(charge) <= Len(charge'),
         jb.todo \subseteq rn.read, jb.at # "tax",
         jb.at \in {"look", "post"} => jb.res \in jb.todo,
         jb.at \in {"away", "read", "complete", "stopped"} => jb.todo = {},
         jb.at # "away" => rn.status = "running",
         jb.at = "post" => \A c \in RoomCharges(jb.res, d) : charge[c].late,
         \A r \in Reservations :
           jb.at = "read" \/ rn.status = "none" \/ r \in jb.todo => Posted(r, d) = {},
         jb.at \in {"tariff", "look", "post", "complete"} \/ rn.status = "completed" =>
           \A r \in rn.read \ (rn.errors \cup jb.todo) : Accounted(r, d)
  PROVE  IInv'
<1>0. Typed /\ TypeOK /\ BooksOK(d)
  BY DEF IInv, Typed
<1>1. job'[d] = jb /\ run'[d] = rn
  BY <1>0 DEF Typed, TypeOK
<1>2. \A r : Posted(r, d) \subseteq RoomCharges(r, d)
  BY DEF Posted
<1>3. JobOK(d)' /\ LateOK(d)'
  BY <1>0, <1>1, SameCharges DEF JobOK, LateOK
<1>4. ChargedOnce(d)'
  BY <1>0, SameCharges DEF BooksOK, ChargedOnce
<1>5. FreshOK(d)' /\ TaxingOK(d)'
  BY <1>0, <1>1, SameCharges DEF FreshOK, TaxingOK
<1>6. AccountsOK(d)'
  BY <1>0, <1>1, SameCharges DEF AccountsOK
<1>7. BooksOK(d)'
  BY <1>3, <1>4, <1>5, <1>6 DEF BooksOK
<1>8. QED
  BY <1>7, AuditStep

\* What the books say of a date at work.
LEMMA AtWork ==
  ASSUME IInv, NEW d \in Dates
  PROVE  /\ TypeOK /\ job \in [Dates -> JobRecord] /\ run \in [Dates -> RunRecord]
         /\ job[d] \in JobRecord /\ run[d] \in RunRecord /\ job[d].todo \subseteq run[d].read
         /\ BooksOK(d) /\ run = [run EXCEPT ![d] = run[d]]
         /\ charge' = charge => Grows({}) /\ Len(charge) <= Len(charge')
<1>1. TypeOK /\ BooksOK(d) /\ job \in [Dates -> JobRecord] /\ run \in [Dates -> RunRecord]
  BY DEF IInv, Typed, TypeOK, RunRecord
<1>2. job[d].todo \subseteq run[d].read
  BY <1>1 DEF TypeOK
<1>3. charge' = charge => Grows({}) /\ Len(charge) <= Len(charge')
  BY <1>1, Kept, Rows
<1>4. QED
  BY <1>1, <1>2, <1>3

LEMMA RunAuditInv ==
  ASSUME IInv, NEW d \in Dates, RunAudit(d)
  PROVE  IInv'
<1> DEFINE jb == [Away EXCEPT !.at = "read"]
           rn == [NoRun EXCEPT !.status = "running"]
<1>1. jb \in JobRecord /\ rn \in RunRecord /\ jb.todo \subseteq rn.read
  BY DEF Away, NoRun, JobRecord, JobSteps, RunRecord
<1>2. \A r \in Reservations : Posted(r, d) = {}
  BY AtWork DEF RunAudit, AlreadyThere, BooksOK, FreshOK
<1>3. jb.at = "read" /\ jb.todo = {} /\ rn.status = "running"
  BY DEF Away, NoRun
<1>4. QED
  BY <1>1, <1>2, <1>3, AtWork, AuditMoves DEF RunAudit

LEMMA ReadInHouseInv ==
  ASSUME IInv, NEW d \in Dates, ReadInHouse(d)
  PROVE  IInv'
<1> DEFINE inHouse == {r \in Reservations : stay[r] = "in_house"}
           jb == [at |-> "tariff", todo |-> inHouse, res |-> NoRow]
           rn == [run[d] EXCEPT !.read = inHouse]
<1>1. /\ job[d].at = "read" /\ job' = [job EXCEPT ![d] = jb] /\ run' = [run EXCEPT ![d] = rn]
      /\ UNCHANGED <<stay, folio, charge, req, started, raced>>
  BY AtWork DEF ReadInHouse
<1>2. jb \in JobRecord /\ rn \in RunRecord /\ jb.todo \subseteq rn.read
  BY AtWork DEF JobRecord, JobSteps, RunRecord
<1>3. rn.status = "running" /\ \A r \in Reservations : Posted(r, d) = {}
  BY <1>1, AtWork DEF BooksOK, FreshOK, JobOK, RunRecord
<1>4. rn.read \ (rn.errors \cup jb.todo) = {}
  BY AtWork DEF RunRecord
<1>5. jb.at = "tariff" /\ \A r \in rn.read \ (rn.errors \cup jb.todo) : Accounted(r, d)
  BY <1>4
<1>6. Grows({}) /\ Len(charge) <= Len(charge') /\ UNCHANGED <<stay, folio, req, started, raced>>
  BY <1>1, AtWork
<1>7. QED
  <2> HIDE DEF jb, rn
  <2> QED
    BY <1>1, <1>2, <1>3, <1>5, <1>6, AuditMoves

\* A reservation is done with: it is accounted for, or named in the errors.
LEMMA DoneInv ==
  ASSUME IInv, NEW d \in Dates, NEW r \in Reservations, job[d].at \in {"tariff", "look", "post", "tax"},
         job[d].at # "tariff" => job[d].res = r,
         Done(d, r), Record(d, r) \/ (Accounted(r, d) /\ UNCHANGED run),
         UNCHANGED <<stay, folio, charge, req, started, raced>>
  PROVE  IInv'
<1> DEFINE jb == [at |-> "tariff", todo |-> job[d].todo \ {r}, res |-> NoRow]
           rn == IF Record(d, r) THEN [run[d] EXCEPT !.errors = @ \cup {r}] ELSE run[d]
<1>1. job' = [job EXCEPT ![d] = jb] /\ run' = [run EXCEPT ![d] = rn]
  BY AtWork DEF Done, Record
<1>2. /\ jb \in JobRecord /\ rn \in RunRecord /\ jb.todo \subseteq rn.read
      /\ rn.status = run[d].status /\ rn.read = run[d].read
      /\ rn.errors = run[d].errors \/ rn.errors = run[d].errors \cup {r}
      /\ rn.errors = run[d].errors => Accounted(r, d) \/ r \in rn.errors
  BY AtWork DEF JobRecord, JobSteps, RunRecord
<1>3. rn.status = "running" /\ \A x \in jb.todo : Posted(x, d) = {}
  BY <1>2, AtWork DEF BooksOK, FreshOK, JobOK, JobRecord
<1>4. \A x \in rn.read \ (rn.errors \cup jb.todo) : Accounted(x, d)
  <2> SUFFICES ASSUME NEW x \in rn.read \ (rn.errors \cup jb.todo) PROVE Accounted(x, d)
    OBVIOUS
  <2>1. CASE x = r
    BY <1>2, <2>1
  <2>2. CASE x # r
    BY <1>2, <2>2, AtWork DEF BooksOK, AccountsOK
  <2>3. QED
    BY <2>1, <2>2
<1>5. QED
  BY <1>1, <1>2, <1>3, <1>4, AtWork, AuditMoves

\* It is taken up, or what was looked for was not there.
LEMMA TakenUp ==
  ASSUME IInv, NEW d \in Dates, NEW jb \in JobRecord, job' = [job EXCEPT ![d] = jb],
         job[d].at \in {"tariff", "look"}, jb.at \in {"look", "post"}, jb.todo = job[d].todo,
         jb.res \in jb.todo, jb.at = "post" => RoomCharges(jb.res, d) = {},
         UNCHANGED <<stay, folio, charge, run, req, started, raced>>
  PROVE  IInv'
<1>1. run' = [run EXCEPT ![d] = run[d]] /\ run[d] \in RunRecord /\ run[d].status = "running"
  BY AtWork DEF BooksOK, JobOK
<1>2. \A r \in Reservations : r \in jb.todo => Posted(r, d) = {}
  BY AtWork DEF BooksOK, FreshOK
<1>3. \A r \in run[d].read \ (run[d].errors \cup jb.todo) : Accounted(r, d)
  BY AtWork DEF BooksOK, AccountsOK
<1>4. QED
  BY <1>1, <1>2, <1>3, AtWork, AuditMoves

LEMMA NextTariffInv ==
  ASSUME IInv, NEW d \in Dates, NextTariff(d)
  PROVE  IInv'
<1>1. /\ job[d].at = "tariff" /\ job[d].todo \subseteq Reservations /\ job[d] \in JobRecord
      /\ UNCHANGED <<stay, folio, charge, req, started, raced>>
  BY AtWork DEF NextTariff, JobRecord
<1> PICK r \in job[d].todo :
      \/ NoOpenFolio(d, r) /\ Done(d, r)
      \/ job' = [job EXCEPT ![d] = [@ EXCEPT !.at = "look", !.res = r]] /\ UNCHANGED run
  BY DEF NextTariff
<1>2. CASE NoOpenFolio(d, r) /\ Done(d, r)
  BY <1>1, <1>2, DoneInv DEF NoOpenFolio
<1>3. CASE job' = [job EXCEPT ![d] = [@ EXCEPT !.at = "look", !.res = r]] /\ UNCHANGED run
  <2> DEFINE jb == [job[d] EXCEPT !.at = "look", !.res = r]
  <2>1. jb \in JobRecord /\ jb.at = "look" /\ jb.todo = job[d].todo /\ jb.res = r
    BY <1>1 DEF JobRecord, JobSteps
  <2>2. job' = [job EXCEPT ![d] = jb]
    BY <1>3, AtWork
  <2>3. QED
    BY <1>1, <1>3, <2>1, <2>2, TakenUp
<1>4. QED
  BY <1>2, <1>3

LEMMA LookForChargeInv ==
  ASSUME IInv, NEW d \in Dates, LookForCharge(d)
  PROVE  IInv'
<1> DEFINE r == job[d].res
<1>1. /\ job[d].at = "look" /\ r \in job[d].todo /\ r \in Reservations /\ job[d] \in JobRecord
      /\ UNCHANGED <<stay, folio, charge, run, req, started, raced>>
  BY AtWork DEF LookForCharge, BooksOK, JobOK, JobRecord
<1>2. CASE HasRoomCharge(r, d)
  <2>1. Posted(r, d) = {}
    BY <1>1, AtWork DEF BooksOK, FreshOK
  <2>2. Accounted(r, d)
    BY <1>2, <2>1 DEF HasRoomCharge, Accounted
  <2>3. QED
    BY <1>1, <1>2, <2>2, DoneInv DEF LookForCharge
<1>3. CASE ~HasRoomCharge(r, d)
  <2> DEFINE jb == [job[d] EXCEPT !.at = "post"]
  <2>1. jb \in JobRecord /\ jb.at = "post" /\ jb.todo = job[d].todo /\ jb.res = r
    BY <1>1 DEF JobRecord, JobSteps
  <2>2. job' = [job EXCEPT ![d] = jb]
    BY <1>3, AtWork DEF LookForCharge, Step
  <2>3. QED
    BY <1>1, <1>3, <2>1, <2>2, TakenUp DEF HasRoomCharge
<1>4. QED
  BY <1>2, <1>3

LEMMA PostTariffInv ==
  ASSUME IInv, NEW d \in Dates, PostTariff(d)
  PROVE  IInv'
<1> PICK r : r = job[d].res
  OBVIOUS
<1> DEFINE row == Row(r, "room", d, "audit")
           jb == [job[d] EXCEPT !.at = "tax"]
<1>1. /\ job[d].at = "post" /\ r \in job[d].todo /\ r \in Reservations /\ job[d] \in JobRecord
      /\ run[d].status = "running" /\ UNCHANGED <<stay, folio, req, started, raced>>
  BY AtWork DEF PostTariff, BooksOK, JobOK, JobRecord
<1>2. CASE Record(d, r) /\ Done(d, r) /\ UNCHANGED charge
  BY <1>1, <1>2, DoneInv
<1>3. CASE Insert(row) /\ Step(d, "tax") /\ UNCHANGED run
  <2>1. row \in ChargeRow(Len(charge))
    BY <1>1, AtWork, Rows DEF Row, ChargeRow, NoRow
  <2>2. Grows({NewRow}) /\ charge'[NewRow] = row /\ Len(charge') = NewRow
    BY <1>3, <2>1, AtWork, Inserted
  <2>3. /\ row.res = r /\ row.type = "room" /\ row.date = d /\ row.reverses = NoRow
        /\ row.parent = NoRow /\ row.by = "audit"
    BY DEF Row
  <2>4. /\ jb \in JobRecord /\ jb.at = "tax" /\ jb.todo = job[d].todo /\ jb.res = r
        /\ job' = [job EXCEPT ![d] = jb] /\ job'[d] = jb /\ run'[d] = run[d]
    BY <1>1, <1>3, AtWork DEF JobRecord, JobSteps, Step
  <2>5. \A x \in Reservations \ {r} : /\ RoomCharges(x, d)' = RoomCharges(x, d)
                                     /\ Posted(x, d)' = Posted(x, d)
    <3> SUFFICES ASSUME NEW x \in Reservations \ {r}
                 PROVE  RoomCharges(x, d)' = RoomCharges(x, d) /\ Posted(x, d)' = Posted(x, d)
      OBVIOUS
    <3>1. /\ RoomCharges(x, d)' = RoomCharges(x, d) \cup
              {c \in {NewRow} : /\ charge'[c].res = x /\ charge'[c].date = d
                                /\ charge'[c].type = "room" /\ charge'[c].reverses = NoRow}
          /\ Posted(x, d)' = Posted(x, d) \cup
              {c \in {NewRow} : /\ charge'[c].res = x /\ charge'[c].date = d
                                /\ charge'[c].type = "room" /\ charge'[c].reverses = NoRow
                                /\ charge'[c].by = "audit"}
      BY <2>2, AtWork, Joined
    <3>2. QED
      BY <2>2, <2>3, <3>1
  <2>6. RoomCharges(r, d)' = RoomCharges(r, d) \cup {NewRow} /\ Posted(r, d)' = {NewRow}
    <3>1. Posted(r, d) = {}
      BY <1>1, AtWork DEF BooksOK, FreshOK
    <3>2. /\ RoomCharges(r, d)' = RoomCharges(r, d) \cup
              {c \in {NewRow} : /\ charge'[c].res = r /\ charge'[c].date = d
                                /\ charge'[c].type = "room" /\ charge'[c].reverses = NoRow}
          /\ Posted(r, d)' = Posted(r, d) \cup
              {c \in {NewRow} : /\ charge'[c].res = r /\ charge'[c].date = d
                                /\ charge'[c].type = "room" /\ charge'[c].reverses = NoRow
                                /\ charge'[c].by = "audit"}
      BY <2>2, AtWork, Joined
    <3>3. QED
      BY <2>2, <2>3, <3>1, <3>2
  <2>7. /\ \A x : \A c \in RoomCharges(x, d) : charge'[c].late = charge[c].late
        /\ NewRow \in Nat
    BY <2>2, AtWork, Rows DEF RoomCharges, Grows, SameRow, NewRow
  <2>8. JobOK(d)' /\ LateOK(d)' /\ TaxingOK(d)'
    <3> HIDE DEF jb, row
    <3>1. JobOK(d)' /\ LateOK(d)'
      BY <1>1, <2>4 DEF JobOK, LateOK
    <3>2. TaxingOK(d)'
      BY <2>4, <2>6 DEF TaxingOK
    <3>3. QED
      BY <3>1, <3>2
  <2>9. ChargedOnce(d)'
    <3> SUFFICES ASSUME NEW x \in Reservations, NEW tariff \in Posted(x, d)',
                        NEW c \in RoomCharges(x, d)', c < tariff
                 PROVE  charge'[c].late
      BY DEF ChargedOnce
    <3>1. CASE x = r
      <4>1. c \in RoomCharges(r, d)
        BY <2>6, <2>7, <3>1
      <4>2. QED
        BY <1>1, <2>7, <4>1, AtWork DEF BooksOK, LateOK
    <3>2. CASE x # r
      BY <2>5, <2>7, <3>2, AtWork DEF BooksOK, ChargedOnce
    <3>3. QED
      BY <3>1, <3>2
  <2>10. FreshOK(d)'
    BY <1>1, <2>4, <2>5, AtWork DEF BooksOK, FreshOK
  <2>11. AccountsOK(d)'
    <3> SUFFICES ASSUME NEW x \in run[d].read \ (run[d].errors \cup job[d].todo)
                 PROVE  Accounted(x, d)'
      BY <2>4 DEF AccountsOK
    <3>1. Accounted(x, d) /\ x \in Reservations \ {r}
      BY <1>1, AtWork DEF BooksOK, AccountsOK, RunRecord
    <3>2. QED
      BY <2>2, <2>5, <3>1, AtWork, Accounting
  <2>12. BooksOK(d)'
    BY <2>8, <2>9, <2>10, <2>11 DEF BooksOK
  <2>13. run' = [run EXCEPT ![d] = run[d]] /\ run[d] \in RunRecord /\ jb.todo \subseteq run[d].read
    BY <1>3, <2>4, AtWork
  <2>14. Len(charge) <= Len(charge')
    BY <2>2, AtWork, Rows DEF NewRow
  <2>15. \A e \in {NewRow} : /\ charge'[e].reverses = NoRow /\ charge'[e].date = d
                             /\ charge'[e].parent # NoRow => charge'[e].type = "tax"
    BY <2>2, <2>3
  <2>16. QED
    <3> HIDE DEF jb, row
    <3> PICK S : S = {NewRow}
      OBVIOUS
    <3>1. Grows(S) /\ \A e \in S : /\ charge'[e].reverses = NoRow /\ charge'[e].date = d
                                   /\ charge'[e].parent # NoRow => charge'[e].type = "tax"
      BY <2>2, <2>15
    <3>2. QED
      BY <1>1, <2>4, <2>12, <2>13, <2>14, <3>1, AuditStep
<1>4. QED
  BY <1>2, <1>3 DEF PostTariff

LEMMA PostTaxInv ==
  ASSUME IInv, NEW d \in Dates, PostTax(d)
  PROVE  IInv'
<1> PICK r : r = job[d].res
  OBVIOUS
<1> DEFINE jb == [at |-> "tariff", todo |-> job[d].todo \ {r}, res |-> NoRow]
<1>1. /\ job[d].at = "tax" /\ r \in job[d].todo /\ r \in Reservations /\ job[d] \in JobRecord
      /\ run[d].status = "running" /\ Done(d, r) /\ UNCHANGED <<stay, folio, req, started, raced>>
  BY AtWork DEF PostTax, BooksOK, JobOK, JobRecord
<1>2. CASE Record(d, r) /\ UNCHANGED charge
  BY <1>1, <1>2, DoneInv
<1>3. ASSUME NEW c \in Posted(r, d), UNCHANGED run,
             Insert([Row(r, "tax", d, "audit") EXCEPT !.parent = c])
      PROVE  IInv'
  <2> DEFINE row == [Row(r, "tax", d, "audit") EXCEPT !.parent = c]
  <2>0. c \in DOMAIN charge /\ c \in 0..Len(charge)
    BY AtWork, Rows DEF Posted, RoomCharges
  <2>1. row \in ChargeRow(Len(charge))
    <3>1. Row(r, "tax", d, "audit") \in ChargeRow(Len(charge))
      BY <1>1, AtWork, Rows DEF Row, ChargeRow, NoRow
    <3>2. QED
      BY <2>0, <3>1 DEF ChargeRow
  <2>2. Grows({NewRow}) /\ charge'[NewRow] = row /\ Len(charge') = NewRow
    BY <1>3, <2>1, AtWork, Inserted
  <2>3. /\ row.type = "tax" /\ row.date = d /\ row.reverses = NoRow /\ row.parent = c
    BY DEF Row
  <2>4. /\ jb \in JobRecord /\ jb.at = "tariff" /\ jb.todo = job[d].todo \ {r}
        /\ job' = [job EXCEPT ![d] = jb] /\ job'[d] = jb /\ run'[d] = run[d]
    BY <1>1, <1>3, AtWork DEF JobRecord, JobSteps, Done
  <2>5. \A x : RoomCharges(x, d)' = RoomCharges(x, d) /\ Posted(x, d)' = Posted(x, d)
    <3> TAKE x
    <3>1. /\ RoomCharges(x, d)' = RoomCharges(x, d) \cup
              {e \in {NewRow} : /\ charge'[e].res = x /\ charge'[e].date = d
                                /\ charge'[e].type = "room" /\ charge'[e].reverses = NoRow}
          /\ Posted(x, d)' = Posted(x, d) \cup
              {e \in {NewRow} : /\ charge'[e].res = x /\ charge'[e].date = d
                                /\ charge'[e].type = "room" /\ charge'[e].reverses = NoRow
                                /\ charge'[e].by = "audit"}
      BY <2>2, AtWork, Joined
    <3>2. QED
      BY <2>2, <2>3, <3>1
  <2>6. TaxesOf(c)' # {}
    BY <2>2, <2>3 DEF TaxesOf, Grows
  <2>7. \A x : \A e \in RoomCharges(x, d) : charge'[e].late = charge[e].late
    BY <2>2 DEF RoomCharges, Grows, SameRow
  <2>8. JobOK(d)' /\ LateOK(d)' /\ TaxingOK(d)'
    BY <1>1, <2>4 DEF JobOK, LateOK, TaxingOK
  <2>9. ChargedOnce(d)'
    BY <2>5, <2>7, AtWork DEF BooksOK, ChargedOnce
  <2>10. FreshOK(d)'
    BY <1>1, <2>4, <2>5, AtWork DEF BooksOK, FreshOK
  <2>11. AccountsOK(d)'
    <3> SUFFICES ASSUME NEW x \in run[d].read \ (run[d].errors \cup (job[d].todo \ {r}))
                 PROVE  Accounted(x, d)'
      BY <2>4 DEF AccountsOK
    <3>1. CASE x = r
      <4>1. \A e \in Posted(r, d) : e = c
        BY <1>1, <1>3, AtWork DEF BooksOK, TaxingOK
      <4>2. c \in RoomCharges(r, d)
        BY DEF Posted
      <4>3. QED
        BY <2>5, <2>6, <3>1, <4>1, <4>2 DEF Accounted
    <3>2. CASE x # r
      <4>1. Accounted(x, d)
        BY <1>1, <3>2, AtWork DEF BooksOK, AccountsOK
      <4>2. QED
        BY <2>2, <2>5, <4>1, AtWork, Accounting
    <3>3. QED
      BY <3>1, <3>2
  <2>12. BooksOK(d)'
    BY <2>8, <2>9, <2>10, <2>11 DEF BooksOK
  <2>13. run' = [run EXCEPT ![d] = run[d]] /\ run[d] \in RunRecord /\ jb.todo \subseteq run[d].read
    BY <1>3, <2>4, AtWork
  <2>14. Len(charge) <= Len(charge')
    BY <2>2, AtWork, Rows DEF NewRow
  <2>15. \A e \in {NewRow} : /\ charge'[e].reverses = NoRow /\ charge'[e].date = d
                             /\ charge'[e].parent # NoRow => charge'[e].type = "tax"
    BY <2>2, <2>3
  <2>16. QED
    <3> HIDE DEF jb, row
    <3> PICK S : S = {NewRow}
      OBVIOUS
    <3>1. Grows(S) /\ \A e \in S : /\ charge'[e].reverses = NoRow /\ charge'[e].date = d
                                   /\ charge'[e].parent # NoRow => charge'[e].type = "tax"
      BY <2>2, <2>15
    <3>2. QED
      BY <1>1, <2>4, <2>12, <2>13, <2>14, <3>1, AuditStep
<1>4. QED
  BY <1>1, <1>2, <1>3 DEF PostTax

\* The end of a run, whatever it is.
LEMMA Ending ==
  ASSUME IInv, NEW d \in Dates, NEW jb \in JobRecord, NEW rn \in RunRecord,
         job' = [job EXCEPT ![d] = jb], run' = [run EXCEPT ![d] = rn],
         job[d].at # "away", jb.at \in {"complete", "away", "stopped"}, jb.todo = {},
         rn.read = run[d].read, rn.status # "none",
         jb.at # "away" => rn.status = "running",
         jb.at = "complete" \/ rn.status = "completed" =>
           job[d].at \in {"tariff", "complete"} /\ job[d].todo = {} /\ rn.errors = run[d].errors,
         Grows({}), Len(charge) <= Len(charge'), UNCHANGED <<stay, folio, req, started, raced>>
  PROVE  IInv'
<1>1. ASSUME jb.at = "complete" \/ rn.status = "completed", NEW r \in rn.read \ rn.errors
      PROVE  Accounted(r, d)
  BY <1>1, AtWork DEF BooksOK, AccountsOK
<1>2. QED
  BY <1>1, AuditMoves

LEMMA LockInv ==
  ASSUME IInv, NEW d \in Dates, LockChargesForDate(d)
  PROVE  IInv'
<1> DEFINE jb == [job[d] EXCEPT !.at = "complete"]
<1>1. /\ job[d].at = "tariff" /\ job[d].todo = {} /\ run[d].status = "running"
      /\ UNCHANGED <<stay, folio, run, req, started, raced>>
  BY AtWork DEF LockChargesForDate, BooksOK, JobOK
<1>2. /\ jb \in JobRecord /\ jb.at = "complete" /\ jb.todo = {} /\ job' = [job EXCEPT ![d] = jb]
      /\ run' = [run EXCEPT ![d] = run[d]] /\ run[d] \in RunRecord
  BY <1>1, AtWork DEF LockChargesForDate, Step, JobRecord, JobSteps
<1>3. Grows({}) /\ Len(charge) <= Len(charge')
  <2>1. charge' = [c \in DOMAIN charge |->
                     IF charge[c].date <= d THEN [charge[c] EXCEPT !.locked = TRUE] ELSE charge[c]]
    BY DEF LockChargesForDate
  <2>2. Grows({}) /\ Len(charge') = Len(charge)
    BY <2>1, AtWork, Locked
  <2>3. QED
    BY <2>2, AtWork, Rows
<1>4. QED
  <2> HIDE DEF jb
  <2> QED
    BY <1>1, <1>2, <1>3, Ending

LEMMA CompleteInv ==
  ASSUME IInv, NEW d \in Dates, CompleteAuditRun(d)
  PROVE  IInv'
<1> DEFINE jb == [job[d] EXCEPT !.at = "away"]
           rn == [run[d] EXCEPT !.status = "completed"]
<1>1. /\ job[d].at = "complete" /\ job[d].todo = {}
      /\ UNCHANGED <<stay, folio, charge, req, started, raced>>
  BY AtWork DEF CompleteAuditRun, BooksOK, JobOK
<1>2. /\ jb \in JobRecord /\ jb.at = "away" /\ jb.todo = {} /\ job' = [job EXCEPT ![d] = jb]
      /\ run' = [run EXCEPT ![d] = rn] /\ rn \in RunRecord /\ rn.read = run[d].read
      /\ rn.errors = run[d].errors /\ rn.status = "completed"
  <2>1. jb \in JobRecord /\ jb.at = "away" /\ jb.todo = {} /\ job' = [job EXCEPT ![d] = jb]
    BY <1>1, AtWork DEF CompleteAuditRun, Step, JobRecord, JobSteps
  <2>2. /\ rn \in RunRecord /\ rn.read = run[d].read /\ rn.errors = run[d].errors
        /\ rn.status = "completed"
    BY AtWork DEF RunRecord
  <2>3. run' = [run EXCEPT ![d] = rn]
    BY AtWork DEF CompleteAuditRun
  <2>4. QED
    BY <2>1, <2>2, <2>3
<1>3. Grows({}) /\ Len(charge) <= Len(charge') /\ UNCHANGED <<stay, folio, req, started, raced>>
  BY <1>1, AtWork
<1>4. QED
  <2> HIDE DEF jb, rn
  <2> QED
    BY <1>1, <1>2, <1>3, Ending

LEMMA FailInv ==
  ASSUME IInv, NEW d \in Dates, FailAuditRun(d)
  PROVE  IInv'
<1> DEFINE jb == [job[d] EXCEPT !.at = "away"]
           rn == [run[d] EXCEPT !.status = "failed", !.errors = {}]
<1>1. /\ job[d].at \in {"read", "complete", "tariff"} /\ job[d].todo = {}
      /\ UNCHANGED <<stay, folio, charge, req, started, raced>>
  BY AtWork DEF FailAuditRun, BooksOK, JobOK
<1>2. /\ jb \in JobRecord /\ jb.at = "away" /\ jb.todo = {} /\ job' = [job EXCEPT ![d] = jb]
      /\ run' = [run EXCEPT ![d] = rn] /\ rn \in RunRecord /\ rn.read = run[d].read
      /\ rn.status = "failed"
  BY <1>1, AtWork DEF FailAuditRun, Step, JobRecord, JobSteps, RunRecord
<1>3. Grows({}) /\ Len(charge) <= Len(charge') /\ UNCHANGED <<stay, folio, req, started, raced>>
  BY <1>1, AtWork
<1>4. QED
  <2> HIDE DEF jb, rn
  <2> QED
    BY <1>1, <1>2, <1>3, Ending

LEMMA StopInv ==
  ASSUME IInv, NEW d \in Dates, Stop(d)
  PROVE  IInv'
<1> DEFINE jb == [Away EXCEPT !.at = "stopped"]
<1>1. /\ jb \in JobRecord /\ jb.at = "stopped" /\ jb.todo = {} /\ job' = [job EXCEPT ![d] = jb]
      /\ run' = [run EXCEPT ![d] = run[d]] /\ run[d] \in RunRecord
  BY AtWork DEF Stop, Away, JobRecord, JobSteps
<1>2. Grows({}) /\ Len(charge) <= Len(charge') /\ UNCHANGED <<stay, folio, req, started, raced>>
  BY AtWork DEF Stop
<1>3. job[d].at # "away" /\ run[d].status = "running"
  BY AtWork DEF Stop, BooksOK, JobOK
<1>4. QED
  <2> HIDE DEF jb
  <2> QED
    BY <1>1, <1>2, <1>3, Ending

-----------------------------------------------------------------------------
(* The steps of the desk.                                                  *)

LEMMA DeskStep ==
  ASSUME IInv, NEW S, Grows(S), \A e \in Dates : Aside(e, S), UNCHANGED <<run, job>>,
         stay' \in [Reservations -> {"expected", "in_house", "departed"}],
         folio' \in [Reservations -> {"none", "open", "settled"}],
         started' \in 0..MaxStarts, raced' \subseteq DOMAIN charge',
         req' \in [Requests -> Request(Len(charge'))],
         RowsOK', DeskOK', PairsOK', UniqueOK'
  PROVE  IInv'
<1> USE DEF IInv
<1>1. \A e \in Dates : BooksOK(e)'
  BY AsideKeepsBooks DEF Typed
<1>2. charge' \in Seq(ChargeRow(Len(charge'))) /\ DOMAIN charge' = 1..Len(charge')
  BY LenProperties DEF Grows
<1>3. \A q \in Requests : req'[q].at \in ReversalAwaits
        => {req'[q].row} \cup req'[q].todo \subseteq DOMAIN charge'
  BY <1>2 DEF Request, PostRequest, ReversalRequest, Idle, ReversalAwaits
<1>4. TypeOK'
  BY <1>2, <1>3 DEF Typed, TypeOK, ChargeRow
<1>5. QED
  BY <1>1, <1>4 DEF Typed

LEMMA NothingPosted ==
  ASSUME TypeOK, UNCHANGED charge
  PROVE  Grows({}) /\ Len(charge') = Len(charge) /\ DOMAIN charge' = DOMAIN charge
         /\ \A e \in Dates : Aside(e, {})
BY Kept DEF Aside

\* Guests come and go.
LEMMA GuestsInv ==
  ASSUME IInv, NEW r \in Reservations,
         CheckIn(r) \/ OpenFolio(r) \/ SettleFolio(r) \/ CheckOut(r)
  PROVE  IInv'
<1>1. /\ Typed /\ TypeOK /\ RowsOK /\ DeskOK /\ PairsOK /\ UniqueOK
      /\ UNCHANGED <<charge, run, job, req, started, raced>>
  BY DEF IInv, Typed, CheckIn, OpenFolio, SettleFolio, CheckOut
<1>2. /\ stay' \in [Reservations -> {"expected", "in_house", "departed"}]
      /\ folio' \in [Reservations -> {"none", "open", "settled"}]
  <2>1. CASE CheckIn(r) \/ CheckOut(r)
    BY <1>1, <2>1 DEF TypeOK, CheckIn, CheckOut
  <2>2. CASE OpenFolio(r) \/ SettleFolio(r)
    BY <1>1, <2>2 DEF TypeOK, OpenFolio, SettleFolio
  <2>3. QED
    BY <2>1, <2>2
<1>3. Len(charge) <= Len(charge') /\ req' \in [Requests -> Request(Len(charge))]
  BY <1>1, Rows DEF Typed
<1>4. RowsOK' /\ DeskOK' /\ PairsOK' /\ UniqueOK' /\ req' \in [Requests -> Request(Len(charge'))]
  BY <1>1, <1>3, NothingPosted, AddingKeepsDesk
<1>5. started' \in 0..MaxStarts /\ raced' \subseteq DOMAIN charge'
  BY <1>1 DEF TypeOK
<1>6. QED
  BY <1>1, <1>2, <1>4, <1>5, NothingPosted, DeskStep

\* A handler steps to y, and may notice that others are about.
LEMMA Turning ==
  ASSUME IInv, NEW q \in Requests, NEW y \in Request(Len(charge)),
         req' = [req EXCEPT ![q] = y], UNCHANGED <<stay, folio, charge, run, job>>,
         raced \subseteq raced', raced' \subseteq DOMAIN charge, started' \in 0..MaxStarts,
         Reverses(y) =>
           /\ ReverserOK(y)' /\ FirstOK(y)'
           /\ \A p \in Requests \ {q} : Reverses(req[p]) =>
                /\ Clash(req[p], y) => y.row \in raced'
                /\ Clash(y, req[p]) => req[p].row \in raced'
  PROVE  IInv'
<1> USE DEF IInv
<1>1. TypeOK /\ req'[q] = y /\ \A p \in Requests \ {q} : req'[p] = req[p]
  BY DEF Typed
<1>2. req' \in [Requests -> Request(Len(charge))]
  BY DEF Typed
<1>3. \A c : Reversals(c)' = Reversals(c)
  BY DEF Reversals
<1>4. RowsOK'
  BY DEF RowsOK
<1>5. DeskOK'
  <2> SUFFICES ASSUME NEW p \in Requests, Reverses(req'[p])
               PROVE  ReverserOK(req[p])' /\ FirstOK(req[p])'
    BY DEF DeskOK, Reverses
  <2>1. CASE p = q
    BY <1>1, <2>1 DEF ReverserOK, FirstOK
  <2>2. CASE p # q
    <3> PICK x : x = req[p] /\ x = req'[p] /\ Reverses(x)
      BY <1>1, <2>2
    <3>1. ReverserOK(x) /\ FirstOK(x)
      BY DEF DeskOK
    <3>2. ReverserOK(x)'
      BY <3>1 DEF ReverserOK
    <3>3. FirstOK(x)'
      BY <1>3, <3>1 DEF FirstOK
    <3>4. QED
      BY <3>2, <3>3
  <2>3. QED
    BY <2>1, <2>2
<1>6. PairsOK'
  <2> SUFFICES ASSUME NEW p \in Requests, NEW o \in Requests, p # o,
                      Reverses(req'[p]), Reverses(req'[o]), Clash(req'[p], req'[o])
               PROVE  req'[o].row \in raced'
    BY DEF PairsOK, Clash, Reverses
  <2>1. CASE p = q
    BY <1>1, <2>1
  <2>2. CASE o = q
    BY <1>1, <2>2
  <2>3. CASE p # q /\ o # q
    BY <1>1, <2>3 DEF PairsOK
  <2>4. QED
    BY <2>1, <2>2, <2>3
<1>7. UniqueOK'
  BY <1>3 DEF UniqueOK
<1>8. QED
  BY <1>1, <1>2, <1>4, <1>5, <1>6, <1>7, NothingPosted, DeskStep DEF Typed, TypeOK

\* A reversal begins.
LEMMA Begins ==
  ASSUME IInv, NEW q \in Requests, NEW c \in DOMAIN charge, Reversible(c),
         NEW at \in {"check", "reverseOnly"}, Start(q, Reversing(at, c)),
         \/ raced' = raced \cup Family(c)
         \/ raced' = raced /\ ~Contested(c) /\ at = "check",
         UNCHANGED <<stay, folio, charge, run, job>>
  PROVE  IInv'
<1> PICK y : y = Reversing(at, c)
  OBVIOUS
<1> USE DEF IInv
<1>1. /\ Typed /\ TypeOK /\ DOMAIN charge = 1..Len(charge) /\ Len(charge) \in Nat
      /\ charge[c] \in ChargeRow(Len(charge)) /\ c # NoRow
  BY Rows DEF Typed, NoRow
<1>2. y.at = at /\ y.row = c /\ y.todo = {} /\ Reverses(y)
  BY DEF Reversing, Reverses, ReversalAwaits
<1>3. y \in Request(Len(charge))
  BY <1>1 DEF Reversing, Request, ReversalRequest, ReversalAwaits, NoRow
<1>4. c \in Family(c) /\ Family(c) \subseteq DOMAIN charge
  BY <1>1 DEF Family, TaxesOf, ChargeRow, NoRow
<1>5. /\ raced \subseteq raced' /\ raced' \subseteq DOMAIN charge /\ started' \in 0..MaxStarts
      /\ req' = [req EXCEPT ![q] = y]
  BY <1>1, <1>4, NightAuditAssumption DEF Start, TypeOK
<1>6. ReverserOK(y)' /\ FirstOK(y)'
  BY <1>2, <1>4 DEF ReverserOK, FirstOK, Reversible
<1>7. ASSUME NEW p \in Requests \ {q}, Reverses(req[p]), req[p].row \in Family(c)
      PROVE  raced' = raced \cup Family(c)
  BY <1>7 DEF Contested, Reverses
<1>8. ASSUME NEW p \in Requests \ {q}, Reverses(req[p]), Clash(req[p], y)
      PROVE  c \in raced'
  <2>1. /\ req[p].row \in DOMAIN charge /\ ReverserOK(req[p])
        /\ req[p].row = c \/ charge[req[p].row].parent = c
    BY <1>1, <1>2, <1>8, Reversers DEF Clash, DeskOK
  <2>2. CASE req[p].row = c
    BY <1>4, <1>7, <1>8, <2>2
  <2>3. CASE charge[req[p].row].parent = c
    <3>1. req[p].row \in TaxesOf(c)
      BY <1>1, <2>1, <2>3 DEF TaxesOf, RowsOK, ReverserOK
    <3>2. req[p].row \in Family(c)
      BY <1>1, <2>1, <3>1 DEF Family, NoRow
    <3>3. QED
      BY <1>4, <1>7, <1>8, <3>2
  <2>4. QED
    BY <2>1, <2>2, <2>3
<1>9. ASSUME NEW p \in Requests \ {q}, Reverses(req[p]), Clash(y, req[p])
      PROVE  req[p].row \in raced'
  <2>1. req[p].row \in DOMAIN charge /\ (c = req[p].row \/ charge[c].parent = req[p].row)
    BY <1>1, <1>2, <1>9, Reversers DEF Clash
  <2>2. req[p].row \in Family(c)
    BY <1>1, <2>1 DEF Family, NoRow
  <2>3. QED
    BY <1>7, <1>9, <2>2
<1>10. QED
  BY <1>2, <1>3, <1>5, <1>6, <1>8, <1>9, Turning

LEMMA ReverseChargeInv ==
  ASSUME IInv, NEW q \in Requests, NEW c \in DOMAIN charge, ReverseCharge(q, c)
  PROVE  IInv'
BY Begins DEF ReverseCharge

LEMMA PostReversalInv ==
  ASSUME IInv, NEW q \in Requests, NEW c \in DOMAIN charge, PostReversal(q, c)
  PROVE  IInv'
BY Begins DEF PostReversal

LEMMA PostChargeInv ==
  ASSUME IInv, NEW q \in Requests, NEW r \in Reservations, NEW d \in Dates, PostCharge(q, r, d)
  PROVE  IInv'
<1> PICK y : y = [at |-> "post", res |-> r, date |-> d]
  OBVIOUS
<1>1. y \in Request(Len(charge)) /\ ~Reverses(y)
  BY DEF Request, PostRequest, Reverses, ReversalAwaits
<1>2. /\ req' = [req EXCEPT ![q] = y] /\ started' \in 0..MaxStarts
      /\ raced' = raced /\ raced \subseteq DOMAIN charge
  BY NightAuditAssumption DEF PostCharge, Start, IInv, Typed, TypeOK
<1>3. QED
  BY <1>1, <1>2, Turning DEF PostCharge

\* A handler returns, or is cut short.
LEMMA EndInv ==
  ASSUME IInv, NEW q \in Requests, End(q), UNCHANGED <<stay, folio, charge, run, job, started, raced>>
  PROVE  IInv'
<1>1. Idle \in Request(Len(charge)) /\ ~Reverses(Idle)
  BY DEF Request, Reverses, Idle, ReversalAwaits
<1>2. started' \in 0..MaxStarts /\ raced' = raced /\ raced \subseteq DOMAIN charge
  BY DEF IInv, Typed, TypeOK
<1>3. QED
  BY <1>1, <1>2, Turning DEF End

\* A handler goes on with the row it reverses.
LEMMA GoesOn ==
  ASSUME IInv, NEW q \in Requests, Reverses(req[q]),
         NEW y \in ReversalRequest(Len(charge)), y.row = req[q].row, ReverserOK(y), FirstOK(y),
         req' = [req EXCEPT ![q] = y],
         UNCHANGED <<stay, folio, charge, run, job, started, raced>>
  PROVE  IInv'
<1>1. y \in Request(Len(charge))
  BY DEF Request
<1>2. started' \in 0..MaxStarts /\ raced' = raced /\ raced \subseteq DOMAIN charge
  BY DEF IInv, Typed, TypeOK
<1>3. ReverserOK(y)' /\ FirstOK(y)'
  BY DEF ReverserOK, FirstOK, Reversals
<1>4. ASSUME NEW p \in Requests \ {q}, Reverses(req[p])
      PROVE  /\ Clash(req[p], y) => y.row \in raced'
             /\ Clash(y, req[p]) => req[p].row \in raced'
  BY <1>4 DEF IInv, PairsOK, Clash
<1>5. QED
  BY <1>1, <1>2, <1>3, <1>4, Turning

LEMMA CheckReversedInv ==
  ASSUME IInv, NEW q \in Requests, CheckReversed(q)
  PROVE  IInv'
<1>1. CASE ~Unreversed(req[q].row)
  BY <1>1, EndInv DEF CheckReversed
<1>2. CASE Unreversed(req[q].row)
  <2> PICK x : x = req[q]
    OBVIOUS
  <2> PICK y : y = [x EXCEPT !.at = "reverse"]
    OBVIOUS
  <2>1. x.at = "check" /\ Reverses(x) /\ req' = [req EXCEPT ![q] = y]
    BY <1>2 DEF CheckReversed, Reverses, ReversalAwaits
  <2>2. x \in ReversalRequest(Len(charge)) /\ ReverserOK(x)
    BY <2>1, Reversers DEF IInv, DeskOK
  <2>3. /\ y \in ReversalRequest(Len(charge)) /\ y.at = "reverse" /\ y.row = x.row
        /\ y.todo = x.todo
    BY <2>2 DEF ReversalRequest, ReversalAwaits
  <2>4. ReverserOK(y) /\ FirstOK(y)
    BY <1>2, <2>2, <2>3 DEF ReverserOK, FirstOK, Unreversed
  <2>5. QED
    BY <2>1, <2>3, <2>4, GoesOn DEF CheckReversed
<1>3. QED
  BY <1>1, <1>2

LEMMA CascadeInv ==
  ASSUME IInv, NEW q \in Requests, Cascade(q)
  PROVE  IInv'
<1> PICK x : x = req[q]
  OBVIOUS
<1> PICK y : y = [x EXCEPT !.at = "taxes", !.todo = TaxesOf(x.row)]
  OBVIOUS
<1>1. x.at = "cascade" /\ Reverses(x) /\ req' = [req EXCEPT ![q] = y]
  BY DEF Cascade, Reverses, ReversalAwaits
<1>2. x \in ReversalRequest(Len(charge)) /\ ReverserOK(x)
  BY <1>1, Reversers DEF IInv, DeskOK
<1>3. TaxesOf(x.row) \subseteq 1..Len(charge)
  BY Rows DEF TaxesOf, IInv, Typed
<1>4. /\ y \in ReversalRequest(Len(charge)) /\ y.at = "taxes" /\ y.row = x.row
      /\ y.todo = TaxesOf(x.row)
  BY <1>2, <1>3 DEF ReversalRequest, ReversalAwaits
<1>5. ReverserOK(y) /\ FirstOK(y)
  BY <1>2, <1>4 DEF ReverserOK, FirstOK, TaxesOf
<1>6. QED
  BY <1>1, <1>4, <1>5, GoesOn DEF Cascade

LEMMA NextTaxInv ==
  ASSUME IInv, NEW q \in Requests, NextTax(q)
  PROVE  IInv'
<1>1. CASE req[q].todo = {} /\ End(q)
  BY <1>1, EndInv DEF NextTax
<1>2. ASSUME NEW t \in req[q].todo,
             req' = [req EXCEPT ![q].todo = @ \ {t}, ![q].tax = t,
                                ![q].at = IF Unreversed(t) THEN "tax" ELSE "taxes"]
      PROVE  IInv'
  <2> PICK x : x = req[q]
    OBVIOUS
  <2> PICK y : y = [x EXCEPT !.todo = @ \ {t}, !.tax = t,
                             !.at = IF Unreversed(t) THEN "tax" ELSE "taxes"]
    OBVIOUS
  <2>1. x.at = "taxes" /\ Reverses(x) /\ t \in x.todo
    BY DEF NextTax, Reverses, ReversalAwaits
  <2>2. /\ x \in ReversalRequest(Len(charge)) /\ ReverserOK(x) /\ t \in DOMAIN charge
        /\ t \in 1..Len(charge) /\ t \in 0..Len(charge)
    BY <2>1, Reversers, Rows DEF IInv, DeskOK, Typed
  <2>3. req' = [req EXCEPT ![q] = y]
    BY <1>2 DEF IInv, Typed
  <2>4. /\ y \in ReversalRequest(Len(charge)) /\ y.row = x.row /\ y.todo = x.todo \ {t} /\ y.tax = t
        /\ y.at = IF Unreversed(t) THEN "tax" ELSE "taxes"
    BY <2>2 DEF ReversalRequest, ReversalAwaits
  <2>5. ReverserOK(y) /\ FirstOK(y)
    BY <2>1, <2>2, <2>4 DEF ReverserOK, FirstOK, Unreversed
  <2>6. QED
    BY <2>1, <2>3, <2>4, <2>5, GoesOn DEF NextTax
<1>3. QED
  BY <1>1, <1>2 DEF NextTax

LEMMA InsertChargeInv ==
  ASSUME IInv, NEW q \in Requests, InsertCharge(q)
  PROVE  IInv'
<1> PICK r, d : r = req[q].res /\ d = req[q].date
  OBVIOUS
<1> PICK row : row = [Row(r, "room", d, "desk") EXCEPT !.late = job[d].at = "post" /\ job[d].res = r]
  OBVIOUS
<1> PICK S : S = {NewRow}
  OBVIOUS
<1>1. /\ Typed /\ TypeOK /\ RowsOK /\ DeskOK /\ PairsOK /\ UniqueOK
      /\ End(q) /\ UNCHANGED <<stay, folio, run, job, started, raced>> /\ Insert(row)
  BY DEF IInv, Typed, InsertCharge
<1>2. r \in Reservations /\ d \in Dates
  <2>1. req[q] \in Request(Len(charge)) /\ req[q].at = "post"
    BY <1>1 DEF Typed, InsertCharge
  <2>2. QED
    BY <2>1 DEF Request, PostRequest, ReversalRequest, ReversalAwaits, Idle
<1>3. row \in ChargeRow(Len(charge))
  <2>1. Row(r, "room", d, "desk") \in ChargeRow(Len(charge))
    BY <1>1, <1>2, Rows DEF Row, ChargeRow, NoRow
  <2>2. (job[d].at = "post" /\ job[d].res = r) \in BOOLEAN
    OBVIOUS
  <2>3. QED
    BY <2>1, <2>2 DEF ChargeRow
<1>4. /\ row.reverses = NoRow /\ row.parent = NoRow /\ row.by = "desk" /\ row.date = d
      /\ row.res = r /\ (row.late <=> job[d].at = "post" /\ job[d].res = r)
  BY DEF Row
<1>5. Grows(S) /\ (\A c \in S : charge'[c] = row) /\ Len(charge') = NewRow
  BY <1>1, <1>3, Inserted
<1>6. Len(charge) <= Len(charge')
  BY <1>1, <1>5, Rows DEF NewRow
<1>7. /\ req' \in [Requests -> Request(Len(charge))]
      /\ \A p \in Requests : Reverses(req'[p]) => req'[p] = req[p]
  BY <1>1 DEF Typed, End, Request, Reverses, Idle, ReversalAwaits
<1>8. RowsOK' /\ DeskOK' /\ PairsOK' /\ UniqueOK' /\ req' \in [Requests -> Request(Len(charge'))]
  BY <1>1, <1>4, <1>5, <1>6, <1>7, AddingKeepsDesk
<1>9. \A e \in Dates : Aside(e, S)
  <2>1. ASSUME NEW e \in Dates, NEW c \in S, charge'[c].date = e
        PROVE  /\ charge'[c].by # "audit"
               /\ job[e].at = "post" /\ job[e].res = charge'[c].res => charge'[c].late
    <3>1. charge'[c] = row
      BY <1>5
    <3>2. e = d
      BY <1>4, <2>1, <3>1
    <3>3. QED
      BY <1>4, <3>1, <3>2
  <2>2. QED
    BY <2>1 DEF Aside
<1>10. /\ stay' \in [Reservations -> {"expected", "in_house", "departed"}]
       /\ folio' \in [Reservations -> {"none", "open", "settled"}]
       /\ started' \in 0..MaxStarts /\ raced' \subseteq DOMAIN charge'
  BY <1>1, <1>5 DEF TypeOK, Grows
<1>11. QED
  BY <1>1, <1>5, <1>8, <1>9, <1>10, DeskStep

\* A handler writes the reversal of row c: its own row, or a tax of it.
LEMMA Reversal ==
  ASSUME IInv, NEW q \in Requests, Reverses(req[q]), NEW c,
         \/ req[q].at \in {"reverse", "reverseOnly"} /\ c = req[q].row
         \/ req[q].at = "tax" /\ c = req[q].tax,
         NEW row \in ChargeRow(Len(charge)), row.reverses = c,
         row.parent # NoRow => row.type = "tax", Insert(row),
         NEW y \in Request(NewRow), req' = [req EXCEPT ![q] = y],
         Reverses(y) => /\ y.at \in {"cascade", "taxes"} /\ y.row = req[q].row
                        /\ y.todo = req[q].todo,
         UNCHANGED <<stay, folio, run, job, started, raced>>
  PROVE  IInv'
<1> PICK x : x = req[q]
  OBVIOUS
<1> USE DEF IInv
<1>1. /\ Typed /\ TypeOK /\ Reverses(x) /\ ReverserOK(x) /\ FirstOK(x)
      /\ x.row \in DOMAIN charge /\ x.todo \subseteq DOMAIN charge
      /\ DOMAIN charge = 1..Len(charge) /\ Len(charge) \in Nat
  BY Reversers, Rows DEF Typed, DeskOK
<1>2. c \in DOMAIN charge /\ c # NoRow
  BY <1>1 DEF ReverserOK, NoRow
<1>3. Grows({NewRow}) /\ charge'[NewRow] = row /\ Len(charge') = NewRow
  BY <1>1, Inserted
<1>4. /\ \A e \in DOMAIN charge : SameRow(e) /\ e \in DOMAIN charge' /\ e # NewRow
      /\ \A e \in DOMAIN charge' : e \in DOMAIN charge \/ e = NewRow
  BY <1>3 DEF Grows
<1>5. \A e : e # c => Reversals(e)' = Reversals(e)
  <2>1. \A e : Reversals(e)' = Reversals(e) \cup {z \in {NewRow} : charge'[z].reverses = e}
    BY <1>1, <1>3, Joined
  <2>2. ASSUME NEW e, e # c PROVE {z \in {NewRow} : charge'[z].reverses = e} = {}
    BY <1>3, <2>2
  <2>3. QED
    BY <2>1, <2>2
<1>6. Reversals(c)' = Reversals(c) \cup {NewRow}
  <2>1. Reversals(c)' = Reversals(c) \cup {z \in {NewRow} : charge'[z].reverses = c}
    BY <1>1, <1>3, Joined
  <2>2. QED
    BY <1>3, <2>1
<1>7. /\ req' \in [Requests -> Request(Len(charge'))]
      /\ req'[q] = y /\ \A p \in Requests \ {q} : req'[p] = req[p]
  <2>1. Request(Len(charge)) \subseteq Request(Len(charge'))
    BY <1>1, <1>3, Widening DEF NewRow
  <2>2. QED
    BY <1>3, <2>1 DEF Typed
<1>8. RowsOK'
  BY <1>3, <1>4 DEF RowsOK, SameRow
<1>9. ASSUME NEW p \in Requests \ {q}, Reverses(req[p])
      PROVE  ReverserOK(req[p])' /\ FirstOK(req[p])'
  <2> PICK z : z = req[p] /\ z = req'[p]
    BY <1>7
  <2>1. /\ z.row \in DOMAIN charge /\ z.todo \subseteq DOMAIN charge /\ ReverserOK(z) /\ FirstOK(z)
    BY <1>1, <1>9, Reversers DEF DeskOK
  <2>2. ReverserOK(z)'
    BY <1>4, <2>1 DEF ReverserOK, SameRow
  <2>3. charge'[z.row].parent = charge[z.row].parent
    BY <1>4, <2>1 DEF SameRow
  <2>4. /\ x.row = z.row => z.row \in raced
        /\ charge[x.row].parent = z.row => z.row \in raced
        /\ charge[z.row].parent = x.row => x.row \in raced
    BY <1>1, <1>9 DEF PairsOK, Clash
  <2>5. ASSUME z.at = "reverse", {z.row, charge[z.row].parent} \cap raced = {}
        PROVE  z.row # c
    <3>1. CASE c = x.row
      BY <2>4, <2>5, <3>1
    <3>2. CASE c = x.tax /\ x.at = "tax"
      BY <1>1, <2>4, <2>5, <3>2 DEF ReverserOK
    <3>3. QED
      BY <3>1, <3>2
  <2>6. ASSUME z.at = "tax", {z.tax, z.row} \cap raced = {}
        PROVE  z.tax # c
    <3>0. charge[z.tax].parent = z.row
      BY <2>1, <2>6 DEF ReverserOK
    <3>1. CASE c = x.row
      BY <2>4, <2>6, <3>0, <3>1
    <3>2. CASE c = x.tax /\ x.at = "tax"
      BY <1>1, <2>4, <2>6, <3>0, <3>2 DEF ReverserOK
    <3>3. QED
      BY <3>1, <3>2
  <2>7. FirstOK(z)'
    BY <1>5, <2>1, <2>3, <2>5, <2>6 DEF FirstOK
  <2>8. QED
    BY <2>2, <2>7
<1>10. Reverses(y) => ReverserOK(y)' /\ FirstOK(y)'
  <2> HAVE Reverses(y)
  <2>1. y.at \in {"cascade", "taxes"} /\ y.row = x.row /\ y.todo = x.todo
    OBVIOUS
  <2>2. ReverserOK(y)'
    BY <1>1, <1>4, <2>1 DEF ReverserOK, SameRow
  <2>3. QED
    BY <2>1, <2>2 DEF FirstOK
<1>11. DeskOK'
  <2> SUFFICES ASSUME NEW p \in Requests, Reverses(req'[p])
               PROVE  ReverserOK(req[p])' /\ FirstOK(req[p])'
    BY DEF DeskOK, Reverses
  <2>1. CASE p = q
    BY <1>7, <1>10, <2>1 DEF ReverserOK, FirstOK
  <2>2. CASE p # q
    BY <1>7, <1>9, <2>2
  <2>3. QED
    BY <2>1, <2>2
<1>12. PairsOK'
  <2> SUFFICES ASSUME NEW p \in Requests, NEW o \in Requests, p # o,
                      Reverses(req'[p]), Reverses(req'[o]), Clash(req[p], req[o])'
               PROVE  req'[o].row \in raced
    BY DEF PairsOK, Reverses
  <2>1. \A a \in Requests : Reverses(req'[a]) =>
          Reverses(req[a]) /\ req'[a].row = req[a].row /\ req[a].row \in DOMAIN charge
    BY <1>1, <1>7, Reversers
  <2>2. Clash(req[p], req[o])
    BY <1>4, <2>1 DEF Clash, SameRow
  <2>3. QED
    BY <2>1, <2>2 DEF PairsOK
<1>13. UniqueOK'
  <2> SUFFICES ASSUME NEW e \in DOMAIN charge', {e, charge'[e].parent} \cap raced = {}
               PROVE  \A a, b \in Reversals(e)' : a = b
    BY DEF UniqueOK
  <2>1. CASE e = NewRow
    <3>1. e # c /\ e \notin DOMAIN charge /\ e # NoRow
      BY <1>1, <1>2, <1>4, <2>1 DEF NewRow, NoRow
    <3>2. QED
      BY <1>1, <1>5, <3>1, NewRowsAreUnreversed
  <2>2. CASE e \in DOMAIN charge /\ e # c
    BY <1>4, <1>5, <2>2 DEF UniqueOK, SameRow
  <2>3. CASE e = c
    <3>1. charge'[c].parent = charge[c].parent
      BY <1>2, <1>4 DEF SameRow
    <3>2. Reversals(c) = {}
      BY <1>1, <2>3, <3>1 DEF FirstOK, ReverserOK
    <3>3. QED
      BY <1>6, <2>3, <3>2
  <2>4. QED
    BY <1>4, <2>1, <2>2, <2>3
<1>14. \A d \in Dates : Aside(d, {NewRow})
  BY <1>2, <1>3 DEF Aside
<1>15. /\ stay' \in [Reservations -> {"expected", "in_house", "departed"}]
       /\ folio' \in [Reservations -> {"none", "open", "settled"}]
       /\ started' \in 0..MaxStarts /\ raced' \subseteq DOMAIN charge'
  BY <1>1, <1>4 DEF TypeOK
<1>16. QED
  <2> PICK S : S = {NewRow}
    OBVIOUS
  <2>1. Grows(S) /\ \A d \in Dates : Aside(d, S)
    BY <1>3, <1>14
  <2>2. QED
    BY <1>7, <1>8, <1>11, <1>12, <1>13, <1>15, <2>1, DeskStep

LEMMA InsertReversalInv ==
  ASSUME IInv, NEW q \in Requests, InsertReversal(q)
  PROVE  IInv'
<1> PICK x : x = req[q]
  OBVIOUS
<1> PICK c : c = x.row
  OBVIOUS
<1> PICK row : row = [Row(charge[c].res, charge[c].type, charge[c].date, "desk") EXCEPT !.reverses = c]
  OBVIOUS
<1>1. /\ x.at \in {"reverse", "reverseOnly"} /\ Reverses(x) /\ Insert(row)
      /\ UNCHANGED <<stay, folio, run, job, started, raced>>
  BY DEF InsertReversal, Reverses, ReversalAwaits
<1>2. /\ x \in ReversalRequest(Len(charge)) /\ c \in DOMAIN charge /\ Typed
      /\ charge[c] \in ChargeRow(Len(charge)) /\ c \in 0..Len(charge) /\ Len(charge) \in Nat
  <2>1. Typed /\ TypeOK
    BY DEF IInv, Typed
  <2>2. x \in ReversalRequest(Len(charge)) /\ c \in DOMAIN charge
    BY <1>1, <2>1, Reversers
  <2>3. QED
    BY <2>1, <2>2, Rows
<1>3. row \in ChargeRow(Len(charge))
  <2>1. Row(charge[c].res, charge[c].type, charge[c].date, "desk") \in ChargeRow(Len(charge))
    BY <1>2 DEF Row, ChargeRow, NoRow
  <2>2. QED
    BY <1>2, <2>1 DEF ChargeRow
<1>4. row.reverses = c /\ row.parent = NoRow
  BY DEF Row
<1>5. CASE x.at = "reverseOnly"
  <2>1. req' = [req EXCEPT ![q] = Idle]
    BY <1>5 DEF InsertReversal, End
  <2>2. Idle \in Request(NewRow) /\ ~Reverses(Idle)
    BY DEF Request, Reverses, Idle, ReversalAwaits
  <2>3. QED
    BY <1>1, <1>3, <1>4, <2>1, <2>2, Reversal
<1>6. CASE x.at = "reverse"
  <2> PICK y : y = [x EXCEPT !.at = "cascade", !.new = NewRow]
    OBVIOUS
  <2>1. req' = [req EXCEPT ![q] = y]
    BY <1>2, <1>6 DEF InsertReversal, Typed
  <2>2. y \in ReversalRequest(NewRow) /\ y.at = "cascade" /\ y.row = x.row /\ y.todo = x.todo
    <3>1. 1..Len(charge) \subseteq 1..NewRow /\ 0..Len(charge) \subseteq 0..NewRow /\ NewRow \in 0..NewRow
      BY <1>2 DEF NewRow
    <3>2. QED
      BY <1>2, <3>1 DEF ReversalRequest, ReversalAwaits
  <2>3. y \in Request(NewRow)
    BY <2>2 DEF Request
  <2>4. QED
    BY <1>1, <1>3, <1>4, <2>1, <2>2, <2>3, Reversal
<1>7. QED
  BY <1>1, <1>5, <1>6

LEMMA ReverseTaxInv ==
  ASSUME IInv, NEW q \in Requests, ReverseTax(q)
  PROVE  IInv'
<1> PICK x : x = req[q]
  OBVIOUS
<1> PICK c : c = x.tax
  OBVIOUS
<1> PICK row : row = [Row(charge[c].res, "tax", charge[c].date, "desk")
                        EXCEPT !.reverses = c, !.parent = x.new]
  OBVIOUS
<1> PICK y : y = [x EXCEPT !.at = "taxes"]
  OBVIOUS
<1>1. /\ x.at = "tax" /\ Reverses(x) /\ Insert(row) /\ req' = [req EXCEPT ![q] = y]
      /\ UNCHANGED <<stay, folio, run, job, started, raced>>
  BY DEF ReverseTax, Reverses, ReversalAwaits
<1>2. /\ x \in ReversalRequest(Len(charge)) /\ Typed /\ Len(charge) \in Nat
      /\ c \in DOMAIN charge /\ charge[c] \in ChargeRow(Len(charge)) /\ c \in 0..Len(charge)
  BY <1>1, Reversers, Rows DEF IInv, Typed, DeskOK, ReverserOK
<1>3. row \in ChargeRow(Len(charge))
  <2>1. Row(charge[c].res, "tax", charge[c].date, "desk") \in ChargeRow(Len(charge))
    BY <1>2 DEF Row, ChargeRow, NoRow
  <2>2. x.new \in 0..Len(charge)
    BY <1>2 DEF ReversalRequest
  <2>3. QED
    BY <1>2, <2>1, <2>2 DEF ChargeRow
<1>4. row.reverses = c /\ row.type = "tax"
  BY DEF Row
<1>5. y \in ReversalRequest(NewRow) /\ y.at = "taxes" /\ y.row = x.row /\ y.todo = x.todo
  <2>1. 1..Len(charge) \subseteq 1..NewRow /\ 0..Len(charge) \subseteq 0..NewRow
    BY <1>2 DEF NewRow
  <2>2. QED
    BY <1>2, <2>1 DEF ReversalRequest, ReversalAwaits
<1>6. y \in Request(NewRow)
  BY <1>5 DEF Request
<1>7. QED
  BY <1>1, <1>3, <1>4, <1>5, <1>6, Reversal

-----------------------------------------------------------------------------
(* The invariant holds.                                                    *)

LEMMA Initially ==
  ASSUME Init
  PROVE  IInv
<1> USE DEF Init
<1>1. /\ charge \in Seq(ChargeRow(0)) /\ Len(charge) = 0 /\ DOMAIN charge = {}
  BY EmptySeq
<1>2. Idle \in Request(Len(charge)) /\ ~Reverses(Idle)
  BY DEF Request, Reverses, Idle, ReversalAwaits
<1>3. Away \in JobRecord /\ NoRun \in RunRecord /\ Away.at = "away" /\ Away.todo = {}
      /\ NoRun.status = "none"
  BY DEF Away, NoRun, JobRecord, JobSteps, RunRecord
<1>4. TypeOK
  <2>1. started \in 0..MaxStarts
    BY NightAuditAssumption
  <2>2. \A q \in Requests : ~(req[q].at \in ReversalAwaits)
    BY <1>2 DEF Reverses
  <2>3. charge \in Seq(ChargeRow(Len(charge)))
    BY <1>1
  <2>4. QED
    BY <1>1, <1>3, <2>1, <2>2, <2>3 DEF TypeOK, ChargeRow, RunRecord
<1>5. Typed
  BY <1>2, <1>3, <1>4 DEF Typed
<1>6. RowsOK /\ DeskOK /\ PairsOK /\ UniqueOK
  BY <1>1, <1>2 DEF RowsOK, DeskOK, PairsOK, UniqueOK
<1>7. \A r, d : RoomCharges(r, d) = {} /\ Posted(r, d) = {}
  BY <1>1 DEF RoomCharges, Posted
<1>8. ASSUME NEW d \in Dates PROVE BooksOK(d)
  <2>1. job[d] = Away /\ run[d] = NoRun
    OBVIOUS
  <2>2. JobOK(d) /\ LateOK(d) /\ ChargedOnce(d) /\ FreshOK(d) /\ TaxingOK(d) /\ AccountsOK(d)
    BY <1>3, <1>7, <2>1 DEF JobOK, LateOK, ChargedOnce, FreshOK, TaxingOK, AccountsOK
  <2>3. QED
    BY <2>2 DEF BooksOK
<1>9. QED
  BY <1>5, <1>6, <1>8 DEF IInv

LEMMA Stuttering ==
  ASSUME IInv, UNCHANGED vars
  PROVE  IInv'
<1> USE DEF IInv
<1>1. /\ Typed /\ TypeOK /\ RowsOK /\ DeskOK /\ PairsOK /\ UniqueOK
      /\ UNCHANGED <<stay, folio, charge, run, job, req, started, raced>>
  BY DEF Typed, vars
<1>2. Len(charge) <= Len(charge') /\ req' \in [Requests -> Request(Len(charge))]
  BY <1>1, Rows DEF Typed
<1>3. RowsOK' /\ DeskOK' /\ PairsOK' /\ UniqueOK' /\ req' \in [Requests -> Request(Len(charge'))]
  BY <1>1, <1>2, NothingPosted, AddingKeepsDesk
<1>4. QED
  BY <1>1, <1>3, NothingPosted, DeskStep DEF TypeOK

LEMMA StepInv ==
  ASSUME IInv, [Next]_vars
  PROVE  IInv'
<1>1. ASSUME NEW d \in Dates, RunAudit(d) \/ Audit(d) \/ Stop(d) PROVE IInv'
  <2>1. CASE RunAudit(d) \/ Stop(d)
    BY <2>1, RunAuditInv, StopInv
  <2>2. CASE ReadInHouse(d) \/ NextTariff(d) \/ LookForCharge(d)
    BY <2>2, ReadInHouseInv, NextTariffInv, LookForChargeInv
  <2>3. CASE PostTariff(d) \/ PostTax(d) \/ LockChargesForDate(d)
    BY <2>3, PostTariffInv, PostTaxInv, LockInv
  <2>4. CASE CompleteAuditRun(d) \/ FailAuditRun(d)
    BY <2>4, CompleteInv, FailInv
  <2>5. QED
    BY <1>1, <2>1, <2>2, <2>3, <2>4 DEF Audit
<1>2. CASE Desk
  <2>1. ASSUME NEW r \in Reservations, CheckIn(r) \/ OpenFolio(r) \/ SettleFolio(r) \/ CheckOut(r)
        PROVE  IInv'
    BY <2>1, GuestsInv
  <2>2. ASSUME NEW q \in Requests, NEW r \in Reservations, NEW d \in Dates, PostCharge(q, r, d)
        PROVE  IInv'
    BY <2>2, PostChargeInv
  <2>3. ASSUME NEW q \in Requests, NEW c \in DOMAIN charge, ReverseCharge(q, c) \/ PostReversal(q, c)
        PROVE  IInv'
    BY <2>3, ReverseChargeInv, PostReversalInv
  <2>4. ASSUME NEW q \in Requests, InsertCharge(q) \/ CheckReversed(q) \/ InsertReversal(q)
        PROVE  IInv'
    BY <2>4, InsertChargeInv, CheckReversedInv, InsertReversalInv
  <2>5. ASSUME NEW q \in Requests, Cascade(q) \/ NextTax(q) \/ ReverseTax(q)
        PROVE  IInv'
    BY <2>5, CascadeInv, NextTaxInv, ReverseTaxInv
  <2>6. ASSUME NEW q \in Requests, Abort(q)
        PROVE  IInv'
    BY <2>6, EndInv DEF Abort
  <2>7. QED
    BY <1>2, <2>1, <2>2, <2>3, <2>4, <2>5, <2>6 DEF Desk
<1>3. CASE UNCHANGED vars
  BY <1>3, Stuttering
<1>4. QED
  BY <1>1, <1>2, <1>3 DEF Next

\* The parts of the invariant hold in every behaviour of the audit and the desk.
THEOREM NightAuditInvariant == Spec => []IInv
<1>1. Init => IInv
  BY Initially
<1>2. IInv /\ [Next]_vars => IInv'
  BY StepInv
<1>3. QED
  BY <1>1, <1>2, PTL DEF Spec

\* Folios, charges, runs, and the processes at work keep their types.
THEOREM NightAuditTypeCorrect == Spec => []TypeOK
<1>1. IInv => TypeOK
  BY DEF IInv, Typed
<1>2. QED
  BY <1>1, NightAuditInvariant, PTL

\* Whatever runs, stops and fails, and whatever the desk posts, a night is charged once.
THEOREM NightsAreChargedOnce == Spec => []NightChargedOnce
<1>1. IInv => NightChargedOnce
  BY DEF IInv, BooksOK, ChargedOnce, NightChargedOnce
<1>2. QED
  BY <1>1, NightAuditInvariant, PTL

\* A completed run accounts for every guest it read.
THEOREM CompletedRunsAccount == Spec => []CompletedRunAccounts
<1>1. ASSUME IInv, NEW d \in Dates, run[d].status = "completed",
             NEW r \in run[d].read \ run[d].errors
      PROVE  Accounted(r, d)
  <2>1. job[d].todo = {}
    <3>1. JobOK(d) /\ job[d] \in JobRecord
      BY <1>1 DEF IInv, Typed, BooksOK
    <3>2. job[d].at = "away"
      BY <1>1, <3>1 DEF JobOK
    <3>3. QED
      BY <3>1, <3>2 DEF JobOK
  <2>2. QED
    BY <1>1, <2>1 DEF IInv, BooksOK, AccountsOK
<1>2. IInv => CompletedRunAccounts
  BY <1>1 DEF CompletedRunAccounts, Accounted
<1>3. QED
  BY <1>2, NightAuditInvariant, PTL

\* No charge is reversed twice, unless two reversals of its family overlapped.
THEOREM ChargesAreReversedOnce == Spec => []ReversedOnce
<1>1. ASSUME NEW S, \A x, y \in S : x = y
      PROVE  Cardinality(S) <= 1
  <2>1. CASE S = {}
    <3>1. Cardinality(S) = 0
      BY <2>1, FS_EmptySet
    <3>2. QED
      BY <3>1
  <2>2. CASE S # {}
    <3>1. PICK t : S = {t}
      BY <1>1, <2>2
    <3>2. Cardinality({t}) = 1
      BY FS_Singleton
    <3>3. QED
      BY <3>1, <3>2
  <2>3. QED
    BY <2>1, <2>2
<1>2. IInv => ReversedOnce
  BY <1>1 DEF IInv, UniqueOK, ReversedOnce
<1>3. QED
  BY <1>2, NightAuditInvariant, PTL
=============================================================================
