---------------------------- MODULE OutboundProofs -----------------------------
(***************************************************************************)
(* Proofs about what the property tells the world outside: webhook         *)
(* deliveries, for any number of deliveries, of overlapping attempts and   *)
(* scans, and of retries and faults; and the pushes to the channels and    *)
(* the rate overrides, for any number of requests, rows and channels.      *)
(***************************************************************************)
EXTENDS WebhookDelivery, ChannelSync, RateParity, FiniteSetTheorems, SequenceTheorems, TLAPS

-----------------------------------------------------------------------------
(* Deliveries: the inductive invariant.                                    *)

\* A row counts no attempt that was not posted, and reaches the end of the
\* schedule, or a success, only when the posts say so.
RowsOK ==
  \A d \in Deliveries :
    /\ attempts[d] <= posts[d]
    /\ status[d] \in {"absent", "matched"} => attempts[d] = 0
    /\ status[d] = "pending" => attempts[d] < MaxAttempts
    /\ status[d] = "failed" /\ active => posts[d] = MaxAttempts
    /\ status[d] = "delivered" => d \in accepted

\* An attempt numbers itself one beyond what the row counted when it was read,
\* so it is never ahead of the posts once it has posted itself.
AttemptsOK ==
  \A w \in Workers :
    /\ run[w].at \in {"subscription", "inactive", "post"} => run[w].number <= posts[run[w].d] + 1
    /\ run[w].at \in {"success", "failure"} => run[w].number <= posts[run[w].d]
    /\ run[w].at = "inactive" => ~active
    /\ run[w].at = "success" => run[w].d \in accepted

IInv == TypeOK /\ RowsOK /\ AttemptsOK

-----------------------------------------------------------------------------
(* Facts about workers.                                                    *)

LEMMA IdleFacts == Idle.d \in Deliveries /\ Idle.at = "idle" /\ Idle.rest = {} /\ Idle.number = 0
BY DeliveryAssumption DEF Idle

LEMMA WorkerFacts ==
  ASSUME TypeOK, NEW w \in Workers
  PROVE  /\ run[w].d \in Deliveries /\ run[w].rest \subseteq Deliveries
         /\ run[w].number \in 0..MaxAttempts
         /\ run[w].at \in Steps => run[w] \in Attempt
BY IdleFacts, DeliveryAssumption DEF TypeOK, Attempt, Steps

\* What is left of the other workers when one of them moves.
Others(w) == \A v \in Workers : v # w => run'[v] = run[v]

LEMMA Resumed ==
  ASSUME TypeOK, NEW w \in Workers, run[w].at \in Steps, NEW at \in Steps, Resume(w, at)
  PROVE  /\ run' \in [Workers -> Attempt \cup {Idle}]
         /\ run'[w].at = at /\ run'[w].d = run[w].d /\ run'[w].number = run[w].number
         /\ Others(w)
<1>1. run[w] \in Attempt
  BY WorkerFacts
<1>2. [run[w] EXCEPT !.at = at] \in Attempt
  BY <1>1 DEF Attempt
<1>3. QED
  BY <1>1, <1>2 DEF Resume, Others, TypeOK, Attempt

LEMMA Returned ==
  ASSUME TypeOK, NEW w \in Workers, Return(w)
  PROVE  /\ run' \in [Workers -> Attempt \cup {Idle}]
         /\ run'[w].at \in {"idle", "load"}
         /\ Others(w)
<1>1. CASE run' = [run EXCEPT ![w] = Idle]
  BY <1>1, IdleFacts DEF TypeOK, Others
<1>2. ASSUME NEW d \in run[w].rest,
             run' = [run EXCEPT ![w] = [at |-> "load", d |-> d, rest |-> @.rest \ {d}, number |-> 0]]
      PROVE  /\ run' \in [Workers -> Attempt \cup {Idle}]
             /\ run'[w].at = "load"
             /\ Others(w)
  <2>1. d \in Deliveries /\ run[w].rest \ {d} \subseteq Deliveries
    BY WorkerFacts
  <2>2. [at |-> "load", d |-> d, rest |-> run[w].rest \ {d}, number |-> 0] \in Attempt
    BY <2>1, DeliveryAssumption DEF Attempt, Steps
  <2>3. QED
    BY <1>2, <2>2 DEF TypeOK, Others
<1>3. QED
  BY <1>1, <1>2 DEF Return

\* A worker that starts, or moves to its next row, and writes nothing.
LEMMA QuietMove ==
  ASSUME IInv, NEW w \in Workers, Others(w),
         run' \in [Workers -> Attempt \cup {Idle}],
         run'[w].at \in {"idle", "load"},
         UNCHANGED <<row, active, posts, accepted>>, faults' \in 0..MaxFaults
  PROVE  IInv'
<1>1. TypeOK'
  BY DEF IInv, TypeOK, row
<1>2. RowsOK'
  BY DEF IInv, RowsOK, row
<1>3. AttemptsOK'
  BY DEF IInv, AttemptsOK, Others
<1>4. QED
  BY <1>1, <1>2, <1>3 DEF IInv

-----------------------------------------------------------------------------
LEMMA InvInit == Init => IInv
<1> SUFFICES ASSUME Init PROVE IInv
  OBVIOUS
<1>1. TypeOK
  BY DeliveryAssumption DEF Init, TypeOK, DeliveryStatus, NextRetry
<1>2. RowsOK
  <2>1. ASSUME NEW d \in Deliveries
        PROVE  /\ attempts[d] = 0 /\ attempts[d] <= posts[d]
               /\ status[d] \notin {"pending", "failed", "delivered"}
    BY <2>1 DEF Init
  <2>2. QED
    BY <2>1 DEF RowsOK
<1>3. AttemptsOK
  BY IdleFacts DEF Init, AttemptsOK
<1>4. QED
  BY <1>1, <1>2, <1>3 DEF IInv

\* The steps outside the attempts.
LEMMA OutsideStep ==
  ASSUME IInv, NEW d \in Deliveries,
         HandleEvent(d) \/ Elapse(d) \/ DeleteSubscription \/ Restart
  PROVE  IInv'
<1> USE DeliveryAssumption DEF IInv, DeliveryStatus, NextRetry, row
<1>1. CASE HandleEvent(d)
  BY <1>1 DEF HandleEvent, TypeOK, RowsOK, AttemptsOK
<1>2. CASE Elapse(d)
  BY <1>2 DEF Elapse, TypeOK, RowsOK, AttemptsOK
<1>3. CASE DeleteSubscription
  BY <1>3 DEF DeleteSubscription, TypeOK, RowsOK, AttemptsOK
<1>4. CASE Restart
  <2>1. TypeOK'
    BY <1>4 DEF Restart, TypeOK
  <2>2. RowsOK'
    BY <1>4 DEF Restart, TypeOK, RowsOK
  <2>3. AttemptsOK'
    BY <1>4, IdleFacts DEF Restart, AttemptsOK
  <2>4. QED
    BY <2>1, <2>2, <2>3
<1>5. QED
  BY <1>1, <1>2, <1>3, <1>4

LEMMA StartStep ==
  ASSUME IInv, NEW w \in Workers, NEW d \in Deliveries,
         Enqueue(w, d) \/ ProcessPending(w) \/ Throw(w)
  PROVE  IInv'
<1> USE DeliveryAssumption
<1>1. CASE Enqueue(w, d)
  <2> DEFINE x == [at |-> "load", d |-> d, rest |-> {}, number |-> 0]
  <2>1. x \in Attempt
    BY DEF Attempt, Steps
  <2>2. /\ run' \in [Workers -> Attempt \cup {Idle}]
        /\ run'[w] = x /\ Others(w)
    BY <1>1, <2>1 DEF Enqueue, IInv, TypeOK, Others
  <2>3. TypeOK'
    BY <1>1, <2>2 DEF Enqueue, IInv, TypeOK, DeliveryStatus
  <2>4. RowsOK'
    BY <1>1 DEF Enqueue, IInv, TypeOK, RowsOK
  <2>5. AttemptsOK'
    BY <1>1, <2>2 DEF Enqueue, IInv, AttemptsOK, Others
  <2>6. QED
    BY <2>3, <2>4, <2>5 DEF IInv
<1>2. CASE ProcessPending(w)
  <2> DEFINE due == {e \in Deliveries : Due(e)}
  <2>1. PICK e \in due :
          run' = [run EXCEPT ![w] = [at |-> "load", d |-> e, rest |-> due \ {e}, number |-> 0]]
    BY <1>2 DEF ProcessPending
  <2>2. [at |-> "load", d |-> e, rest |-> due \ {e}, number |-> 0] \in Attempt
    BY <2>1 DEF Attempt, Steps
  <2>3. /\ run' \in [Workers -> Attempt \cup {Idle}]
        /\ run'[w].at = "load" /\ Others(w)
    BY <2>1, <2>2 DEF IInv, TypeOK, Others
  <2>4. faults' \in 0..MaxFaults
    BY <1>2 DEF ProcessPending, IInv, TypeOK
  <2>5. QED
    BY <1>2, <2>3, <2>4, QuietMove DEF ProcessPending
<1>3. CASE Throw(w)
  <2>1. /\ run' \in [Workers -> Attempt \cup {Idle}]
        /\ run'[w].at = "idle" /\ Others(w)
    BY <1>3, IdleFacts DEF Throw, IInv, TypeOK, Others
  <2>2. faults' \in 0..MaxFaults
    BY <1>3 DEF Throw, IInv, TypeOK
  <2>3. QED
    BY <1>3, <2>1, <2>2, QuietMove DEF Throw
<1>4. QED
  BY <1>1, <1>2, <1>3

\* The steps of an attempt.
LEMMA AttemptStep ==
  ASSUME IInv, NEW w \in Workers,
         Load(w) \/ ReadSubscription(w) \/ FailInactive(w) \/ Post(w)
           \/ RecordSuccess(w) \/ RecordFailure(w)
  PROVE  IInv'
<1> USE DeliveryAssumption
<1> DEFINE e == run[w].d
           n == run[w].number
           runType == run' \in [Workers -> Attempt \cup {Idle}]
           atRest == run'[w].at \in {"idle", "load"} /\ Others(w)
<1>1. TypeOK
  BY DEF IInv
<1>2. e \in Deliveries /\ n \in 0..MaxAttempts
  BY <1>1, WorkerFacts
<1>3. CASE Load(w) /\ status[e] = "pending"
  <2> DEFINE x == [run[w] EXCEPT !.at = "subscription", !.number = attempts[e] + 1]
  <2>1. run[w] \in Attempt
    BY <1>1, <1>3, WorkerFacts DEF Load, Steps
  <2>2. attempts[e] \in 0..MaxAttempts /\ attempts[e] < MaxAttempts
    BY <1>1, <1>2, <1>3 DEF IInv, TypeOK, RowsOK
  <2>3. x \in Attempt /\ x.at = "subscription" /\ x.d = e /\ x.number = attempts[e] + 1
    <3>1. attempts[e] + 1 \in 0..MaxAttempts
      BY <2>2
    <3>2. QED
      BY <2>1, <3>1 DEF Attempt, Steps
  <2>4. runType /\ run'[w] = x /\ Others(w)
    BY <1>1, <1>3, <2>3 DEF Load, TypeOK, Others
  <2>5. TypeOK' /\ RowsOK'
    BY <1>3, <2>4 DEF Load, IInv, TypeOK, RowsOK, row
  <2>6. x.number <= posts'[e] + 1
    BY <1>1, <1>2, <1>3, <2>3 DEF Load, IInv, TypeOK, RowsOK, row
  <2>7. AttemptsOK'
    BY <1>3, <2>3, <2>4, <2>6 DEF Load, IInv, AttemptsOK, Others, row
  <2>8. QED
    BY <2>5, <2>7 DEF IInv
<1>4. CASE Load(w) /\ status[e] # "pending"
  BY <1>1, <1>4, Returned, QuietMove DEF Load, TypeOK
<1>5. CASE ReadSubscription(w)
  <2>1. PICK at \in {"post", "inactive"} : Resume(w, at) /\ (at = "inactive" => ~active)
    BY <1>5 DEF ReadSubscription
  <2>2. runType /\ Others(w) /\ run'[w].at = at /\ run'[w].d = e /\ run'[w].number = n
    BY <1>1, <1>5, <2>1, Resumed DEF ReadSubscription, Steps
  <2>3. TypeOK' /\ RowsOK'
    BY <1>5, <2>2 DEF ReadSubscription, IInv, TypeOK, RowsOK, row
  <2>4. AttemptsOK'
    BY <1>5, <2>1, <2>2 DEF ReadSubscription, IInv, AttemptsOK, Others, row
  <2>5. QED
    BY <2>3, <2>4 DEF IInv
<1>6. CASE FailInactive(w)
  <2>1. runType /\ atRest
    BY <1>1, <1>6, Returned DEF FailInactive
  <2>2. ~active
    BY <1>6 DEF FailInactive, IInv, AttemptsOK
  <2>3. TypeOK'
    BY <1>6, <2>1 DEF FailInactive, IInv, TypeOK, DeliveryStatus
  <2>4. RowsOK'
    BY <1>6, <2>2 DEF FailInactive, IInv, TypeOK, RowsOK
  <2>5. AttemptsOK'
    BY <1>6, <2>1 DEF FailInactive, IInv, AttemptsOK, Others
  <2>6. QED
    BY <2>3, <2>4, <2>5 DEF IInv
<1>7. CASE Post(w)
  <2>1. PICK ok \in BOOLEAN : /\ accepted' = IF ok THEN accepted \cup {e} ELSE accepted
                              /\ Resume(w, Outcome(ok))
    BY <1>7 DEF Post
  <2>2. Outcome(ok) \in {"success", "failure"} /\ (Outcome(ok) = "success" => e \in accepted')
    BY <2>1 DEF Outcome
  <2>3. /\ runType /\ Others(w)
        /\ run'[w].at = Outcome(ok) /\ run'[w].d = e /\ run'[w].number = n
    BY <1>1, <1>7, <2>1, <2>2, Resumed DEF Post, Steps
  <2>4. /\ posts' \in [Deliveries -> 0..MaxAttempts]
        /\ \A d \in Deliveries : posts[d] <= posts'[d]
        /\ n <= posts'[e]
    BY <1>1, <1>2, <1>7 DEF Post, IInv, TypeOK, AttemptsOK
  <2>5. accepted \subseteq accepted' /\ accepted' \subseteq Deliveries
    BY <1>1, <1>2, <2>1 DEF TypeOK
  <2>6. TypeOK'
    BY <1>7, <2>3, <2>4, <2>5 DEF Post, IInv, TypeOK, row
  <2>7. RowsOK'
    BY <1>1, <1>7, <2>4, <2>5 DEF Post, IInv, TypeOK, RowsOK, row
  <2>8. AttemptsOK'
    <3>1. ASSUME NEW v \in Workers, v # w
          PROVE  run'[v] = run[v] /\ run[v].d \in Deliveries /\ run[v].number \in 0..MaxAttempts
      BY <1>1, <2>3, <3>1, WorkerFacts DEF Others
    <3>2. QED
      BY <1>1, <1>7, <2>2, <2>3, <2>4, <2>5, <3>1 DEF Post, IInv, TypeOK, AttemptsOK, row
  <2>9. QED
    BY <2>6, <2>7, <2>8 DEF IInv
<1>8. CASE RecordSuccess(w)
  <2>1. runType /\ atRest
    BY <1>1, <1>8, Returned DEF RecordSuccess
  <2>2. e \in accepted /\ n <= posts[e]
    BY <1>8 DEF RecordSuccess, IInv, AttemptsOK
  <2>3. TypeOK'
    BY <1>2, <1>8, <2>1 DEF RecordSuccess, IInv, TypeOK, DeliveryStatus, NextRetry
  <2>4. RowsOK'
    BY <1>2, <1>8, <2>2 DEF RecordSuccess, IInv, TypeOK, RowsOK
  <2>5. AttemptsOK'
    BY <1>8, <2>1 DEF RecordSuccess, IInv, AttemptsOK, Others
  <2>6. QED
    BY <2>3, <2>4, <2>5 DEF IInv
<1>9. CASE RecordFailure(w)
  <2>1. runType /\ atRest
    BY <1>1, <1>9, Returned DEF RecordFailure
  <2>2. n <= posts[e] /\ posts[e] \in 0..MaxAttempts
    BY <1>1, <1>2, <1>9 DEF RecordFailure, IInv, TypeOK, AttemptsOK
  <2>3. Exhausted(n) => posts[e] = MaxAttempts
    BY <1>2, <2>2 DEF Exhausted
  <2>4. TypeOK'
    BY <1>2, <1>9, <2>1 DEF RecordFailure, IInv, TypeOK, DeliveryStatus, NextRetry
  <2>5. RowsOK'
    BY <1>2, <1>9, <2>2, <2>3 DEF RecordFailure, IInv, TypeOK, RowsOK, Exhausted
  <2>6. AttemptsOK'
    BY <1>9, <2>1 DEF RecordFailure, IInv, AttemptsOK, Others
  <2>7. QED
    BY <2>4, <2>5, <2>6 DEF IInv
<1>10. QED
  BY <1>3, <1>4, <1>5, <1>6, <1>7, <1>8, <1>9

LEMMA InvStep == IInv /\ [Next]_vars => IInv'
<1> SUFFICES ASSUME IInv, [Next]_vars PROVE IInv'
  OBVIOUS
<1>1. CASE UNCHANGED vars
  BY <1>1 DEF IInv, TypeOK, RowsOK, AttemptsOK, vars
<1>2. PICK d0 \in Deliveries : TRUE
  BY DeliveryAssumption
<1>3. ASSUME NEW d \in Deliveries, HandleEvent(d) \/ Elapse(d) PROVE IInv'
  BY <1>3, OutsideStep
<1>4. CASE DeleteSubscription \/ Restart
  BY <1>2, <1>4, OutsideStep
<1>5. ASSUME NEW w \in Workers, Proceed(w) \/ ProcessPending(w) \/ Throw(w) PROVE IInv'
  BY <1>2, <1>5, StartStep, AttemptStep DEF Proceed
<1>6. QED
  BY <1>1, <1>3, <1>4, <1>5 DEF Next

LEMMA Invariant == Spec => []IInv
BY InvInit, InvStep, PTL DEF Spec

\* Types, and the numbers of attempts, for every schedule.
THEOREM TypeCorrect == Spec => []TypeOK
<1>1. IInv => TypeOK
  BY DEF IInv
<1>2. QED
  BY <1>1, Invariant, PTL

\* No delivery is recorded as delivered that the subscriber has not accepted.
THEOREM DeliveredTrue == Spec => []DeliveredWasAccepted
<1>1. IInv => DeliveredWasAccepted
  BY DEF IInv, RowsOK, DeliveredWasAccepted
<1>2. QED
  BY <1>1, Invariant, PTL

\* However attempts overlap and are cut off, nothing is given up before it has
\* been posted as often as the schedule says.
THEOREM NotGivenUpEarly == Spec => []NoEarlyGivingUp
<1>1. IInv => NoEarlyGivingUp
  BY DEF IInv, RowsOK, NoEarlyGivingUp
<1>2. QED
  BY <1>1, Invariant, PTL

-----------------------------------------------------------------------------
(* The channels: what a push in flight still has to tell, and to whom.     *)

Pushes == [kind : {"availability", "rates", "stop_sell"}, window : Windows, to : Connections \cup {"all"}]

\* What a part says of the dates it names.
Parts == UNION {[D -> Nat] : D \in SUBSET Dates}

PushTasks ==
  [at : {"list", "read", "send", "log"}, work : Seq(Pushes), conns : SUBSET Connections,
   rows : UNION {[cs -> Controls] : cs \in SUBSET Connections}, conn : Connections \cup {"none"},
   parts : Seq(Parts), tries : Nat, dirty : SUBSET Dates]

ConnectionRows ==
  [status : {"pending_setup", "active", "error", "inactive"}, isActive : BOOLEAN,
   controls : Controls]

PushersOK == begun \in Nat /\ pusher \in [Pushers -> PushTasks \cup {IdlePusher}]

\* Of a push in flight: it has a window, knows the controls of the connections it has
\* before it, and what it is sending is the offer of the dates that have not changed.
Sound(x) ==
  /\ x.work # <<>>
  /\ x.at # "list" => x.conns \subseteq DOMAIN x.rows
  /\ x.at = "send" => x.conn \in DOMAIN x.rows /\ x.parts # <<>>

Fresh(x, n) ==
  x.at = "send" /\ x.work[1].kind = "availability" =>
    /\ Len(x.parts) = 1 /\ DOMAIN x.parts[1] = DatesOf(x.work[1].window)
    /\ \A d \in DatesOf(x.work[1].window) \ x.dirty : x.parts[1][d] = Offered(x.rows[x.conn], n[d])

PushesOK ==
  \A q \in Pushers : pusher[q] # IdlePusher => Sound(pusher[q]) /\ Fresh(pusher[q], sold)

\* A push of the availability of d that goes to c.
Brings(w, c, d) == w.kind = "availability" /\ d \in DatesOf(w.window) /\ w.to \in {c, "all"}

\* The current push has not told c yet.
Untold(x, c) ==
  \/ x.at = "list"
  \/ x.at # "list" /\ c \in x.conns
  \/ x.at = "send" /\ x.conn = c

\* The handler will still tell c about d, in this push or in a later one.
Owes(x, c, d) ==
  /\ x # IdlePusher
  /\ \/ \E i \in 2 .. Len(x.work) : Brings(x.work[i], c, d)
     \/ Brings(x.work[1], c, d) /\ Untold(x, c)

\* What c offers for d is what the property has to offer it.
Right(c, d) == shown[c][d] = Offered(conn[c].controls, sold[d])

\* Every date of a channel is right, about to be told, or excused.
AllHandled ==
  \A c \in Connections, d \in Dates :
    <<c, d>> \notin excused => Right(c, d) \/ \E q \in Pushers : Owes(pusher[q], c, d)

CSInv == CSTypeOK /\ PushersOK /\ PushesOK /\ AllHandled

\* Numbers: what is available, and what is offered of it.
LEMMA OfferedIsNat ==
  ASSUME NEW k \in Controls, NEW n \in Nat PROVE Offered(k, n) \in Nat
<1>1. Available(n) \in Nat BY ChannelSyncAssumption DEF Available
<1>2. LessBuffer(Available(n)) \in Nat BY <1>1, ChannelSyncAssumption DEF LessBuffer
<1>3. \A m \in Nat : m \div 2 \in Nat OBVIOUS
<1> QED BY <1>1, <1>2, <1>3 DEF Offered, Controls

\* The work of every push, and what its record looks like at the start.
LEMMA PushesTyped ==
  /\ \A w \in Windows, to \in Connections \cup {"all"}, k \in {"availability", "rates", "stop_sell"} :
        Push(k, w, to) \in Pushes
  /\ \A work \in Seq(Pushes) : Pushing(work) \in PushTasks
<1>1. ASSUME NEW w \in Windows, NEW to \in Connections \cup {"all"}, NEW k \in {"availability", "rates", "stop_sell"}
      PROVE  Push(k, w, to) \in Pushes
  BY DEF Push, Pushes
<1>2. ASSUME NEW work \in Seq(Pushes) PROVE Pushing(work) \in PushTasks
  <2>1. Unread \in [{} -> Controls] BY DEF Unread
  <2>2. Unread \in UNION {[cs -> Controls] : cs \in SUBSET Connections} BY <2>1
  <2>3. <<>> \in Seq(Parts) OBVIOUS
  <2> QED BY <2>2, <2>3 DEF Pushing, PushTasks
<1> QED BY <1>1, <1>2

\* A handler's record is not that of an idle one.
LEMMA TasksAreBusy ==
  ASSUME NEW x \in PushTasks PROVE x # IdlePusher
BY DEF PushTasks, IdlePusher

\* The push a handler is at: the first of its work.
LEMMA FirstPush ==
  ASSUME NEW x \in PushTasks, x.work # <<>>
  PROVE  /\ Head(x.work) = x.work[1] /\ x.work[1] \in Pushes
         /\ Len(x.work) \in Nat \ {0} /\ DOMAIN x.work = 1 .. Len(x.work)
         /\ \A i \in 1 .. Len(x.work) : x.work[i] \in Pushes
<1>1. x.work \in Seq(Pushes) BY DEF PushTasks
<1>2. Len(x.work) \in Nat \ {0} BY <1>1, EmptySeq
<1>3. \A i \in 1 .. Len(x.work) : x.work[i] \in Pushes BY <1>1, ElementOfSeq
<1>4. Head(x.work) = x.work[1] BY <1>1
<1>5. DOMAIN x.work = 1 .. Len(x.work) BY <1>1, LenProperties
<1> QED BY <1>2, <1>3, <1>4, <1>5

\* What a channel shows after it has taken in a part.
LEMMA AfterPart ==
  ASSUME CSTypeOK, NEW c \in Connections, NEW piece \in Parts
  PROVE  /\ TakenIn(c, piece) \in [Connections -> [Dates -> Nat]]
         /\ \A e \in Connections, d \in Dates :
              TakenIn(c, piece)[e][d] = IF e = c /\ d \in DOMAIN piece THEN piece[d] ELSE shown[e][d]
<1>1. PICK D \in SUBSET Dates : piece \in [D -> Nat] BY DEF Parts
<1> DEFINE after == [d \in Dates |-> IF d \in DOMAIN piece THEN piece[d] ELSE shown[c][d]]
<1>2. after \in [Dates -> Nat] BY <1>1 DEF CSTypeOK
<1>3. \A d \in Dates : after[d] = IF d \in DOMAIN piece THEN piece[d] ELSE shown[c][d] OBVIOUS
<1>4. TakenIn(c, piece) = [shown EXCEPT ![c] = after] BY DEF TakenIn
<1> HIDE DEF after
<1> QED BY <1>2, <1>3, <1>4 DEF CSTypeOK

LEMMA CSInitially == CSInit => CSInv
<1> SUFFICES ASSUME CSInit PROVE CSInv OBVIOUS
<1>1. SetUp \in [status : {"pending_setup", "active", "error", "inactive"}, isActive : BOOLEAN,
                 controls : Controls]
  BY DEF SetUp, AllMapped, Controls
<1>2. AllMapped \in Controls BY DEF AllMapped, Controls
<1>3. Available(0) = Offered(AllMapped, 0) BY DEF Offered, AllMapped
<1>4. Available(0) \in Nat BY ChannelSyncAssumption DEF Available
<1>5. CSTypeOK BY <1>1, <1>4 DEF CSInit, CSTypeOK
<1>6. PushersOK BY DEF CSInit, PushersOK
<1>7. PushesOK BY DEF CSInit, PushesOK
<1>8. \A c \in Connections, d \in Dates : Right(c, d) BY <1>3 DEF CSInit, Right, SetUp
<1> QED BY <1>5, <1>6, <1>7, <1>8 DEF CSInv, AllHandled

\* A step of one handler, while nothing is sold: it keeps the invariant if its record
\* stays in order, and what was right or owed is so afterwards, or is excused.
LEMMA OnePusherSteps ==
  ASSUME CSInv, NEW p \in Pushers, NEW y \in PushTasks \cup {IdlePusher},
         pusher' = [pusher EXCEPT ![p] = y],
         y # IdlePusher => Sound(y) /\ Fresh(y, sold),
         sold' = sold, begun' \in Nat, CSTypeOK',
         \A c \in Connections, d \in Dates : <<c, d>> \notin excused' =>
           /\ Right(c, d) => Right(c, d)'
           /\ <<c, d>> \in excused => Right(c, d)'
           /\ Owes(pusher[p], c, d) => Owes(y, c, d) \/ Right(c, d)'
  PROVE  CSInv'
<1>1. pusher \in [Pushers -> PushTasks \cup {IdlePusher}] BY DEF CSInv, PushersOK
<1>2. pusher'[p] = y /\ \A q \in Pushers : q # p => pusher'[q] = pusher[q] BY <1>1
<1>3. PushersOK' BY <1>1 DEF PushersOK
<1>4. PushesOK'
  <2> SUFFICES ASSUME NEW q \in Pushers, pusher'[q] # IdlePusher
               PROVE  Sound(pusher'[q]) /\ Fresh(pusher'[q], sold)
    BY DEF PushesOK
  <2>1. CASE q = p BY <2>1, <1>2
  <2>2. CASE q # p BY <2>2, <1>2 DEF CSInv, PushesOK
  <2> QED BY <2>1, <2>2
<1>5. AllHandled'
  <2> SUFFICES ASSUME NEW c \in Connections, NEW d \in Dates, <<c, d>> \notin excused'
               PROVE  Right(c, d)' \/ \E q \in Pushers : Owes(pusher'[q], c, d)
    BY DEF AllHandled
  <2>1. CASE <<c, d>> \in excused BY <2>1
  <2>2. CASE Right(c, d) BY <2>2
  <2>3. ASSUME NEW q \in Pushers, Owes(pusher[q], c, d)
        PROVE  Right(c, d)' \/ \E r \in Pushers : Owes(pusher'[r], c, d)
    <3>1. CASE q = p BY <3>1, <2>3, <1>2
    <3>2. CASE q # p BY <3>2, <2>3, <1>2
    <3> QED BY <3>1, <3>2
  <2> QED BY <2>1, <2>2, <2>3 DEF CSInv, AllHandled
<1> QED BY <1>3, <1>4, <1>5 DEF CSInv

\* A push by hand is added to what is owed.
LEMMA HandPushes ==
  ASSUME CSInv, NEW p \in Pushers, NEW work \in Seq(Pushes), work # <<>>, ByHand(p, work)
  PROVE  CSInv'
<1>1. Pushing(work) \in PushTasks BY PushesTyped
<1>2. /\ pusher[p] = IdlePusher /\ begun' = begun + 1
      /\ pusher' = [pusher EXCEPT ![p] = Pushing(work)]
      /\ UNCHANGED <<sold, conn, shown, excused>>
  BY DEF ByHand, StartPush
<1>3. CSTypeOK' BY <1>2 DEF CSInv, CSTypeOK
<1>4. Sound(Pushing(work)) /\ Fresh(Pushing(work), sold) BY DEF Sound, Fresh, Pushing
<1>5. \A c \in Connections, d \in Dates : Right(c, d)' = Right(c, d) BY <1>2 DEF Right
<1>6. ~ \E c \in Connections, d \in Dates : Owes(pusher[p], c, d) BY <1>2 DEF Owes
<1>7. ASSUME NEW c \in Connections, NEW d \in Dates, <<c, d>> \notin excused'
      PROVE  /\ Right(c, d) => Right(c, d)'
             /\ <<c, d>> \in excused => Right(c, d)'
             /\ Owes(pusher[p], c, d) => Owes(Pushing(work), c, d) \/ Right(c, d)'
  BY <1>2, <1>5, <1>6, <1>7
<1>8. begun' \in Nat BY <1>2 DEF CSInv, PushersOK
<1> QED BY <1>1, <1>2, <1>3, <1>4, <1>7, <1>8, OnePusherSteps

\* What a handler that is not idle knows about itself.
LEMMA PusherFacts ==
  ASSUME CSInv, NEW p \in Pushers, pusher[p] # IdlePusher
  PROVE  /\ pusher[p] \in PushTasks /\ Sound(pusher[p]) /\ Fresh(pusher[p], sold)
         /\ Now(p) = pusher[p].work[1] /\ Now(p) \in Pushes
<1>1. pusher[p] \in PushTasks BY DEF CSInv, PushersOK
<1>2. Sound(pusher[p]) /\ Fresh(pusher[p], sold) BY DEF CSInv, PushesOK
<1>3. pusher[p].work # <<>> BY <1>2 DEF Sound
<1> QED BY <1>1, <1>2, <1>3, FirstPush DEF Now

\* Once the connections are listed, those the push was for are before it; the others are
\* excused.
LEMMA Listed ==
  ASSUME CSInv, NEW p \in Pushers, ListConnections(p) PROVE CSInv'
<1>1. PICK x : x = pusher[p] OBVIOUS
<1>2. x.at = "list" /\ x # IdlePusher BY <1>1 DEF ListConnections, IdlePusher
<1>3. x \in PushTasks /\ Sound(x) /\ Now(p) = x.work[1] /\ x.work[1] \in Pushes BY <1>1, <1>2, PusherFacts
<1>4. PICK cs : cs = IF x.work[1].to = "all" THEN ActiveConnections ELSE {x.work[1].to} OBVIOUS
<1>5. cs \subseteq Connections BY <1>3, <1>4 DEF ActiveConnections, Pushes
<1> DEFINE known == [c \in cs |-> conn[c].controls]
           y == [x EXCEPT !.at = "read", !.conns = cs, !.rows = known]
<1>6. known \in UNION {[ds -> Controls] : ds \in SUBSET Connections} BY <1>5 DEF CSInv, CSTypeOK
<1>7. pusher' = [pusher EXCEPT ![p] = y]
  BY <1>1, <1>3, <1>4 DEF ListConnections, CSInv, PushersOK
<1>8. /\ y \in PushTasks /\ y.at = "read" /\ y.conns = cs /\ DOMAIN y.rows = cs /\ y.work = x.work
  <2> HIDE DEF known
  <2>1. /\ y \in PushTasks /\ y.at = "read" /\ y.conns = cs /\ y.rows = known /\ y.work = x.work
    BY <1>3, <1>5, <1>6 DEF PushTasks
  <2>2. DOMAIN known = cs BY DEF known
  <2> QED BY <2>1, <2>2
<1> HIDE DEF y
<1>9. Sound(y) /\ Fresh(y, sold) BY <1>3, <1>8 DEF Sound, Fresh
<1>10. /\ UNCHANGED <<sold, conn, shown, begun>> /\ excused \subseteq excused'
       /\ excused' = excused \cup (IF x.work[1].to = "all" THEN (Connections \ cs) \X DatesOf(x.work[1].window) ELSE {})
  BY <1>3, <1>4 DEF ListConnections, NotReached
<1>11. CSTypeOK' BY <1>10, <1>5 DEF CSInv, CSTypeOK, DatesOf
<1>12. ASSUME NEW c \in Connections, NEW d \in Dates, <<c, d>> \notin excused', Owes(x, c, d)
       PROVE  Owes(y, c, d)
  <2>1. CASE \E i \in 2 .. Len(x.work) : Brings(x.work[i], c, d)
    BY <2>1, <1>8, TasksAreBusy DEF Owes
  <2>2. CASE Brings(x.work[1], c, d)
    <3>1. c \in cs BY <2>2, <1>4, <1>10, <1>12 DEF Brings
    <3> QED BY <2>2, <3>1, <1>8, TasksAreBusy DEF Owes, Untold
  <2> QED BY <1>12, <2>1, <2>2 DEF Owes
<1>13. \A c \in Connections, d \in Dates : Right(c, d)' = Right(c, d) BY <1>10 DEF Right
<1>14. ASSUME NEW c \in Connections, NEW d \in Dates, <<c, d>> \notin excused'
       PROVE  /\ Right(c, d) => Right(c, d)'
              /\ <<c, d>> \in excused => Right(c, d)'
              /\ Owes(pusher[p], c, d) => Owes(y, c, d) \/ Right(c, d)'
  BY <1>1, <1>10, <1>12, <1>13, <1>14
<1>15. begun' \in Nat BY <1>10 DEF CSInv, PushersOK
<1> QED BY <1>7, <1>8, <1>9, <1>10, <1>11, <1>14, <1>15, OnePusherSteps

\* Restrictions and rates say something of Booking.com's availability never, of
\* SiteMinder's sometimes; an availability push says what is to be offered.
LEMMA PartsSent ==
  ASSUME CSInv, NEW p \in Pushers, NEW c \in Connections, NEW closed \in BOOLEAN,
         ReadAvailability(p, c, closed)
  PROVE  /\ PartsFor(p, c, closed) \in Seq(Parts) /\ PartsFor(p, c, closed) # <<>>
         /\ Now(p).kind = "availability" => PartsFor(p, c, closed) = <<AvailabilityPart(p, c)>>
<1>1. PICK x : x = pusher[p] OBVIOUS
<1>2. x.at = "read" /\ x # IdlePusher /\ c \in x.conns BY <1>1 DEF ReadAvailability, IdlePusher
<1>3. x \in PushTasks /\ Sound(x) /\ Now(p) \in Pushes BY <1>1, <1>2, PusherFacts
<1>4. x.rows[c] \in Controls
  <2>1. c \in DOMAIN x.rows BY <1>2, <1>3 DEF Sound
  <2>2. PICK cs \in SUBSET Connections : x.rows \in [cs -> Controls] BY <1>3 DEF PushTasks
  <2> QED BY <2>1, <2>2
<1>5. DatesOf(Now(p).window) \in SUBSET Dates BY DEF DatesOf
<1>6. \A n \in Nat : Saying(p, n) \in Parts
  <2> TAKE n \in Nat
  <2>1. Saying(p, n) \in [DatesOf(Now(p).window) -> Nat] BY DEF Saying
  <2> QED BY <2>1, <1>5 DEF Parts
<1>7. Nothing \in Parts
  <2>1. Nothing \in [{} -> Nat] BY DEF Nothing
  <2> QED BY <2>1 DEF Parts
<1>8. AvailabilityPart(p, c) \in Parts
  <2>1. \A d \in DatesOf(Now(p).window) : Offered(x.rows[c], sold[d]) \in Nat
    BY <1>4, <1>5, OfferedIsNat DEF CSInv, CSTypeOK
  <2>2. AvailabilityPart(p, c) \in [DatesOf(Now(p).window) -> Nat] BY <1>1, <2>1 DEF AvailabilityPart
  <2> QED BY <2>2, <1>5 DEF Parts
<1>9. StopSellPart(p) \in Parts BY <1>6 DEF StopSellPart
<1>10. RatePart \in Parts BY <1>7 DEF RatePart
<1>11. RestrictionPart(p, c, closed) \in Parts BY <1>6, <1>7 DEF RestrictionPart
<1>12. CASE Now(p).kind = "availability" BY <1>8, <1>12 DEF PartsFor
<1>13. CASE Now(p).kind = "stop_sell" BY <1>9, <1>13 DEF PartsFor
<1>14. CASE Now(p).kind = "rates" BY <1>10, <1>11, <1>14 DEF PartsFor
<1> QED BY <1>3, <1>12, <1>13, <1>14 DEF Pushes

\* The connection whose availability has been read is the one being told.
LEMMA AvailabilityRead ==
  ASSUME CSInv, NEW p \in Pushers, NEW c \in Connections, NEW closed \in BOOLEAN,
         ReadAvailability(p, c, closed)
  PROVE  CSInv'
<1>1. PICK x : x = pusher[p] OBVIOUS
<1>2. x.at = "read" /\ x # IdlePusher /\ c \in x.conns BY <1>1 DEF ReadAvailability, IdlePusher
<1>3. x \in PushTasks /\ Sound(x) /\ Now(p) = x.work[1] /\ x.work[1] \in Pushes BY <1>1, <1>2, PusherFacts
<1>4. c \in DOMAIN x.rows /\ x.conns \subseteq DOMAIN x.rows BY <1>2, <1>3 DEF Sound
<1>5. UNCHANGED <<sold, conn, shown, begun>> BY DEF ReadAvailability
<1>6. \A e \in Connections, d \in Dates : Right(e, d)' = Right(e, d) BY <1>5 DEF Right
<1>7. begun' \in Nat BY <1>5 DEF CSInv, PushersOK
<1>8. CASE x.rows[c].mapped
  <2>1. PICK parts : parts = PartsFor(p, c, closed) OBVIOUS
  <2>2. /\ parts \in Seq(Parts) /\ parts # <<>>
        /\ x.work[1].kind = "availability" => parts = <<AvailabilityPart(p, c)>>
    BY <1>3, <2>1, PartsSent
  <2> DEFINE y == [x EXCEPT !.at = "send", !.conn = c, !.parts = parts, !.conns = x.conns \ {c},
                            !.tries = 0, !.dirty = {}]
  <2>3. pusher' = [pusher EXCEPT ![p] = y] /\ excused' = excused
    BY <1>1, <1>8, <2>1 DEF ReadAvailability, CSInv, PushersOK
  <2>4. /\ y \in PushTasks /\ y.at = "send" /\ y.conns = x.conns \ {c} /\ y.conn = c /\ y.parts = parts
        /\ y.rows = x.rows /\ y.work = x.work /\ y.dirty = {}
    BY <1>3, <2>2 DEF PushTasks
  <2> HIDE DEF y
  <2>5. Sound(y) BY <1>3, <1>4, <2>2, <2>4 DEF Sound
  <2>6. Fresh(y, sold)
    <3> SUFFICES ASSUME x.work[1].kind = "availability"
                 PROVE  /\ Len(parts) = 1 /\ DOMAIN parts[1] = DatesOf(x.work[1].window)
                        /\ \A d \in DatesOf(x.work[1].window) : parts[1][d] = Offered(x.rows[c], sold[d])
      BY <2>4 DEF Fresh
    <3>1. Len(parts) = 1 /\ parts[1] = AvailabilityPart(p, c) BY <2>2
    <3> QED BY <1>1, <1>3, <3>1 DEF AvailabilityPart
  <2>7. CSTypeOK' BY <1>5, <2>3 DEF CSInv, CSTypeOK
  <2>8. ASSUME NEW e \in Connections, NEW d \in Dates, Owes(x, e, d) PROVE Owes(y, e, d)
    <3>1. CASE \E i \in 2 .. Len(x.work) : Brings(x.work[i], e, d)
      BY <3>1, <2>4, TasksAreBusy DEF Owes
    <3>2. CASE Brings(x.work[1], e, d) /\ Untold(x, e)
      <4>1. e \in x.conns BY <1>2, <3>2 DEF Untold
      <4>2. Untold(y, e) BY <2>4, <4>1 DEF Untold
      <4> QED BY <3>2, <4>2, <2>4, TasksAreBusy DEF Owes
    <3> QED BY <2>8, <3>1, <3>2 DEF Owes
  <2>9. ASSUME NEW e \in Connections, NEW d \in Dates, <<e, d>> \notin excused'
        PROVE  /\ Right(e, d) => Right(e, d)'
               /\ <<e, d>> \in excused => Right(e, d)'
               /\ Owes(pusher[p], e, d) => Owes(y, e, d) \/ Right(e, d)'
    BY <1>1, <1>6, <2>3, <2>8, <2>9
  <2> QED BY <1>5, <1>7, <2>3, <2>4, <2>5, <2>6, <2>7, <2>9, OnePusherSteps
<1>9. CASE ~ x.rows[c].mapped
  <2> DEFINE y == [x EXCEPT !.conns = x.conns \ {c}]
  <2>1. /\ pusher' = [pusher EXCEPT ![p] = y]
        /\ excused' = excused \cup ({c} \X DatesOf(x.work[1].window))
    BY <1>1, <1>3, <1>9 DEF ReadAvailability, CSInv, PushersOK
  <2>2. y \in PushTasks /\ y.at = "read" /\ y.conns = x.conns \ {c} /\ y.rows = x.rows /\ y.work = x.work
    BY <1>2, <1>3 DEF PushTasks
  <2> HIDE DEF y
  <2>3. Sound(y) /\ Fresh(y, sold) BY <1>3, <1>4, <2>2 DEF Sound, Fresh
  <2>4. CSTypeOK' BY <1>5, <2>1 DEF CSInv, CSTypeOK, DatesOf
  <2>5. ASSUME NEW e \in Connections, NEW d \in Dates, <<e, d>> \notin excused', Owes(x, e, d)
        PROVE  Owes(y, e, d)
    <3>1. CASE \E i \in 2 .. Len(x.work) : Brings(x.work[i], e, d)
      BY <3>1, <2>2, TasksAreBusy DEF Owes
    <3>2. CASE Brings(x.work[1], e, d) /\ Untold(x, e)
      <4>1. e \in x.conns /\ e # c BY <1>2, <2>1, <2>5, <3>2 DEF Untold, Brings
      <4>2. Untold(y, e) BY <2>2, <4>1 DEF Untold
      <4> QED BY <3>2, <4>2, <2>2, TasksAreBusy DEF Owes
    <3> QED BY <2>5, <3>1, <3>2 DEF Owes
  <2>6. ASSUME NEW e \in Connections, NEW d \in Dates, <<e, d>> \notin excused'
        PROVE  /\ Right(e, d) => Right(e, d)'
               /\ <<e, d>> \in excused => Right(e, d)'
               /\ Owes(pusher[p], e, d) => Owes(y, e, d) \/ Right(e, d)'
    BY <1>1, <1>6, <2>1, <2>5, <2>6
  <2> QED BY <1>5, <1>7, <2>1, <2>2, <2>3, <2>4, <2>6, OnePusherSteps
<1> QED BY <1>8, <1>9

\* After an answer the next part is sent, or the sync is logged: nothing but what the part
\* was about has stopped being owed.
Answering(x) ==
  [x EXCEPT !.parts = Tail(x.parts), !.tries = 0,
            !.at = IF Len(x.parts) = 1 THEN "log" ELSE "send"]

LEMMA AnswerMovesOn ==
  ASSUME NEW n, NEW x \in PushTasks, Sound(x), Fresh(x, n), x.at = "send"
  PROVE  /\ Answering(x) \in PushTasks /\ Sound(Answering(x)) /\ Fresh(Answering(x), n)
         /\ x.parts[1] \in Parts /\ Head(x.parts) = x.parts[1] /\ x.conn \in Connections
         /\ \A c \in Connections, d \in Dates :
              Owes(x, c, d) => Owes(Answering(x), c, d) \/ (c = x.conn /\ d \in DOMAIN x.parts[1])
<1>1. x.parts \in Seq(Parts) /\ x.parts # <<>> BY DEF Sound, PushTasks
<1>2. /\ Tail(x.parts) \in Seq(Parts) /\ Len(Tail(x.parts)) = Len(x.parts) - 1
      /\ Head(x.parts) \in Parts /\ Len(x.parts) \in Nat \ {0}
  BY <1>1, HeadTailProperties, EmptySeq
<1>3. Head(x.parts) = x.parts[1] BY <1>1
<1>4. x.conn \in Connections
  <2>1. PICK cs \in SUBSET Connections : x.rows \in [cs -> Controls] BY DEF PushTasks
  <2> QED BY <2>1 DEF Sound
<1>5. PICK parts : parts = Tail(x.parts) OBVIOUS
<1>6. PICK at : at = IF Len(x.parts) = 1 THEN "log" ELSE "send" OBVIOUS
<1> DEFINE y == [x EXCEPT !.parts = parts, !.tries = 0, !.at = at]
<1>7. Answering(x) = y BY <1>5, <1>6 DEF Answering
<1>8. /\ y \in PushTasks /\ y.at = at /\ y.parts = parts /\ y.work = x.work /\ y.conns = x.conns
      /\ y.rows = x.rows /\ y.conn = x.conn
  BY <1>2, <1>5, <1>6 DEF PushTasks
<1> HIDE DEF y
<1>9. at = "send" => parts # <<>>
  <2>1. SUFFICES ASSUME at = "send" PROVE Len(parts) # 0 OBVIOUS
  <2> QED BY <2>1, <1>2, <1>5, <1>6
<1>10. Sound(y) BY <1>6, <1>8, <1>9 DEF Sound
<1>11. Fresh(y, n) BY <1>6, <1>8 DEF Fresh
<1>12. ASSUME NEW c \in Connections, NEW d \in Dates, Owes(x, c, d), ~ (c = x.conn /\ d \in DOMAIN x.parts[1])
       PROVE  Owes(y, c, d)
  <2>1. CASE \E i \in 2 .. Len(x.work) : Brings(x.work[i], c, d)
    BY <2>1, <1>8, TasksAreBusy DEF Owes
  <2>2. CASE Brings(x.work[1], c, d) /\ Untold(x, c)
    <3>1. d \in DOMAIN x.parts[1] BY <2>2 DEF Fresh, Brings
    <3>2. c \in x.conns BY <2>2, <3>1, <1>12 DEF Untold
    <3>3. Untold(y, c) BY <3>2, <1>6, <1>8 DEF Untold
    <3> QED BY <2>2, <3>3, <1>8, TasksAreBusy DEF Owes
  <2> QED BY <1>12, <2>1, <2>2 DEF Owes
<1> QED BY <1>2, <1>3, <1>4, <1>7, <1>8, <1>10, <1>11, <1>12

\* A part that the channel took in is right, or excused; what the others show is as it was.
LEMMA SendWasAccepted ==
  ASSUME CSInv, NEW p \in Pushers, SendAccepted(p) PROVE CSInv'
<1>1. PICK x : x = pusher[p] OBVIOUS
<1>2. x.at = "send" /\ x # IdlePusher BY <1>1 DEF SendAccepted, IdlePusher
<1>3. x \in PushTasks /\ Sound(x) /\ Fresh(x, sold) /\ Now(p) = x.work[1] BY <1>1, <1>2, PusherFacts
<1>4. PICK y : y = Answering(x) OBVIOUS
<1>5. /\ y \in PushTasks /\ Sound(y) /\ Fresh(y, sold)
      /\ x.parts[1] \in Parts /\ Head(x.parts) = x.parts[1] /\ x.conn \in Connections
      /\ \A c \in Connections, d \in Dates :
           Owes(x, c, d) => Owes(y, c, d) \/ (c = x.conn /\ d \in DOMAIN x.parts[1])
  BY <1>2, <1>3, <1>4, AnswerMovesOn
<1>6. pusher' = [pusher EXCEPT ![p] = y]
  BY <1>1, <1>4 DEF SendAccepted, PushAnswered, Answering, CSInv, PushersOK
<1>7. PICK piece \in Parts, k \in Connections : piece = x.parts[1] /\ k = x.conn BY <1>5
<1>8. PICK done : done = Settled(p, piece) OBVIOUS
<1>9. /\ shown' = TakenIn(k, piece) /\ UNCHANGED <<sold, conn, begun>>
      /\ excused' = (excused \ ({k} \X done)) \cup ({k} \X (DOMAIN piece \ done))
  BY <1>1, <1>5, <1>7, <1>8 DEF SendAccepted
<1>10. DOMAIN piece \subseteq Dates BY DEF Parts
<1>11. /\ shown' \in [Connections -> [Dates -> Nat]]
       /\ \A e \in Connections, d \in Dates :
            shown'[e][d] = IF e = k /\ d \in DOMAIN piece THEN piece[d] ELSE shown[e][d]
  BY <1>9, AfterPart DEF CSInv
<1>12. CSTypeOK'
  <2>1. (excused' \subseteq Connections \X Dates) BY <1>9, <1>10 DEF CSInv, CSTypeOK
  <2> QED BY <1>9, <1>11, <2>1 DEF CSInv, CSTypeOK
<1>13. ASSUME NEW d \in done PROVE d \in DOMAIN piece /\ piece[d] = Offered(conn[k].controls, sold[d])
  <2>1. /\ x.work[1].kind = "availability" /\ x.rows[k] = conn[k].controls
        /\ d \in DOMAIN piece \ x.dirty
    BY <1>8, <1>1, <1>3, <1>7, <1>13 DEF Settled
  <2> QED BY <1>2, <1>3, <1>7, <2>1 DEF Fresh
<1>14. ASSUME NEW d \in Dates, d \in DOMAIN piece, <<k, d>> \notin excused' PROVE Right(k, d)'
  <2>1. d \in done BY <1>9, <1>14
  <2>2. shown'[k][d] = piece[d] BY <1>11, <1>14
  <2> QED BY <2>1, <2>2, <1>9, <1>13 DEF Right
<1>15. ASSUME NEW c \in Connections, NEW d \in Dates, ~ (c = k /\ d \in DOMAIN piece)
       PROVE  Right(c, d)' = Right(c, d) /\ (<<c, d>> \in excused => <<c, d>> \in excused')
  <2>1. shown'[c][d] = shown[c][d] BY <1>11, <1>15
  <2>2. <<c, d>> \in excused => <<c, d>> \in excused' BY <1>9, <1>13, <1>15
  <2> QED BY <2>1, <2>2, <1>9 DEF Right
<1>16. ASSUME NEW c \in Connections, NEW d \in Dates, <<c, d>> \notin excused'
       PROVE  /\ Right(c, d) => Right(c, d)'
              /\ <<c, d>> \in excused => Right(c, d)'
              /\ Owes(pusher[p], c, d) => Owes(y, c, d) \/ Right(c, d)'
  <2>1. CASE c = k /\ d \in DOMAIN piece BY <2>1, <1>14, <1>16
  <2>2. CASE ~ (c = k /\ d \in DOMAIN piece) BY <2>2, <1>1, <1>5, <1>7, <1>15, <1>16
  <2> QED BY <2>1, <2>2
<1>17. begun' \in Nat BY <1>9 DEF CSInv, PushersOK
<1> QED BY <1>5, <1>6, <1>9, <1>12, <1>16, <1>17, OnePusherSteps

\* A part that was refused, or whose answer was lost, excuses its dates, whatever the
\* channel made of it.
LEMMA NotAccepted ==
  ASSUME CSInv, NEW p \in Pushers, pusher[p].at = "send",
         UNCHANGED <<sold, conn, begun>>,
         excused' = excused \cup ({pusher[p].conn} \X DOMAIN Head(pusher[p].parts)),
         shown' \in {shown, TakenIn(pusher[p].conn, Head(pusher[p].parts))},
         \/ PushAnswered(p)
         \/ pusher' = [pusher EXCEPT ![p].tries = @ + 1]
  PROVE  CSInv'
<1>1. PICK x : x = pusher[p] OBVIOUS
<1>2. x.at = "send" /\ x # IdlePusher BY <1>1 DEF IdlePusher
<1>3. x \in PushTasks /\ Sound(x) /\ Fresh(x, sold) BY <1>1, <1>2, PusherFacts
<1>4. PICK y : y = Answering(x) OBVIOUS
<1>5. /\ y \in PushTasks /\ Sound(y) /\ Fresh(y, sold)
      /\ x.parts[1] \in Parts /\ Head(x.parts) = x.parts[1] /\ x.conn \in Connections
      /\ \A c \in Connections, d \in Dates :
           Owes(x, c, d) => Owes(y, c, d) \/ (c = x.conn /\ d \in DOMAIN x.parts[1])
  BY <1>2, <1>3, <1>4, AnswerMovesOn
<1>6. PICK piece \in Parts, k \in Connections : piece = x.parts[1] /\ k = x.conn BY <1>5
<1>7. /\ excused' = excused \cup ({k} \X DOMAIN piece)
      /\ shown' = shown \/ shown' = TakenIn(k, piece)
  BY <1>1, <1>5, <1>6
<1>8. DOMAIN piece \subseteq Dates BY DEF Parts
<1>9. /\ shown' \in [Connections -> [Dates -> Nat]]
      /\ \A e \in Connections, d \in Dates :
           ~ (e = k /\ d \in DOMAIN piece) => shown'[e][d] = shown[e][d]
  <2>1. CASE shown' = shown BY <2>1 DEF CSInv, CSTypeOK
  <2>2. CASE shown' = TakenIn(k, piece) BY <2>2, AfterPart DEF CSInv
  <2> QED BY <1>7, <2>1, <2>2
<1>10. CSTypeOK'
  <2>1. (excused' \subseteq Connections \X Dates) BY <1>7, <1>8 DEF CSInv, CSTypeOK
  <2> QED BY <1>9, <2>1 DEF CSInv, CSTypeOK
<1>11. begun' \in Nat BY DEF CSInv, PushersOK
<1>12. ASSUME NEW c \in Connections, NEW d \in Dates, <<c, d>> \notin excused'
       PROVE  /\ ~ (c = k /\ d \in DOMAIN piece)
              /\ Right(c, d)' = Right(c, d)
              /\ <<c, d>> \notin excused
  <2>1. ~ (c = k /\ d \in DOMAIN piece) /\ <<c, d>> \notin excused BY <1>7, <1>12
  <2>2. shown'[c][d] = shown[c][d] BY <1>9, <2>1
  <2> QED BY <2>1, <2>2 DEF Right
<1>13. CASE PushAnswered(p)
  <2>1. pusher' = [pusher EXCEPT ![p] = y]
    BY <1>1, <1>4, <1>13 DEF PushAnswered, Answering, CSInv, PushersOK
  <2>2. ASSUME NEW c \in Connections, NEW d \in Dates, <<c, d>> \notin excused'
        PROVE  /\ Right(c, d) => Right(c, d)'
               /\ <<c, d>> \in excused => Right(c, d)'
               /\ Owes(pusher[p], c, d) => Owes(y, c, d) \/ Right(c, d)'
    BY <1>1, <1>5, <1>6, <1>12, <2>2
  <2> QED BY <1>5, <1>10, <1>11, <2>1, <2>2, OnePusherSteps
<1>14. CASE pusher' = [pusher EXCEPT ![p].tries = @ + 1]
  <2>0. PICK n \in Nat : n = x.tries + 1 BY <1>3 DEF PushTasks
  <2> DEFINE z == [x EXCEPT !.tries = n]
  <2>1. pusher' = [pusher EXCEPT ![p] = z] BY <1>1, <1>14, <2>0 DEF CSInv, PushersOK
  <2>2. /\ z \in PushTasks /\ z.at = x.at /\ z.parts = x.parts /\ z.work = x.work /\ z.conns = x.conns
        /\ z.rows = x.rows /\ z.conn = x.conn /\ z.dirty = x.dirty
    BY <1>3 DEF PushTasks
  <2> HIDE DEF z
  <2>3. Sound(z) /\ Fresh(z, sold) BY <1>3, <2>2 DEF Sound, Fresh
  <2>4. \A c \in Connections, d \in Dates : Owes(x, c, d) => Owes(z, c, d)
    BY <2>2, TasksAreBusy DEF Owes, Untold
  <2>5. ASSUME NEW c \in Connections, NEW d \in Dates, <<c, d>> \notin excused'
        PROVE  /\ Right(c, d) => Right(c, d)'
               /\ <<c, d>> \in excused => Right(c, d)'
               /\ Owes(pusher[p], c, d) => Owes(z, c, d) \/ Right(c, d)'
    BY <1>1, <1>12, <2>4, <2>5
  <2> QED BY <1>10, <1>11, <2>1, <2>2, <2>3, <2>5, OnePusherSteps
<1> QED BY <1>13, <1>14

\* Rejected, or not answered.
LEMMA SendWasRejected ==
  ASSUME CSInv, NEW p \in Pushers, SendRejected(p) PROVE CSInv'
BY NotAccepted DEF SendRejected

LEMMA SendWasLost ==
  ASSUME CSInv, NEW p \in Pushers, NEW taken \in BOOLEAN, SendLost(p, taken) PROVE CSInv'
<1>1. shown' \in {shown, TakenIn(pusher[p].conn, Head(pusher[p].parts))} BY DEF SendLost
<1>2. PushAnswered(p) \/ pusher' = [pusher EXCEPT ![p].tries = @ + 1] BY DEF SendLost
<1> QED BY <1>1, <1>2, NotAccepted DEF SendLost

\* The sync is logged: the next connection's turn.
LEMMA Logged ==
  ASSUME CSInv, NEW p \in Pushers, LogSync(p) PROVE CSInv'
<1>1. PICK x : x = pusher[p] OBVIOUS
<1>2. x.at = "log" /\ x # IdlePusher BY <1>1 DEF LogSync, IdlePusher
<1>3. x \in PushTasks /\ Sound(x) BY <1>1, <1>2, PusherFacts
<1> DEFINE y == [x EXCEPT !.at = "read", !.conn = "none", !.dirty = {}]
<1>4. pusher' = [pusher EXCEPT ![p] = y] BY <1>1 DEF LogSync, CSInv, PushersOK
<1>5. y \in PushTasks /\ y.at = "read" /\ y.work = x.work /\ y.conns = x.conns /\ y.rows = x.rows
  BY <1>3 DEF PushTasks
<1> HIDE DEF y
<1>6. Sound(y) /\ Fresh(y, sold) BY <1>2, <1>3, <1>5 DEF Sound, Fresh
<1>7. UNCHANGED <<sold, conn, shown, begun, excused>> BY DEF LogSync
<1>8. CSTypeOK' BY <1>7 DEF CSInv, CSTypeOK
<1>9. \A c \in Connections, d \in Dates : Right(c, d)' = Right(c, d) BY <1>7 DEF Right
<1>10. \A c \in Connections, d \in Dates : Owes(x, c, d) => Owes(y, c, d)
  BY <1>2, <1>5, TasksAreBusy DEF Owes, Untold
<1>11. ASSUME NEW c \in Connections, NEW d \in Dates, <<c, d>> \notin excused'
       PROVE  /\ Right(c, d) => Right(c, d)'
              /\ <<c, d>> \in excused => Right(c, d)'
              /\ Owes(pusher[p], c, d) => Owes(y, c, d) \/ Right(c, d)'
  BY <1>1, <1>7, <1>9, <1>10, <1>11
<1>12. begun' \in Nat BY <1>7 DEF CSInv, PushersOK
<1> QED BY <1>4, <1>5, <1>6, <1>7, <1>8, <1>11, <1>12, OnePusherSteps

\* With no connection left before it, a push owes only what is in its later windows.
LEMMA Onwards ==
  ASSUME CSInv, NEW p \in Pushers, NextWindow(p) PROVE CSInv'
<1>1. PICK x : x = pusher[p] OBVIOUS
<1>2. x.at = "read" /\ x.conns = {} /\ x # IdlePusher BY <1>1 DEF NextWindow, IdlePusher
<1>3. x \in PushTasks /\ Sound(x) BY <1>1, <1>2, PusherFacts
<1>4. PICK work : work = x.work OBVIOUS
<1>5. work \in Seq(Pushes) /\ work # <<>> BY <1>3, <1>4 DEF Sound, PushTasks
<1>6. UNCHANGED <<sold, conn, shown, begun, excused>> BY DEF NextWindow
<1>7. CSTypeOK' BY <1>6 DEF CSInv, CSTypeOK
<1>8. \A c \in Connections, d \in Dates : Right(c, d)' = Right(c, d) BY <1>6 DEF Right
<1>9. begun' \in Nat BY <1>6 DEF CSInv, PushersOK
<1>10. \A c \in Connections, d \in Dates :
         Owes(x, c, d) => \E i \in 2 .. Len(work) : Brings(work[i], c, d)
  BY <1>2, <1>4 DEF Owes, Untold
<1>11. CASE Len(work) = 1
  <2>1. pusher' = [pusher EXCEPT ![p] = IdlePusher]
    BY <1>1, <1>4, <1>11 DEF NextWindow, CSInv, PushersOK
  <2>2. \A c \in Connections, d \in Dates : ~ Owes(x, c, d) BY <1>10, <1>11
  <2>3. ASSUME NEW c \in Connections, NEW d \in Dates, <<c, d>> \notin excused'
        PROVE  /\ Right(c, d) => Right(c, d)'
               /\ <<c, d>> \in excused => Right(c, d)'
               /\ Owes(pusher[p], c, d) => Owes(IdlePusher, c, d) \/ Right(c, d)'
    BY <1>1, <1>6, <1>8, <2>2, <2>3
  <2> QED BY <1>6, <1>7, <1>9, <2>1, <2>3, OnePusherSteps
<1>12. CASE Len(work) # 1
  <2>1. PICK rest : rest = Tail(work) OBVIOUS
  <2>2. /\ rest \in Seq(Pushes) /\ Len(rest) = Len(work) - 1 /\ Len(work) \in Nat \ {0}
        /\ \A i \in 1 .. Len(rest) : rest[i] = work[i + 1]
    BY <1>5, <2>1, HeadTailProperties, EmptySeq
  <2>3. rest # <<>>
    <3>1. Len(rest) # 0 BY <1>12, <2>2
    <3> QED BY <3>1
  <2>4. PICK y : y = Pushing(rest) OBVIOUS
  <2>5. /\ y \in PushTasks /\ y.at = "list" /\ y.work = rest
    BY <2>2, <2>4, PushesTyped DEF Pushing
  <2>6. pusher' = [pusher EXCEPT ![p] = y]
    BY <1>1, <1>4, <1>12, <2>1, <2>4 DEF NextWindow, CSInv, PushersOK
  <2>7. Sound(y) /\ Fresh(y, sold) BY <2>3, <2>5 DEF Sound, Fresh
  <2>8. ASSUME NEW c \in Connections, NEW d \in Dates, Owes(x, c, d) PROVE Owes(y, c, d)
    <3>1. PICK i \in 2 .. Len(work) : Brings(work[i], c, d) BY <1>10, <2>8
    <3>2. PICK j : j = i - 1 OBVIOUS
    <3>3. j \in 1 .. Len(rest) /\ rest[j] = work[i] BY <2>2, <3>2
    <3>4. Brings(rest[j], c, d) BY <3>1, <3>3
    <3>5. Len(rest) \in Nat BY <2>2
    <3>6. j = 1 \/ j \in 2 .. Len(rest) BY <3>3, <3>5
    <3> QED BY <2>5, <3>4, <3>6, TasksAreBusy DEF Owes, Untold
  <2>9. ASSUME NEW c \in Connections, NEW d \in Dates, <<c, d>> \notin excused'
        PROVE  /\ Right(c, d) => Right(c, d)'
               /\ <<c, d>> \in excused => Right(c, d)'
               /\ Owes(pusher[p], c, d) => Owes(y, c, d) \/ Right(c, d)'
    BY <1>1, <1>6, <1>8, <2>8, <2>9
  <2> QED BY <1>6, <1>7, <1>9, <2>5, <2>6, <2>7, <2>9, OnePusherSteps
<1> QED BY <1>11, <1>12

\* A handler that is cut off owes no longer; what it owed is excused.
LEMMA BrokenOff ==
  ASSUME CSInv, NEW p \in Pushers, CutOff(p) PROVE CSInv'
<1>1. PICK x : x = pusher[p] OBVIOUS
<1>2. x # IdlePusher BY <1>1 DEF CutOff
<1>3. x \in PushTasks /\ Sound(x) BY <1>1, <1>2, PusherFacts
<1>4. /\ Len(x.work) \in Nat \ {0} /\ DOMAIN x.work = 1 .. Len(x.work) BY <1>3, FirstPush DEF Sound
<1>5. PICK dates : dates = UNION {DatesOf(x.work[i].window) : i \in DOMAIN x.work} OBVIOUS
<1>6. /\ excused' = excused \cup (Connections \X dates)
      /\ pusher' = [pusher EXCEPT ![p] = IdlePusher] /\ UNCHANGED <<sold, conn, shown, begun>>
  BY <1>1, <1>5 DEF CutOff
<1>7. dates \subseteq Dates BY <1>5 DEF DatesOf
<1>8. CSTypeOK' BY <1>6, <1>7 DEF CSInv, CSTypeOK
<1>9. \A c \in Connections, d \in Dates : Right(c, d)' = Right(c, d) BY <1>6 DEF Right
<1>10. begun' \in Nat BY <1>6 DEF CSInv, PushersOK
<1>11. ASSUME NEW c \in Connections, NEW d \in Dates, Owes(x, c, d) PROVE d \in dates
  <2>1. PICK i \in 1 .. Len(x.work) : Brings(x.work[i], c, d) BY <1>4, <1>11 DEF Owes
  <2> QED BY <1>4, <1>5, <2>1 DEF Brings
<1>12. ASSUME NEW c \in Connections, NEW d \in Dates, <<c, d>> \notin excused'
       PROVE  /\ Right(c, d) => Right(c, d)'
              /\ <<c, d>> \in excused => Right(c, d)'
              /\ Owes(pusher[p], c, d) => Owes(IdlePusher, c, d) \/ Right(c, d)'
  BY <1>1, <1>6, <1>9, <1>11, <1>12
<1> QED BY <1>6, <1>8, <1>10, <1>12, OnePusherSteps

\* A edited that is edited excuses all of its dates; the others stay as they are.
LEMMA RowEdited ==
  ASSUME CSInv, NEW c \in Connections,
         \/ \E s \in {"active", "error"}, k \in Controls : UpdateConnection(c, s, k)
         \/ Deactivate(c)
  PROVE  CSInv'
<1>1. /\ excused' = excused \cup ({c} \X Dates) /\ begun' = begun + 1 /\ UNCHANGED <<sold, shown, pusher>>
  BY DEF UpdateConnection, Deactivate
<1>2. PICK edited \in ConnectionRows : conn' = [conn EXCEPT ![c] = edited]
  <2>1. ASSUME NEW s \in {"active", "error"}, NEW k \in Controls, UpdateConnection(c, s, k)
        PROVE  \E edited \in ConnectionRows : conn' = [conn EXCEPT ![c] = edited]
    <3> DEFINE edited == [conn[c] EXCEPT !.status = s, !.controls = k]
    <3>1. edited \in ConnectionRows BY DEF CSInv, CSTypeOK, ConnectionRows
    <3>2. conn' = [conn EXCEPT ![c] = edited] BY <2>1 DEF UpdateConnection, CSInv, CSTypeOK
    <3> QED BY <3>1, <3>2
  <2>2. ASSUME Deactivate(c)
        PROVE  \E edited \in ConnectionRows : conn' = [conn EXCEPT ![c] = edited]
    <3> DEFINE edited == [conn[c] EXCEPT !.isActive = FALSE, !.status = "inactive"]
    <3>1. edited \in ConnectionRows BY DEF CSInv, CSTypeOK, ConnectionRows
    <3>2. conn' = [conn EXCEPT ![c] = edited] BY <2>2 DEF Deactivate, CSInv, CSTypeOK
    <3> QED BY <3>1, <3>2
  <2> QED BY <2>1, <2>2
<1>3. CSTypeOK' BY <1>1, <1>2 DEF CSInv, CSTypeOK, ConnectionRows
<1>4. PushersOK' BY <1>1 DEF CSInv, PushersOK
<1>5. PushesOK' BY <1>1 DEF CSInv, PushesOK
<1>6. AllHandled'
  <2> SUFFICES ASSUME NEW e \in Connections, NEW d \in Dates, <<e, d>> \notin excused'
               PROVE  Right(e, d)' \/ \E q \in Pushers : Owes(pusher'[q], e, d)
    BY DEF AllHandled
  <2>1. e # c /\ <<e, d>> \notin excused BY <1>1
  <2>2. conn'[e] = conn[e] BY <1>2, <2>1 DEF CSInv, CSTypeOK
  <2>3. Right(e, d)' = Right(e, d) BY <1>1, <2>2 DEF Right
  <2> QED BY <1>1, <2>1, <2>3 DEF CSInv, AllHandled
<1> QED BY <1>3, <1>4, <1>5, <1>6 DEF CSInv

\* A change of what is sold, whose dates are either pushed to all or named as untold.
LEMMA SaleChanges ==
  ASSUME CSInv, NEW p \in Pushers, NEW delta \in [Dates -> Int], NEW work \in Seq(Pushes),
         NEW untold \in SUBSET Dates, Change(p, delta, work, untold),
         \A d \in Dates \ untold : delta[d] # 0 =>
           work # <<>> /\ \A c \in Connections : \E i \in 1 .. Len(work) : Brings(work[i], c, d)
  PROVE  CSInv'
<1>1. PICK changed : changed = {d \in Dates : delta[d] # 0} OBVIOUS
<1>2. PICK x : x = IF work = <<>> THEN IdlePusher ELSE Pushing(work) OBVIOUS
<1>3. x \in PushTasks \cup {IdlePusher} /\ x.at # "send"
  <2>1. CASE work = <<>> BY <2>1, <1>2 DEF IdlePusher
  <2>2. CASE work # <<>> BY <2>2, <1>2, PushesTyped DEF Pushing
  <2> QED BY <2>1, <2>2
<1>4. /\ pusher[p] = IdlePusher /\ begun' = begun + 1 /\ UNCHANGED <<conn, shown>>
      /\ \A d \in Dates : sold[d] + delta[d] >= 0
      /\ sold' = [d \in Dates |-> sold[d] + delta[d]]
      /\ excused' = excused \cup (Connections \X (changed \cap untold))
      /\ pusher' = Outdate(changed, [pusher EXCEPT ![p] = x])
  BY <1>1, <1>2 DEF Change
<1>5. pusher \in [Pushers -> PushTasks \cup {IdlePusher}] /\ sold \in [Dates -> Nat]
  BY DEF CSInv, PushersOK, CSTypeOK
<1>6. pusher'[p] = x BY <1>3, <1>4, <1>5 DEF Outdate
<1>7. ASSUME NEW q \in Pushers, q # p
      PROVE  pusher'[q] = IF pusher[q] # IdlePusher /\ pusher[q].at = "send"
                          THEN [pusher[q] EXCEPT !.dirty = @ \cup changed] ELSE pusher[q]
  BY <1>4, <1>5, <1>7 DEF Outdate
<1>8. ASSUME NEW q \in Pushers, q # p, pusher[q] # IdlePusher, pusher[q].at = "send"
      PROVE  /\ pusher'[q] \in PushTasks /\ pusher'[q].at = "send" /\ pusher'[q].dirty = pusher[q].dirty \cup changed
             /\ pusher'[q].work = pusher[q].work /\ pusher'[q].conns = pusher[q].conns
             /\ pusher'[q].rows = pusher[q].rows /\ pusher'[q].conn = pusher[q].conn
             /\ pusher'[q].parts = pusher[q].parts
  <2>1. PICK z : z = pusher[q] OBVIOUS
  <2>2. z \in PushTasks /\ z.at = "send" BY <1>5, <1>8, <2>1
  <2> DEFINE y == [z EXCEPT !.dirty = z.dirty \cup changed]
  <2>3. pusher'[q] = y BY <1>7, <1>8, <2>1
  <2>4. /\ y \in PushTasks /\ y.at = "send" /\ y.dirty = z.dirty \cup changed /\ y.work = z.work
        /\ y.conns = z.conns /\ y.rows = z.rows /\ y.conn = z.conn /\ y.parts = z.parts
    BY <1>1, <2>2 DEF PushTasks
  <2> HIDE DEF y
  <2> QED BY <2>1, <2>3, <2>4
<1>9. \A q \in Pushers : pusher'[q] \in PushTasks \cup {IdlePusher}
  <2> TAKE q \in Pushers
  <2>1. CASE q = p BY <2>1, <1>3, <1>6
  <2>2. CASE q # p /\ pusher[q] # IdlePusher /\ pusher[q].at = "send" BY <2>2, <1>8
  <2>3. CASE q # p /\ ~ (pusher[q] # IdlePusher /\ pusher[q].at = "send") BY <2>3, <1>5, <1>7
  <2> QED BY <2>1, <2>2, <2>3
<1>10. PushersOK'
  <2>1. pusher' \in [Pushers -> PushTasks \cup {IdlePusher}] BY <1>4, <1>9 DEF Outdate
  <2>2. begun' \in Nat BY <1>4 DEF CSInv, PushersOK
  <2> QED BY <2>1, <2>2 DEF PushersOK
<1>11. CSTypeOK'
  <2>1. sold' \in [Dates -> Nat] BY <1>4, <1>5
  <2> QED BY <2>1, <1>1, <1>4 DEF CSInv, CSTypeOK
<1>12. \A d \in Dates \ changed : sold'[d] = sold[d] BY <1>1, <1>4, <1>5
<1>13. PushesOK'
  <2> SUFFICES ASSUME NEW q \in Pushers, pusher'[q] # IdlePusher
               PROVE  Sound(pusher'[q]) /\ Fresh(pusher'[q], sold')
    BY DEF PushesOK
  <2>1. CASE q = p
    <3>1. work # <<>> /\ pusher'[q] = Pushing(work) BY <2>1, <1>2, <1>6
    <3> QED BY <3>1 DEF Sound, Fresh, Pushing
  <2>2. CASE q # p /\ pusher[q] # IdlePusher /\ pusher[q].at = "send"
    <3>1. Sound(pusher[q]) /\ Fresh(pusher[q], sold) BY <2>2 DEF CSInv, PushesOK
    <3>2. Sound(pusher'[q]) BY <2>2, <1>8, <3>1 DEF Sound
    <3>3. \A d \in DatesOf(pusher[q].work[1].window) \ pusher'[q].dirty : sold'[d] = sold[d]
      BY <2>2, <1>8, <1>12 DEF DatesOf
    <3>4. Fresh(pusher'[q], sold') BY <2>2, <1>8, <3>1, <3>3 DEF Fresh
    <3> QED BY <3>2, <3>4
  <2>3. CASE q # p /\ ~ (pusher[q] # IdlePusher /\ pusher[q].at = "send")
    <3>1. pusher'[q] = pusher[q] BY <2>3, <1>7
    <3>2. Sound(pusher[q]) /\ pusher[q].at # "send" BY <2>3, <3>1 DEF CSInv, PushesOK
    <3> QED BY <3>1, <3>2 DEF Fresh
  <2> QED BY <2>1, <2>2, <2>3
<1>14. AllHandled'
  <2> SUFFICES ASSUME NEW c \in Connections, NEW d \in Dates, <<c, d>> \notin excused'
               PROVE  Right(c, d)' \/ \E q \in Pushers : Owes(pusher'[q], c, d)
    BY DEF AllHandled
  <2>1. <<c, d>> \notin excused BY <1>4
  <2>2. CASE d \in changed
    <3>1. work # <<>> /\ \E i \in 1 .. Len(work) : Brings(work[i], c, d) BY <1>1, <1>4, <2>2
    <3>2. PICK i \in 1 .. Len(work) : Brings(work[i], c, d) BY <3>1
    <3>3. Len(work) \in Nat BY LenProperties
    <3>4. i = 1 \/ i \in 2 .. Len(work) BY <3>2, <3>3
    <3>5. x \in PushTasks /\ x.at = "list" /\ x.work = work BY <1>2, <3>1, PushesTyped DEF Pushing
    <3>6. Owes(x, c, d) BY <3>2, <3>4, <3>5, TasksAreBusy DEF Owes, Untold
    <3> QED BY <3>6, <1>6
  <2>3. CASE d \notin changed /\ Right(c, d)
    <3>1. sold'[d] = sold[d] BY <2>3, <1>12
    <3> QED BY <2>3, <3>1, <1>4 DEF Right
  <2>4. ASSUME NEW q \in Pushers, Owes(pusher[q], c, d) PROVE Owes(pusher'[q], c, d)
    <3>1. q # p /\ pusher[q] # IdlePusher BY <2>4, <1>4 DEF Owes
    <3>2. CASE pusher[q].at = "send" BY <3>1, <3>2, <2>4, <1>8, TasksAreBusy DEF Owes, Untold
    <3>3. CASE pusher[q].at # "send" BY <3>1, <3>3, <2>4, <1>7
    <3> QED BY <3>2, <3>3
  <2> QED BY <2>1, <2>2, <2>3, <2>4 DEF CSInv, AllHandled
<1> QED BY <1>10, <1>11, <1>13, <1>14 DEF CSInv

\* The handlers of the reservation events, and those that tell nobody.
LEMMA SalesKeep ==
  ASSUME CSInv, NEW p \in Pushers,
         \/ \E w \in Windows : ReservationCreated(p, w) \/ ReservationCancelled(p, w)
         \/ \E old, new \in Windows : ReservationModified(p, old, new) \/ ChannelModified(p, old, new)
         \/ \E w \in Windows : Silently(p, Book(w)) \/ Silently(p, Free(w))
  PROVE  CSInv'
<1>1. \A w \in Windows :
        /\ Book(w) \in [Dates -> Int] /\ Free(w) \in [Dates -> Int]
        /\ \A d \in Dates : Book(w)[d] # 0 \/ Free(w)[d] # 0 => d \in DatesOf(w)
  <2> TAKE w \in Windows
  <2>1. w.to \in Int /\ \A d \in Dates : d \in Int BY ChannelSyncAssumption DEF Windows
  <2>2. NightsOf(w) \subseteq DatesOf(w)
    <3> SUFFICES ASSUME NEW d \in NightsOf(w) PROVE d \in DatesOf(w) OBVIOUS
    <3>1. d \in Dates /\ w.from <= d /\ d < w.to BY DEF NightsOf
    <3>2. d <= w.to BY <2>1, <3>1
    <3> QED BY <3>1, <3>2 DEF DatesOf
  <2> QED BY <2>2 DEF Book, Free
<1>2. \A old, new \in Windows :
        /\ Move(old, new) \in [Dates -> Int]
        /\ \A d \in Dates : Move(old, new)[d] # 0 => d \in DatesOf(old) \cup DatesOf(new)
  <2> TAKE old, new \in Windows
  <2>1. \A d \in Dates : Book(new)[d] \in Int /\ Free(old)[d] \in Int BY <1>1
  <2> QED BY <1>1, <2>1 DEF Move
<1>3. \A w \in Windows : Push("availability", w, "all") \in Pushes BY PushesTyped
<1>4. \A w \in Windows, c \in Connections : \A d \in DatesOf(w) : Brings(Push("availability", w, "all"), c, d)
  BY DEF Brings, Push
<1>5. ASSUME NEW w \in Windows, ReservationCreated(p, w) \/ ReservationCancelled(p, w) PROVE CSInv'
  <2> DEFINE work == <<Push("availability", w, "all")>>
  <2>1. work \in Seq(Pushes) /\ work # <<>> /\ Len(work) = 1 /\ work[1] = Push("availability", w, "all")
    BY <1>3
  <2>2. PICK delta \in [Dates -> Int] : /\ delta \in {Book(w), Free(w)}
                                        /\ Change(p, delta, work, {})
    BY <1>1, <1>5 DEF ReservationCreated, ReservationCancelled
  <2> HIDE DEF work
  <2>3. \A d \in Dates : delta[d] # 0 =>
          work # <<>> /\ \A c \in Connections : \E i \in 1 .. Len(work) : Brings(work[i], c, d)
    BY <1>1, <1>4, <2>1, <2>2
  <2> QED BY <2>1, <2>2, <2>3, SaleChanges
<1>6. ASSUME NEW old \in Windows, NEW new \in Windows, ReservationModified(p, old, new) PROVE CSInv'
  <2> DEFINE work == BothWindows(old, new)
  <2>1. work \in Seq(Pushes) BY <1>3 DEF BothWindows
  <2>2. /\ work # <<>> /\ \E i \in 1 .. Len(work) : work[i] = Push("availability", new, "all")
        /\ \E i \in 1 .. Len(work) : work[i] = Push("availability", old, "all")
    <3>1. CASE old = new BY <3>1 DEF BothWindows
    <3>2. CASE old # new
      <4>1. Len(work) = 2 /\ work[1] = Push("availability", new, "all") /\ work[2] = Push("availability", old, "all")
        BY <3>2 DEF BothWindows
      <4> QED BY <4>1
    <3> QED BY <3>1, <3>2
  <2>3. PICK delta \in [Dates -> Int] : delta = Move(old, new) BY <1>2
  <2>4. Change(p, delta, work, {}) BY <1>6, <2>3 DEF ReservationModified
  <2> HIDE DEF work
  <2>5. \A d \in Dates : delta[d] # 0 =>
          work # <<>> /\ \A c \in Connections : \E i \in 1 .. Len(work) : Brings(work[i], c, d)
    BY <1>2, <1>4, <2>2, <2>3
  <2> QED BY <2>1, <2>4, <2>5, SaleChanges
<1>7. ASSUME NEW old \in Windows, NEW new \in Windows, ChannelModified(p, old, new) PROVE CSInv'
  <2> DEFINE work == <<Push("availability", new, "all")>>
             untold == DatesOf(old) \ DatesOf(new)
  <2>1. work \in Seq(Pushes) /\ work # <<>> /\ Len(work) = 1 /\ work[1] = Push("availability", new, "all")
    BY <1>3
  <2>2. PICK delta \in [Dates -> Int] : delta = Move(old, new) BY <1>2
  <2>3. Change(p, delta, work, untold) BY <1>7, <2>2 DEF ChannelModified
  <2> HIDE DEF work
  <2>4. untold \in SUBSET Dates BY DEF DatesOf
  <2>5. \A d \in Dates \ untold : delta[d] # 0 =>
          work # <<>> /\ \A c \in Connections : \E i \in 1 .. Len(work) : Brings(work[i], c, d)
    BY <1>2, <1>4, <2>1, <2>2
  <2> HIDE DEF untold
  <2> QED BY <2>1, <2>3, <2>4, <2>5, SaleChanges
<1>8. ASSUME NEW w \in Windows, Silently(p, Book(w)) \/ Silently(p, Free(w)) PROVE CSInv'
  <2>1. PICK delta \in [Dates -> Int] : Change(p, delta, <<>>, Dates) BY <1>1, <1>8 DEF Silently
  <2>2. <<>> \in Seq(Pushes) OBVIOUS
  <2> QED BY <2>1, <2>2, SaleChanges
<1> QED BY <1>5, <1>6, <1>7, <1>8

LEMMA CSStep == CSInv /\ [CSNext]_csVars => CSInv'
<1> SUFFICES ASSUME CSInv, [CSNext]_csVars PROVE CSInv' OBVIOUS
<1>1. ASSUME NEW p \in Pushers,
             \/ \E w \in Windows : ReservationCreated(p, w) \/ ReservationCancelled(p, w)
             \/ \E old, new \in Windows : ReservationModified(p, old, new) \/ ChannelModified(p, old, new)
             \/ \E w \in Windows : Silently(p, Book(w)) \/ Silently(p, Free(w))
      PROVE  CSInv'
  BY <1>1, SalesKeep
<1>2. ASSUME NEW p \in Pushers, NEW w \in Windows, NEW to \in Connections \cup {"all"},
             PushAvailability(p, w, to) \/ PushRates(p, w, to) \/ PushFullARI(p, w, to) \/ PushStopSell(p, w, to)
      PROVE  CSInv'
  <2>1. \A k \in {"availability", "rates", "stop_sell"} : Push(k, w, to) \in Pushes BY PushesTyped
  <2>2. ASSUME NEW work \in Seq(Pushes), work # <<>>, ByHand(p, work) PROVE CSInv' BY <2>2, HandPushes
  <2>3. \A k \in {"availability", "rates", "stop_sell"} : ByHand(p, <<Push(k, w, to)>>) => CSInv'
    <3> TAKE k \in {"availability", "rates", "stop_sell"}
    <3> DEFINE one == <<Push(k, w, to)>>
    <3>1. one \in Seq(Pushes) BY <2>1
    <3>2. one # <<>> OBVIOUS
    <3> HIDE DEF one
    <3>3. ByHand(p, one) => CSInv' BY <3>1, <3>2, <2>2
    <3> QED BY <3>3 DEF one
  <2>4. CASE PushFullARI(p, w, to)
    <3> DEFINE both == <<Push("availability", w, to), Push("rates", w, to)>>
    <3>1. both \in Seq(Pushes) BY <2>1
    <3>2. both # <<>> OBVIOUS
    <3>3. ByHand(p, both) BY <2>4 DEF PushFullARI
    <3> HIDE DEF both
    <3> QED BY <3>1, <3>2, <3>3, <2>2
  <2> QED BY <1>2, <2>3, <2>4 DEF PushAvailability, PushRates, PushStopSell
<1>3. ASSUME NEW p \in Pushers, ListConnections(p) PROVE CSInv' BY <1>3, Listed
<1>4. ASSUME NEW p \in Pushers, NEW c \in Connections, NEW closed \in BOOLEAN, ReadAvailability(p, c, closed)
      PROVE  CSInv'
  BY <1>4, AvailabilityRead
<1>5. ASSUME NEW p \in Pushers, SendAccepted(p) \/ SendRejected(p) PROVE CSInv' BY <1>5, SendWasAccepted, SendWasRejected
<1>6. ASSUME NEW p \in Pushers, NEW taken \in BOOLEAN, SendLost(p, taken) PROVE CSInv' BY <1>6, SendWasLost
<1>7. ASSUME NEW p \in Pushers, LogSync(p) \/ NextWindow(p) \/ CutOff(p) PROVE CSInv'
  BY <1>7, Logged, Onwards, BrokenOff
<1>8. ASSUME NEW c \in Connections,
             \/ \E s \in {"active", "error"}, k \in Controls : UpdateConnection(c, s, k)
             \/ Deactivate(c)
      PROVE  CSInv'
  BY <1>8, RowEdited
<1>9. CASE UNCHANGED csVars
  <2>1. CSTypeOK' /\ PushersOK' BY <1>9 DEF csVars, CSInv, CSTypeOK, PushersOK
  <2>2. PushesOK' BY <1>9 DEF csVars, CSInv, PushesOK
  <2>3. \A c \in Connections, d \in Dates : Right(c, d)' = Right(c, d) BY <1>9 DEF csVars, Right
  <2>4. AllHandled' BY <1>9, <2>3 DEF csVars, CSInv, AllHandled
  <2> QED BY <2>1, <2>2, <2>4 DEF CSInv
<1> QED BY <1>1, <1>2, <1>3, <1>4, <1>5, <1>6, <1>7, <1>8, <1>9 DEF CSNext

\* The invariant of the pushes.
THEOREM ChannelsInvariant == CSSpec => []CSInv
<1>1. CSInit => CSInv BY CSInitially
<1>2. CSInv /\ [CSNext]_csVars => CSInv' BY CSStep
<1> QED BY <1>1, <1>2, PTL DEF CSSpec

\* Rows, channels and handlers keep their types.
THEOREM ChannelsTypeCorrect == CSSpec => [](CSTypeOK /\ PushersOK)
<1>1. CSInv => CSTypeOK /\ PushersOK BY DEF CSInv
<1> QED BY <1>1, ChannelsInvariant, PTL

\* For any number of channels, dates, rooms and handlers: when nobody is at work, a channel
\* offers what there is to offer, except where an excuse of the history says why not.
THEOREM ChannelsAreCurrent == CSSpec => []ChannelIsCurrent
<1>1. CSInv => ChannelIsCurrent
  <2> SUFFICES ASSUME CSInv, \A q \in Pushers : pusher[q] = IdlePusher,
                      NEW c \in Connections, NEW d \in Dates, <<c, d>> \notin excused
               PROVE  shown[c][d] = Offered(conn[c].controls, sold[d])
    BY DEF ChannelIsCurrent
  <2>1. ~ \E q \in Pushers : Owes(pusher[q], c, d) BY DEF Owes
  <2> QED BY <2>1 DEF CSInv, AllHandled, Right
<1> QED BY <1>1, ChannelsInvariant, PTL

-----------------------------------------------------------------------------
(* The overrides of rates: one for each key, and what was asked for.       *)

Entries == [plan : Plans, range : Ranges, adjust : Adjustments, by : Nat]

ConfigWrites ==
  [op : {"write"}, result : SUBSET Entries, dropped : SUBSET (Plans \X Ranges), added : SUBSET Overrides]

RPTypeOK ==
  /\ overrides \subseteq Entries /\ expected \subseteq Overrides
  /\ writer \in [Writers -> ConfigWrites \cup {None}]
  /\ started \in Nat /\ overlapping \in BOOLEAN

\* A list without the order of its entries.
Plain(os) == {[plan |-> o.plan, range |-> o.range, adjust |-> o.adjust] : o \in os}

OneEach(os) == \A o, x \in os : o.plan = x.plan /\ o.range = x.range => o = x

\* What a writer was asked for, done to a set of overrides.
Asked(x, os) == {o \in os : <<o.plan, o.range>> \notin x.dropped} \cup x.added

\* Every list has one override for a key at most; and while writers have never overlapped,
\* there is at most one of them, and the list it will write is the stored one with what it
\* was asked for.
ListsOK ==
  /\ OneEach(overrides) /\ (overlapping \/ expected = Plain(overrides))
  /\ \A w \in Writers : writer[w] # None =>
       /\ OneEach(writer[w].result)
       /\ \/ overlapping
          \/ /\ \A v \in Writers \ {w} : writer[v] = None
             /\ Plain(writer[w].result) = Asked(writer[w], Plain(overrides))

RPInv == RPTypeOK /\ ListsOK

LEMMA RPInitially == RPInit => RPInv
<1> SUFFICES ASSUME RPInit PROVE RPInv OBVIOUS
<1>1. RPTypeOK BY DEF RPInit, RPTypeOK
<1>2. \A w \in Writers : writer[w] = None BY DEF RPInit
<1>3. OneEach(overrides) BY DEF RPInit, OneEach
<1>4. Plain(overrides) = {} /\ expected = {} BY DEF RPInit, Plain
<1>5. ListsOK BY <1>2, <1>3, <1>4 DEF ListsOK
<1> QED BY <1>1, <1>5 DEF RPInv

LEMMA WritesAreBusy ==
  ASSUME NEW x \in ConfigWrites PROVE x # None
BY DEF ConfigWrites, None

\* A writer begins, with a list that is the stored one with what it was asked for.
LEMMA WriteBegins ==
  ASSUME RPInv, NEW w \in Writers, NEW result \in SUBSET Entries,
         NEW dropped \in SUBSET (Plans \X Ranges), NEW added \in SUBSET Overrides,
         OneEach(result),
         Plain(result) = {o \in Plain(overrides) : <<o.plan, o.range>> \notin dropped} \cup added,
         BeginWrite(w, result, dropped, added)
  PROVE  RPInv'
<1>1. PICK x : x = [op |-> "write", result |-> result, dropped |-> dropped, added |-> added] OBVIOUS
<1>2. /\ x \in ConfigWrites /\ x.result = result /\ x.dropped = dropped /\ x.added = added BY <1>1 DEF ConfigWrites
<1>3. /\ writer[w] = None /\ started' = started + 1 /\ UNCHANGED <<overrides, expected>>
      /\ writer' = [writer EXCEPT ![w] = x]
      /\ overlapping' = (overlapping \/ \E v \in Writers \ {w} : writer[v] # None)
  BY <1>1 DEF BeginWrite
<1>4. writer \in [Writers -> ConfigWrites \cup {None}] BY DEF RPInv, RPTypeOK
<1>5. writer'[w] = x /\ \A v \in Writers \ {w} : writer'[v] = writer[v] BY <1>3, <1>4
<1>6. RPTypeOK'
  <2>1. overlapping' \in BOOLEAN BY <1>3 DEF RPInv, RPTypeOK
  <2>2. writer' \in [Writers -> ConfigWrites \cup {None}] BY <1>2, <1>3, <1>4
  <2> QED BY <1>3, <2>1, <2>2 DEF RPInv, RPTypeOK
<1>7. overlapping => overlapping' BY <1>3
<1>8. ASSUME NEW v \in Writers, writer'[v] # None
      PROVE  /\ OneEach(writer'[v].result)
             /\ \/ overlapping'
                \/ /\ \A u \in Writers \ {v} : writer'[u] = None
                   /\ Plain(writer'[v].result) = Asked(writer'[v], Plain(overrides))
  <2>1. CASE v = w
    <3>1. Plain(writer'[v].result) = Asked(writer'[v], Plain(overrides)) BY <1>2, <1>5, <2>1 DEF Asked
    <3>2. overlapping' \/ \A u \in Writers \ {v} : writer'[u] = None BY <1>3, <1>5, <2>1
    <3> QED BY <1>2, <1>5, <2>1, <3>1, <3>2
  <2>2. CASE v # w
    <3>1. writer'[v] = writer[v] /\ overlapping' BY <1>3, <1>5, <1>8, <2>2
    <3> QED BY <1>8, <2>2, <3>1 DEF RPInv, ListsOK
  <2> QED BY <2>1, <2>2
<1>9. ListsOK' BY <1>3, <1>7, <1>8 DEF RPInv, ListsOK
<1> QED BY <1>6, <1>9 DEF RPInv

\* Dropping a key from a list and from the set of what it holds is the same.
LEMMA PlainWithout ==
  ASSUME NEW os \in SUBSET Entries, NEW plan, NEW range
  PROVE  /\ Without(os, plan, range) \subseteq os
         /\ Plain(Without(os, plan, range)) = {o \in Plain(os) : <<o.plan, o.range>> \notin {<<plan, range>>}}
         /\ \A o \in Without(os, plan, range) : ~(o.plan = plan /\ o.range = range)
BY DEF Without, SameKey, Plain, Entries

LEMMA OverrideIsSet ==
  ASSUME RPInv, NEW w \in Writers, NEW o \in Overrides, SetRateOverride(w, o)
  PROVE  RPInv'
<1>1. PICK e : e = Entry(o, started + 1) OBVIOUS
<1>2. /\ e \in Entries /\ e.plan = o.plan /\ e.range = o.range /\ e.adjust = o.adjust
  BY <1>1 DEF Entry, Entries, Overrides, RPInv, RPTypeOK
<1>3. PICK rest \in SUBSET Entries :
        /\ rest = Without(overrides, o.plan, o.range)
        /\ Plain(rest) = {x \in Plain(overrides) : <<x.plan, x.range>> \notin {<<o.plan, o.range>>}}
        /\ \A x \in rest : ~(x.plan = o.plan /\ x.range = o.range)
        /\ OneEach(rest)
  <2>1. OneEach(overrides) BY DEF RPInv, ListsOK
  <2>2. overrides \in SUBSET Entries BY DEF RPInv, RPTypeOK
  <2> QED BY <2>1, <2>2, PlainWithout DEF OneEach
<1>4. PICK result : result = rest \cup {e} OBVIOUS
<1>5. result \in SUBSET Entries BY <1>2, <1>4
<1>6. OneEach(result) BY <1>2, <1>3, <1>4 DEF OneEach
<1>7. [plan |-> e.plan, range |-> e.range, adjust |-> e.adjust] = o BY <1>2 DEF Overrides
<1>8. Plain(result) = Plain(rest) \cup {o} BY <1>4, <1>7 DEF Plain
<1>9. {o} \in SUBSET Overrides /\ {<<o.plan, o.range>>} \in SUBSET (Plans \X Ranges) BY DEF Overrides
<1>10. BeginWrite(w, result, {<<o.plan, o.range>>}, {o}) BY <1>1, <1>3, <1>4 DEF SetRateOverride
<1> QED BY <1>3, <1>5, <1>6, <1>8, <1>9, <1>10, WriteBegins

LEMMA OverrideIsRemoved ==
  ASSUME RPInv, NEW w \in Writers, NEW plan \in Plans, NEW range \in Ranges, RemoveRateOverride(w, plan, range)
  PROVE  RPInv'
<1>1. PICK rest \in SUBSET Entries :
        /\ rest = Without(overrides, plan, range)
        /\ Plain(rest) = {x \in Plain(overrides) : <<x.plan, x.range>> \notin {<<plan, range>>}}
        /\ OneEach(rest)
  <2>1. OneEach(overrides) BY DEF RPInv, ListsOK
  <2>2. overrides \in SUBSET Entries BY DEF RPInv, RPTypeOK
  <2> QED BY <2>1, <2>2, PlainWithout DEF OneEach
<1>2. BeginWrite(w, rest, {<<plan, range>>}, {}) BY <1>1 DEF RemoveRateOverride
<1>3. {<<plan, range>>} \in SUBSET (Plans \X Ranges) OBVIOUS
<1>4. Plain(rest) = {x \in Plain(overrides) : <<x.plan, x.range>> \notin {<<plan, range>>}} \cup {} BY <1>1
<1> QED BY <1>1, <1>2, <1>3, <1>4, WriteBegins

LEMMA ConfigIsReplaced ==
  ASSUME RPInv, NEW w \in Writers, UpdateConfig(w)
  PROVE  RPInv'
<1>1. overrides \in SUBSET Entries /\ OneEach(overrides) BY DEF RPInv, RPTypeOK, ListsOK
<1>2. Plain(overrides) = {x \in Plain(overrides) : <<x.plan, x.range>> \notin {}} \cup {} OBVIOUS
<1>3. BeginWrite(w, overrides, {}, {}) BY DEF UpdateConfig
<1> QED BY <1>1, <1>2, <1>3, WriteBegins

\* The list that is written was computed from the stored one, unless writers have overlapped.
LEMMA ListIsWritten ==
  ASSUME RPInv, NEW w \in Writers, Write(w)
  PROVE  RPInv'
<1>1. PICK x : x = writer[w] OBVIOUS
<1>2. x # None /\ x \in ConfigWrites BY <1>1 DEF Write, RPInv, RPTypeOK
<1>3. /\ overrides' = x.result /\ expected' = Asked(x, expected)
      /\ writer' = [writer EXCEPT ![w] = None] /\ UNCHANGED <<started, overlapping>>
  BY <1>1 DEF Write, Asked
<1>4. writer \in [Writers -> ConfigWrites \cup {None}] BY DEF RPInv, RPTypeOK
<1>5. writer'[w] = None /\ \A v \in Writers \ {w} : writer'[v] = writer[v] BY <1>3, <1>4
<1>6. RPTypeOK'
  <2>1. x.result \subseteq Entries /\ x.added \subseteq Overrides BY <1>2 DEF ConfigWrites
  <2>2. Asked(x, expected) \subseteq Overrides BY <2>1 DEF Asked, RPInv, RPTypeOK
  <2>3. writer' \in [Writers -> ConfigWrites \cup {None}] BY <1>3, <1>4
  <2> QED BY <1>3, <2>1, <2>2, <2>3 DEF RPInv, RPTypeOK
<1>7. OneEach(x.result) BY <1>1, <1>2 DEF RPInv, ListsOK
<1>8. overlapping \/ Asked(x, expected) = Plain(x.result) BY <1>1, <1>2 DEF RPInv, ListsOK
<1>9. overlapping \/ \A v \in Writers : writer'[v] = None BY <1>1, <1>2, <1>5 DEF RPInv, ListsOK
<1>10. \A v \in Writers : writer'[v] # None => OneEach(writer'[v].result) BY <1>5 DEF RPInv, ListsOK
<1>11. ListsOK' BY <1>3, <1>7, <1>8, <1>9, <1>10 DEF ListsOK
<1> QED BY <1>6, <1>11 DEF RPInv

LEMMA RPStep == RPInv /\ [RPNext]_rpVars => RPInv'
<1> SUFFICES ASSUME RPInv, [RPNext]_rpVars PROVE RPInv' OBVIOUS
<1>1. CASE UNCHANGED rpVars
  <2>1. RPTypeOK' BY <1>1 DEF rpVars, RPInv, RPTypeOK
  <2>2. ListsOK' BY <1>1 DEF rpVars, RPInv, ListsOK
  <2> QED BY <2>1, <2>2 DEF RPInv
<1> QED BY <1>1, OverrideIsSet, OverrideIsRemoved, ConfigIsReplaced, ListIsWritten DEF RPNext

\* Without dated overrides of a plan both readings take the first of them all.
LEMMA ParityTells == ParityTellsTheRate
<1> SUFFICES ASSUME NEW plan \in Plans, \A o \in Of(plan) : ~Dated(o), NEW day \in Days \cup {NoDate}
             PROVE  /\ EffectiveRate(plan, day) = ParityRate(plan)
                    /\ IsParity(plan) => AbsDiff(EffectiveRate(plan, day), PushedRate) < 100
  BY DEF ParityTellsTheRate
<1>1. {o \in Of(plan) : day # NoDate /\ Covers(o, day)} = {} BY DEF Covers
<1>2. {o \in Of(plan) : ~Dated(o)} = Of(plan) BY DEF Of
<1>3. EffectiveRate(plan, day) = ParityRate(plan) BY <1>1, <1>2 DEF EffectiveRate, ParityRate
<1> QED BY <1>3 DEF IsParity, PushedRate

\* The overrides and the requests about them keep their types.
THEOREM ParityTypeCorrect == RPSpec => []RPTypeOK
<1>1. RPInv => RPTypeOK BY DEF RPInv
<1> QED BY <1>1, RPInitially, RPStep, PTL DEF RPSpec

\* For any number of plans, dates and writers: one override for a plan and its dates; what
\* was set last and not removed is stored, unless two writers have overlapped; and the two
\* ways to read a rate agree where no dates are involved.
THEOREM OverridesStay == RPSpec => []OverridesKept
<1>1. RPInv => OverridesKept
  BY ParityTells DEF RPInv, ListsOK, OneEach, Plain, OverridesKept, OneOverridePerKey, NoOverrideLost
<1> QED BY <1>1, RPInitially, RPStep, PTL DEF RPSpec
=================================================================================
