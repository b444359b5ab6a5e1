---------------------------- MODULE WebhookDelivery ----------------------------
(***************************************************************************)
(* Deliveries of events to one subscription: the row per event, the first  *)
(* attempt that is fired without being awaited, and the scanner that every *)
(* 30 seconds takes up the rows that are due, whether or not its last scan *)
(* has ended.  An attempt reads the row, posts, and writes the outcome by  *)
(* id; the process may stop anywhere in it and be started again.           *)
(***************************************************************************)
EXTENDS Naturals

CONSTANTS
  Deliveries,   \* events that match the subscription, one delivery each
  Workers,      \* first attempts and scans that may run at once
  MaxAttempts,  \* length of the retry schedule
  MaxFaults     \* bound on statements that throw and on restarts

ASSUME DeliveryAssumption ==
  /\ Deliveries # {}
  /\ MaxAttempts \in Nat \ {0}
  /\ MaxFaults \in Nat

VARIABLES
  status,      \* webhook_deliveries.status; "absent" and "matched" before the row is there
  attempts,    \* its attempts
  nextRetry,   \* its nextRetryAt: null, in the future, or past
  active,      \* the subscription's isActive
  run,         \* the attempts and scans in progress
  faults,      \* faults so far
  posts,       \* POSTs that have been answered or timed out (MaxAttempts stands for more)
  accepted     \* deliveries the subscriber has answered with 2xx

vars == <<status, attempts, nextRetry, active, run, faults, posts, accepted>>

row == <<status, attempts, nextRetry>>

DeliveryStatus == {"absent", "matched", "pending", "delivered", "failed"}

NextRetry == {"null", "future", "past"}

\* A worker at rest, and one at step "at" of the attempt on delivery d, with
\* the rows its scan has found and not come to yet.
Idle == [at |-> "idle", d |-> CHOOSE d \in Deliveries : TRUE, rest |-> {}, number |-> 0]

Steps == {"load", "subscription", "inactive", "post", "success", "failure"}

Attempt == [at : Steps, d : Deliveries, rest : SUBSET Deliveries, number : 0..MaxAttempts]

Init ==
  /\ status = [d \in Deliveries |-> "absent"]
  /\ attempts = [d \in Deliveries |-> 0]
  /\ nextRetry = [d \in Deliveries |-> "null"]
  /\ active = TRUE
  /\ run = [w \in Workers |-> Idle]
  /\ faults = 0
  /\ posts = [d \in Deliveries |-> 0]
  /\ accepted = {}

-----------------------------------------------------------------------------
(* Events and subscription.                                                *)

\* handleEvent finds the active subscription for an event that matches it.
HandleEvent(d) ==
  /\ status[d] = "absent" /\ active
  /\ status' = [status EXCEPT ![d] = "matched"]
  /\ UNCHANGED <<attempts, nextRetry, active, run, faults, posts, accepted>>

\* enqueue inserts the row and fires the first attempt.
Enqueue(w, d) ==
  /\ status[d] = "matched" /\ run[w] = Idle
  /\ status' = [status EXCEPT ![d] = "pending"]
  /\ run' = [run EXCEPT ![w] = [at |-> "load", d |-> d, rest |-> {}, number |-> 0]]
  /\ UNCHANGED <<attempts, nextRetry, active, faults, posts, accepted>>

\* A subscription is deleted by deactivating it.
DeleteSubscription ==
  /\ active /\ active' = FALSE
  /\ UNCHANGED <<row, run, faults, posts, accepted>>

\* A retry falls due.
Elapse(d) ==
  /\ nextRetry[d] = "future"
  /\ nextRetry' = [nextRetry EXCEPT ![d] = "past"]
  /\ UNCHANGED <<status, attempts, active, run, faults, posts, accepted>>

-----------------------------------------------------------------------------
(* An attempt.                                                             *)

\* Mutant: rows that were never attempted are left to their first attempt.
DuePast(d) == status[d] = "pending" /\ nextRetry[d] = "past"

\* What the scan looks for.
Due(d) == status[d] = "pending" /\ nextRetry[d] \in {"null", "past"}

\* processPending reads the due rows, in any order, and attempts them in turn.
ProcessPending(w) ==
  LET due == {d \in Deliveries : Due(d)}
  IN /\ run[w] = Idle
     /\ \E d \in due :
          run' = [run EXCEPT ![w] = [at |-> "load", d |-> d, rest |-> due \ {d}, number |-> 0]]
     /\ UNCHANGED <<row, active, faults, posts, accepted>>

Resume(w, at) == run' = [run EXCEPT ![w].at = at]

\* The attempt returns: the scan goes on to its next row, if it has any.
Return(w) ==
  \/ /\ run[w].rest = {}
     /\ run' = [run EXCEPT ![w] = Idle]
  \/ \E d \in run[w].rest :
       run' = [run EXCEPT ![w] = [at |-> "load", d |-> d, rest |-> @.rest \ {d}, number |-> 0]]

\* attemptDelivery reads the row again.
Load(w) ==
  /\ run[w].at = "load"
  /\ IF status[run[w].d] = "pending"
     THEN run' = [run EXCEPT ![w].at = "subscription", ![w].number = attempts[run[w].d] + 1]
     ELSE Return(w)
  /\ UNCHANGED <<row, active, faults, posts, accepted>>

ReadSubscription(w) ==
  /\ run[w].at = "subscription"
  /\ Resume(w, IF active THEN "post" ELSE "inactive")
  /\ UNCHANGED <<row, active, faults, posts, accepted>>

\* Nobody to deliver to.
FailInactive(w) ==
  /\ run[w].at = "inactive"
  /\ status' = [status EXCEPT ![run[w].d] = "failed"]
  /\ Return(w)
  /\ UNCHANGED <<attempts, nextRetry, active, faults, posts, accepted>>

\* Mutant: any answer is a success.
OutcomeOfAny(ok) == "success"

\* resp.ok decides.
Outcome(ok) == IF ok THEN "success" ELSE "failure"

\* The subscriber accepts, or it refuses, is not reached, or has not answered
\* when the request times out (although it may have seen the event).
Post(w) ==
  LET d == run[w].d
  IN /\ run[w].at = "post"
     /\ \E ok \in BOOLEAN :
          /\ accepted' = IF ok THEN accepted \cup {d} ELSE accepted
          /\ Resume(w, Outcome(ok))
     /\ posts' = [posts EXCEPT ![d] = IF @ < MaxAttempts THEN @ + 1 ELSE @]
     /\ UNCHANGED <<row, active, faults>>

\* The outcome is written by id, whatever the row holds by now.
RecordSuccess(w) ==
  LET d == run[w].d
  IN /\ run[w].at = "success"
     /\ status' = [status EXCEPT ![d] = "delivered"]
     /\ attempts' = [attempts EXCEPT ![d] = run[w].number]
     /\ nextRetry' = [nextRetry EXCEPT ![d] = "null"]
     /\ Return(w)
     /\ UNCHANGED <<active, faults, posts, accepted>>

\* Mutant: the schedule is exhausted one attempt early.
ExhaustedEarly(number) == number + 1 >= MaxAttempts

Exhausted(number) == number >= MaxAttempts

RecordFailure(w) ==
  LET d == run[w].d
      n == run[w].number
  IN /\ run[w].at = "failure"
     /\ status' = [status EXCEPT ![d] = IF Exhausted(n) THEN "failed" ELSE "pending"]
     /\ attempts' = [attempts EXCEPT ![d] = n]
     /\ nextRetry' = [nextRetry EXCEPT ![d] = IF Exhausted(n) THEN "null" ELSE "future"]
     /\ Return(w)
     /\ UNCHANGED <<active, faults, posts, accepted>>

\* A statement throws: the attempt, and with it the whole scan, is given up.
Throw(w) ==
  /\ run[w] # Idle /\ faults < MaxFaults
  /\ run' = [run EXCEPT ![w] = Idle]
  /\ faults' = faults + 1
  /\ UNCHANGED <<row, active, posts, accepted>>

\* The process stops and is started again.  Only the rows survive; events that
\* had been matched but not inserted are forgotten.
Restart ==
  /\ faults < MaxFaults
  /\ run' = [w \in Workers |-> Idle]
  /\ status' = [d \in Deliveries |-> IF status[d] = "matched" THEN "absent" ELSE status[d]]
  /\ faults' = faults + 1
  /\ UNCHANGED <<attempts, nextRetry, active, posts, accepted>>

-----------------------------------------------------------------------------
Proceed(w) ==
  \/ \E d \in Deliveries : Enqueue(w, d)
  \/ Load(w) \/ ReadSubscription(w) \/ FailInactive(w) \/ Post(w)
  \/ RecordSuccess(w) \/ RecordFailure(w)

Next ==
  \/ \E d \in Deliveries : HandleEvent(d) \/ Elapse(d)
  \/ \E w \in Workers : Proceed(w) \/ ProcessPending(w) \/ Throw(w)
  \/ DeleteSubscription
  \/ Restart

\* The event loop runs every handler that can go on, time passes, and the scan
\* timer fires for ever.  Nothing makes an event happen or a fault stay away.
Fairness ==
  /\ \A w \in Workers : WF_vars(Proceed(w))
  /\ WF_vars(\E w \in Workers : ProcessPending(w))
  /\ \A d \in Deliveries : WF_vars(Elapse(d))

Spec == Init /\ [][Next]_vars /\ Fairness

-----------------------------------------------------------------------------
(* Properties.                                                             *)

\* Every variable has its type; no attempt is numbered beyond the schedule.
TypeOK ==
  /\ status \in [Deliveries -> DeliveryStatus]
  /\ attempts \in [Deliveries -> 0..MaxAttempts]
  /\ nextRetry \in [Deliveries -> NextRetry]
  /\ active \in BOOLEAN
  /\ run \in [Workers -> Attempt \cup {Idle}]
  /\ faults \in 0..MaxFaults
  /\ posts \in [Deliveries -> 0..MaxAttempts]
  /\ accepted \subseteq Deliveries

\* A delivery is only recorded as delivered when the subscriber has said so,
\* however the attempts on it overlap.
DeliveredWasAccepted == \A d \in Deliveries : status[d] = "delivered" => d \in accepted

\* While the subscription is there, no event is given up before it was posted as
\* often as the schedule says.  Overlapping attempts lose counts; they never gain any.
NoEarlyGivingUp ==
  \A d \in Deliveries : status[d] = "failed" /\ active => posts[d] = MaxAttempts

\* Every delivery comes to rest, as delivered or failed, although attempts are
\* cut off half way and a slow one may put a finished row back to pending.
EveryDeliverySettles == \A d \in Deliveries : <>[](status[d] # "pending")

=============================================================================
