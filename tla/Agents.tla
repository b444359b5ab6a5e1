-------------------------------- MODULE Agents --------------------------------
(***************************************************************************)
(* The decisions of the AI agents: a run stores what the agent recommends, *)
(* and executes it at once on autopilot; somebody at the desk approves or  *)
(* rejects what is pending.  Two of the nine agents do something when they *)
(* execute and are modelled here: guest_comms sends a mail about a         *)
(* reservation, review_response drafts the answer to a guest's review.     *)
(*                                                                         *)
(* A decision row is read once and written by its id: nothing claims it.   *)
(* Handlers run between each other's statements and may be cut off at any  *)
(* of them.                                                                *)
(***************************************************************************)
EXTENDS Naturals, FiniteSets, Sequences

CONSTANTS
  Reservations,  \* guests who may be written to
  Reviews,       \* reviews that may be entered
  Clerks,        \* handlers in flight at once
  MaxDecisions,  \* bound: decision rows stored
  MaxRuns        \* bound: requests and runs started

ASSUME AgentsAssumption ==
  /\ Reservations \cap Reviews = {}
  /\ MaxDecisions \in Nat /\ MaxRuns \in Nat

VARIABLES
  setup,      \* of an agent: its configuration row
  decision,   \* the decision rows, numbered
  mail,       \* mails that have gone out about a reservation
  review,     \* of a review: none, or the status of its answer
  clerk,      \* handlers in flight
  launched,   \* handlers started so far
  disputed,   \* decisions two handlers held at once, or one left half way (history)
  reanalysed  \* reservations that were analysed with a mail still open (history)

agVars == <<setup, decision, mail, review, clerk, launched, disputed, reanalysed>>

AgentTypes == {"guest_comms", "review_response"}

NoDecision == 0

FreeClerk == [at |-> "free"]

\* A run asks for autopilot and nothing else: manual is one with suggest.
Modes == {"suggest", "autopilot"}

\* getOrCreateConfig: a row that nobody has written yet is off, and suggests only.
DefaultConfig == [enabled |-> FALSE, mode |-> "suggest"]

AGInit ==
  /\ setup \in [AgentTypes -> {DefaultConfig} \cup [enabled : {TRUE}, mode : Modes]]
  /\ decision = <<>>
  /\ mail = [r \in Reservations |-> 0]
  /\ review = [v \in Reviews |-> "none"]
  /\ clerk = [k \in Clerks |-> FreeClerk] /\ launched = 0
  /\ disputed = {} /\ reanalysed = {}

-----------------------------------------------------------------------------
BeginRun(k, task) ==
  /\ clerk[k] = FreeClerk
  /\ launched < MaxRuns /\ launched' = launched + 1
  /\ clerk' = [clerk EXCEPT ![k] = task]

GoOn(k, at) == clerk' = [clerk EXCEPT ![k].at = at]

Leave(k) == clerk' = [clerk EXCEPT ![k] = FreeClerk]

Decided(d) == decision[d].status \in {"approved", "auto_executed"}

\* The handlers that hold decision d.
Holders(d) ==
  {k \in Clerks : clerk[k].at \in {"execute", "mark", "reject"} /\ clerk[k].row = d}

\* A request that is answered at once.
RunRequest == launched < MaxRuns /\ launched' = launched + 1

\* updateConfig; the row is there, or the upsert has just made it.
UpdateAgent(a, enabled, mode) ==
  /\ RunRequest
  /\ setup' = [setup EXCEPT ![a] = [enabled |-> enabled, mode |-> mode]]
  /\ UNCHANGED <<decision, mail, review, clerk, disputed, reanalysed>>

\* A clerk edits, approves or posts the answer to a review.
UpdateReview(v, status) ==
  /\ review[v] # "none" /\ RunRequest
  /\ review' = [review EXCEPT ![v] = status]
  /\ UNCHANGED <<setup, decision, mail, clerk, disputed, reanalysed>>

-----------------------------------------------------------------------------
(* A run of an agent.                                                      *)

\* Mutant: a mail that is pending is taken for sent, one that was sent is not.
PendingOnly(r) ==
  \E d \in DOMAIN decision :
    decision[d].agent = "guest_comms" /\ decision[d].subject = r /\ decision[d].status = "pending"

\* A mail about r that was approved or executed counts as sent, however it went.
WasMailed(r) ==
  \E d \in DOMAIN decision :
    decision[d].agent = "guest_comms" /\ decision[d].subject = r /\ Decided(d)

\* analyze and recommend of guest_comms: the arrivals that are due, whose guest
\* has consented and has not been written to.
MailsFor(due) == {r \in due : ~WasMailed(r)}

\* analyze of review_response: the review that has just come in, or the pending ones.
PendingReviews == {v \in Reviews : review[v] = "pending"}

\* What a run works on: the mode it has read and its recommendations.
RunTask(a, todo) ==
  [at |-> "store", agent |-> a, auto |-> setup[a].mode = "autopilot",
   todo |-> todo, row |-> NoDecision]

\* A run of guest_comms that may have mails left to store.
Mailing(k) ==
  clerk[k].at \in {"store", "execute", "mark"} /\ clerk[k].agent = "guest_comms"

\* A reservation is analysed while an earlier mail about it is not decided yet.
StillOpen(due) ==
  {r \in due : \/ \E d \in DOMAIN decision :
                    /\ decision[d].agent = "guest_comms" /\ decision[d].subject = r
                    /\ decision[d].status = "pending"
               \/ \E k \in Clerks : Mailing(k) /\ r \in clerk[k].todo}

\* A manual run of guest_comms; a disabled agent is skipped.
RunGuestComms(k, due) ==
  /\ setup["guest_comms"].enabled
  /\ BeginRun(k, RunTask("guest_comms", MailsFor(due)))
  /\ reanalysed' = reanalysed \cup StillOpen(due)
  /\ UNCHANGED <<setup, decision, mail, review, disputed>>

RunReviewResponse(k) ==
  /\ setup["review_response"].enabled
  /\ BeginRun(k, RunTask("review_response", PendingReviews))
  /\ UNCHANGED <<setup, decision, mail, review, disputed, reanalysed>>

\* createReview stores the review and runs the agent for it.
CreateReview(k, v) ==
  /\ review[v] = "none"
  /\ review' = [review EXCEPT ![v] = "pending"]
  /\ IF setup["review_response"].enabled
     THEN BeginRun(k, RunTask("review_response", {v}))
     ELSE RunRequest /\ UNCHANGED clerk
  /\ UNCHANGED <<setup, decision, mail, disputed, reanalysed>>

\* The next recommendation is stored as pending; on autopilot it is executed if its
\* confidence (guest_comms: fixed, review_response: by the topics covered) reaches
\* the threshold.
StoreDecision(k, confident) ==
  LET d == Len(decision) + 1
  IN /\ clerk[k].at = "store"
     /\ Len(decision) < MaxDecisions
     /\ \E s \in clerk[k].todo :
          /\ decision' = Append(decision, [agent |-> clerk[k].agent, subject |-> s,
                                           status |-> "pending", done |-> 0, error |-> FALSE])
          /\ clerk' = [clerk EXCEPT ![k].todo = @ \ {s}, ![k].row = d,
                                    ![k].at = IF clerk[k].auto /\ confident THEN "execute" ELSE "store"]
     /\ UNCHANGED <<setup, mail, review, launched, disputed, reanalysed>>

\* Nothing is left to store: lastRunAt is set and the run announced.
FinishRun(k) ==
  /\ clerk[k].at = "store" /\ clerk[k].todo = {}
  /\ Leave(k)
  /\ UNCHANGED <<setup, decision, mail, review, launched, disputed, reanalysed>>

-----------------------------------------------------------------------------
(* execute, and what follows it.                                           *)

Done(d) == decision' = [decision EXCEPT ![d].done = @ + 1]

\* guest_comms: the mail goes out, or the transport fails or is not configured;
\* the caller does not look at the result.  review_response: the answer is written
\* over whatever the review has become.
Effect(d) ==
  LET s == decision[d].subject
  IN \/ /\ decision[d].agent = "guest_comms"
        /\ \/ mail' = [mail EXCEPT ![s] = @ + 1]
           \/ UNCHANGED mail
        /\ UNCHANGED review
     \/ /\ decision[d].agent = "review_response"
        /\ review' = [review EXCEPT ![s] = "drafted"]
        /\ UNCHANGED mail

ExecuteDecision(k) ==
  LET d == clerk[k].row
  IN /\ clerk[k].at = "execute"
     /\ Effect(d) /\ Done(d) /\ GoOn(k, "mark")
     /\ UNCHANGED <<setup, launched, disputed, reanalysed>>

\* The row is written by its id, whatever it has become.
MarkDecision(k) ==
  LET d == clerk[k].row
      auto == clerk[k].agent # "nobody"
  IN /\ clerk[k].at = "mark"
     /\ decision' = [decision EXCEPT ![d].status = IF auto THEN "auto_executed" ELSE "approved"]
     /\ IF auto THEN GoOn(k, "store") ELSE Leave(k)
     /\ UNCHANGED <<setup, mail, review, launched, disputed, reanalysed>>

\* In a run, executing or marking throws: the decision is rejected with its error.
\* (An approval that throws is cut off: CutOff.)
FailDecision(k) ==
  LET d == clerk[k].row
  IN /\ clerk[k].at \in {"execute", "mark"} /\ clerk[k].agent # "nobody"
     /\ decision' = [decision EXCEPT ![d].status = "rejected", ![d].error = TRUE]
     /\ GoOn(k, "store")
     /\ UNCHANGED <<setup, mail, review, launched, disputed, reanalysed>>

-----------------------------------------------------------------------------
(* The desk.                                                               *)

\* Mutant: whatever has not been rejected may be taken up.
NotRejected(d) == decision[d].status # "rejected"

Pending(d) == decision[d].status = "pending"

\* approveDecision and rejectDecision read the row and look at its status.
Take(k, d, at) ==
  /\ Pending(d)
  /\ BeginRun(k, [at |-> at, agent |-> "nobody", row |-> d])
  /\ disputed' = IF Holders(d) # {} THEN disputed \cup {d} ELSE disputed
  /\ UNCHANGED <<setup, decision, mail, review, reanalysed>>

ApproveDecision(k, d) == Take(k, d, "execute")

RejectDecision(k, d) == Take(k, d, "reject")

MarkRejected(k) ==
  /\ clerk[k].at = "reject"
  /\ decision' = [decision EXCEPT ![clerk[k].row].status = "rejected"]
  /\ Leave(k)
  /\ UNCHANGED <<setup, mail, review, launched, disputed, reanalysed>>

\* A statement throws, or the server stops: what was executed stays unmarked.
CutOffRun(k) ==
  /\ clerk[k] # FreeClerk
  /\ Leave(k)
  /\ disputed' = IF clerk[k].at = "mark" THEN disputed \cup {clerk[k].row} ELSE disputed
  /\ UNCHANGED <<setup, decision, mail, review, launched, reanalysed>>

-----------------------------------------------------------------------------
AGNext ==
  \/ \E a \in AgentTypes, on \in BOOLEAN, mode \in Modes :
       UpdateAgent(a, on, mode)
  \/ \E v \in Reviews, s \in {"pending", "drafted", "approved", "posted"} : UpdateReview(v, s)
  \/ \E k \in Clerks :
       \/ \E due \in SUBSET Reservations : RunGuestComms(k, due)
       \/ RunReviewResponse(k)
       \/ \E v \in Reviews : CreateReview(k, v)
       \/ \E confident \in BOOLEAN : StoreDecision(k, confident)
       \/ FinishRun(k)
       \/ ExecuteDecision(k) \/ MarkDecision(k) \/ FailDecision(k)
       \/ \E d \in DOMAIN decision : ApproveDecision(k, d) \/ RejectDecision(k, d)
       \/ MarkRejected(k)
       \/ CutOffRun(k)

AGSpec == AGInit /\ [][AGNext]_agVars

-----------------------------------------------------------------------------
(* Properties.                                                             *)

\* Rows, effects and handlers keep their types.
AGTypeOK ==
  /\ setup \in [AgentTypes -> [enabled : BOOLEAN, mode : Modes]]
  /\ decision \in Seq([agent : AgentTypes, subject : Reservations \cup Reviews,
                       status : {"pending", "approved", "rejected", "auto_executed"},
                       done : Nat, error : BOOLEAN])
  /\ mail \in [Reservations -> Nat]
  /\ review \in [Reviews -> {"none", "pending", "drafted", "approved", "posted"}]
  /\ disputed \subseteq DOMAIN decision /\ reanalysed \subseteq Reservations

\* The status of a decision says what has happened: an approved or automatic one
\* was executed, once; one the desk has rejected never was; unless two handlers
\* held it at once or one was cut off between executing and marking.
StatusIsTrue ==
  \A d \in DOMAIN decision \ disputed :
    /\ decision[d].done <= 1
    /\ Decided(d) => decision[d].done = 1
    /\ decision[d].status = "rejected" /\ ~decision[d].error => decision[d].done = 0

\* A guest is not written to twice about a reservation, unless it was analysed again
\* with a mail still open, or a decision about it was disputed or failed after it
\* was executed.
OneMailPerReservation ==
  \A r \in Reservations \ reanalysed :
    mail[r] > 1 => \E d \in DOMAIN decision :
                     decision[d].subject = r /\ (d \in disputed \/ decision[d].error)
=============================================================================
