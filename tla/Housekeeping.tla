----------------------------- MODULE Housekeeping -----------------------------
(***************************************************************************)
(* Housekeeping tasks, the room statuses they move, and the listener that  *)
(* turns a dirty room into a task.                                         *)
(*                                                                         *)
(* Every task handler reads the task, then claims its transition with a    *)
(* conditional UPDATE; completing and inspecting go on to move the room,   *)
(* each move a read, a check and an UPDATE by id.  A room that becomes     *)
(* vacant_dirty is announced inside the process, and the listener, which   *)
(* nobody awaits, looks for a checkout task and creates one.  The tasks    *)
(* are those of one service date; notes, checklists and priorities are     *)
(* left out.                                                               *)
(***************************************************************************)
EXTENDS Naturals, Sequences, FiniteSets, RoomStateMachine

CONSTANTS
  Tasks,         \* task rows that may come to exist
  Rooms,
  Requests,      \* handlers in flight at once
  Housekeepers,
  NoOne,         \* assigned_to is null
  NoTask,        \* the handler works on no task
  ManualTypes,   \* task types that are created by hand
  PatchTargets,  \* room statuses that staff and the front desk ask for
  MaxHandlers      \* bound: handlers started in all

ASSUME HousekeepingAssumption ==
  /\ Rooms # {} /\ NoOne \notin Housekeepers /\ NoTask \notin Tasks
  /\ PatchTargets \subseteq RoomStatus
  /\ MaxHandlers \in Nat

VARIABLES
  requireInspection, \* properties.settings.requireInspection
  status,    \* housekeeping_tasks.status
  doer,      \* housekeeping_tasks.assigned_to
  about,     \* type and room of the task
  room,      \* rooms.status
  looking,   \* listeners that have yet to look for a checkout task
  creating,  \* listeners that have found none
  req,       \* handlers in flight
  handled,   \* handlers started so far
  passed,    \* rooms inspected since they were last dirty (history)
  raced,     \* rooms whose status was written over a concurrent change (history)
  uncared,   \* dirty rooms whose task was closed, or never made (history)
  contended  \* <<type, room>>: two looked for the same task at once, or a hand made one

taskVars == <<status, doer, about>>
history == <<passed, raced, uncared, contended>>
hkVars == <<requireInspection, taskVars, room, looking, creating, req, handled, history>>

Generated == {"checkout", "stayover"}

Types == Generated \cup {"maintenance"} \cup ManualTypes

\* The statuses each handler asks for, when it reads the task and again when it
\* claims it, and the status it writes.
ClaimOf(op) ==
  CASE op = "assign"   -> [from |-> {"pending"}, to |-> "assigned"]
    [] op = "start"    -> [from |-> {"assigned"}, to |-> "in_progress"]
    [] op = "unassign" -> [from |-> {"assigned"}, to |-> "pending"]
    [] op = "complete" -> [from |-> {"in_progress"},
                           to |-> IF requireInspection THEN "completed" ELSE "inspected"]
    [] op = "pass"     -> [from |-> {"completed"}, to |-> "inspected"]
    [] op = "fail"     -> [from |-> {"completed"}, to |-> "pending"]
    [] op = "skip"     -> [from |-> {"pending", "assigned"}, to |-> "skipped"]

Claims == {"assign", "start", "unassign", "complete", "pass", "fail", "skip"}

Ops == Claims \cup {"autoAssign", "delete", "create", "generate", "transitionStatus"}

Awaits == {"read", "claim", "delete", "getStatus", "readRoom", "writeRoom", "look", "create"}

\* A handler at work: its task and room, the room statuses it still has to write,
\* the tasks or rooms a batch still has to go through, whether a completed task
\* asks for maintenance, the type it creates, and whether nobody else has written
\* its room since its claim (history).
Handling(op, at, t, r) ==
  [op |-> op, at |-> at, task |-> t, room |-> r, todo |-> <<>>, batch |-> {},
   flag |-> FALSE, type |-> "maintenance", alone |-> TRUE]

IdleHandler == [op |-> "idle"]

HandlerRecord ==
  [op : Ops, at : Awaits, task : Tasks \cup {NoTask}, room : Rooms,
   todo : Seq(RoomStatus), batch : SUBSET (Tasks \cup Rooms), flag : BOOLEAN,
   type : Types, alone : BOOLEAN]

\* Guests are in the rooms, or have just left them.
HKInit ==
  /\ requireInspection \in BOOLEAN
  /\ status = [t \in Tasks |-> "none"]
  /\ doer = [t \in Tasks |-> NoOne]
  /\ about = [t \in Tasks |-> <<"checkout", CHOOSE r \in Rooms : TRUE>>]
  /\ room \in [Rooms -> {"occupied", "vacant_dirty"}]
  /\ looking = [r \in Rooms |-> IF room[r] = "vacant_dirty" THEN 1 ELSE 0]
  /\ creating = [r \in Rooms |-> 0]
  /\ req = [q \in Requests |-> IdleHandler] /\ handled = 0
  /\ passed = {} /\ raced = {} /\ uncared = {} /\ contended = {}

-----------------------------------------------------------------------------
(* Requests and tasks.                                                     *)

Launch(q, request) ==
  /\ req[q] = IdleHandler
  /\ handled < MaxHandlers /\ handled' = handled + 1
  /\ req' = [req EXCEPT ![q] = request]

EndHandler(q) == req' = [req EXCEPT ![q] = IdleHandler]

Exists(t) == status[t] \notin {"none", "deleted"}

RoomOf(t) == about[t][2]

\* Closed tasks do not keep the listener from creating a new one.
Open(t) == status[t] \notin {"none", "deleted", "skipped", "inspected"}

OfKind(type, r) == {t \in Tasks : Exists(t) /\ about[t] = <<type, r>>}

\* Mutant: a task of the day that is closed counts as well.
AliveOrClosed(type, r) == OfKind(type, r)

\* The checkout tasks the listener looks for, and the stayover tasks that
\* generateStayoverTasks looks for.
Alive(type, r) == {t \in OfKind(type, r) : type = "stayover" \/ Open(t)}

\* The row changes; a checkout task that is closed while its room is dirty leaves
\* the room without one.
WriteTask(t, to, by) ==
  /\ status' = [status EXCEPT ![t] = to]
  /\ doer' = [doer EXCEPT ![t] = by]
  /\ uncared' = IF /\ about[t][1] = "checkout" /\ room[RoomOf(t)] = "vacant_dirty"
                   /\ to \in {"deleted", "skipped", "inspected"}
                THEN uncared \cup {RoomOf(t)} ELSE uncared
  /\ UNCHANGED about

\* create inserts a pending task.
Insert(type, r) ==
  \E t \in Tasks :
    /\ status[t] = "none"
    /\ status' = [status EXCEPT ![t] = "pending"]
    /\ about' = [about EXCEPT ![t] = <<type, r>>]
    /\ UNCHANGED doer

-----------------------------------------------------------------------------
(* Handlers of one task.                                                   *)

\* findByIdRaw and the check of the status.
BeginHandler(q, op, t, flag) ==
  /\ status[t] \in ClaimOf(op).from
  /\ Launch(q, [Handling(op, "claim", t, RoomOf(t)) EXCEPT !.flag = flag])
  /\ UNCHANGED <<requireInspection, taskVars, room, looking, creating, history>>

Assign(q, t) == BeginHandler(q, "assign", t, FALSE)

StartTask(q, t) == BeginHandler(q, "start", t, FALSE)

Unassign(q, t) == BeginHandler(q, "unassign", t, FALSE)

SkipTask(q, t) == BeginHandler(q, "skip", t, FALSE)

\* Whoever completes a task may say that the room needs maintenance.
CompleteTask(q, t) == \E flag \in BOOLEAN : BeginHandler(q, "complete", t, flag)

InspectTask(q, t) == \E verdict \in {"pass", "fail"} : BeginHandler(q, verdict, t, FALSE)

\* autoAssign selects the pending tasks and assigns them one by one.
AutoAssign(q) ==
  LET pending == {t \in Tasks : status[t] = "pending"}
  IN /\ pending # {}
     /\ \E r \in Rooms :
          Launch(q, [Handling("autoAssign", "read", NoTask, r) EXCEPT !.batch = pending])
     /\ UNCHANGED <<requireInspection, taskVars, room, looking, creating, history>>

\* One task of the batch is done with, assigned or skipped.
NextOfBatch(q, x) ==
  LET rest == req[q].batch \ {x}
  IN IF rest = {} THEN EndHandler(q)
     ELSE req' = [req EXCEPT ![q].batch = rest,
                             ![q].at = IF req[q].op = "generate" THEN "look" ELSE "read"]

\* assign reads the next task of the batch: one that is no longer pending is
\* skipped, one that is gone ends the batch.
ReadNext(q) ==
  /\ req[q] # IdleHandler /\ req[q].at = "read"
  /\ \E t \in req[q].batch :
       IF ~Exists(t) THEN EndHandler(q)
       ELSE IF status[t] # "pending" THEN NextOfBatch(q, t)
       ELSE req' = [req EXCEPT ![q].at = "claim", ![q].task = t]
  /\ UNCHANGED <<requireInspection, taskVars, room, looking, creating, handled, history>>

OpOf(request) == IF request.op = "autoAssign" THEN "assign" ELSE request.op

\* Mutant: the claim is an UPDATE by id.
ClaimAnyStatus(t, op) == Exists(t)

\* The WHERE clause of claimTaskTransition.
Claimable(t, op) == status[t] \in ClaimOf(op).from

\* Who is responsible after a claim.
DoerAfter(t, op) ==
  IF op = "assign" THEN Housekeepers
  ELSE IF op \in {"unassign", "fail"} THEN {NoOne} ELSE {doer[t]}

\* What a handler does once its claim has won: completing looks at the room,
\* a passed inspection moves it, a batch goes on, the others return.
AfterClaim(q) ==
  LET r == req[q]
  IN CASE r.op = "complete" -> req' = [req EXCEPT ![q].at = "getStatus", ![q].alone = TRUE]
       [] r.op = "pass" -> req' = [req EXCEPT ![q].at = "readRoom", ![q].alone = TRUE,
                                             ![q].todo = <<"inspected", "guest_ready">>]
       [] r.op = "autoAssign" -> NextOfBatch(q, r.task)
       [] OTHER -> EndHandler(q)

ClaimTransition(q) ==
  LET r == req[q]
      op == OpOf(r)
      to == ClaimOf(op).to
  IN /\ r # IdleHandler /\ r.at = "claim"
     /\ \/ /\ Claimable(r.task, op)
           /\ \E by \in DoerAfter(r.task, op) : WriteTask(r.task, to, by)
           /\ AfterClaim(q)
           /\ passed' = IF to = "inspected" THEN passed \cup {r.room} ELSE passed
        \/ /\ ~Claimable(r.task, op)
           /\ IF r.op = "autoAssign" /\ Exists(r.task) THEN NextOfBatch(q, r.task) ELSE EndHandler(q)
           /\ UNCHANGED <<taskVars, uncared, passed>>
     /\ UNCHANGED <<requireInspection, room, looking, creating, handled, raced, contended>>

\* delete reads a task that is neither begun nor done, and deletes it by id.
Delete(q, t) ==
  /\ Exists(t) /\ status[t] \notin {"in_progress", "completed", "inspected"}
  /\ Launch(q, Handling("delete", "delete", t, RoomOf(t)))
  /\ UNCHANGED <<requireInspection, taskVars, room, looking, creating, history>>

DeleteRow(q) ==
  LET t == req[q].task
  IN /\ req[q] # IdleHandler /\ req[q].at = "delete"
     /\ IF Exists(t) THEN WriteTask(t, "deleted", doer[t]) ELSE UNCHANGED <<taskVars, uncared>>
     /\ EndHandler(q)
     /\ UNCHANGED <<requireInspection, room, looking, creating, handled, passed, raced, contended>>

-----------------------------------------------------------------------------
(* Creating tasks.                                                         *)

\* create, from the controller.
Create(q, type, r) ==
  /\ Launch(q, [Handling("create", "create", NoTask, r) EXCEPT !.type = type])
  /\ contended' = IF type \in Generated THEN contended \cup {<<type, r>>} ELSE contended
  /\ UNCHANGED <<requireInspection, taskVars, room, looking, creating, passed, raced, uncared>>

\* generateStayoverTasks reads the occupied rooms and goes through them.
GenerateStayoverTasks(q) ==
  LET occupied == {r \in Rooms : room[r] = "occupied"}
      others == {p \in Requests : req[p] # IdleHandler /\ req[p].op = "generate"}
  IN /\ \E r \in occupied :
          Launch(q, [Handling("generate", "look", NoTask, r) EXCEPT !.batch = occupied,
                                                                !.type = "stayover"])
     /\ contended' = IF others = {} THEN contended
                     ELSE contended \cup ({"stayover"} \X Rooms)
     /\ UNCHANGED <<requireInspection, taskVars, room, looking, creating, passed, raced, uncared>>

\* It creates a task unless the room has one, in whatever status, for the day.
LookForStayover(q) ==
  /\ req[q] # IdleHandler /\ req[q].at = "look"
  /\ \E r \in req[q].batch :
       IF Alive("stayover", r) # {} THEN NextOfBatch(q, r)
       ELSE req' = [req EXCEPT ![q].at = "create", ![q].room = r]
  /\ UNCHANGED <<requireInspection, taskVars, room, looking, creating, handled, history>>

InsertTask(q) ==
  LET r == req[q]
  IN /\ r # IdleHandler /\ r.at = "create"
     /\ Insert(r.type, r.room)
     /\ IF r.op = "generate" THEN NextOfBatch(q, r.room) ELSE EndHandler(q)
     /\ UNCHANGED <<requireInspection, room, looking, creating, handled, history>>

-----------------------------------------------------------------------------
(* Rooms.                                                                  *)

\* transitionStatus, called by staff and by the front desk.
PatchRoom(q, r, target) ==
  /\ Launch(q, [Handling("transitionStatus", "readRoom", NoTask, r) EXCEPT !.todo = <<target>>])
  /\ UNCHANGED <<requireInspection, taskVars, room, looking, creating, history>>

\* Mutant: completing readies the room whether or not it has to be inspected.
ReadyAtOnce(q) ==
  LET clean == IF room[req[q].room] = "vacant_dirty" THEN <<"clean">> ELSE <<>>
  IN /\ req[q] # IdleHandler /\ req[q].at = "getStatus"
     /\ req' = [req EXCEPT ![q].todo = clean \o <<"inspected", "guest_ready">>, ![q].at = "readRoom"]
     /\ UNCHANGED <<requireInspection, taskVars, room, looking, creating, handled, history>>

\* completeTask cleans the room only if it is dirty; without inspections it also
\* takes it to guest_ready.
GetRoomStatus(q) ==
  LET r == req[q]
      clean == IF room[r.room] = "vacant_dirty" THEN <<"clean">> ELSE <<>>
      todo == clean \o (IF requireInspection THEN <<>> ELSE <<"inspected", "guest_ready">>)
  IN /\ r # IdleHandler /\ r.at = "getStatus"
     /\ IF todo # <<>> THEN req' = [req EXCEPT ![q].todo = todo, ![q].at = "readRoom"]
        ELSE IF r.flag THEN req' = [req EXCEPT ![q].at = "create"]
        ELSE EndHandler(q)
     /\ UNCHANGED <<requireInspection, taskVars, room, looking, creating, handled, history>>

\* transitionStatus throws, and the handler with it, when the status it reads
\* has no such edge: the claim stays.
ReadRoom(q) ==
  LET r == req[q]
  IN /\ r # IdleHandler /\ r.at = "readRoom"
     /\ IF ValidRoomTransition(room[r.room], Head(r.todo))
        THEN req' = [req EXCEPT ![q].at = "writeRoom"]
        ELSE EndHandler(q)
     /\ UNCHANGED <<requireInspection, taskVars, room, looking, creating, handled, history>>

\* Where a handler goes on once the room is written.
AfterWrite(r) ==
  IF Tail(r.todo) # <<>> THEN [r EXCEPT !.todo = Tail(@), !.at = "readRoom"]
  ELSE IF r.op = "complete" /\ r.flag THEN [r EXCEPT !.todo = <<>>, !.at = "create"]
  ELSE IdleHandler

\* The room is written by id, and the write is announced to the listener.
WriteRoom(q) ==
  LET r == req[q]
      rm == r.room
      to == Head(r.todo)
      dirty == to = "vacant_dirty"
  IN /\ r # IdleHandler /\ r.at = "writeRoom"
     /\ room' = [room EXCEPT ![rm] = to]
     /\ looking' = IF dirty THEN [looking EXCEPT ![rm] = @ + 1] ELSE looking
     /\ req' = [p \in Requests |->
                  IF p = q THEN AfterWrite(r)
                  ELSE IF req[p] # IdleHandler /\ req[p].room = rm THEN [req[p] EXCEPT !.alone = FALSE]
                  ELSE req[p]]
     /\ passed' = IF dirty THEN passed \ {rm}
                  ELSE IF to = "inspected" /\ r.op = "transitionStatus" THEN passed \cup {rm}
                  ELSE passed
     /\ raced' = IF ~r.alone THEN raced \cup {rm} ELSE IF dirty THEN raced \ {rm} ELSE raced
     /\ uncared' = IF dirty THEN uncared \ {rm} ELSE uncared
     /\ contended' = IF dirty /\ looking[rm] + creating[rm] > 0
                     THEN contended \cup {<<"checkout", rm>>} ELSE contended
     /\ UNCHANGED <<requireInspection, taskVars, creating, handled>>

-----------------------------------------------------------------------------
(* The listener, handleRoomStatusChanged.                                  *)

\* Mutant: the listener does not look.
CreateAlways(r) ==
  /\ looking[r] > 0
  /\ looking' = [looking EXCEPT ![r] = @ - 1]
  /\ creating' = [creating EXCEPT ![r] = @ + 1]
  /\ UNCHANGED <<requireInspection, taskVars, room, req, handled, history>>

LookForCheckout(r) ==
  /\ looking[r] > 0
  /\ looking' = [looking EXCEPT ![r] = @ - 1]
  /\ creating' = IF Alive("checkout", r) # {} THEN creating
                 ELSE [creating EXCEPT ![r] = @ + 1]
  /\ UNCHANGED <<requireInspection, taskVars, room, req, handled, history>>

CreateCheckout(r) ==
  /\ creating[r] > 0
  /\ creating' = [creating EXCEPT ![r] = @ - 1]
  /\ Insert("checkout", r)
  /\ UNCHANGED <<requireInspection, room, looking, req, handled, history>>

-----------------------------------------------------------------------------
\* A statement throws or the server stops: what a handler has written stays.
Abort(q) ==
  /\ req[q] # IdleHandler
  /\ EndHandler(q)
  /\ UNCHANGED <<requireInspection, taskVars, room, looking, creating, handled, history>>

\* So it is with a listener, and nobody repeats what it has not done.
LoseListener(r) ==
  /\ \/ looking[r] > 0 /\ looking' = [looking EXCEPT ![r] = @ - 1] /\ UNCHANGED creating
     \/ creating[r] > 0 /\ creating' = [creating EXCEPT ![r] = @ - 1] /\ UNCHANGED looking
  /\ uncared' = uncared \cup {r}
  /\ UNCHANGED <<requireInspection, taskVars, room, req, handled, passed, raced, contended>>

Handler(q) ==
  \/ \E t \in Tasks :
       \/ Assign(q, t) \/ StartTask(q, t) \/ Unassign(q, t) \/ SkipTask(q, t)
       \/ CompleteTask(q, t) \/ InspectTask(q, t) \/ Delete(q, t)
  \/ AutoAssign(q) \/ ReadNext(q) \/ ClaimTransition(q) \/ DeleteRow(q)
  \/ \E r \in Rooms : \/ \E type \in ManualTypes : Create(q, type, r)
                      \/ \E target \in PatchTargets : PatchRoom(q, r, target)
  \/ GenerateStayoverTasks(q) \/ LookForStayover(q) \/ InsertTask(q)
  \/ GetRoomStatus(q) \/ ReadRoom(q) \/ WriteRoom(q)
  \/ Abort(q)

Listener(r) == LookForCheckout(r) \/ CreateCheckout(r) \/ LoseListener(r)

HKNext == (\E q \in Requests : Handler(q)) \/ (\E r \in Rooms : Listener(r))

HKSpec == HKInit /\ [][HKNext]_hkVars

-----------------------------------------------------------------------------
(* Properties.                                                             *)

TaskStatus ==
  {"none", "pending", "assigned", "in_progress", "completed", "inspected",
   "skipped", "deleted"}

\* Tasks, rooms, listeners and requests keep their types.
HKTypeOK ==
  /\ requireInspection \in BOOLEAN
  /\ status \in [Tasks -> TaskStatus]
  /\ doer \in [Tasks -> Housekeepers \cup {NoOne}]
  /\ about \in [Tasks -> Types \X Rooms]
  /\ room \in [Rooms -> RoomStatus]
  /\ looking \in [Rooms -> Nat] /\ creating \in [Rooms -> Nat]
  /\ req \in [Requests -> HandlerRecord \cup {IdleHandler}]
  /\ handled \in 0..MaxHandlers
  /\ passed \subseteq Rooms /\ raced \subseteq Rooms /\ uncared \subseteq Rooms
  /\ contended \subseteq Generated \X Rooms

Lifecycle == INSTANCE TaskLifecycle WITH status <- status, doer <- doer

\* However requests, batches and deletions interleave, and wherever one of them
\* stops, a task walks along its graph, and somebody is responsible for it from
\* its assignment to the end of its inspection.
ImplementsTaskLifecycle == Lifecycle!Spec

\* No room is handed to a guest that nobody has inspected since it was last
\* dirty (or, where inspections are waived, cleaned), unless another writer has
\* come between a handler's claim and its write of the room.
ReadyRoomWasInspected ==
  \A r \in Rooms : room[r] = "guest_ready" /\ r \notin raced => r \in passed

\* A dirty room has a checkout task that is still open: the listener takes an
\* unfinished one for today's, and creates one otherwise.  Left alone are rooms
\* whose task is closed while they are dirty (skipped, deleted, or inspected
\* after the room was taken out of order) and those whose listener was lost.
DirtyRoomHasTask ==
  \A r \in Rooms :
    room[r] = "vacant_dirty" /\ looking[r] + creating[r] = 0 /\ r \notin uncared
      => \E t \in OfKind("checkout", r) : Open(t)

\* A room never has two open checkout tasks, nor two stayover tasks for a day,
\* unless two listeners or two generators ran at once or one was made by hand.
NoDuplicateTasks ==
  \A type \in Generated, r \in Rooms :
    <<type, r>> \notin contended => Cardinality(Alive(type, r)) <= 1
=============================================================================
