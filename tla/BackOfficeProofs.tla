---------------------------- MODULE BackOfficeProofs ----------------------------
(***************************************************************************)
(* Proofs about the parts behind the desk that share no state, each for    *)
(* every number of handlers, rows and requests.  Housekeeping: tasks walk  *)
(* along the graph of TaskLifecycle, rooms that are ready have been        *)
(* inspected, dirty rooms have a task, and only one.  Then the             *)
(* administration of a property, the decisions of the agents and the       *)
(* screens of the dashboard.                                               *)
(***************************************************************************)
EXTENDS Housekeeping, PropertyAdmin, Agents, LiveDesks, FiniteSetTheorems, SequenceTheorems, TLAPS

-----------------------------------------------------------------------------
(* Housekeeping: the inductive invariant.                                  *)

\* The room statuses a handler may still have to write.
Chains(op) ==
  CASE op = "complete" -> {<<"clean">>, <<"clean", "inspected", "guest_ready">>,
                           <<"inspected", "guest_ready">>, <<"guest_ready">>}
    [] op = "pass" -> {<<"inspected", "guest_ready">>, <<"guest_ready">>}
    [] op = "transitionStatus" -> {<<to>> : to \in PatchTargets}

\* What a handler is about at each of its steps.
HandlerOK(x) ==
  /\ x.op = "autoAssign" => x.at \in {"read", "claim"} /\ x.batch \subseteq Tasks
  /\ x.op = "generate" => x.at \in {"look", "create"} /\ x.batch \subseteq Rooms
                          /\ x.type = "stayover"
  /\ x.at = "read" => x.op = "autoAssign"
  /\ x.at = "claim" => x.op \in Claims \cup {"autoAssign"} /\ x.task \in Tasks
  /\ x.at = "delete" => x.op = "delete" /\ x.task \in Tasks
  /\ x.at = "look" => x.op = "generate"
  /\ x.at = "create" => x.op \in {"create", "generate", "complete"}
  /\ x.at = "getStatus" => x.op = "complete"
  /\ x.op = "complete" => x.type = "maintenance"
  /\ x.at \in {"readRoom", "writeRoom"} =>
       /\ x.op \in {"complete", "pass", "transitionStatus"}
       /\ x.todo \in Chains(x.op)
       /\ x.op = "complete" /\ requireInspection => x.todo = <<"clean">>

Busy == {q \in Requests : req[q] # IdleHandler}

HandlersOK == \A q \in Busy : HandlerOK(req[q])

\* A row that does not exist has nobody to do it.
UnbornOK == \A t \in Tasks : status[t] = "none" => doer[t] = NoOne

\* A handler whose room has been passed, and is to be made ready.
Passing(x) ==
  /\ x.alone /\ x.at \in {"getStatus", "readRoom", "writeRoom"}
  /\ x.op = "pass" \/ (x.op = "complete" /\ ~requireInspection)

RoomsOK ==
  /\ \A r \in Rooms \ raced : room[r] \in {"inspected", "guest_ready"} => r \in passed
  /\ \A q \in Busy : Passing(req[q]) => req[q].room \in passed
  /\ \A q \in Busy : req[q].at = "writeRoom" /\ req[q].alone
       => ValidRoomTransition(room[req[q].room], Head(req[q].todo))

\* One listener at a time looks for the checkout task of a room.
ListenersOK ==
  \A r \in Rooms : <<"checkout", r>> \notin contended =>
    /\ looking[r] + creating[r] <= 1
    /\ creating[r] > 0 => Alive("checkout", r) = {}

Generating(q) == q \in Busy /\ req[q].op = "generate"

\* One generator at a time, and it has found no stayover task where it creates one.
GeneratorsOK ==
  /\ \A p, q \in Requests, r \in Rooms :
       Generating(p) /\ Generating(q) /\ p # q => <<"stayover", r>> \in contended
  /\ \A q \in Requests :
       Generating(q) /\ req[q].at = "create" /\ <<"stayover", req[q].room>> \notin contended
         => Alive("stayover", req[q].room) = {}

ByHandOK ==
  \A q \in Busy :
    req[q].op = "create" /\ req[q].type \in Generated => <<req[q].type, req[q].room>> \in contended

AtMostOne(S) == \A t, u \in S : t = u

UniqueOK ==
  \A type \in Generated, r \in Rooms :
    <<type, r>> \notin contended => AtMostOne(Alive(type, r))

IInv ==
  /\ HKTypeOK /\ HandlersOK /\ UnbornOK /\ RoomsOK /\ DirtyRoomHasTask
  /\ ListenersOK /\ GeneratorsOK /\ ByHandOK /\ UniqueOK

-----------------------------------------------------------------------------
(* Handlers.                                                               *)

LEMMA IdleIsNoHandler == IdleHandler \notin HandlerRecord
BY DEF IdleHandler, HandlerRecord, Ops, Claims

LEMMA BusyHandlers ==
  ASSUME HKTypeOK, NEW q \in Busy
  PROVE  q \in Requests /\ req[q] \in HandlerRecord
BY DEF Busy, HKTypeOK

LEMMA Links ==
  ASSUME NEW S, NEW a \in S, NEW b \in S, NEW c \in S
  PROVE  /\ <<>> \in Seq(S) /\ <<a>> \in Seq(S) /\ <<a, b>> \in Seq(S) /\ <<a, b, c>> \in Seq(S)
         /\ Head(<<a>>) = a /\ Head(<<a, b>>) = a /\ Head(<<a, b, c>>) = a
         /\ Tail(<<a>>) = <<>> /\ Tail(<<a, b>>) = <<b>> /\ Tail(<<a, b, c>>) = <<b, c>>
         /\ <<a>> # <<>> /\ <<a, b>> # <<>> /\ <<a, b, c>> # <<>>
         /\ <<a>> # <<b, c>> /\ <<a>> # <<a, b, c>> /\ <<a, b>> # <<a, b, c>>
OBVIOUS

\* The chains of statuses, one status at a time.
LEMMA ChainsAreShort ==
  /\ \A c \in Chains("complete") \cup Chains("pass") \cup Chains("transitionStatus") :
       c \in Seq(RoomStatus) /\ Head(c) \in RoomStatus /\ c # <<>>
  /\ \A c \in Chains("complete") :
       Tail(c) # <<>> => Tail(c) \in Chains("complete") /\ c # <<"clean">>
  /\ \A c \in Chains("pass") : Tail(c) # <<>> => Tail(c) \in Chains("pass")
  /\ \A c \in Chains("transitionStatus") : Tail(c) = <<>> /\ c = <<Head(c)>>
  /\ \A c \in Chains("complete") \cup Chains("pass") :
       Head(c) \in {"clean", "inspected", "guest_ready"}
<1>1. Chains("complete") = {<<"clean">>, <<"clean", "inspected", "guest_ready">>,
                            <<"inspected", "guest_ready">>, <<"guest_ready">>}
  BY DEF Chains
<1>2. Chains("pass") = {<<"inspected", "guest_ready">>, <<"guest_ready">>}
  BY DEF Chains
<1>3. Chains("transitionStatus") = {<<to>> : to \in PatchTargets}
  BY DEF Chains
<1>4. "clean" \in RoomStatus /\ "inspected" \in RoomStatus /\ "guest_ready" \in RoomStatus
  BY DEF RoomStatus
<1>5. \A c \in Chains("transitionStatus") :
        /\ c \in Seq(RoomStatus) /\ Head(c) \in RoomStatus /\ c # <<>>
        /\ Tail(c) = <<>> /\ c = <<Head(c)>>
  <2>1. \A to \in RoomStatus : <<to>> \in Seq(RoomStatus) /\ Head(<<to>>) = to
                               /\ <<to>> # <<>> /\ Tail(<<to>>) = <<>>
    BY Links
  <2>2. QED
    BY <1>3, <2>1, HousekeepingAssumption
<1>6. LET c == "clean"
          i == "inspected"
          g == "guest_ready"
      IN /\ <<c>> \in Seq(RoomStatus) /\ Head(<<c>>) = c /\ Tail(<<c>>) = <<>> /\ <<c>> # <<>>
         /\ <<g>> \in Seq(RoomStatus) /\ Head(<<g>>) = g /\ Tail(<<g>>) = <<>> /\ <<g>> # <<>>
         /\ <<i, g>> \in Seq(RoomStatus) /\ Head(<<i, g>>) = i /\ Tail(<<i, g>>) = <<g>>
         /\ <<i, g>> # <<>>
         /\ <<c, i, g>> \in Seq(RoomStatus) /\ Head(<<c, i, g>>) = c
         /\ Tail(<<c, i, g>>) = <<i, g>> /\ <<c, i, g>> # <<>>
         /\ <<c>> # <<i, g>> /\ <<c>> # <<c, i, g>> /\ <<c>> # <<g>>
  BY <1>4, Links
<1>7. \A c \in Chains("complete") \cup Chains("pass") :
        /\ c \in Seq(RoomStatus) /\ Head(c) \in RoomStatus /\ c # <<>>
        /\ Head(c) \in {"clean", "inspected", "guest_ready"}
  BY <1>1, <1>2, <1>4, <1>6
<1>8. \A c \in Chains("complete") :
        Tail(c) # <<>> => Tail(c) \in Chains("complete") /\ c # <<"clean">>
  BY <1>1, <1>6
<1>9. \A c \in Chains("pass") : Tail(c) # <<>> => Tail(c) \in Chains("pass")
  BY <1>2, <1>6
<1>10. QED
  BY <1>5, <1>7, <1>8, <1>9

\* Handler q goes on, or returns; y is what becomes of it.
Steps(q, y) ==
  /\ req' = [req EXCEPT ![q] = y] /\ requireInspection' = requireInspection
  /\ y = IdleHandler \/ (y \in HandlerRecord /\ HandlerOK(y))

LEMMA Stepping ==
  ASSUME HKTypeOK, HandlersOK, NEW q \in Requests, NEW y, Steps(q, y)
  PROVE  /\ req' \in [Requests -> HandlerRecord \cup {IdleHandler}]
         /\ req'[q] = y /\ \A p \in Requests \ {q} : req'[p] = req[p]
         /\ HandlersOK'
<1>1. req' \in [Requests -> HandlerRecord \cup {IdleHandler}]
  BY DEF Steps, HKTypeOK
<1>2. req'[q] = y /\ \A p \in Requests \ {q} : req'[p] = req[p]
  BY DEF Steps, HKTypeOK
<1>3. \A x : HandlerOK(x)' <=> HandlerOK(x)
  BY DEF Steps, HandlerOK
<1>4. HandlersOK'
  BY <1>2, <1>3 DEF Steps, HandlersOK, Busy
<1>5. QED
  BY <1>1, <1>2, <1>4

\* What else must be true of y, so that nothing is disturbed.
Sound(q, y) ==
  /\ Passing(y) => y.room \in passed'
  /\ y.at = "writeRoom" /\ y.alone => ValidRoomTransition(room[y.room], Head(y.todo))
  /\ y.op = "generate" => \A p \in Requests \ {q}, r \in Rooms :
                            Generating(p) => <<"stayover", r>> \in contended'
  /\ y.op = "generate" /\ y.at = "create"
       => <<"stayover", y.room>> \in contended' \/ Alive("stayover", y.room) = {}
  /\ y.op = "create" /\ y.type \in Generated => <<y.type, y.room>> \in contended'

\* A step of a handler that writes no room ...
Calm(q, y) ==
  /\ Steps(q, y) /\ (y # IdleHandler => Sound(q, y))
  /\ UNCHANGED <<room, looking, creating, raced>>
  /\ passed \subseteq passed' /\ contended \subseteq contended'

\* ... and creates no task.
Quiet(q, y) ==
  /\ Calm(q, y)
  /\ \A type \in Generated, r \in Rooms : Alive(type, r)' \subseteq Alive(type, r)

LEMMA CalmSteps ==
  ASSUME IInv, NEW q \in Requests, NEW y, Calm(q, y)
  PROVE  /\ req'[q] = y /\ \A p \in Requests \ {q} : req'[p] = req[p]
         /\ \A p \in Busy' : p \in Requests /\ (p # q => p \in Busy) /\ (p = q => y # IdleHandler)
         /\ RoomsOK' /\ ByHandOK'
         /\ \A p, o \in Requests, r \in Rooms :
              Generating(p)' /\ Generating(o)' /\ p # o => <<"stayover", r>> \in contended'
<1> USE DEF IInv
<1>1. req'[q] = y /\ \A p \in Requests \ {q} : req'[p] = req[p]
  BY Stepping DEF Calm
<1>2. \A p \in Busy' : p \in Requests /\ (p # q => p \in Busy) /\ (p = q => y # IdleHandler)
  BY <1>1 DEF Busy
<1>3. RoomsOK'
  <2>1. \A r \in Rooms \ raced' : room'[r] \in {"inspected", "guest_ready"} => r \in passed'
    BY DEF Calm, RoomsOK
  <2>2. \A p \in Busy' : Passing(req[p])' => req'[p].room \in passed'
    BY <1>1, <1>2 DEF Calm, Steps, Sound, RoomsOK, Passing
  <2>3. \A p \in Busy' : req'[p].at = "writeRoom" /\ req'[p].alone
          => ValidRoomTransition(room'[req'[p].room], Head(req'[p].todo))
    BY <1>1, <1>2 DEF Calm, Sound, RoomsOK
  <2>4. QED
    BY <2>1, <2>2, <2>3 DEF RoomsOK
<1>4. ByHandOK'
  BY <1>1, <1>2 DEF Calm, Sound, ByHandOK
<1>5. \A p \in Requests \ {q} : Generating(p)' <=> Generating(p)
  BY <1>1 DEF Generating, Busy
<1>6. \A p, o \in Requests, r \in Rooms :
        Generating(p)' /\ Generating(o)' /\ p # o => <<"stayover", r>> \in contended'
  BY <1>1, <1>2, <1>5 DEF Calm, Sound, GeneratorsOK, Generating
<1>7. QED
  BY <1>1, <1>2, <1>3, <1>4, <1>6

LEMMA QuietSteps ==
  ASSUME IInv, NEW q \in Requests, NEW y, Quiet(q, y)
  PROVE  RoomsOK' /\ ListenersOK' /\ GeneratorsOK' /\ ByHandOK' /\ UniqueOK'
<1> USE DEF IInv
<1>1. /\ req'[q] = y /\ \A p \in Requests \ {q} : req'[p] = req[p]
      /\ \A p \in Busy' : p \in Requests /\ (p # q => p \in Busy) /\ (p = q => y # IdleHandler)
      /\ RoomsOK' /\ ByHandOK'
      /\ \A p, o \in Requests, r \in Rooms :
           Generating(p)' /\ Generating(o)' /\ p # o => <<"stayover", r>> \in contended'
  BY CalmSteps DEF Quiet
<1>2. ListenersOK'
  BY DEF Quiet, Calm, ListenersOK, Generated
<1>3. GeneratorsOK'
  <2>1. \A p \in Requests \ {q} : Generating(p)' <=> Generating(p)
    BY <1>1 DEF Generating, Busy
  <2>2. \A p \in Busy' : req'[p].room \in Rooms
    BY <1>1, BusyHandlers DEF Quiet, Calm, Steps, HandlerRecord
  <2>3. \A p \in Requests :
          Generating(p)' /\ (req[p].at)' = "create" /\ (<<"stayover", req[p].room>> \notin contended)'
            => Alive("stayover", req[p].room)' = {}
    BY <1>1, <2>1, <2>2 DEF Quiet, Calm, Sound, GeneratorsOK, Generating, Generated
  <2>4. QED
    BY <1>1, <2>3 DEF GeneratorsOK
<1>4. UniqueOK'
  BY DEF Quiet, Calm, UniqueOK, AtMostOne
<1>5. QED
  BY <1>1, <1>2, <1>3, <1>4

-----------------------------------------------------------------------------
(* Tasks.                                                                  *)

\* A task that is there changes its status, and a closed one stays closed.
Rewrites(t, to, by) ==
  /\ t \in Tasks /\ to \in TaskStatus /\ by \in Housekeepers \cup {NoOne}
  /\ Exists(t) /\ to # "none"
  /\ Open(t) \/ to = "deleted"
  /\ WriteTask(t, to, by)

LEMMA Rewriting ==
  ASSUME HKTypeOK, UnbornOK, DirtyRoomHasTask, NEW t, NEW to, NEW by, Rewrites(t, to, by)
  PROVE  /\ status' \in [Tasks -> TaskStatus] /\ doer' \in [Tasks -> Housekeepers \cup {NoOne}]
         /\ about' = about /\ uncared' \subseteq Rooms
         /\ UnbornOK'
         /\ \A type \in Generated, r \in Rooms : Alive(type, r)' \subseteq Alive(type, r)
         /\ UNCHANGED <<room, looking, creating>> => DirtyRoomHasTask'
<1>1. /\ t \in Tasks /\ to \in TaskStatus /\ by \in Housekeepers \cup {NoOne}
      /\ Exists(t) /\ to # "none" /\ (Open(t) \/ to = "deleted")
      /\ status' = [status EXCEPT ![t] = to] /\ doer' = [doer EXCEPT ![t] = by]
      /\ about' = about
      /\ uncared' = IF /\ about[t][1] = "checkout" /\ room[RoomOf(t)] = "vacant_dirty"
                       /\ to \in {"deleted", "skipped", "inspected"}
                    THEN uncared \cup {RoomOf(t)} ELSE uncared
  BY DEF Rewrites, WriteTask
<1>2. RoomOf(t) \in Rooms
  BY <1>1 DEF HKTypeOK, RoomOf
<1>3. /\ status' \in [Tasks -> TaskStatus] /\ doer' \in [Tasks -> Housekeepers \cup {NoOne}]
      /\ uncared' \subseteq Rooms
  BY <1>1, <1>2 DEF HKTypeOK
<1>4. UnbornOK'
  BY <1>1 DEF UnbornOK, Exists, HKTypeOK
<1>5. \A u \in Tasks : /\ Exists(u)' => Exists(u)
                       /\ Open(u)' => Open(u)
                       /\ u # t => (Open(u)' <=> Open(u)) /\ (Exists(u)' <=> Exists(u))
  BY <1>1 DEF Exists, Open, HKTypeOK
<1>6. \A type \in Generated, r \in Rooms : Alive(type, r)' \subseteq Alive(type, r)
  BY <1>1, <1>5 DEF Alive, OfKind
<1>7. ASSUME UNCHANGED <<room, looking, creating>>
      PROVE  DirtyRoomHasTask'
  <2> SUFFICES ASSUME NEW r \in Rooms, room[r] = "vacant_dirty", looking[r] + creating[r] = 0,
                      r \notin uncared'
               PROVE  \E u \in OfKind("checkout", r)' : Open(u)'
    BY <1>7 DEF DirtyRoomHasTask
  <2>1. PICK u \in OfKind("checkout", r) : Open(u)
    BY <1>1 DEF DirtyRoomHasTask
  <2>2. u \in Tasks /\ Exists(u) /\ about[u] = <<"checkout", r>>
    BY <2>1 DEF OfKind
  <2>3. CASE u # t
    BY <1>1, <1>5, <2>1, <2>2, <2>3 DEF OfKind
  <2>4. CASE u = t
    <3>1. RoomOf(t) = r /\ about[t][1] = "checkout"
      BY <2>2, <2>4 DEF RoomOf
    <3>2. to \notin {"none", "deleted", "skipped", "inspected"}
      BY <1>1, <3>1
    <3>3. Open(t)' /\ Exists(t)'
      BY <1>1, <3>2 DEF Open, Exists, HKTypeOK
    <3>4. QED
      BY <1>1, <2>2, <2>4, <3>3 DEF OfKind
  <2>5. QED
    BY <2>3, <2>4
<1>8. QED
  BY <1>1, <1>3, <1>4, <1>6, <1>7

\* A new task joins those of its kind, and no other.
LEMMA OneIsInserted ==
  ASSUME HKTypeOK, UnbornOK, NEW type \in Types, NEW r \in Rooms, Insert(type, r)
  PROVE  /\ status' \in [Tasks -> TaskStatus] /\ doer' = doer
         /\ about' \in [Tasks -> Types \X Rooms]
         /\ UnbornOK'
         /\ \A k \in Generated, x \in Rooms :
              <<k, x>> # <<type, r>> => Alive(k, x)' = Alive(k, x)
         /\ \E t \in Tasks : /\ status[t] = "none" /\ status' = [status EXCEPT ![t] = "pending"]
                             /\ t \in OfKind(type, r)' /\ Open(t)'
                             /\ type \in Generated => Alive(type, r)' = Alive(type, r) \cup {t}
         /\ \A x \in Rooms : \A u \in OfKind("checkout", x) :
              Open(u) => u \in OfKind("checkout", x)' /\ Open(u)'
<1>1. PICK t \in Tasks : /\ status[t] = "none" /\ status' = [status EXCEPT ![t] = "pending"]
                         /\ about' = [about EXCEPT ![t] = <<type, r>>] /\ doer' = doer
  BY DEF Insert
<1>2. /\ ~Exists(t) /\ ~Open(t) /\ Exists(t)' /\ Open(t)' /\ about'[t] = <<type, r>>
      /\ \A u \in Tasks \ {t} : /\ (Exists(u)' <=> Exists(u)) /\ (Open(u)' <=> Open(u))
                                /\ about'[u] = about[u]
  BY <1>1 DEF Exists, Open, HKTypeOK
<1>3. \A k \in Types, x \in Rooms :
        OfKind(k, x)' = IF <<k, x>> = <<type, r>> THEN OfKind(k, x) \cup {t} ELSE OfKind(k, x)
  BY <1>2 DEF OfKind
<1>4. /\ status' \in [Tasks -> TaskStatus] /\ about' \in [Tasks -> Types \X Rooms] /\ UnbornOK'
  BY <1>1 DEF HKTypeOK, TaskStatus, UnbornOK
<1>5. Generated \subseteq Types /\ "checkout" \in Generated
  BY DEF Types, Generated
<1>6. \A k \in Generated, x \in Rooms : OfKind(k, x) \subseteq Tasks \ {t}
  BY <1>2 DEF OfKind
<1>7. \A k \in Generated, x \in Rooms :
        <<k, x>> # <<type, r>> => Alive(k, x)' = Alive(k, x)
  BY <1>2, <1>3, <1>5, <1>6 DEF Alive
<1>8. type \in Generated => Alive(type, r)' = Alive(type, r) \cup {t}
  BY <1>2, <1>3, <1>5, <1>6 DEF Alive
<1>9. \A x \in Rooms : \A u \in OfKind("checkout", x) :
        Open(u) => u \in OfKind("checkout", x)' /\ Open(u)'
  BY <1>2, <1>3, <1>5, <1>6
<1>10. QED
  BY <1>1, <1>2, <1>3, <1>4, <1>7, <1>8, <1>9

LEMMA KeptTasks ==
  ASSUME UNCHANGED taskVars
  PROVE  /\ \A type \in Generated, r \in Rooms : Alive(type, r)' = Alive(type, r)
         /\ UnbornOK => UnbornOK'
         /\ \A r \in Rooms : OfKind("checkout", r)' = OfKind("checkout", r)
         /\ \A t \in Tasks : Open(t)' <=> Open(t)
<1>1. status' = status /\ doer' = doer /\ about' = about
  BY DEF taskVars
<1>2. \A t \in Tasks : (Open(t)' <=> Open(t)) /\ (Exists(t)' <=> Exists(t))
  BY <1>1 DEF Open, Exists
<1>3. \A type, r : OfKind(type, r)' = OfKind(type, r)
  BY <1>1, <1>2 DEF OfKind
<1>4. \A type \in Generated, r \in Rooms : Alive(type, r)' = Alive(type, r)
  BY <1>2, <1>3 DEF Alive, OfKind
<1>5. QED
  BY <1>1, <1>2, <1>3, <1>4 DEF UnbornOK

LEMMA StillDirty ==
  ASSUME DirtyRoomHasTask, UNCHANGED <<taskVars, room, looking, creating, uncared>>
  PROVE  DirtyRoomHasTask'
BY KeptTasks DEF DirtyRoomHasTask, OfKind

-----------------------------------------------------------------------------
(* The steps of the handlers.                                              *)

\* Nothing changes but the handlers, and which tasks are contended.
LEMMA OnlyHandlers ==
  ASSUME IInv, NEW q \in Requests, NEW y, Steps(q, y), y # IdleHandler => Sound(q, y),
         UNCHANGED <<taskVars, room, looking, creating, passed, raced, uncared>>,
         contended \subseteq contended', contended' \subseteq Generated \X Rooms,
         handled' \in 0..MaxHandlers
  PROVE  IInv'
<1>1. Quiet(q, y)
  BY KeptTasks DEF Quiet, Calm
<1>2. HKTypeOK' /\ HandlersOK'
  BY Stepping DEF IInv, HKTypeOK, Steps, taskVars
<1>3. UnbornOK' /\ DirtyRoomHasTask'
  BY KeptTasks, StillDirty DEF IInv
<1>4. QED
  BY <1>1, <1>2, <1>3, QuietSteps DEF IInv

LEMMA Launching ==
  ASSUME IInv, NEW q \in Requests, NEW y \in HandlerRecord, HandlerOK(y), Launch(q, y),
         Sound(q, y), UNCHANGED <<requireInspection, taskVars, room, looking, creating, passed, raced, uncared>>,
         contended \subseteq contended', contended' \subseteq Generated \X Rooms
  PROVE  IInv'
<1>1. Steps(q, y)
  BY DEF Launch, Steps
<1>2. handled' \in 0..MaxHandlers
  BY HousekeepingAssumption DEF Launch, IInv, HKTypeOK
<1>3. QED
  BY <1>1, <1>2, OnlyHandlers

LEMMA HandlingIsTyped ==
  ASSUME NEW op \in Ops, NEW at \in Awaits, NEW t \in Tasks \cup {NoTask}, NEW r \in Rooms
  PROVE  Handling(op, at, t, r) \in HandlerRecord
<1>1. <<>> \in Seq(RoomStatus) /\ "maintenance" \in Types
  BY DEF Types
<1>2. QED
  BY <1>1 DEF Handling, HandlerRecord

LEMMA BeginHandlerInv ==
  ASSUME IInv, NEW q \in Requests, NEW op \in Claims, NEW t \in Tasks, NEW flag \in BOOLEAN,
         BeginHandler(q, op, t, flag)
  PROVE  IInv'
<1> DEFINE y == [Handling(op, "claim", t, RoomOf(t)) EXCEPT !.flag = flag]
<1>1. RoomOf(t) \in Rooms
  BY DEF IInv, HKTypeOK, RoomOf
<1>2. y \in HandlerRecord
  BY <1>1, HandlingIsTyped DEF Ops, Awaits, HandlerRecord
<1>3. y.op = op /\ y.at = "claim" /\ y.task = t /\ y.type = "maintenance"
  BY DEF Handling
<1>4. HandlerOK(y) /\ Sound(q, y)
  BY <1>3 DEF HandlerOK, Sound, Passing, Claims
<1>5. QED
  BY <1>2, <1>4, Launching DEF BeginHandler, history, IInv, HKTypeOK

LEMMA DeleteInv ==
  ASSUME IInv, NEW q \in Requests, NEW t \in Tasks, Delete(q, t)
  PROVE  IInv'
<1> DEFINE y == Handling("delete", "delete", t, RoomOf(t))
<1>1. RoomOf(t) \in Rooms
  BY DEF IInv, HKTypeOK, RoomOf
<1>2. y \in HandlerRecord
  BY <1>1, HandlingIsTyped DEF Ops, Awaits
<1>3. HandlerOK(y) /\ Sound(q, y)
  BY DEF HandlerOK, Sound, Passing, Claims, Handling
<1>4. QED
  BY <1>2, <1>3, Launching DEF Delete, history, IInv, HKTypeOK

LEMMA AutoAssignInv ==
  ASSUME IInv, NEW q \in Requests, AutoAssign(q)
  PROVE  IInv'
<1>1. PICK r \in Rooms :
        Launch(q, [Handling("autoAssign", "read", NoTask, r)
                     EXCEPT !.batch = {t \in Tasks : status[t] = "pending"}])
  BY DEF AutoAssign
<1> DEFINE y == [Handling("autoAssign", "read", NoTask, r)
                   EXCEPT !.batch = {t \in Tasks : status[t] = "pending"}]
<1>2. y \in HandlerRecord
  <2>1. Handling("autoAssign", "read", NoTask, r) \in HandlerRecord
    BY HandlingIsTyped DEF Ops, Awaits
  <2>2. QED
    BY <2>1 DEF HandlerRecord
<1>3. HandlerOK(y) /\ Sound(q, y)
  BY DEF HandlerOK, Sound, Passing, Claims, Handling
<1>4. QED
  BY <1>1, <1>2, <1>3, Launching DEF AutoAssign, history, IInv, HKTypeOK

LEMMA CreateInv ==
  ASSUME IInv, NEW q \in Requests, NEW type \in ManualTypes, NEW r \in Rooms, Create(q, type, r)
  PROVE  IInv'
<1> DEFINE y == [Handling("create", "create", NoTask, r) EXCEPT !.type = type]
<1>1. y \in HandlerRecord
  <2>1. Handling("create", "create", NoTask, r) \in HandlerRecord
    BY HandlingIsTyped DEF Ops, Awaits
  <2>2. QED
    BY <2>1 DEF HandlerRecord, Types
<1>2. y.op = "create" /\ y.at = "create" /\ y.type = type /\ y.room = r
  BY DEF Handling
<1>3. HandlerOK(y) /\ Sound(q, y)
  BY <1>2 DEF HandlerOK, Sound, Passing, Create
<1>4. contended' = IF type \in Generated THEN contended \cup {<<type, r>>} ELSE contended
  BY DEF Create
<1>5. QED
  BY <1>1, <1>3, <1>4, Launching DEF Create, IInv, HKTypeOK

LEMMA GenerateInv ==
  ASSUME IInv, NEW q \in Requests, GenerateStayoverTasks(q)
  PROVE  IInv'
<1> DEFINE occupied == {r \in Rooms : room[r] = "occupied"}
           others == {p \in Requests : req[p] # IdleHandler /\ req[p].op = "generate"}
<1>1. PICK r \in occupied :
        Launch(q, [Handling("generate", "look", NoTask, r) EXCEPT !.batch = occupied,
                                                                !.type = "stayover"])
  BY DEF GenerateStayoverTasks
<1> DEFINE y == [Handling("generate", "look", NoTask, r) EXCEPT !.batch = occupied,
                                                              !.type = "stayover"]
<1>2. y \in HandlerRecord
  <2>1. Handling("generate", "look", NoTask, r) \in HandlerRecord
    BY HandlingIsTyped DEF Ops, Awaits
  <2>2. occupied \subseteq Tasks \cup Rooms /\ "stayover" \in Types
    BY DEF Types, Generated
  <2>3. QED
    BY <2>1, <2>2 DEF HandlerRecord
<1>3. y.op = "generate" /\ y.at = "look" /\ y.type = "stayover" /\ y.batch = occupied
  BY DEF Handling
<1>4. contended' = IF others = {} THEN contended ELSE contended \cup ({"stayover"} \X Rooms)
  BY DEF GenerateStayoverTasks
<1>5. \A p \in Requests \ {q}, x \in Rooms : Generating(p) => <<"stayover", x>> \in contended'
  BY <1>4 DEF Generating, Busy
<1>6. HandlerOK(y) /\ Sound(q, y)
  BY <1>3, <1>5 DEF HandlerOK, Sound, Passing
<1>7. contended \subseteq contended' /\ contended' \subseteq Generated \X Rooms
  BY <1>4 DEF IInv, HKTypeOK, Generated
<1>8. QED
  BY <1>1, <1>2, <1>6, <1>7, Launching DEF GenerateStayoverTasks

LEMMA PatchRoomInv ==
  ASSUME IInv, NEW q \in Requests, NEW r \in Rooms, NEW target \in PatchTargets,
         PatchRoom(q, r, target)
  PROVE  IInv'
<1> DEFINE y == [Handling("transitionStatus", "readRoom", NoTask, r) EXCEPT !.todo = <<target>>]
<1>1. <<target>> \in Chains("transitionStatus")
  BY DEF Chains
<1>2. y \in HandlerRecord
  <2>1. Handling("transitionStatus", "readRoom", NoTask, r) \in HandlerRecord
    BY HandlingIsTyped DEF Ops, Awaits
  <2>2. <<target>> \in Seq(RoomStatus)
    BY <1>1, ChainsAreShort
  <2>3. QED
    BY <2>1, <2>2 DEF HandlerRecord
<1>3. y.op = "transitionStatus" /\ y.at = "readRoom" /\ y.todo = <<target>>
  BY DEF Handling
<1>4. HandlerOK(y) /\ Sound(q, y)
  BY <1>1, <1>3 DEF HandlerOK, Sound, Passing
<1>5. QED
  BY <1>2, <1>4, Launching DEF PatchRoom, history, IInv, HKTypeOK

\* A handler that returns disturbs nothing.
LEMMA Returning ==
  ASSUME NEW q \in Requests, EndHandler(q), UNCHANGED requireInspection
  PROVE  Steps(q, IdleHandler)
BY DEF EndHandler, Steps

LEMMA BatchGoesOn ==
  ASSUME IInv, NEW q \in Busy, NEW x, req[q].op \in {"autoAssign", "generate"},
         NextOfBatch(q, x), UNCHANGED requireInspection, contended \subseteq contended'
  PROVE  \E y : Steps(q, y) /\ (y # IdleHandler => Sound(q, y) /\ y.at \in {"look", "read"})
<1> DEFINE rest == req[q].batch \ {x}
           y == [req[q] EXCEPT !.batch = rest,
                               !.at = IF req[q].op = "generate" THEN "look" ELSE "read"]
<1>1. q \in Requests /\ req[q] \in HandlerRecord /\ HandlerOK(req[q])
  BY BusyHandlers DEF IInv, HandlersOK
<1>2. CASE rest = {}
  BY <1>1, <1>2, Returning DEF NextOfBatch
<1>3. CASE rest # {}
  <2>1. req' = [req EXCEPT ![q] = y]
    BY <1>3 DEF NextOfBatch
  <2>2. y \in HandlerRecord
    BY <1>1 DEF HandlerRecord, Awaits
  <2>3. /\ y.op = req[q].op /\ y.at \in {"look", "read"} /\ y.batch = rest /\ y.type = req[q].type
        /\ y.at = "look" <=> y.op = "generate"
    BY <1>1 DEF HandlerRecord
  <2>4. HandlerOK(y)
    BY <1>1, <2>3 DEF HandlerOK
  <2>5. Sound(q, y)
    BY <1>1, <2>3 DEF Sound, Passing, IInv, GeneratorsOK, Generating
  <2>6. QED
    BY <1>1, <2>1, <2>2, <2>3, <2>4, <2>5 DEF Steps
<1>4. QED
  BY <1>2, <1>3

LEMMA ReadNextInv ==
  ASSUME IInv, NEW q \in Requests, ReadNext(q)
  PROVE  IInv'
<1>1. q \in Busy /\ req[q].at = "read" /\ UNCHANGED <<requireInspection, taskVars, room, looking,
                                                      creating, handled, history>>
  BY DEF ReadNext, Busy
<1>2. req[q] \in HandlerRecord /\ HandlerOK(req[q])
  BY <1>1, BusyHandlers DEF IInv, HandlersOK
<1>3. req[q].op = "autoAssign" /\ req[q].batch \subseteq Tasks
  BY <1>1, <1>2 DEF HandlerOK
<1>4. PICK t \in req[q].batch :
        \/ EndHandler(q) \/ NextOfBatch(q, t)
        \/ req' = [req EXCEPT ![q].at = "claim", ![q].task = t]
  BY DEF ReadNext
<1>5. \E y : Steps(q, y) /\ (y # IdleHandler => Sound(q, y))
  <2>1. CASE EndHandler(q)
    BY <1>1, <2>1, Returning
  <2>2. CASE NextOfBatch(q, t)
    BY <1>1, <1>3, <2>2, BatchGoesOn DEF history
  <2>3. CASE req' = [req EXCEPT ![q].at = "claim", ![q].task = t]
    <3> DEFINE y == [req[q] EXCEPT !.at = "claim", !.task = t]
    <3>1. req' = [req EXCEPT ![q] = y] /\ y \in HandlerRecord
      BY <1>2, <1>3, <2>3 DEF HandlerRecord, Awaits
    <3>2. y.op = "autoAssign" /\ y.at = "claim" /\ y.task = t /\ y.batch = req[q].batch
      BY <1>2, <1>3 DEF HandlerRecord
    <3>3. HandlerOK(y) /\ Sound(q, y)
      BY <1>3, <3>2 DEF HandlerOK, Sound, Passing
    <3>4. QED
      BY <1>1, <3>1, <3>3 DEF Steps
  <2>4. QED
    BY <1>4, <2>1, <2>2, <2>3
<1>6. QED
  BY <1>1, <1>5, OnlyHandlers DEF history, IInv, HKTypeOK

LEMMA LookForStayoverInv ==
  ASSUME IInv, NEW q \in Requests, LookForStayover(q)
  PROVE  IInv'
<1>1. q \in Busy /\ req[q].at = "look" /\ UNCHANGED <<requireInspection, taskVars, room, looking,
                                                      creating, handled, history>>
  BY DEF LookForStayover, Busy
<1>2. req[q] \in HandlerRecord /\ HandlerOK(req[q])
  BY <1>1, BusyHandlers DEF IInv, HandlersOK
<1>3. req[q].op = "generate" /\ req[q].batch \subseteq Rooms /\ req[q].type = "stayover"
  BY <1>1, <1>2 DEF HandlerOK
<1>4. PICK r \in req[q].batch :
        \/ NextOfBatch(q, r)
        \/ Alive("stayover", r) = {} /\ req' = [req EXCEPT ![q].at = "create", ![q].room = r]
  BY DEF LookForStayover
<1>5. \E y : Steps(q, y) /\ (y # IdleHandler => Sound(q, y))
  <2>1. CASE NextOfBatch(q, r)
    BY <1>1, <1>3, <2>1, BatchGoesOn DEF history
  <2>2. CASE Alive("stayover", r) = {} /\ req' = [req EXCEPT ![q].at = "create", ![q].room = r]
    <3> DEFINE y == [req[q] EXCEPT !.at = "create", !.room = r]
    <3>1. req' = [req EXCEPT ![q] = y] /\ y \in HandlerRecord
      BY <1>2, <1>3, <2>2 DEF HandlerRecord, Awaits
    <3>2. /\ y.op = "generate" /\ y.at = "create" /\ y.room = r /\ y.batch = req[q].batch
          /\ y.type = "stayover"
      BY <1>2, <1>3 DEF HandlerRecord
    <3>3. HandlerOK(y)
      BY <1>3, <3>2 DEF HandlerOK
    <3>4. \A p \in Requests \ {q}, x \in Rooms : Generating(p) => <<"stayover", x>> \in contended'
      BY <1>1, <1>3 DEF history, IInv, GeneratorsOK, Generating
    <3>5. Sound(q, y)
      BY <2>2, <3>2, <3>4 DEF Sound, Passing
    <3>6. QED
      BY <1>1, <3>1, <3>3, <3>5 DEF Steps
  <2>3. QED
    BY <1>4, <2>1, <2>2
<1>6. QED
  BY <1>1, <1>5, OnlyHandlers DEF history, IInv, HKTypeOK

LEMMA AbortInv ==
  ASSUME IInv, NEW q \in Requests, Abort(q)
  PROVE  IInv'
BY Returning, OnlyHandlers DEF Abort, history, IInv, HKTypeOK

LEMMA Joined ==
  ASSUME NEW S, NEW a \in S, NEW b \in S, NEW c \in S
  PROVE  <<a>> \o <<b, c>> = <<a, b, c>>
<1> DEFINE l == <<a>> \o <<b, c>>
           s == <<a, b, c>>
<1>1. l \in Seq(S) /\ s \in Seq(S) /\ Len(l) = 3 /\ Len(s) = 3
  OBVIOUS
<1>2. l[1] = s[1] /\ l[2] = s[2] /\ l[3] = s[3]
  OBVIOUS
<1> HIDE DEF l, s
<1>3. \A i \in 1..Len(l) : l[i] = s[i]
  BY <1>1, <1>2
<1>4. l = s
  BY <1>1, <1>3, SeqEqual
<1>5. QED
  BY <1>4 DEF l, s

LEMMA GetRoomStatusInv ==
  ASSUME IInv, NEW q \in Requests, GetRoomStatus(q)
  PROVE  IInv'
<1> DEFINE r == req[q]
           clean == IF room[r.room] = "vacant_dirty" THEN <<"clean">> ELSE <<>>
           todo == clean \o (IF requireInspection THEN <<>> ELSE <<"inspected", "guest_ready">>)
<1>1. q \in Busy /\ r.at = "getStatus" /\ UNCHANGED <<requireInspection, taskVars, room, looking,
                                                      creating, handled, history>>
  BY DEF GetRoomStatus, Busy
<1>2. r \in HandlerRecord /\ HandlerOK(r)
  BY <1>1, BusyHandlers DEF IInv, HandlersOK
<1>3. r.op = "complete" /\ r.type = "maintenance"
  BY <1>1, <1>2 DEF HandlerOK
<1>4. \/ todo # <<>> /\ req' = [req EXCEPT ![q].todo = todo, ![q].at = "readRoom"]
      \/ req' = [req EXCEPT ![q].at = "create"]
      \/ EndHandler(q)
  BY DEF GetRoomStatus
<1>5. todo # <<>> => todo \in Chains("complete") /\ (requireInspection => todo = <<"clean">>)
  <2>1. /\ <<>> \o <<>> = <<>> /\ <<"clean">> \o <<>> = <<"clean">>
        /\ <<>> \o <<"inspected", "guest_ready">> = <<"inspected", "guest_ready">>
    OBVIOUS
  <2>2. <<"clean">> \o <<"inspected", "guest_ready">> = <<"clean", "inspected", "guest_ready">>
    <3>1. "clean" \in RoomStatus /\ "inspected" \in RoomStatus /\ "guest_ready" \in RoomStatus
      BY DEF RoomStatus
    <3>2. QED
      BY <3>1, Joined
  <2>3. QED
    BY <2>1, <2>2 DEF Chains
<1>6. \E y : Steps(q, y) /\ (y # IdleHandler => Sound(q, y))
  <2>1. CASE EndHandler(q)
    BY <1>1, <2>1, Returning
  <2>2. CASE req' = [req EXCEPT ![q].at = "create"]
    <3> DEFINE y == [r EXCEPT !.at = "create"]
    <3>1. req' = [req EXCEPT ![q] = y] /\ y \in HandlerRecord
      BY <1>2, <2>2 DEF HandlerRecord, Awaits
    <3>2. y.op = "complete" /\ y.at = "create" /\ y.type = "maintenance"
      BY <1>2, <1>3 DEF HandlerRecord
    <3>3. HandlerOK(y) /\ Sound(q, y)
      BY <3>2 DEF HandlerOK, Sound, Passing
    <3>4. QED
      BY <1>1, <3>1, <3>3 DEF Steps
  <2>3. CASE todo # <<>> /\ req' = [req EXCEPT ![q].todo = todo, ![q].at = "readRoom"]
    <3> DEFINE y == [r EXCEPT !.todo = todo, !.at = "readRoom"]
    <3>1. todo \in Chains("complete") /\ todo \in Seq(RoomStatus)
      BY <1>5, <2>3, ChainsAreShort
    <3> HIDE DEF todo
    <3>2. req' = [req EXCEPT ![q] = y] /\ y \in HandlerRecord
      BY <1>2, <2>3, <3>1 DEF HandlerRecord, Awaits
    <3>3. /\ y.op = "complete" /\ y.at = "readRoom" /\ y.type = "maintenance" /\ y.todo = todo
          /\ y.room = r.room /\ y.alone = r.alone
      BY <1>2, <1>3 DEF HandlerRecord
    <3>4. HandlerOK(y)
      BY <1>5, <2>3, <3>1, <3>3 DEF HandlerOK
    <3>5. Passing(y) => Passing(r)
      BY <1>1, <1>3, <3>3 DEF Passing
    <3>6. Sound(q, y)
      BY <1>1, <3>3, <3>5 DEF Sound, IInv, RoomsOK, history
    <3>7. QED
      BY <1>1, <3>2, <3>4, <3>6 DEF Steps
  <2>4. QED
    BY <1>4, <2>1, <2>2, <2>3
<1>7. QED
  BY <1>1, <1>6, OnlyHandlers DEF history, IInv, HKTypeOK

LEMMA ReadRoomInv ==
  ASSUME IInv, NEW q \in Requests, ReadRoom(q)
  PROVE  IInv'
<1> DEFINE r == req[q]
           y == [r EXCEPT !.at = "writeRoom"]
<1>1. q \in Busy /\ r.at = "readRoom" /\ UNCHANGED <<requireInspection, taskVars, room, looking,
                                                     creating, handled, history>>
  BY DEF ReadRoom, Busy
<1>2. r \in HandlerRecord /\ HandlerOK(r)
  BY <1>1, BusyHandlers DEF IInv, HandlersOK
<1>3. \/ /\ ValidRoomTransition(room[r.room], Head(r.todo))
         /\ req' = [req EXCEPT ![q] = y]
      \/ EndHandler(q)
  BY DEF ReadRoom
<1>4. ASSUME ValidRoomTransition(room[r.room], Head(r.todo)), req' = [req EXCEPT ![q] = y]
      PROVE  Steps(q, y) /\ Sound(q, y)
  <2>1. y \in HandlerRecord
    BY <1>2 DEF HandlerRecord, Awaits
  <2>2. /\ y.op = r.op /\ y.at = "writeRoom" /\ y.type = r.type /\ y.todo = r.todo /\ y.room = r.room
        /\ y.alone = r.alone /\ y.batch = r.batch
    BY <1>2 DEF HandlerRecord
  <2>3. HandlerOK(y) /\ y.op \notin {"generate", "create"}
    BY <1>1, <1>2, <2>2 DEF HandlerOK
  <2>4. Passing(y) => Passing(r)
    BY <1>1, <2>2 DEF Passing
  <2>5. Sound(q, y)
    BY <1>1, <1>4, <2>2, <2>3, <2>4 DEF Sound, IInv, RoomsOK, history
  <2>6. QED
    BY <1>1, <1>4, <2>1, <2>3, <2>5 DEF Steps
<1>5. \E x : Steps(q, x) /\ (x # IdleHandler => Sound(q, x))
  BY <1>1, <1>3, <1>4, Returning
<1>6. QED
  BY <1>1, <1>5, OnlyHandlers DEF history, IInv, HKTypeOK

\* Handler q rewrites a task.
LEMMA HandlerRewrites ==
  ASSUME IInv, NEW q \in Requests, NEW y, Steps(q, y), y # IdleHandler => Sound(q, y),
         NEW t, NEW to, NEW by, Rewrites(t, to, by),
         UNCHANGED <<room, looking, creating, raced, contended, handled>>,
         passed \subseteq passed', passed' \subseteq Rooms
  PROVE  IInv'
<1>1. /\ status' \in [Tasks -> TaskStatus] /\ doer' \in [Tasks -> Housekeepers \cup {NoOne}]
      /\ about' = about /\ uncared' \subseteq Rooms
      /\ UnbornOK' /\ DirtyRoomHasTask'
      /\ \A type \in Generated, r \in Rooms : Alive(type, r)' \subseteq Alive(type, r)
  BY Rewriting DEF IInv
<1>2. Quiet(q, y)
  BY <1>1 DEF Quiet, Calm
<1>3. HKTypeOK' /\ HandlersOK'
  BY <1>1, Stepping DEF IInv, HKTypeOK, Steps
<1>4. QED
  BY <1>1, <1>2, <1>3, QuietSteps DEF IInv

\* What each claim asks for and writes.
LEMMA ClaimsAreSound ==
  ASSUME NEW op \in Claims
  PROVE  /\ ClaimOf(op).from \subseteq {"pending", "assigned", "in_progress", "completed"}
         /\ ClaimOf(op).to \in {"pending", "assigned", "in_progress", "completed", "inspected", "skipped"}
         /\ op = "pass" => ClaimOf(op).to = "inspected"
         /\ op = "complete" /\ ~requireInspection => ClaimOf(op).to = "inspected"
BY DEF Claims, ClaimOf

LEMMA ClaimTransitionInv ==
  ASSUME IInv, NEW q \in Requests, ClaimTransition(q)
  PROVE  IInv'
<1> DEFINE r == req[q]
           op == OpOf(r)
           to == ClaimOf(op).to
<1>1. q \in Busy /\ r.at = "claim" /\ UNCHANGED <<requireInspection, room, looking, creating,
                                                  handled, raced, contended>>
  BY DEF ClaimTransition, Busy
<1>2. r \in HandlerRecord /\ HandlerOK(r)
  BY <1>1, BusyHandlers DEF IInv, HandlersOK
<1>3. r.op \in Claims \cup {"autoAssign"} /\ r.task \in Tasks /\ op \in Claims
      /\ (r.op # "autoAssign" => op = r.op)
  BY <1>1, <1>2 DEF HandlerOK, OpOf, Claims
<1>4. CASE /\ Claimable(r.task, op)
           /\ \E by \in DoerAfter(r.task, op) : WriteTask(r.task, to, by)
           /\ AfterClaim(q)
           /\ passed' = IF to = "inspected" THEN passed \cup {r.room} ELSE passed
  <2>1. PICK by \in DoerAfter(r.task, op) : WriteTask(r.task, to, by)
    BY <1>4
  <2>2. by \in Housekeepers \cup {NoOne}
    BY <1>3 DEF DoerAfter, IInv, HKTypeOK
  <2>3. Rewrites(r.task, to, by)
    BY <1>3, <1>4, <2>1, <2>2, ClaimsAreSound DEF Rewrites, Claimable, Exists, Open, TaskStatus
  <2>4. passed \subseteq passed' /\ passed' \subseteq Rooms
    BY <1>2, <1>4 DEF IInv, HKTypeOK, HandlerRecord
  <2>5. \E y : Steps(q, y) /\ (y # IdleHandler => Sound(q, y))
    <3>1. CASE r.op = "complete"
      <4> DEFINE y == [r EXCEPT !.at = "getStatus", !.alone = TRUE]
      <4>1. req' = [req EXCEPT ![q] = y]
        BY <1>4, <3>1 DEF AfterClaim
      <4>2. y \in HandlerRecord
        BY <1>2 DEF HandlerRecord, Awaits
      <4>3. /\ y.op = "complete" /\ y.at = "getStatus" /\ y.type = "maintenance"
            /\ y.room = r.room
        BY <1>2, <3>1 DEF HandlerRecord, HandlerOK
      <4>4. HandlerOK(y)
        BY <4>3 DEF HandlerOK
      <4>5. ~requireInspection => r.room \in passed'
        BY <1>3, <1>4, <3>1, ClaimsAreSound
      <4>6. Sound(q, y)
        BY <4>3, <4>5 DEF Sound, Passing
      <4>7. QED
        BY <1>1, <4>1, <4>2, <4>4, <4>6 DEF Steps
    <3>2. CASE r.op = "pass"
      <4> DEFINE y == [r EXCEPT !.at = "readRoom", !.alone = TRUE,
                                !.todo = <<"inspected", "guest_ready">>]
      <4>1. req' = [req EXCEPT ![q] = y]
        BY <1>4, <3>2 DEF AfterClaim
      <4>2. /\ <<"inspected", "guest_ready">> \in Chains("pass")
            /\ <<"inspected", "guest_ready">> \in Seq(RoomStatus)
        BY ChainsAreShort DEF Chains
      <4>3. y \in HandlerRecord
        BY <1>2, <4>2 DEF HandlerRecord, Awaits
      <4>4. /\ y.op = "pass" /\ y.at = "readRoom" /\ y.todo = <<"inspected", "guest_ready">>
            /\ y.room = r.room
        BY <1>2, <3>2 DEF HandlerRecord
      <4>5. HandlerOK(y)
        BY <4>2, <4>4 DEF HandlerOK
      <4>6. r.room \in passed'
        BY <1>3, <1>4, <3>2, ClaimsAreSound
      <4>7. Sound(q, y)
        BY <4>4, <4>6 DEF Sound, Passing
      <4>8. QED
        BY <1>1, <4>1, <4>3, <4>5, <4>7 DEF Steps
    <3>3. CASE r.op = "autoAssign"
      BY <1>1, <1>4, <3>3, BatchGoesOn DEF AfterClaim
    <3>4. CASE r.op \notin {"complete", "pass", "autoAssign"}
      BY <1>1, <1>4, <3>4, Returning DEF AfterClaim
    <3>5. QED
      BY <3>1, <3>2, <3>3, <3>4
  <2>6. QED
    BY <1>1, <2>3, <2>4, <2>5, HandlerRewrites
<1>5. CASE /\ \/ NextOfBatch(q, r.task) /\ r.op = "autoAssign"
              \/ EndHandler(q)
           /\ UNCHANGED <<taskVars, uncared, passed>>
  <2>1. \E y : Steps(q, y) /\ (y # IdleHandler => Sound(q, y))
    BY <1>1, <1>5, Returning, BatchGoesOn
  <2>2. QED
    BY <1>1, <1>5, <2>1, OnlyHandlers DEF IInv, HKTypeOK
<1>6. QED
  BY <1>4, <1>5 DEF ClaimTransition

LEMMA DeleteRowInv ==
  ASSUME IInv, NEW q \in Requests, DeleteRow(q)
  PROVE  IInv'
<1> DEFINE t == req[q].task
<1>1. q \in Busy /\ req[q].at = "delete" /\ EndHandler(q)
      /\ UNCHANGED <<requireInspection, room, looking, creating, handled, passed, raced, contended>>
  BY DEF DeleteRow, Busy
<1>2. t \in Tasks /\ Steps(q, IdleHandler)
  BY <1>1, BusyHandlers, Returning DEF IInv, HandlersOK, HandlerOK
<1>3. CASE Exists(t) /\ WriteTask(t, "deleted", doer[t])
  <2>1. Rewrites(t, "deleted", doer[t])
    BY <1>2, <1>3 DEF Rewrites, TaskStatus, IInv, HKTypeOK
  <2>2. QED
    BY <1>1, <1>2, <2>1, HandlerRewrites DEF IInv, HKTypeOK
<1>4. CASE UNCHANGED <<taskVars, uncared>>
  BY <1>1, <1>2, <1>4, OnlyHandlers DEF IInv, HKTypeOK
<1>5. QED
  BY <1>3, <1>4 DEF DeleteRow

LEMMA InsertTaskInv ==
  ASSUME IInv, NEW q \in Requests, InsertTask(q)
  PROVE  IInv'
<1> DEFINE r == req[q]
<1>1. /\ q \in Busy /\ r.at = "create" /\ Insert(r.type, r.room)
      /\ UNCHANGED <<requireInspection, room, looking, creating, handled, history>>
      /\ (r.op = "generate" /\ NextOfBatch(q, r.room)) \/ EndHandler(q)
  BY DEF InsertTask, Busy
<1>2. /\ r \in HandlerRecord /\ HandlerOK(r) /\ r.type \in Types /\ r.room \in Rooms
      /\ r.op \in {"create", "generate", "complete"}
  BY <1>1, BusyHandlers DEF IInv, HandlersOK, HandlerRecord, HandlerOK
<1> PICK ty \in Types, rm \in Rooms : ty = r.type /\ rm = r.room
  BY <1>2
<1>3. PICK y : Steps(q, y) /\ (y # IdleHandler => Sound(q, y) /\ y.at \in {"look", "read"})
  BY <1>1, Returning, BatchGoesOn DEF history
<1>4. Calm(q, y)
  BY <1>1, <1>3 DEF Calm, history
<1>5. /\ req'[q] = y /\ \A p \in Requests \ {q} : req'[p] = req[p]
      /\ \A p \in Busy' : p \in Requests /\ (p # q => p \in Busy) /\ (p = q => y # IdleHandler)
      /\ RoomsOK' /\ ByHandOK'
      /\ \A p, o \in Requests, x \in Rooms :
           Generating(p)' /\ Generating(o)' /\ p # o => <<"stayover", x>> \in contended'
  BY <1>4, CalmSteps
<1>6. /\ status' \in [Tasks -> TaskStatus] /\ doer' = doer
      /\ about' \in [Tasks -> Types \X Rooms]
      /\ UnbornOK'
      /\ \A k \in Generated, x \in Rooms :
           <<k, x>> # <<ty, rm>> => Alive(k, x)' = Alive(k, x)
      /\ ty \in Generated =>
           \E t \in Tasks : Alive(ty, rm)' = Alive(ty, rm) \cup {t}
      /\ \A x \in Rooms : \A u \in OfKind("checkout", x) :
           Open(u) => u \in OfKind("checkout", x)' /\ Open(u)'
  BY <1>1, <1>2, OneIsInserted DEF IInv
<1>7. HKTypeOK' /\ HandlersOK'
  BY <1>1, <1>3, <1>6, Stepping DEF IInv, HKTypeOK, Steps, history
<1>8. DirtyRoomHasTask'
  BY <1>1, <1>6 DEF IInv, DirtyRoomHasTask, history
<1>9. /\ r.op = "create" /\ ty \in Generated => <<ty, rm>> \in contended
      /\ r.op = "generate" /\ <<"stayover", rm>> \notin contended
           => Alive("stayover", rm) = {}
      /\ r.op = "generate" => ty = "stayover"
      /\ r.op = "complete" => ty \notin Generated
  <2>1. r.op = "create" /\ ty \in Generated => <<ty, rm>> \in contended
    BY <1>1 DEF IInv, ByHandOK
  <2>2. r.op = "generate" /\ <<"stayover", rm>> \notin contended
          => Alive("stayover", rm) = {}
    BY <1>1 DEF IInv, GeneratorsOK, Generating
  <2>3. r.op = "generate" => ty = "stayover"
    BY <1>2 DEF HandlerOK
  <2>4. r.op = "complete" => ty \notin Generated
    BY <1>2 DEF HandlerOK, Generated
  <2>5. QED
    BY <2>1, <2>2, <2>3, <2>4
<1>10. ListenersOK'
  <2>1. \A x \in Rooms : <<"checkout", x>> \notin contended => Alive("checkout", x)' = Alive("checkout", x)
    BY <1>2, <1>6, <1>9 DEF Generated
  <2>2. QED
    BY <1>1, <2>1 DEF IInv, ListenersOK, history
<1>11. GeneratorsOK'
  <2>1. \A p \in Requests : Generating(p)' /\ (req[p].at)' = "create"
                            => Generating(p) /\ p # q /\ req[p].at = "create" /\ req'[p].room = req[p].room
    BY <1>3, <1>5 DEF Generating, Busy
  <2>2. ASSUME NEW p \in Requests, Generating(p), p # q, req[p].at = "create", NEW x,
               x = req[p].room, <<"stayover", x>> \notin contended
        PROVE  Alive("stayover", x)' = {}
    <3>1. x \in Rooms /\ Alive("stayover", x) = {}
      BY <2>2, BusyHandlers DEF IInv, GeneratorsOK, Generating, HandlerRecord
    <3>2. r.op # "generate"
      BY <1>1, <2>2, <3>1 DEF IInv, GeneratorsOK, Generating
    <3>3. <<"stayover", x>> # <<ty, rm>>
      BY <1>2, <1>9, <2>2, <3>2 DEF Generated
    <3>4. QED
      BY <1>6, <3>1, <3>3 DEF Generated
  <2>3. QED
    BY <1>1, <1>5, <2>1, <2>2 DEF GeneratorsOK, history
<1>12. UniqueOK'
  <2> SUFFICES ASSUME NEW k \in Generated, NEW x \in Rooms, <<k, x>> \notin contended
               PROVE  AtMostOne(Alive(k, x)')
    BY <1>1 DEF UniqueOK, history
  <2>1. CASE <<k, x>> # <<ty, rm>>
    BY <1>6, <2>1 DEF IInv, UniqueOK
  <2>2. CASE <<k, x>> = <<ty, rm>>
    <3>1. r.op = "generate" /\ Alive(k, x) = {}
      BY <1>2, <1>9, <2>2
    <3>2. QED
      BY <1>6, <2>2, <3>1 DEF AtMostOne
  <2>3. QED
    BY <2>1, <2>2
<1>13. QED
  BY <1>5, <1>6, <1>7, <1>8, <1>10, <1>11, <1>12 DEF IInv

\* What becomes of a handler that has written its room.
LEMMA AfterWriting ==
  ASSUME IInv, NEW q \in Busy, req[q].at = "writeRoom"
  PROVE  LET r == req[q]
             y == AfterWrite(r)
         IN /\ Head(r.todo) \in RoomStatus
            /\ r.op \in {"complete", "pass", "transitionStatus"}
            /\ r.op # "transitionStatus" => Head(r.todo) \in {"clean", "inspected", "guest_ready"}
            /\ r.op = "complete" /\ requireInspection => Head(r.todo) = "clean"
            /\ y = IdleHandler \/
                 /\ y \in HandlerRecord /\ HandlerOK(y)
                 /\ y.at \in {"readRoom", "create"} /\ y.op = r.op /\ y.op \in {"complete", "pass"}
                 /\ y.room = r.room /\ y.alone = r.alone
<1> DEFINE r == req[q]
           y == AfterWrite(r)
<1>1. r \in HandlerRecord /\ HandlerOK(r)
  BY BusyHandlers DEF IInv, HandlersOK
<1>2. /\ r.op \in {"complete", "pass", "transitionStatus"} /\ r.todo \in Chains(r.op)
      /\ r.op = "complete" /\ requireInspection => r.todo = <<"clean">>
      /\ r.op = "complete" => r.type = "maintenance"
  BY <1>1 DEF HandlerOK
<1>3. Head(r.todo) \in RoomStatus
  BY <1>2, ChainsAreShort
<1>4. r.op # "transitionStatus" => Head(r.todo) \in {"clean", "inspected", "guest_ready"}
  BY <1>2, ChainsAreShort
<1>5. r.op = "complete" /\ requireInspection => Head(r.todo) = "clean"
  BY <1>2
<1>6. CASE Tail(r.todo) # <<>>
  <2>1. y = [r EXCEPT !.todo = Tail(r.todo), !.at = "readRoom"]
    BY <1>6 DEF AfterWrite
  <2>2. /\ r.op \in {"complete", "pass"} /\ Tail(r.todo) \in Chains(r.op)
        /\ r.op = "complete" => r.todo # <<"clean">>
    BY <1>2, <1>6, ChainsAreShort
  <2>3. Tail(r.todo) \in Seq(RoomStatus)
    BY <2>2, ChainsAreShort
  <2>4. y \in HandlerRecord
    BY <1>1, <2>1, <2>3 DEF HandlerRecord, Awaits
  <2>5. /\ y.op = r.op /\ y.at = "readRoom" /\ y.todo = Tail(r.todo) /\ y.type = r.type
        /\ y.room = r.room /\ y.alone = r.alone
    BY <1>1, <2>1 DEF HandlerRecord
  <2>6. HandlerOK(y)
    BY <1>2, <2>2, <2>5 DEF HandlerOK
  <2>7. QED
    BY <1>2, <1>3, <1>4, <1>5, <2>2, <2>4, <2>5, <2>6
<1>7. CASE Tail(r.todo) = <<>> /\ r.op = "complete" /\ r.flag
  <2>1. y = [r EXCEPT !.todo = <<>>, !.at = "create"]
    BY <1>7 DEF AfterWrite
  <2>2. y \in HandlerRecord
    <3>1. <<>> \in Seq(RoomStatus)
      OBVIOUS
    <3>2. QED
      BY <1>1, <2>1, <3>1 DEF HandlerRecord, Awaits
  <2>3. /\ y.op = r.op /\ y.at = "create" /\ y.type = r.type /\ y.room = r.room
        /\ y.alone = r.alone
    BY <1>1, <2>1 DEF HandlerRecord
  <2>4. HandlerOK(y)
    BY <1>2, <1>7, <2>3 DEF HandlerOK
  <2>5. QED
    BY <1>2, <1>3, <1>4, <1>5, <1>7, <2>2, <2>3, <2>4
<1>8. CASE Tail(r.todo) = <<>> /\ ~(r.op = "complete" /\ r.flag)
  BY <1>2, <1>3, <1>4, <1>5, <1>8 DEF AfterWrite
<1>9. QED
  BY <1>6, <1>7, <1>8

LEMMA WriteRoomInv ==
  ASSUME IInv, NEW q \in Requests, WriteRoom(q)
  PROVE  IInv'
<1> DEFINE r == req[q]
<1>1. q \in Busy /\ r.at = "writeRoom" /\ UNCHANGED <<requireInspection, taskVars, creating, handled>>
  BY DEF WriteRoom, Busy
<1>2. r \in HandlerRecord /\ r.room \in Rooms
  BY <1>1, BusyHandlers DEF IInv, HandlerRecord
<1> PICK rm \in Rooms, to \in RoomStatus : rm = r.room /\ to = Head(r.todo)
  BY <1>1, <1>2, AfterWriting
<1> PICK y : y = AfterWrite(r)
  OBVIOUS
<1>3. /\ r.op \in {"complete", "pass", "transitionStatus"}
      /\ r.op # "transitionStatus" => to \in {"clean", "inspected", "guest_ready"}
      /\ r.op = "complete" /\ requireInspection => to = "clean"
      /\ y = IdleHandler \/
           /\ y \in HandlerRecord /\ HandlerOK(y)
           /\ y.at \in {"readRoom", "create"} /\ y.op = r.op /\ y.op \in {"complete", "pass"}
           /\ y.room = rm /\ y.alone = r.alone
  BY <1>1, AfterWriting
<1>4. /\ room' = [room EXCEPT ![rm] = to]
      /\ looking' = IF to = "vacant_dirty" THEN [looking EXCEPT ![rm] = @ + 1] ELSE looking
      /\ req' = [p \in Requests |->
                   IF p = q THEN y
                   ELSE IF req[p] # IdleHandler /\ req[p].room = rm THEN [req[p] EXCEPT !.alone = FALSE]
                   ELSE req[p]]
      /\ passed' = IF to = "vacant_dirty" THEN passed \ {rm}
                   ELSE IF to = "inspected" /\ r.op = "transitionStatus" THEN passed \cup {rm}
                   ELSE passed
      /\ raced' = IF ~r.alone THEN raced \cup {rm}
                  ELSE IF to = "vacant_dirty" THEN raced \ {rm} ELSE raced
      /\ uncared' = IF to = "vacant_dirty" THEN uncared \ {rm} ELSE uncared
      /\ contended' = IF to = "vacant_dirty" /\ looking[rm] + creating[rm] > 0
                      THEN contended \cup {<<"checkout", rm>>} ELSE contended
  BY DEF WriteRoom
<1>5. \A p \in Requests \ {q} :
        \/ p \notin Busy /\ req'[p] = IdleHandler
        \/ /\ p \in Busy /\ req'[p] \in HandlerRecord
           /\ req'[p].op = req[p].op /\ req'[p].at = req[p].at /\ req'[p].task = req[p].task
           /\ req'[p].room = req[p].room /\ req'[p].todo = req[p].todo /\ req'[p].batch = req[p].batch
           /\ req'[p].type = req[p].type
           /\ req'[p].alone => req[p].alone /\ req[p].room # rm
  BY <1>4 DEF Busy, IInv, HKTypeOK, HandlerRecord
<1>6. req'[q] = y /\ \A p \in Busy' : p \in Requests /\ (p # q => p \in Busy) /\ (p = q => y # IdleHandler)
  BY <1>4, <1>5 DEF Busy
<1>7. HKTypeOK'
  <2>0. \A p \in Requests : req'[p] \in HandlerRecord \cup {IdleHandler}
    BY <1>3, <1>5, <1>6
  <2>1. req' \in [Requests -> HandlerRecord \cup {IdleHandler}]
    <3>1. req' = [p \in Requests |-> req'[p]]
      BY <1>4
    <3>2. QED
      BY <2>0, <3>1
  <2>2. /\ room' \in [Rooms -> RoomStatus] /\ looking' \in [Rooms -> Nat]
        /\ passed' \subseteq Rooms /\ raced' \subseteq Rooms /\ uncared' \subseteq Rooms
        /\ contended' \subseteq Generated \X Rooms
    BY <1>4 DEF IInv, HKTypeOK, Generated
  <2>3. QED
    BY <1>1, <2>1, <2>2 DEF IInv, HKTypeOK, taskVars
<1>8. HandlersOK'
  <2>1. \A p \in Busy' : HandlerOK(req'[p])
    BY <1>3, <1>5, <1>6 DEF IInv, HandlersOK, HandlerOK
  <2>2. \A p \in Busy' : HandlerOK(req[p])'
    BY <1>1, <2>1 DEF HandlerOK
  <2>3. QED
    BY <2>2 DEF HandlersOK
<1>9. UnbornOK' /\ \A type \in Generated, x \in Rooms : Alive(type, x)' = Alive(type, x)
  BY <1>1, KeptTasks DEF IInv
<1>10. RoomsOK'
  <2>1. ASSUME NEW x \in Rooms \ raced', room'[x] \in {"inspected", "guest_ready"}
        PROVE  x \in passed'
    <3>1. CASE x # rm
      BY <1>4, <2>1, <3>1 DEF IInv, RoomsOK, HKTypeOK
    <3>2. CASE x = rm
      <4>1. r.alone /\ to \in {"inspected", "guest_ready"} /\ rm \notin raced
        BY <1>4, <2>1, <3>2 DEF IInv, HKTypeOK
      <4>2. CASE r.op = "transitionStatus" /\ to = "inspected"
        BY <1>4, <3>2, <4>2
      <4>3. CASE r.op # "transitionStatus"
        <5>1. Passing(r)
          BY <1>1, <1>3, <4>1, <4>3 DEF Passing
        <5>2. QED
          BY <1>1, <1>4, <3>2, <4>1, <5>1 DEF IInv, RoomsOK
      <4>4. CASE to = "guest_ready"
        <5>1. ValidRoomTransition(room[rm], "guest_ready")
          BY <1>1, <4>1, <4>4 DEF IInv, RoomsOK
        <5>2. room[rm] = "inspected"
          BY <5>1 DEF ValidRoomTransition, RoomTransitions, RoomStatus, IInv, HKTypeOK
        <5>3. QED
          BY <1>4, <3>2, <4>1, <4>4, <5>2 DEF IInv, RoomsOK
      <4>5. QED
        BY <4>1, <4>2, <4>3, <4>4
    <3>3. QED
      BY <3>1, <3>2
  <2>2. ASSUME NEW p \in Busy', Passing(req[p])'
        PROVE  req'[p].room \in passed'
    <3>1. CASE p = q
      <4>1. y.room = rm /\ Passing(r) /\ to # "vacant_dirty"
        BY <1>1, <1>3, <1>6, <2>2, <3>1 DEF Passing
      <4>2. QED
        BY <1>1, <1>4, <1>6, <3>1, <4>1 DEF IInv, RoomsOK
    <3>2. CASE p # q
      <4>1. p \in Busy /\ Passing(req[p]) /\ req'[p].room = req[p].room /\ req[p].room # rm
        BY <1>1, <1>5, <1>6, <2>2, <3>2 DEF Passing
      <4>2. QED
        BY <1>4, <4>1 DEF IInv, RoomsOK
    <3>3. QED
      BY <3>1, <3>2
  <2>3. ASSUME NEW p \in Busy', req'[p].at = "writeRoom", req'[p].alone
        PROVE  ValidRoomTransition(room'[req'[p].room], Head(req'[p].todo))
    <3>1. p # q /\ p \in Busy
      BY <1>3, <1>6, <2>3
    <3>2. /\ req'[p].room = req[p].room /\ req'[p].todo = req[p].todo /\ req[p].at = "writeRoom"
          /\ req[p].alone /\ req[p].room # rm /\ req[p].room \in Rooms
      BY <1>5, <2>3, <3>1, BusyHandlers DEF IInv, HandlerRecord, Busy
    <3>3. room'[req[p].room] = room[req[p].room]
      BY <1>4, <3>2 DEF IInv, HKTypeOK
    <3>4. QED
      BY <3>1, <3>2, <3>3 DEF IInv, RoomsOK
  <2>4. QED
    BY <2>1, <2>2, <2>3 DEF RoomsOK
<1>11. DirtyRoomHasTask'
  <2>1. /\ \A x \in Rooms : OfKind("checkout", x)' = OfKind("checkout", x)
        /\ \A t \in Tasks : Open(t)' <=> Open(t)
    BY <1>1, KeptTasks
  <2>2. ASSUME NEW x \in Rooms, room'[x] = "vacant_dirty", looking'[x] + creating'[x] = 0,
               x \notin uncared'
        PROVE  room[x] = "vacant_dirty" /\ looking[x] + creating[x] = 0 /\ x \notin uncared
    BY <1>1, <1>4, <2>2 DEF IInv, HKTypeOK
  <2>3. QED
    BY <2>1, <2>2 DEF IInv, DirtyRoomHasTask, OfKind
<1>12. ListenersOK'
  <2> SUFFICES ASSUME NEW x \in Rooms, <<"checkout", x>> \notin contended'
               PROVE  /\ looking'[x] + creating'[x] <= 1
                      /\ creating'[x] > 0 => Alive("checkout", x)' = {}
    BY DEF ListenersOK
  <2>1. Alive("checkout", x)' = Alive("checkout", x)
    BY <1>9 DEF Generated
  <2>2. <<"checkout", x>> \notin contended
    BY <1>4
  <2>3. looking'[x] + creating'[x] <= 1
    <3>1. CASE x = rm /\ to = "vacant_dirty"
      BY <1>1, <1>4, <3>1 DEF IInv, HKTypeOK
    <3>2. CASE ~(x = rm /\ to = "vacant_dirty")
      BY <1>1, <1>4, <2>2, <3>2 DEF IInv, HKTypeOK, ListenersOK
    <3>3. QED
      BY <3>1, <3>2
  <2>4. QED
    BY <1>1, <2>1, <2>2, <2>3 DEF IInv, ListenersOK
<1>13. \A p \in Requests : Generating(p)' => p # q /\ Generating(p)
  BY <1>3, <1>5, <1>6 DEF Generating, Busy
<1>14. GeneratorsOK'
  <2>1. \A p \in Requests : Generating(p)' => req'[p].at = req[p].at /\ req'[p].room = req[p].room
    BY <1>5, <1>13 DEF Generating
  <2>2. ASSUME NEW p \in Requests, Generating(p)', req'[p].at = "create",
               <<"stayover", req'[p].room>> \notin contended'
        PROVE  Alive("stayover", req[p].room)' = {}
    <3> PICK x \in Rooms : x = req[p].room
      BY <1>13, <2>2, BusyHandlers DEF IInv, Generating, HandlerRecord
    <3>1. Alive("stayover", x) = {}
      BY <1>4, <1>13, <2>1, <2>2 DEF IInv, GeneratorsOK
    <3>2. Alive("stayover", x)' = {}
      BY <1>9, <3>1 DEF Generated
    <3>3. QED
      BY <2>1, <2>2, <3>2
  <2>3. QED
    BY <1>4, <1>13, <2>2 DEF IInv, GeneratorsOK
<1>15. ByHandOK'
  BY <1>3, <1>4, <1>5, <1>6 DEF IInv, ByHandOK
<1>16. UniqueOK'
  BY <1>4, <1>9 DEF IInv, UniqueOK
<1>17. QED
  BY <1>7, <1>8, <1>9, <1>10, <1>11, <1>12, <1>14, <1>15, <1>16 DEF IInv

-----------------------------------------------------------------------------
(* The steps of the listener.                                              *)

\* The listener disturbs no handler, nor any stayover task.
LEMMA BesideHandlers ==
  ASSUME IInv, UNCHANGED <<requireInspection, room, req, passed, raced, contended>>,
         \A r \in Rooms : Alive("stayover", r)' = Alive("stayover", r)
  PROVE  HandlersOK' /\ RoomsOK' /\ GeneratorsOK' /\ ByHandOK'
<1> USE DEF IInv
<1>1. Busy' = Busy
  BY DEF Busy
<1>2. HandlersOK'
  BY <1>1 DEF HandlersOK, HandlerOK
<1>3. RoomsOK' /\ ByHandOK'
  BY <1>1 DEF RoomsOK, ByHandOK, Passing
<1>4. GeneratorsOK'
  <2>1. \A q \in Requests : Generating(q)' <=> Generating(q)
    BY <1>1 DEF Generating
  <2>2. ASSUME NEW q \in Requests, Generating(q), req[q].at = "create",
               <<"stayover", req[q].room>> \notin contended
        PROVE  Alive("stayover", req[q].room)' = {}
    <3> PICK x \in Rooms : x = req[q].room
      BY <2>2, BusyHandlers DEF Generating, HandlerRecord
    <3>1. Alive("stayover", x)' = {}
      BY <2>2 DEF GeneratorsOK
    <3>2. QED
      BY <3>1
  <2>3. QED
    BY <2>1, <2>2 DEF GeneratorsOK
<1>5. QED
  BY <1>2, <1>3, <1>4

LEMMA LookForCheckoutInv ==
  ASSUME IInv, NEW r \in Rooms, LookForCheckout(r)
  PROVE  IInv'
<1> USE DEF IInv
<1>1. /\ looking[r] > 0 /\ looking' = [looking EXCEPT ![r] = @ - 1]
      /\ creating' = IF Alive("checkout", r) # {} THEN creating
                     ELSE [creating EXCEPT ![r] = @ + 1]
      /\ UNCHANGED <<requireInspection, taskVars, room, req, handled, passed, raced, uncared, contended>>
  BY DEF LookForCheckout, history
<1>2. HKTypeOK'
  BY <1>1 DEF HKTypeOK, taskVars
<1>3. /\ UnbornOK' /\ \A type \in Generated, x \in Rooms : Alive(type, x)' = Alive(type, x)
      /\ \A x \in Rooms : OfKind("checkout", x)' = OfKind("checkout", x)
      /\ \A t \in Tasks : Open(t)' <=> Open(t)
  BY <1>1, KeptTasks
<1>4. HandlersOK' /\ RoomsOK' /\ GeneratorsOK' /\ ByHandOK'
  BY <1>1, <1>3, BesideHandlers DEF Generated
<1>5. DirtyRoomHasTask'
  <2> SUFFICES ASSUME NEW x \in Rooms, room[x] = "vacant_dirty", looking'[x] + creating'[x] = 0,
                      x \notin uncared
               PROVE  \E t \in OfKind("checkout", x) : Open(t)
    BY <1>1, <1>3 DEF DirtyRoomHasTask, OfKind
  <2>1. CASE x # r
    BY <1>1, <2>1 DEF DirtyRoomHasTask, HKTypeOK
  <2>2. CASE x = r
    <3>1. Alive("checkout", r) # {}
      BY <1>1, <2>2 DEF HKTypeOK
    <3>2. QED
      BY <2>2, <3>1 DEF Alive
  <2>3. QED
    BY <2>1, <2>2
<1>6. ListenersOK'
  <2> SUFFICES ASSUME NEW x \in Rooms, <<"checkout", x>> \notin contended
               PROVE  /\ looking'[x] + creating'[x] <= 1
                      /\ creating'[x] > 0 => Alive("checkout", x) = {}
    BY <1>1, <1>3 DEF ListenersOK, Generated
  <2>1. /\ looking[x] \in Nat /\ creating[x] \in Nat /\ looking[x] + creating[x] <= 1
        /\ creating[x] > 0 => Alive("checkout", x) = {}
    BY DEF ListenersOK, HKTypeOK
  <2>2. CASE x # r
    BY <1>1, <2>1, <2>2 DEF HKTypeOK
  <2>3. CASE x = r
    BY <1>1, <2>1, <2>3 DEF HKTypeOK
  <2>4. QED
    BY <2>2, <2>3
<1>7. UniqueOK'
  BY <1>1, <1>3 DEF UniqueOK
<1>8. QED
  BY <1>2, <1>3, <1>4, <1>5, <1>6, <1>7

LEMMA CreateCheckoutInv ==
  ASSUME IInv, NEW r \in Rooms, CreateCheckout(r)
  PROVE  IInv'
<1> USE DEF IInv
<1>1. /\ creating[r] > 0 /\ creating' = [creating EXCEPT ![r] = @ - 1] /\ Insert("checkout", r)
      /\ UNCHANGED <<requireInspection, room, looking, req, handled, passed, raced, uncared, contended>>
  BY DEF CreateCheckout, history
<1>2. "checkout" \in Types /\ "checkout" \in Generated /\ "stayover" \in Generated
  BY DEF Types, Generated
<1>3. /\ status' \in [Tasks -> TaskStatus] /\ doer' = doer /\ about' \in [Tasks -> Types \X Rooms]
      /\ UnbornOK'
      /\ \A k \in Generated, x \in Rooms :
           <<k, x>> # <<"checkout", r>> => Alive(k, x)' = Alive(k, x)
      /\ \A x \in Rooms : \A u \in OfKind("checkout", x) :
           Open(u) => u \in OfKind("checkout", x)' /\ Open(u)'
  BY <1>1, <1>2, OneIsInserted
<1>4. PICK t \in Tasks : /\ t \in OfKind("checkout", r)' /\ Open(t)'
                         /\ Alive("checkout", r)' = Alive("checkout", r) \cup {t}
  BY <1>1, <1>2, OneIsInserted
<1>5. HKTypeOK'
  BY <1>1, <1>3 DEF HKTypeOK
<1>6. HandlersOK' /\ RoomsOK' /\ GeneratorsOK' /\ ByHandOK'
  BY <1>1, <1>2, <1>3, BesideHandlers
<1>7. DirtyRoomHasTask'
  <2> SUFFICES ASSUME NEW x \in Rooms, room[x] = "vacant_dirty", looking[x] + creating'[x] = 0,
                      x \notin uncared
               PROVE  \E u \in OfKind("checkout", x)' : Open(u)'
    BY <1>1 DEF DirtyRoomHasTask
  <2>1. CASE x = r
    BY <1>4, <2>1
  <2>2. CASE x # r
    BY <1>1, <1>3, <2>2 DEF DirtyRoomHasTask, HKTypeOK
  <2>3. QED
    BY <2>1, <2>2
<1>8. ListenersOK'
  <2> SUFFICES ASSUME NEW x \in Rooms, <<"checkout", x>> \notin contended
               PROVE  /\ looking[x] + creating'[x] <= 1
                      /\ creating'[x] > 0 => Alive("checkout", x)' = {}
    BY <1>1 DEF ListenersOK
  <2>1. /\ looking[x] \in Nat /\ creating[x] \in Nat /\ looking[x] + creating[x] <= 1
        /\ creating[x] > 0 => Alive("checkout", x) = {}
    BY DEF ListenersOK, HKTypeOK
  <2>2. CASE x = r
    BY <1>1, <2>1, <2>2 DEF HKTypeOK
  <2>3. CASE x # r
    BY <1>1, <1>2, <1>3, <2>1, <2>3 DEF HKTypeOK
  <2>4. QED
    BY <2>2, <2>3
<1>9. UniqueOK'
  <2> SUFFICES ASSUME NEW k \in Generated, NEW x \in Rooms, <<k, x>> \notin contended
               PROVE  AtMostOne(Alive(k, x)')
    BY <1>1 DEF UniqueOK, AtMostOne
  <2>1. CASE <<k, x>> # <<"checkout", r>>
    BY <1>3, <2>1 DEF UniqueOK
  <2>2. CASE k = "checkout" /\ x = r
    <3>1. Alive("checkout", r) = {}
      BY <1>1, <2>2 DEF ListenersOK
    <3>2. QED
      BY <1>4, <2>2, <3>1 DEF AtMostOne
  <2>3. QED
    BY <2>1, <2>2
<1>10. QED
  BY <1>3, <1>5, <1>6, <1>7, <1>8, <1>9

LEMMA LoseListenerInv ==
  ASSUME IInv, NEW r \in Rooms, LoseListener(r)
  PROVE  IInv'
<1> USE DEF IInv
<1>1. /\ looking' \in [Rooms -> Nat] /\ creating' \in [Rooms -> Nat]
      /\ \A x \in Rooms : /\ looking'[x] + creating'[x] <= looking[x] + creating[x]
                          /\ creating'[x] > 0 => creating[x] > 0
                          /\ x # r => looking'[x] = looking[x] /\ creating'[x] = creating[x]
  BY DEF LoseListener, HKTypeOK
<1>2. /\ uncared' = uncared \cup {r}
      /\ UNCHANGED <<requireInspection, taskVars, room, req, handled, passed, raced, contended>>
  BY DEF LoseListener
<1>3. HKTypeOK'
  BY <1>1, <1>2 DEF HKTypeOK, taskVars
<1>4. /\ UnbornOK' /\ \A type \in Generated, x \in Rooms : Alive(type, x)' = Alive(type, x)
      /\ \A x \in Rooms : OfKind("checkout", x)' = OfKind("checkout", x)
      /\ \A t \in Tasks : Open(t)' <=> Open(t)
  BY <1>2, KeptTasks
<1>5. HandlersOK' /\ RoomsOK' /\ GeneratorsOK' /\ ByHandOK'
  BY <1>2, <1>4, BesideHandlers DEF Generated
<1>6. DirtyRoomHasTask'
  <2> SUFFICES ASSUME NEW x \in Rooms, room[x] = "vacant_dirty", looking'[x] + creating'[x] = 0,
                      x \notin uncared'
               PROVE  \E t \in OfKind("checkout", x) : Open(t)
    BY <1>2, <1>4 DEF DirtyRoomHasTask, OfKind
  <2>1. x # r /\ x \notin uncared
    BY <1>2
  <2>2. QED
    BY <1>1, <2>1 DEF DirtyRoomHasTask
<1>7. ListenersOK'
  <2> SUFFICES ASSUME NEW x \in Rooms, <<"checkout", x>> \notin contended
               PROVE  /\ looking'[x] + creating'[x] <= 1
                      /\ creating'[x] > 0 => Alive("checkout", x) = {}
    BY <1>2, <1>4 DEF ListenersOK, Generated
  <2>1. looking[x] \in Nat /\ creating[x] \in Nat /\ looking'[x] \in Nat /\ creating'[x] \in Nat
    BY <1>1 DEF HKTypeOK
  <2>2. QED
    BY <1>1, <2>1 DEF ListenersOK
<1>8. UniqueOK'
  BY <1>2, <1>4 DEF UniqueOK
<1>9. QED
  BY <1>3, <1>4, <1>5, <1>6, <1>7, <1>8

-----------------------------------------------------------------------------
(* The invariant holds.                                                    *)

LEMMA Initially ==
  ASSUME HKInit
  PROVE  IInv
<1> USE DEF HKInit
<1>1. HKTypeOK
  <2>1. about \in [Tasks -> Types \X Rooms]
    BY HousekeepingAssumption DEF Types, Generated
  <2>2. room \in [Rooms -> RoomStatus]
    BY DEF RoomStatus
  <2>3. looking \in [Rooms -> Nat] /\ creating \in [Rooms -> Nat] /\ handled \in 0..MaxHandlers
    BY HousekeepingAssumption
  <2>4. QED
    BY <2>1, <2>2, <2>3 DEF HKTypeOK, TaskStatus
<1>2. Busy = {}
  BY DEF Busy
<1>3. \A k, r : OfKind(k, r) = {} /\ Alive(k, r) = {}
  BY DEF OfKind, Alive, Exists
<1>4. HandlersOK /\ UnbornOK /\ ByHandOK
  BY <1>2 DEF HandlersOK, UnbornOK, ByHandOK
<1>5. RoomsOK /\ DirtyRoomHasTask
  BY <1>2 DEF RoomsOK, DirtyRoomHasTask
<1>6. ListenersOK /\ GeneratorsOK /\ UniqueOK
  BY <1>2, <1>3 DEF ListenersOK, GeneratorsOK, Generating, UniqueOK, AtMostOne
<1>7. QED
  BY <1>1, <1>4, <1>5, <1>6 DEF IInv

\* One step per operation of a handler ...
LEMMA HandlerInv ==
  ASSUME IInv, NEW q \in Requests, Handler(q)
  PROVE  IInv'
<1>1. ASSUME NEW t \in Tasks,
             \/ Assign(q, t) \/ StartTask(q, t) \/ Unassign(q, t) \/ SkipTask(q, t)
             \/ CompleteTask(q, t) \/ InspectTask(q, t)
      PROVE  IInv'
  <2>1. \E op \in Claims, flag \in BOOLEAN : BeginHandler(q, op, t, flag)
    BY <1>1 DEF Assign, StartTask, Unassign, SkipTask, CompleteTask, InspectTask, Claims
  <2>2. QED
    BY <2>1, BeginHandlerInv
<1>2. ASSUME NEW t \in Tasks, Delete(q, t) PROVE IInv'
  BY <1>2, DeleteInv
<1>3. CASE AutoAssign(q)
  BY <1>3, AutoAssignInv
<1>4. CASE ReadNext(q)
  BY <1>4, ReadNextInv
<1>5. CASE ClaimTransition(q)
  BY <1>5, ClaimTransitionInv
<1>6. CASE DeleteRow(q)
  BY <1>6, DeleteRowInv
<1>7. ASSUME NEW r \in Rooms, NEW type \in ManualTypes, Create(q, type, r) PROVE IInv'
  BY <1>7, CreateInv
<1>8. ASSUME NEW r \in Rooms, NEW target \in PatchTargets, PatchRoom(q, r, target) PROVE IInv'
  BY <1>8, PatchRoomInv
<1>9. CASE GenerateStayoverTasks(q)
  BY <1>9, GenerateInv
<1>10. CASE LookForStayover(q)
  BY <1>10, LookForStayoverInv
<1>11. CASE InsertTask(q)
  BY <1>11, InsertTaskInv
<1>12. CASE GetRoomStatus(q)
  BY <1>12, GetRoomStatusInv
<1>13. CASE ReadRoom(q)
  BY <1>13, ReadRoomInv
<1>14. CASE WriteRoom(q)
  BY <1>14, WriteRoomInv
<1>15. CASE Abort(q)
  BY <1>15, AbortInv
<1>16. QED
  BY <1>1, <1>2, <1>3, <1>4, <1>5, <1>6, <1>7, <1>8, <1>9, <1>10, <1>11, <1>12, <1>13,
     <1>14, <1>15 DEF Handler

\* ... and one per operation of the listener.
LEMMA StepInv ==
  ASSUME IInv, [HKNext]_hkVars
  PROVE  IInv'
<1>1. ASSUME NEW q \in Requests, Handler(q) PROVE IInv'
  BY <1>1, HandlerInv
<1>2. ASSUME NEW r \in Rooms, Listener(r) PROVE IInv'
  BY <1>2, LookForCheckoutInv, CreateCheckoutInv, LoseListenerInv DEF Listener
<1>3. CASE UNCHANGED hkVars
  <2>1. UNCHANGED <<requireInspection, status, doer, about, room, looking, creating, req, handled,
                    passed, raced, uncared, contended>>
    BY <1>3 DEF hkVars, taskVars, history
  <2>2. UNCHANGED taskVars
    BY <2>1 DEF taskVars
  <2>3. \A r \in Rooms : Alive("stayover", r)' = Alive("stayover", r)
    BY <2>2, KeptTasks DEF Generated
  <2>4. HandlersOK' /\ RoomsOK' /\ GeneratorsOK' /\ ByHandOK'
    BY <2>1, <2>3, BesideHandlers
  <2>5. UnbornOK' /\ DirtyRoomHasTask'
    BY <2>1, <2>2, KeptTasks, StillDirty DEF IInv
  <2>6. ListenersOK' /\ UniqueOK'
    BY <2>1, <2>2, KeptTasks DEF IInv, ListenersOK, UniqueOK, Generated
  <2>7. HKTypeOK'
    BY <2>1 DEF IInv, HKTypeOK
  <2>8. QED
    BY <2>4, <2>5, <2>6, <2>7 DEF IInv
<1>4. QED
  BY <1>1, <1>2, <1>3 DEF HKNext

\* The tasks, rooms, listeners and handlers keep their types, and the parts of the
\* invariant hold, in every behaviour of housekeeping.
THEOREM HKInvariant == HKSpec => []IInv
<1>1. HKInit => IInv
  BY Initially
<1>2. IInv /\ [HKNext]_hkVars => IInv'
  BY StepInv
<1>3. QED
  BY <1>1, <1>2, PTL DEF HKSpec

\* Tasks, rooms, listeners and handlers keep their types, for any number of them.
THEOREM HKTypeCorrect == HKSpec => []HKTypeOK
<1>1. IInv => HKTypeOK
  BY DEF IInv
<1>2. QED
  BY <1>1, HKInvariant, PTL

\* No room is ready for a guest unless it was inspected since it was last dirty.
THEOREM ReadyRoomsWereInspected == HKSpec => []ReadyRoomWasInspected
<1>1. IInv => ReadyRoomWasInspected
  BY DEF IInv, RoomsOK, ReadyRoomWasInspected
<1>2. QED
  BY <1>1, HKInvariant, PTL

\* A dirty room has an open checkout task, or a listener is about to see to it.
THEOREM DirtyRoomsHaveTasks == HKSpec => []DirtyRoomHasTask
<1>1. IInv => DirtyRoomHasTask
  BY DEF IInv
<1>2. QED
  BY <1>1, HKInvariant, PTL

\* No room has two open checkout tasks, or two stayover tasks for the day.
THEOREM TasksAreUnique == HKSpec => []NoDuplicateTasks
<1>1. ASSUME NEW S, AtMostOne(S)
      PROVE  Cardinality(S) <= 1
  <2>1. CASE S = {}
    <3>1. Cardinality(S) = 0
      BY <2>1, FS_EmptySet
    <3>2. QED
      BY <3>1
  <2>2. CASE S # {}
    <3>1. PICK t : S = {t}
      BY <1>1, <2>2 DEF AtMostOne
    <3>2. Cardinality({t}) = 1
      BY FS_Singleton
    <3>3. QED
      BY <3>1, <3>2
  <2>3. QED
    BY <2>1, <2>2
<1>2. IInv => NoDuplicateTasks
  BY <1>1 DEF IInv, UniqueOK, NoDuplicateTasks
<1>3. QED
  BY <1>2, HKInvariant, PTL

-----------------------------------------------------------------------------
(* Housekeeping implements the lifecycle of a task.                        *)

LEMMA Moved ==
  ASSUME HKTypeOK, NEW t \in Tasks, NEW to, status[t] # to, status' = [status EXCEPT ![t] = to]
  PROVE  status' # status
BY DEF HKTypeOK

LEMMA InsertIsCreate ==
  ASSUME HKTypeOK, UnbornOK, NEW type, NEW r, Insert(type, r)
  PROVE  Lifecycle!Next
<1>1. PICK t \in Tasks : /\ status[t] = "none" /\ status' = [status EXCEPT ![t] = "pending"]
                         /\ doer' = doer
  BY DEF Insert
<1>2. doer' = [doer EXCEPT ![t] = NoOne]
  BY <1>1 DEF UnbornOK, HKTypeOK
<1>3. Lifecycle!Create(t)
  BY <1>1, <1>2 DEF Lifecycle!Create, Lifecycle!Move
<1>4. status' # status
  BY <1>1, Moved
<1>5. QED
  BY <1>3, <1>4 DEF Lifecycle!Next

LEMMA ClaimIsAStep ==
  ASSUME HKTypeOK, NEW t \in Tasks, NEW op \in Claims, Claimable(t, op),
         NEW by \in DoerAfter(t, op), WriteTask(t, ClaimOf(op).to, by)
  PROVE  Lifecycle!Next
<1> USE DEF Lifecycle!Move
<1>1. /\ status[t] \in ClaimOf(op).from /\ status' = [status EXCEPT ![t] = ClaimOf(op).to]
      /\ doer' = [doer EXCEPT ![t] = by]
  BY DEF Claimable, WriteTask
<1>0. status' # status
  <2>1. ClaimOf(op).to \notin ClaimOf(op).from
    BY DEF ClaimOf, Claims
  <2>2. PICK to : to = ClaimOf(op).to
    OBVIOUS
  <2>3. status[t] # to /\ status' = [status EXCEPT ![t] = to]
    BY <1>1, <2>1, <2>2
  <2>4. QED
    BY <2>3, Moved
<1>2. CASE op = "assign"
  <2>1. by \in Housekeepers /\ ClaimOf(op).from = {"pending"} /\ ClaimOf(op).to = "assigned"
    BY <1>2 DEF DoerAfter, ClaimOf
  <2>2. Lifecycle!Assign(t)
    BY <1>1, <2>1 DEF Lifecycle!Assign
  <2>3. QED
    BY <1>0, <2>2 DEF Lifecycle!Next
<1>3. CASE op = "unassign"
  <2>1. by = NoOne /\ ClaimOf(op).from = {"assigned"} /\ ClaimOf(op).to = "pending"
    BY <1>3 DEF DoerAfter, ClaimOf
  <2>2. Lifecycle!Unassign(t)
    BY <1>1, <2>1 DEF Lifecycle!Unassign
  <2>3. QED
    BY <1>0, <2>2 DEF Lifecycle!Next
<1>4. CASE op = "start"
  <2>1. by = doer[t] /\ ClaimOf(op).from = {"assigned"} /\ ClaimOf(op).to = "in_progress"
    BY <1>4 DEF DoerAfter, ClaimOf
  <2>2. Lifecycle!Start(t)
    BY <1>1, <2>1 DEF Lifecycle!Start
  <2>3. QED
    BY <1>0, <2>2 DEF Lifecycle!Next
<1>5. CASE op = "complete"
  <2>1. /\ by = doer[t] /\ ClaimOf(op).from = {"in_progress"}
        /\ ClaimOf(op).to \in {"completed", "inspected"}
    BY <1>5 DEF DoerAfter, ClaimOf
  <2>2. Lifecycle!Complete(t)
    BY <1>1, <2>1 DEF Lifecycle!Complete
  <2>3. QED
    BY <1>0, <2>2 DEF Lifecycle!Next
<1>6. CASE op \in {"pass", "fail"}
  <2>1. /\ ClaimOf(op).from = {"completed"}
        /\ \/ by = doer[t] /\ ClaimOf(op).to = "inspected"
           \/ by = NoOne /\ ClaimOf(op).to = "pending"
    BY <1>6 DEF DoerAfter, ClaimOf
  <2>2. Lifecycle!Inspect(t)
    BY <1>1, <2>1 DEF Lifecycle!Inspect
  <2>3. QED
    BY <1>0, <2>2 DEF Lifecycle!Next
<1>7. CASE op = "skip"
  <2>1. /\ by = doer[t] /\ ClaimOf(op).from = {"pending", "assigned"} /\ ClaimOf(op).to = "skipped"
    BY <1>7 DEF DoerAfter, ClaimOf
  <2>2. Lifecycle!Skip(t)
    BY <1>1, <2>1 DEF Lifecycle!Skip
  <2>3. QED
    BY <1>0, <2>2 DEF Lifecycle!Next
<1>8. QED
  BY <1>2, <1>3, <1>4, <1>5, <1>6, <1>7 DEF Claims

LEMMA DeletionIsAStep ==
  ASSUME HKTypeOK, NEW t \in Tasks, Exists(t), WriteTask(t, "deleted", doer[t])
  PROVE  Lifecycle!Next
<1>1. status[t] \in Lifecycle!TaskStatus \ {"none", "deleted"}
  BY DEF HKTypeOK, Exists, TaskStatus, Lifecycle!TaskStatus
<1>2. Lifecycle!Delete(t)
  BY <1>1 DEF Lifecycle!Delete, Lifecycle!Move, WriteTask
<1>3. status' # status
  BY <1>1, Moved DEF WriteTask
<1>4. QED
  BY <1>2, <1>3 DEF Lifecycle!Next

\* A step of a handler is a step in the life of one task, or changes none.
LEMMA HandlerRefines ==
  ASSUME IInv, NEW q \in Requests, Handler(q)
  PROVE  Lifecycle!Next \/ UNCHANGED <<status, doer>>
<1>1. CASE ClaimTransition(q)
  <2> DEFINE r == req[q]
  <2>1. q \in Busy /\ r.at = "claim"
    BY <1>1 DEF ClaimTransition, Busy
  <2>2. r.task \in Tasks /\ OpOf(r) \in Claims
    BY <2>1 DEF IInv, HandlersOK, HandlerOK, OpOf, Claims
  <2>3. CASE /\ Claimable(r.task, OpOf(r))
             /\ \E by \in DoerAfter(r.task, OpOf(r)) : WriteTask(r.task, ClaimOf(OpOf(r)).to, by)
    BY <2>2, <2>3, ClaimIsAStep DEF IInv
  <2>4. CASE UNCHANGED taskVars
    BY <2>4 DEF taskVars
  <2>5. QED
    BY <1>1, <2>3, <2>4 DEF ClaimTransition
<1>2. CASE DeleteRow(q)
  <2>1. q \in Busy /\ req[q].at = "delete"
    BY <1>2 DEF DeleteRow, Busy
  <2>2. req[q].task \in Tasks
    BY <2>1 DEF IInv, HandlersOK, HandlerOK
  <2>3. QED
    BY <1>2, <2>2, DeletionIsAStep DEF DeleteRow, IInv, taskVars
<1>3. CASE InsertTask(q)
  BY <1>3, InsertIsCreate DEF InsertTask, IInv
<1>4. ASSUME NEW t \in Tasks,
             \/ Assign(q, t) \/ StartTask(q, t) \/ Unassign(q, t) \/ SkipTask(q, t)
             \/ CompleteTask(q, t) \/ InspectTask(q, t) \/ Delete(q, t)
      PROVE  UNCHANGED <<status, doer>>
  BY <1>4 DEF Assign, StartTask, Unassign, SkipTask, CompleteTask, InspectTask, BeginHandler,
              Delete, taskVars
<1>5. CASE AutoAssign(q) \/ ReadNext(q) \/ GenerateStayoverTasks(q) \/ LookForStayover(q)
  BY <1>5 DEF AutoAssign, ReadNext, GenerateStayoverTasks, LookForStayover, taskVars
<1>6. CASE GetRoomStatus(q) \/ ReadRoom(q) \/ WriteRoom(q) \/ Abort(q)
  BY <1>6 DEF GetRoomStatus, ReadRoom, WriteRoom, Abort, taskVars
<1>7. ASSUME NEW r \in Rooms, \/ \E type \in ManualTypes : Create(q, type, r)
                              \/ \E target \in PatchTargets : PatchRoom(q, r, target)
      PROVE  UNCHANGED <<status, doer>>
  BY <1>7 DEF Create, PatchRoom, taskVars
<1>8. QED
  BY <1>1, <1>2, <1>3, <1>4, <1>5, <1>6, <1>7 DEF Handler

\* However requests, batches and deletions interleave, a task walks along its graph.
THEOREM Refinement == HKSpec => ImplementsTaskLifecycle
<1>1. HKInit => Lifecycle!Init
  BY DEF HKInit, Lifecycle!Init
<1>2. IInv /\ [HKNext]_hkVars => [Lifecycle!Next]_(Lifecycle!vars)
  <2> SUFFICES ASSUME IInv, [HKNext]_hkVars
               PROVE  Lifecycle!Next \/ UNCHANGED <<status, doer>>
    BY DEF Lifecycle!vars
  <2>1. ASSUME NEW r \in Rooms, Listener(r)
        PROVE  Lifecycle!Next \/ UNCHANGED <<status, doer>>
    BY <2>1, InsertIsCreate
       DEF Listener, LookForCheckout, CreateCheckout, LoseListener, taskVars, IInv
  <2>2. CASE UNCHANGED hkVars
    BY <2>2 DEF hkVars, taskVars
  <2>3. QED
    BY <2>1, <2>2, HandlerRefines DEF HKNext
<1>3. QED
  BY <1>1, <1>2, HKInvariant, PTL DEF HKSpec, ImplementsTaskLifecycle, Lifecycle!Spec

-----------------------------------------------------------------------------
(* Administration: what a request is about at each of its steps.           *)

Secrets == [value : SentSecrets, sealed : BOOLEAN]

ProviderSettings == [Providers -> [enabled : BOOLEAN, secret : Secrets]]

Provisions ==
  [op : {"provision"}, at : {"property", "save", "taxes", "profile", "rule", "bus", "bind"},
   country : Countries, taxes : BOOLEAN, found : BOOLEAN, row : Nat]

Upserts ==
  [op : {"upsert"}, at : {"settings"}, provider : Providers, enabled : BOOLEAN,
   secret : SentSecrets, read : ProviderSettings]

Updates ==
  [op : {"update"}, at : {"guest", "write"}, name : {"Ann", "Bea"}, consent : {"unsaid", "yes", "no"}]

Erasures == [op : {"erase"}, at : {"erase", "log"}]

PARequests == {IdleRequest} \cup Provisions \cup Upserts \cup Updates \cup Erasures

Pasts ==
  [torn : SUBSET Countries, answered : SUBSET Countries, saved : ProviderSettings, reverted : BOOLEAN,
   unsealed : SUBSET Providers, late : SUBSET Admins, rewritten : BOOLEAN]

PATypeOK ==
  /\ tenant \in {"none", "active", "inactive"}
  /\ profiles \in Seq([country : Countries, rules : Nat])
  /\ bus \in Seq(BOOLEAN)
  /\ settings \in ProviderSettings
  /\ config \in [key : BOOLEAN, url : BOOLEAN]
  /\ guest \in [isDeleted : BOOLEAN, name : {"Ann", "Bea", "Deleted"}, consent : BOOLEAN,
                consentDate : BOOLEAN]
  /\ erasures \in Nat /\ requests \in Nat /\ faults \in Nat
  /\ run \in [Admins -> PARequests]
  /\ past \in Pasts

\* A request that has found the guest before the erasure counts as late.
LateOK ==
  guest.isDeleted => \A w \in Admins : Step(w, "write") => w \in past.late

\* A profile has all of its rules, or somebody is at them, or broke off.
ProfilesOK ==
  /\ \A i \in DOMAIN profiles :
       \/ profiles[i].rules = PresetRules
       \/ profiles[i].country \in past.torn
       \/ \E w \in Admins : Step(w, "rule") /\ run[w].row = i
  /\ \A w \in Admins : Step(w, "rule") =>
       run[w].row \in DOMAIN profiles /\ profiles[run[w].row].country = run[w].country

\* Who leaves the taxes behind has seen a profile.
TaxedOK ==
  /\ \A w \in Admins :
       Step(w, "bus") \/ Step(w, "bind") =>
         ~run[w].taxes \/ run[w].country \notin Presets \/ ProfilesOf(run[w].country) # {}
  /\ \A c \in Presets \cap past.answered : ProfilesOf(c) # {}

\* Those about to insert a profile of a country, or a subscription.
Inserting(c) == {w \in Admins : Step(w, "profile") /\ run[w].country = c}

Binding == {w \in Admins : Step(w, "bind") /\ ~run[w].found}

RowsOK ==
  /\ \A c \in Presets : Cardinality(ProfilesOf(c)) + Cardinality(Inserting(c)) <= Cardinality(Admins)
  /\ Len(bus) + Cardinality(Binding) <= Cardinality(Admins)

\* Settings, stored or read, whose secrets are sealed but for those set without a key.
SealedIn(s) ==
  \A p \in Providers : s[p].secret.value # "" => (s[p].secret.sealed \/ p \in past.unsealed)

SealedOK ==
  /\ past.reverted \/ settings = past.saved
  /\ SealedIn(settings)
  /\ \A w \in Admins : Step(w, "settings") => SealedIn(run[w].read)

PAInv ==
  /\ PATypeOK /\ LateOK /\ ErasureHolds /\ ProfilesOK /\ TaxedOK /\ RowsOK /\ SealedOK

LEMMA RequestsAt ==
  ASSUME PATypeOK, NEW w \in Admins
  PROVE  /\ run[w] \in PARequests
         /\ \A at \in {"property", "save", "taxes", "profile", "rule", "bus", "bind"} :
              Step(w, at) => run[w] \in Provisions
         /\ Step(w, "settings") => run[w] \in Upserts
         /\ Step(w, "guest") \/ Step(w, "write") => run[w] \in Updates
         /\ Step(w, "erase") \/ Step(w, "log") => run[w] \in Erasures
         /\ run[w].at # "idle" => run[w] # IdleRequest
BY DEF PATypeOK, PARequests, Step, IdleRequest, Provisions, Upserts, Updates, Erasures

\* The requests begin, go on and end at one administrator.
LEMMA Requested ==
  ASSUME PATypeOK, NEW w \in Admins, NEW r, run' = [run EXCEPT ![w] = r]
  PROVE  /\ \A v \in Admins : run'[v] = IF v = w THEN r ELSE run[v]
         /\ r \in PARequests => run' \in [Admins -> PARequests]
BY DEF PATypeOK

LEMMA AnswersTyped ==
  ASSUME PATypeOK, NEW r \in Provisions, Answered(r)
  PROVE  past' \in Pasts
<1>1. (IF r.taxes THEN past.answered \cup {r.country} ELSE past.answered) \in SUBSET Countries
  BY DEF PATypeOK, Pasts, Provisions
<1>2. QED
  BY <1>1 DEF PATypeOK, Pasts, Answered

\* Of the provider in question, what is sent is taken over, but for an empty secret.
LEMMA MergedTyped ==
  ASSUME PATypeOK, NEW r \in Upserts
  PROVE  /\ Merged(r) \in ProviderSettings
         /\ Merged(r) = [r.read EXCEPT ![r.provider] =
                           [enabled |-> r.enabled,
                            secret |-> IF r.secret = "" THEN @.secret ELSE Seal(r.secret)]]
<1> DEFINE q == r.provider
           s == IF r.secret = "" THEN r.read[q].secret ELSE Seal(r.secret)
<1>1. r.read \in ProviderSettings /\ q \in Providers /\ r.enabled \in BOOLEAN
  BY DEF Upserts
<1>2. r.read[q] \in [enabled : BOOLEAN, secret : Secrets]
  BY <1>1 DEF ProviderSettings
<1>3. s \in Secrets
  BY <1>2 DEF Seal, Secrets, Upserts, PATypeOK
<1>4. [enabled |-> r.enabled, secret |-> s] \in [enabled : BOOLEAN, secret : Secrets]
  BY <1>1, <1>3
<1>5. Merged(r) = [[r.read EXCEPT ![q] = [r.read[q] EXCEPT !.enabled = r.enabled]] EXCEPT ![q].secret = s]
  BY <1>1 DEF Merged, ProviderSettings
<1> HIDE DEF s
<1>6. \A x \in [enabled : BOOLEAN, secret : Secrets] :
        [[x EXCEPT !.enabled = r.enabled] EXCEPT !.secret = s] = [enabled |-> r.enabled, secret |-> s]
  <2>1. SUFFICES ASSUME NEW x \in [enabled : BOOLEAN, secret : Secrets], NEW e \in BOOLEAN, NEW t \in Secrets
                 PROVE  [[x EXCEPT !.enabled = e] EXCEPT !.secret = t] = [enabled |-> e, secret |-> t]
    BY <1>1, <1>3
  <2>2. [x EXCEPT !.enabled = e] = [enabled |-> e, secret |-> x.secret]
    OBVIOUS
  <2>3. [[enabled |-> e, secret |-> x.secret] EXCEPT !.secret = t] = [enabled |-> e, secret |-> t]
    OBVIOUS
  <2>4. QED
    BY <2>2, <2>3
<1>7. Merged(r) = [r.read EXCEPT ![q] = [enabled |-> r.enabled, secret |-> s]]
  BY <1>1, <1>2, <1>5, <1>6 DEF ProviderSettings
<1>8. Merged(r) \in ProviderSettings
  <2>1. PICK z \in [enabled : BOOLEAN, secret : Secrets] : z = [enabled |-> r.enabled, secret |-> s]
    BY <1>4
  <2>2. [r.read EXCEPT ![q] = z] \in ProviderSettings
    BY <1>1 DEF ProviderSettings
  <2>3. QED
    BY <1>7, <2>1, <2>2
<1>9. Merged(r) = [r.read EXCEPT ![q] =
                     [enabled |-> r.enabled,
                      secret |-> IF r.secret = "" THEN @.secret ELSE Seal(r.secret)]]
  BY <1>1, <1>7 DEF s, ProviderSettings
<1>10. QED
  BY <1>8, <1>9

\* What an update of the payment settings holds when it has read them.
LEMMA Upserted ==
  ASSUME NEW w \in Admins, Upsert(w)
  PROVE  \E p \in Providers, enabled \in BOOLEAN, secret \in SentSecrets :
           /\ run' = [run EXCEPT ![w] = [op |-> "upsert", at |-> "settings", provider |-> p,
                                         enabled |-> enabled, secret |-> secret, read |-> settings]]
           /\ requests' = requests + 1
           /\ UNCHANGED <<tenant, profiles, bus, settings, guest, erasures, config, faults, past>>
BY DEF Upsert, rows

\* A provision that goes on.
LEMMA AnyProvision ==
  ASSUME NEW r \in Provisions
  PROVE  /\ \A at \in {"property", "save", "taxes", "profile", "rule", "bus", "bind"} :
              [r EXCEPT !.at = at] \in PARequests
         /\ \A at \in {"save", "bind"}, found \in BOOLEAN :
              [r EXCEPT !.at = at, !.found = found] \in PARequests
         /\ \A n \in Nat : [r EXCEPT !.at = "rule", !.row = n] \in PARequests
<1>1. \A at \in {"property", "save", "taxes", "profile", "rule", "bus", "bind"} :
        [r EXCEPT !.at = at] \in Provisions
  BY DEF Provisions
<1>2. \A at \in {"save", "bind"}, found \in BOOLEAN : [r EXCEPT !.at = at, !.found = found] \in Provisions
  BY DEF Provisions
<1>3. \A n \in Nat : [r EXCEPT !.at = "rule", !.row = n] \in Provisions
  BY DEF Provisions
<1>4. Provisions \subseteq PARequests
  BY DEF PARequests
<1>5. QED
  BY <1>1, <1>2, <1>3, <1>4

\* A row of a profile with one rule more.
LEMMA RuleAdded ==
  ASSUME NEW x \in [country : Countries, rules : Nat]
  PROVE  [x EXCEPT !.rules = x.rules + 1] \in [country : Countries, rules : Nat]
OBVIOUS

LEMMA PATyped ==
  ASSUME PATypeOK, PANext
  PROVE  PATypeOK'
<1> USE AdminAssumption DEF PATypeOK, rows, Go, EndRequest
<1>0. IdleRequest \in PARequests
  BY DEF PARequests
<1>1. ASSUME NEW w \in Admins, Provision(w) PROVE PATypeOK'
  <2>1. PICK c \in Countries, taxes \in BOOLEAN :
          BeginRequest(w, [op |-> "provision", at |-> "property", country |-> c, taxes |-> taxes,
                           found |-> FALSE, row |-> 0])
    BY <1>1 DEF Provision
  <2>2. [op |-> "provision", at |-> "property", country |-> c, taxes |-> taxes, found |-> FALSE,
         row |-> 0] \in PARequests
    BY DEF PARequests, Provisions
  <2>3. QED
    BY <2>1, <2>2 DEF BeginRequest
<1>2. ASSUME NEW w \in Admins, FindTenant(w) PROVE PATypeOK'
  <2>0. run[w] \in Provisions
    BY <1>2, RequestsAt DEF FindTenant
  <2>1. [run[w] EXCEPT !.at = "save", !.found = tenant # "none"] \in PARequests
    BY <2>0, AnyProvision
  <2>2. QED
    BY <1>2, <2>1 DEF FindTenant
<1>3. ASSUME NEW w \in Admins, SaveTenant(w) PROVE PATypeOK'
  <2>0. run[w] \in Provisions
    BY <1>3, RequestsAt DEF SaveTenant
  <2>1. [run[w] EXCEPT !.at = AfterSave(run[w])] \in PARequests
    BY <2>0, AnyProvision DEF AfterSave
  <2>2. QED
    BY <1>0, <1>3, <2>1 DEF SaveTenant
<1>4. ASSUME NEW w \in Admins, FindProfile(w) PROVE PATypeOK'
  <2>0. run[w] \in Provisions
    BY <1>4, RequestsAt DEF FindProfile
  <2>1. \A at \in {"profile", "bus"} : [run[w] EXCEPT !.at = at] \in PARequests
    BY <2>0, AnyProvision
  <2>2. QED
    BY <1>4, <2>1 DEF FindProfile
<1>5. ASSUME NEW w \in Admins, InsertProfile(w) PROVE PATypeOK'
  <2>1. run[w] \in Provisions
    BY <1>5, RequestsAt DEF InsertProfile
  <2>2. [country |-> run[w].country, rules |-> 0] \in [country : Countries, rules : Nat]
    BY <2>1 DEF Provisions
  <2>3. profiles' \in Seq([country : Countries, rules : Nat]) /\ Len(profiles') \in Nat
    BY <1>5, <2>2 DEF InsertProfile
  <2>4. [run[w] EXCEPT !.at = "rule", !.row = Len(profiles')] \in PARequests
    BY <2>1, <2>3 DEF PARequests, Provisions
  <2>5. QED
    BY <1>5, <2>3, <2>4 DEF InsertProfile
<1>6. ASSUME NEW w \in Admins, InsertRule(w) PROVE PATypeOK'
  <2>1. run[w] \in Provisions
    BY <1>6, RequestsAt DEF InsertRule
  <2>2. \A at \in {"rule", "bus"} : [run[w] EXCEPT !.at = at] \in PARequests
    BY <2>1 DEF PARequests, Provisions
  <2>3. profiles' \in Seq([country : Countries, rules : Nat])
    <3> DEFINE i == run[w].row
               n == profiles[i].rules + 1
    <3>1. profiles' = [profiles EXCEPT ![i].rules = n]
      BY <1>6 DEF InsertRule
    <3>2. CASE i \in DOMAIN profiles
      <4>0. i \in 1 .. Len(profiles)
        BY <3>2
      <4>1. profiles[i] \in [country : Countries, rules : Nat]
        <5>1. profiles \in Seq([country : Countries, rules : Nat])
          OBVIOUS
        <5>2. QED
          BY ONLY <4>0, <5>1, ElementOfSeq
      <4>3. [profiles[i] EXCEPT !.rules = n] \in [country : Countries, rules : Nat]
        BY ONLY <4>1, RuleAdded
      <4>4. profiles' = [profiles EXCEPT ![i] = [profiles[i] EXCEPT !.rules = n]]
        BY <3>1
      <4>5. QED
        BY <3>2, <4>3, <4>4
    <3>3. CASE i \notin DOMAIN profiles
      <4>1. profiles' = profiles
        BY <3>1, <3>3
      <4>2. QED
        BY <4>1
    <3>4. QED
      BY <3>2, <3>3
  <2>4. QED
    BY <1>6, <2>2, <2>3 DEF InsertRule
<1>7. ASSUME NEW w \in Admins, FindBus(w) PROVE PATypeOK'
  <2>1. run[w] \in Provisions
    BY <1>7, RequestsAt DEF FindBus
  <2>2. PICK found \in BOOLEAN : found = (bus # <<>>)
    OBVIOUS
  <2>3. [run[w] EXCEPT !.at = "bind", !.found = found] \in PARequests
    BY <2>1, AnyProvision
  <2>4. past' \in Pasts
    BY <1>7, <2>1, AnswersTyped DEF FindBus
  <2>5. PICK r \in PARequests : run' = [run EXCEPT ![w] = r]
    BY <1>0, <1>7, <2>2, <2>3 DEF FindBus
  <2>6. UNCHANGED <<tenant, profiles, bus, settings, guest, erasures, config, requests, faults>>
    BY <1>7 DEF FindBus
  <2>7. QED
    BY <2>4, <2>5, <2>6
<1>8. ASSUME NEW w \in Admins, SaveBus(w) PROVE PATypeOK'
  <2>1. run[w] \in Provisions
    BY <1>8, RequestsAt DEF SaveBus
  <2>2. bus' \in Seq(BOOLEAN)
    <3>1. ASSUME NEW i \in DOMAIN bus, bus' = [bus EXCEPT ![i] = TRUE] PROVE bus' \in Seq(BOOLEAN)
      BY <3>1
    <3>2. ASSUME bus' = Append(bus, TRUE) PROVE bus' \in Seq(BOOLEAN)
      BY <3>2
    <3>3. QED
      BY <1>8, <3>1, <3>2 DEF SaveBus
  <2>3. past' \in Pasts
    BY <1>8, <2>1, AnswersTyped DEF SaveBus
  <2>4. QED
    BY <1>0, <1>8, <2>2, <2>3 DEF SaveBus
<1>9. ASSUME NEW w \in Admins, Upsert(w) PROVE PATypeOK'
  <2>1. PICK p \in Providers, enabled \in BOOLEAN, secret \in SentSecrets :
          /\ run' = [run EXCEPT ![w] = [op |-> "upsert", at |-> "settings", provider |-> p,
                                        enabled |-> enabled, secret |-> secret, read |-> settings]]
          /\ requests' = requests + 1
          /\ UNCHANGED <<tenant, profiles, bus, settings, guest, erasures, config, faults, past>>
    BY <1>9, Upserted
  <2>2. [op |-> "upsert", at |-> "settings", provider |-> p, enabled |-> enabled,
         secret |-> secret, read |-> settings] \in PARequests
    BY DEF PARequests, Upserts
  <2> DEFINE r == [op |-> "upsert", at |-> "settings", provider |-> p, enabled |-> enabled,
                   secret |-> secret, read |-> settings]
  <2>3. run' = [run EXCEPT ![w] = r]
    BY <2>1
  <2>4. r \in PARequests
    BY <2>2
  <2> HIDE DEF r
  <2>5. QED
    BY <2>1, <2>3, <2>4
<1>10. ASSUME NEW w \in Admins, SaveSettings(w) PROVE PATypeOK'
  <2>1. run[w] \in Upserts
    BY <1>10, RequestsAt DEF SaveSettings
  <2>2. Merged(run[w]) \in ProviderSettings
    BY <2>1, MergedTyped
  <2>3. past' \in Pasts
    <3> DEFINE p == run[w].provider
               new == [enabled |-> run[w].enabled,
                       secret |-> IF run[w].secret = "" THEN past.saved[p].secret ELSE Seal(run[w].secret)]
               over == past.reverted \/ run[w].read # settings
               clear == IF run[w].secret = "" \/ config.key THEN past.unsealed ELSE past.unsealed \cup {p}
    <3>1. past' = [past EXCEPT !.saved = [past.saved EXCEPT ![p] = new], !.reverted = over,
                               !.unsealed = clear]
      BY <1>10 DEF SaveSettings, Pasts
    <3>2. new \in [enabled : BOOLEAN, secret : Secrets] /\ p \in Providers
      BY <2>1 DEF Seal, Upserts, ProviderSettings, Secrets, Pasts
    <3>3. [past.saved EXCEPT ![p] = new] \in ProviderSettings
      BY <3>2 DEF ProviderSettings, Pasts
    <3>4. over \in BOOLEAN /\ clear \in SUBSET Providers
      BY <3>2 DEF Pasts
    <3> HIDE DEF over, clear, new
    <3>5. QED
      BY <3>1, <3>3, <3>4 DEF Pasts
  <2>4. QED
    BY <1>0, <1>10, <2>2, <2>3 DEF SaveSettings
<1>11. ASSUME NEW w \in Admins, UpdateGuest(w) PROVE PATypeOK'
  <2>1. PICK name \in {"Ann", "Bea"}, consent \in {"unsaid", "yes", "no"} :
          BeginRequest(w, [op |-> "update", at |-> "guest", name |-> name, consent |-> consent])
    BY <1>11 DEF UpdateGuest
  <2>2. [op |-> "update", at |-> "guest", name |-> name, consent |-> consent] \in PARequests
    BY DEF PARequests, Updates
  <2>3. QED
    BY <2>1, <2>2 DEF BeginRequest
<1>12. ASSUME NEW w \in Admins, FindGuest(w) PROVE PATypeOK'
  <2>1. [run[w] EXCEPT !.at = "write"] \in PARequests
    BY <1>12, RequestsAt DEF FindGuest, PARequests, Updates
  <2>2. QED
    BY <1>0, <1>12, <2>1 DEF FindGuest
<1>13. ASSUME NEW w \in Admins, WriteGuest(w) PROVE PATypeOK'
  <2>1. run[w] \in Updates
    BY <1>13, RequestsAt DEF WriteGuest
  <2>2. past' \in Pasts
    BY <1>13 DEF WriteGuest, Pasts
  <2>3. guest' \in [isDeleted : BOOLEAN, name : {"Ann", "Bea", "Deleted"}, consent : BOOLEAN,
                   consentDate : BOOLEAN]
    BY <1>13, <2>1 DEF WriteGuest, Updates
  <2>4. QED
    BY <1>0, <1>13, <2>2, <2>3 DEF WriteGuest
<1>14. ASSUME NEW w \in Admins, Erase(w) PROVE PATypeOK'
  <2>1. [op |-> "erase", at |-> "erase"] \in PARequests
    BY DEF PARequests, Erasures
  <2>2. QED
    BY <1>14, <2>1 DEF Erase, BeginRequest
<1>15. ASSUME NEW w \in Admins, Anonymise(w) PROVE PATypeOK'
  <2>1. [run[w] EXCEPT !.at = "log"] \in PARequests
    BY <1>15, RequestsAt DEF Anonymise, PARequests, Erasures
  <2>2. past' \in Pasts
    BY <1>15 DEF Anonymise, Pasts
  <2>3. QED
    BY <1>15, <2>1, <2>2 DEF Anonymise
<1>16. ASSUME NEW w \in Admins, LogErasure(w) PROVE PATypeOK'
  BY <1>0, <1>16 DEF LogErasure
<1>17. ASSUME NEW S \in SUBSET Admins PROVE Torn(S) \subseteq Countries
  <2>1. \A w \in Admins : Step(w, "rule") => run[w].country \in Countries
    BY RequestsAt DEF Provisions
  <2>2. QED
    BY <2>1 DEF Torn
<1>18. ASSUME NEW w \in Admins, Fault(w) PROVE PATypeOK'
  <2>1. Torn({w}) \subseteq Countries
    BY <1>17
  <2>2. past' \in Pasts
    BY <1>18, <2>1 DEF Fault, Pasts
  <2>3. QED
    BY <1>0, <1>18, <2>2 DEF Fault
<1>19. ASSUME Restart PROVE PATypeOK'
  <2>1. Torn(Admins) \subseteq Countries
    BY <1>17
  <2>2. past' \in Pasts
    BY <1>19, <2>1 DEF Restart, Pasts
  <2>3. QED
    BY <1>0, <1>19, <2>2 DEF Restart
<1>20. ASSUME \E active \in BOOLEAN : SetActive(active) PROVE PATypeOK'
  BY <1>20 DEF SetActive
<1>21. ASSUME DeleteSubscription PROVE PATypeOK'
  BY <1>21 DEF DeleteSubscription
<1>22. ASSUME ConnectModify("Bea") PROVE PATypeOK'
  <2>1. past' = [past EXCEPT !.rewritten = past.rewritten \/ guest.isDeleted]
    BY <1>22 DEF ConnectModify
  <2>2. past' \in Pasts
    BY <2>1 DEF Pasts
  <2>3. guest' \in [isDeleted : BOOLEAN, name : {"Ann", "Bea", "Deleted"}, consent : BOOLEAN,
                   consentDate : BOOLEAN]
    BY <1>22 DEF ConnectModify
  <2>4. QED
    BY <1>22, <2>2, <2>3 DEF ConnectModify
<1>23. QED
  BY <1>1, <1>2, <1>3, <1>4, <1>5, <1>6, <1>7, <1>8, <1>9, <1>10, <1>11, <1>12, <1>13, <1>14,
     <1>15, <1>16, <1>18, <1>19, <1>20, <1>21, <1>22 DEF PANext

-----------------------------------------------------------------------------
(* The guest.                                                              *)

\* A step that has nothing to do with the guest.
GuestAside ==
  /\ UNCHANGED <<guest, erasures, faults>>
  /\ past'.late = past.late /\ past'.rewritten = past.rewritten
  /\ \A v \in Admins : /\ run'[v].at = "write" => run[v].at = "write"
                       /\ run[v].at = "log" => run'[v].at = "log"

LEMMA AsideOfTheGuest ==
  ASSUME PATypeOK, NEW w \in Admins,
         \/ Provision(w) \/ FindTenant(w) \/ SaveTenant(w) \/ FindProfile(w) \/ InsertProfile(w)
         \/ InsertRule(w) \/ FindBus(w) \/ SaveBus(w) \/ Upsert(w) \/ SaveSettings(w)
         \/ UpdateGuest(w) \/ Erase(w)
  PROVE  GuestAside
<1> USE DEF PATypeOK, rows, Go, EndRequest, IdleRequest
<1>1. ASSUME Provision(w) PROVE GuestAside
  BY <1>1 DEF Provision, BeginRequest, GuestAside
<1>2. ASSUME FindTenant(w) PROVE GuestAside
  <2>1. run[w] \in Provisions
    BY <1>2, RequestsAt DEF FindTenant
  <2>2. QED
    BY <1>2, <2>1 DEF FindTenant, GuestAside, Step, Provisions
<1>3. ASSUME SaveTenant(w) PROVE GuestAside
  <2>1. run[w] \in Provisions
    BY <1>3, RequestsAt DEF SaveTenant
  <2>2. QED
    BY <1>3, <2>1 DEF SaveTenant, AfterSave, GuestAside, Step, Provisions
<1>4. ASSUME FindProfile(w) PROVE GuestAside
  <2>1. run[w] \in Provisions
    BY <1>4, RequestsAt DEF FindProfile
  <2>2. QED
    BY <1>4, <2>1 DEF FindProfile, GuestAside, Step, Provisions
<1>5. ASSUME InsertProfile(w) PROVE GuestAside
  <2>1. run[w] \in Provisions
    BY <1>5, RequestsAt DEF InsertProfile
  <2>2. QED
    BY <1>5, <2>1 DEF InsertProfile, GuestAside, Step, Provisions
<1>6. ASSUME InsertRule(w) PROVE GuestAside
  <2>1. run[w] \in Provisions
    BY <1>6, RequestsAt DEF InsertRule
  <2>2. PICK at \in {"bus", "rule"} : run' = [run EXCEPT ![w] = [run[w] EXCEPT !.at = at]]
    BY <1>6 DEF InsertRule
  <2>3. QED
    BY <1>6, <2>1, <2>2 DEF InsertRule, GuestAside, Step, Provisions
<1>7. ASSUME FindBus(w) PROVE GuestAside
  <2>1. run[w] \in Provisions
    BY <1>7, RequestsAt DEF FindBus
  <2>2. past'.late = past.late /\ past'.rewritten = past.rewritten
    BY <1>7 DEF FindBus, Answered, Pasts
  <2>3. run[w].at = "bus"
    BY <1>7 DEF FindBus, Step
  <2>4. run' = [run EXCEPT ![w] = [run[w] EXCEPT !.at = "bind", !.found = bus # <<>>]]
          \/ run' = [run EXCEPT ![w] = IdleRequest]
    BY <1>7 DEF FindBus
  <2>5. \A v \in Admins : v # w => run'[v] = run[v]
    BY <2>4
  <2>6. run'[w].at \in {"bind", "idle"}
    <3>1. [run[w] EXCEPT !.at = "bind", !.found = bus # <<>>].at = "bind"
      BY <2>1 DEF Provisions
    <3>2. run \in [Admins -> PARequests]
      OBVIOUS
    <3> DEFINE r == [run[w] EXCEPT !.at = "bind", !.found = bus # <<>>]
    <3>3. run' = [run EXCEPT ![w] = r] \/ run' = [run EXCEPT ![w] = IdleRequest]
      BY <2>4
    <3>4. r.at = "bind"
      BY <3>1
    <3> HIDE DEF r
    <3>5. QED
      BY <3>2, <3>3, <3>4
  <2>7. QED
    BY <1>7, <2>2, <2>3, <2>5, <2>6 DEF FindBus, GuestAside
<1>8. ASSUME SaveBus(w) PROVE GuestAside
  <2>1. past'.late = past.late /\ past'.rewritten = past.rewritten
    BY <1>8 DEF SaveBus, Answered, Pasts
  <2>2. QED
    BY <1>8, <2>1 DEF SaveBus, GuestAside, Step
<1>9. ASSUME Upsert(w) PROVE GuestAside
  BY <1>9 DEF Upsert, GuestAside
<1>10. ASSUME SaveSettings(w) PROVE GuestAside
  <2>1. past'.late = past.late /\ past'.rewritten = past.rewritten
    BY <1>10 DEF SaveSettings, Pasts
  <2>2. QED
    BY <1>10, <2>1 DEF SaveSettings, GuestAside, Step
<1>11. ASSUME UpdateGuest(w) PROVE GuestAside
  BY <1>11 DEF UpdateGuest, BeginRequest, GuestAside
<1>12. ASSUME Erase(w) PROVE GuestAside
  BY <1>12 DEF Erase, BeginRequest, GuestAside
<1>13. QED
  BY <1>1, <1>2, <1>3, <1>4, <1>5, <1>6, <1>7, <1>8, <1>9, <1>10, <1>11, <1>12

\* An erasure anonymises, makes late who has found the guest, and logs afterwards.
LEMMA ErasureKept ==
  ASSUME PATypeOK, LateOK, ErasureHolds, PANext
  PROVE  LateOK' /\ ErasureHolds'
<1> USE DEF PATypeOK, rows, Go, EndRequest, IdleRequest
<1>1. ASSUME GuestAside PROVE LateOK' /\ ErasureHolds'
  BY <1>1 DEF GuestAside, LateOK, ErasureHolds, Step
<1>2. ASSUME NEW w \in Admins, FindGuest(w) PROVE LateOK' /\ ErasureHolds'
  <2>1. run[w] \in Updates
    BY <1>2, RequestsAt DEF FindGuest
  <2>2. CASE guest.isDeleted
    <3>1. run' = [run EXCEPT ![w] = IdleRequest] /\ UNCHANGED <<guest, past, erasures, faults>>
      BY <1>2, <2>2 DEF FindGuest
    <3>2. LateOK'
      BY <3>1 DEF LateOK, Step
    <3>3. run[w].at = "guest"
      BY <1>2 DEF FindGuest, Step
    <3>4. QED
      BY <3>1, <3>2, <3>3 DEF ErasureHolds, Step
  <2>3. CASE ~guest.isDeleted
    BY <1>2, <2>3 DEF FindGuest, LateOK, ErasureHolds
  <2>4. QED
    BY <2>2, <2>3
<1>3. ASSUME NEW w \in Admins, WriteGuest(w) PROVE LateOK' /\ ErasureHolds'
  <2>1. run[w] \in Updates
    BY <1>3, RequestsAt DEF WriteGuest
  <2>2. guest'.isDeleted = guest.isDeleted /\ (guest'.consent <=> guest'.consentDate)
    BY <1>3 DEF WriteGuest, ErasureHolds
  <2>3. past'.late = past.late \ {w} /\ (past'.rewritten <=> past.rewritten \/ w \in past.late)
    BY <1>3 DEF WriteGuest, Pasts
  <2>4. guest.isDeleted => past'.rewritten
    BY <1>3, <2>3 DEF WriteGuest, LateOK
  <2>5. \A v \in Admins : run'[v] = IF v = w THEN IdleRequest ELSE run[v]
    BY <1>3 DEF WriteGuest
  <2>6. LateOK'
    BY <2>2, <2>3, <2>5 DEF LateOK, Step
  <2>7. QED
    BY <1>3, <2>2, <2>4, <2>5, <2>6 DEF WriteGuest, ErasureHolds, Step
<1>4. ASSUME NEW w \in Admins, Anonymise(w) PROVE LateOK' /\ ErasureHolds'
  <2>1. run[w] \in Erasures
    BY <1>4, RequestsAt DEF Anonymise
  <2>2. past'.late = {v \in Admins : Step(v, "write")} /\ run'[w].at = "log"
    BY <1>4, <2>1 DEF Anonymise, Pasts, Erasures
  <2>3. QED
    BY <1>4, <2>2 DEF Anonymise, LateOK, ErasureHolds, Step
<1>5. ASSUME NEW w \in Admins, LogErasure(w) PROVE LateOK' /\ ErasureHolds'
  BY <1>5 DEF LogErasure, LateOK, ErasureHolds, Step
<1>6. ASSUME NEW w \in Admins, Fault(w) PROVE LateOK' /\ ErasureHolds'
  <2>1. past'.late = past.late \ {w} /\ past'.rewritten = past.rewritten
    BY <1>6 DEF Fault, Pasts
  <2>2. QED
    BY <1>6, <2>1 DEF Fault, LateOK, ErasureHolds, Step
<1>7. ASSUME Restart PROVE LateOK' /\ ErasureHolds'
  <2>1. past'.rewritten = past.rewritten
    BY <1>7 DEF Restart, Pasts
  <2>2. QED
    BY <1>7, <2>1 DEF Restart, LateOK, ErasureHolds, Step
<1>8. ASSUME ConnectModify("Bea") PROVE LateOK' /\ ErasureHolds'
  <2>1. past'.late = past.late /\ (past'.rewritten <=> past.rewritten \/ guest.isDeleted)
    BY <1>8 DEF ConnectModify, Pasts
  <2>2. QED
    BY <1>8, <2>1 DEF ConnectModify, LateOK, ErasureHolds, Step
<1>9. ASSUME \/ \E active \in BOOLEAN : SetActive(active)
             \/ DeleteSubscription
      PROVE  GuestAside
  BY <1>9 DEF SetActive, DeleteSubscription, GuestAside
<1>10. QED
  BY <1>1, <1>2, <1>3, <1>4, <1>5, <1>6, <1>7, <1>8, <1>9, AsideOfTheGuest DEF PANext

-----------------------------------------------------------------------------
(* The settings.                                                           *)

\* A step that has nothing to do with the settings.
SettingsAside ==
  /\ settings' = settings /\ past'.saved = past.saved
  /\ past'.reverted = past.reverted /\ past'.unsealed = past.unsealed
  /\ \A v \in Admins : run'[v].at = "settings" => run'[v] = run[v]

\* A request that begins with something else, or goes on to something else.
LEMMA NotTheSettings ==
  ASSUME PATypeOK, NEW w \in Admins, NEW r, run' = [run EXCEPT ![w] = r], r.at # "settings"
  PROVE  \A v \in Admins : run'[v].at = "settings" => run'[v] = run[v]
BY DEF PATypeOK

LEMMA AsideOfTheSettings ==
  ASSUME PATypeOK, NEW w \in Admins,
         \/ Provision(w) \/ FindTenant(w) \/ SaveTenant(w) \/ FindProfile(w) \/ InsertProfile(w)
         \/ InsertRule(w) \/ FindBus(w) \/ SaveBus(w) \/ UpdateGuest(w) \/ FindGuest(w)
         \/ WriteGuest(w) \/ Erase(w) \/ Anonymise(w) \/ LogErasure(w) \/ Fault(w)
  PROVE  SettingsAside
<1> USE DEF PATypeOK, rows, Go, EndRequest
<1>0. IdleRequest.at # "settings"
  BY DEF IdleRequest
<1>1. ASSUME Provision(w) PROVE SettingsAside
  <2>1. PICK c \in Countries, taxes \in BOOLEAN :
          BeginRequest(w, [op |-> "provision", at |-> "property", country |-> c, taxes |-> taxes,
                           found |-> FALSE, row |-> 0])
    BY <1>1 DEF Provision
  <2>2. QED
    BY <2>1, NotTheSettings DEF BeginRequest, SettingsAside
<1>2. ASSUME FindTenant(w) PROVE SettingsAside
  <2>1. [run[w] EXCEPT !.at = "save", !.found = tenant # "none"].at = "save"
    BY <1>2, RequestsAt DEF FindTenant, Provisions
  <2>2. QED
    BY <1>2, <2>1, NotTheSettings DEF FindTenant, SettingsAside
<1>3. ASSUME SaveTenant(w) PROVE SettingsAside
  <2>1. [run[w] EXCEPT !.at = AfterSave(run[w])].at # "settings"
    BY <1>3, RequestsAt DEF SaveTenant, AfterSave, Provisions
  <2>2. QED
    BY <1>0, <1>3, <2>1, NotTheSettings DEF SaveTenant, SettingsAside
<1>4. ASSUME FindProfile(w) PROVE SettingsAside
  <2>1. \A at \in {"profile", "bus"} : [run[w] EXCEPT !.at = at].at = at
    BY <1>4, RequestsAt DEF FindProfile, Provisions
  <2>2. QED
    BY <1>4, <2>1, NotTheSettings DEF FindProfile, SettingsAside
<1>5. ASSUME InsertProfile(w) PROVE SettingsAside
  <2>1. [run[w] EXCEPT !.at = "rule", !.row = Len(profiles')].at = "rule"
    BY <1>5, RequestsAt DEF InsertProfile, Provisions
  <2>2. QED
    BY <1>5, <2>1, NotTheSettings DEF InsertProfile, SettingsAside
<1>6. ASSUME InsertRule(w) PROVE SettingsAside
  <2>1. PICK at \in {"bus", "rule"} : run' = [run EXCEPT ![w] = [run[w] EXCEPT !.at = at]]
    BY <1>6 DEF InsertRule
  <2>2. [run[w] EXCEPT !.at = at].at = at
    BY <1>6, RequestsAt DEF InsertRule, Provisions
  <2>3. QED
    BY <1>6, <2>1, <2>2, NotTheSettings DEF InsertRule, SettingsAside
<1>7. ASSUME FindBus(w) PROVE SettingsAside
  <2>1. [run[w] EXCEPT !.at = "bind", !.found = bus # <<>>].at = "bind"
    BY <1>7, RequestsAt DEF FindBus, Provisions
  <2>2. past'.saved = past.saved /\ past'.reverted = past.reverted /\ past'.unsealed = past.unsealed
    BY <1>7 DEF FindBus, Answered, Pasts
  <2>3. \A v \in Admins : run'[v].at = "settings" => run'[v] = run[v]
    BY <1>0, <1>7, <2>1, NotTheSettings DEF FindBus
  <2>4. QED
    BY <1>7, <2>2, <2>3 DEF FindBus, SettingsAside
<1>8. ASSUME SaveBus(w) PROVE SettingsAside
  <2>1. past'.saved = past.saved /\ past'.reverted = past.reverted /\ past'.unsealed = past.unsealed
    BY <1>8 DEF SaveBus, Answered, Pasts
  <2>2. QED
    BY <1>0, <1>8, <2>1, NotTheSettings DEF SaveBus, SettingsAside
<1>9. ASSUME UpdateGuest(w) PROVE SettingsAside
  <2>1. PICK name \in {"Ann", "Bea"}, consent \in {"unsaid", "yes", "no"} :
          BeginRequest(w, [op |-> "update", at |-> "guest", name |-> name, consent |-> consent])
    BY <1>9 DEF UpdateGuest
  <2>2. QED
    BY <2>1, NotTheSettings DEF BeginRequest, SettingsAside
<1>10. ASSUME FindGuest(w) PROVE SettingsAside
  <2>1. [run[w] EXCEPT !.at = "write"].at = "write"
    BY <1>10, RequestsAt DEF FindGuest, Updates
  <2>2. QED
    BY <1>0, <1>10, <2>1, NotTheSettings DEF FindGuest, SettingsAside
<1>11. ASSUME WriteGuest(w) PROVE SettingsAside
  <2>1. past'.saved = past.saved /\ past'.reverted = past.reverted /\ past'.unsealed = past.unsealed
    BY <1>11 DEF WriteGuest, Pasts
  <2>2. QED
    BY <1>0, <1>11, <2>1, NotTheSettings DEF WriteGuest, SettingsAside
<1>12. ASSUME Erase(w) PROVE SettingsAside
  BY <1>12, NotTheSettings DEF Erase, BeginRequest, SettingsAside
<1>13. ASSUME Anonymise(w) PROVE SettingsAside
  <2>1. [run[w] EXCEPT !.at = "log"].at = "log"
    BY <1>13, RequestsAt DEF Anonymise, Erasures
  <2>2. past'.saved = past.saved /\ past'.reverted = past.reverted /\ past'.unsealed = past.unsealed
    BY <1>13 DEF Anonymise, Pasts
  <2>3. QED
    BY <1>13, <2>1, <2>2, NotTheSettings DEF Anonymise, SettingsAside
<1>14. ASSUME LogErasure(w) PROVE SettingsAside
  BY <1>0, <1>14, NotTheSettings DEF LogErasure, SettingsAside
<1>15. ASSUME Fault(w) PROVE SettingsAside
  <2>1. past'.saved = past.saved /\ past'.reverted = past.reverted /\ past'.unsealed = past.unsealed
    BY <1>15 DEF Fault, Pasts
  <2>2. QED
    BY <1>0, <1>15, <2>1, NotTheSettings DEF Fault, SettingsAside
<1>16. QED
  BY <1>1, <1>2, <1>3, <1>4, <1>5, <1>6, <1>7, <1>8, <1>9, <1>10, <1>11, <1>12, <1>13, <1>14, <1>15

\* What is written is what was sent and what was read, of which the rest is as stored
\* unless somebody wrote in between.
LEMMA SettingsWritten ==
  ASSUME PATypeOK, SealedOK, NEW w \in Admins, SaveSettings(w)
  PROVE  SealedOK'
<1> USE DEF PATypeOK
<1> DEFINE r == run[w]
           q == r.provider
           kept(s) == IF r.secret = "" THEN s ELSE Seal(r.secret)
           clear == IF r.secret = "" \/ config.key THEN past.unsealed ELSE past.unsealed \cup {q}
<1>1. r \in Upserts /\ q \in Providers /\ r.read \in ProviderSettings
  BY RequestsAt DEF SaveSettings, Upserts
<1>2. /\ settings' = Merged(r)
      /\ past' = [past EXCEPT !.saved[q] = [enabled |-> r.enabled, secret |-> kept(@.secret)],
                              !.reverted = @ \/ r.read # settings,
                              !.unsealed = clear]
  BY DEF SaveSettings, EndRequest, Go, Pasts
<1>3. /\ \A v \in Admins : run'[v] = IF v = w THEN IdleRequest ELSE run[v]
      /\ IdleRequest.at # "settings"
  BY DEF SaveSettings, EndRequest, Go, IdleRequest
<1>4. settings' = [r.read EXCEPT ![q] = [enabled |-> r.enabled, secret |-> kept(r.read[q].secret)]]
  BY <1>1, <1>2, MergedTyped
<1>5. past'.unsealed = clear /\ (past'.reverted <=> past.reverted \/ r.read # settings)
  BY <1>2 DEF Pasts
<1>6. past'.saved = [past.saved EXCEPT ![q] = [enabled |-> r.enabled, secret |-> kept(past.saved[q].secret)]]
  BY <1>2 DEF Pasts
<1>7. past'.reverted \/ settings' = past'.saved
  BY <1>4, <1>5, <1>6 DEF SealedOK
<1>8. \A s \in ProviderSettings : SealedIn(s) => SealedIn(s)'
  BY <1>1, <1>5 DEF SealedIn
<1>9. SealedIn(r.read) /\ SealedIn(settings)
  BY DEF SealedOK, SaveSettings
<1>10. SealedIn(settings)'
  <2>1. SUFFICES ASSUME NEW p \in Providers, settings'[p].secret.value # ""
                 PROVE  settings'[p].secret.sealed \/ p \in clear
    BY <1>5 DEF SealedIn
  <2>2. CASE p # q \/ r.secret = ""
    <3>1. settings'[p].secret = r.read[p].secret
      BY <1>1, <1>4, <2>2 DEF ProviderSettings
    <3>2. QED
      BY <1>9, <2>1, <3>1 DEF SealedIn
  <2>3. CASE p = q /\ r.secret # ""
    <3>1. settings'[p].secret = Seal(r.secret)
      BY <1>1, <1>4, <2>3 DEF ProviderSettings
    <3>2. settings'[p].secret.sealed = config.key
      BY <3>1 DEF Seal
    <3>3. CASE config.key
      BY <3>2, <3>3
    <3>4. CASE ~config.key
      BY <2>3, <3>4
    <3>5. QED
      BY <3>3, <3>4
  <2>4. QED
    BY <2>2, <2>3
<1>11. \A v \in Admins : Step(v, "settings")' => SealedIn(run[v].read)'
  <2>1. SUFFICES ASSUME NEW v \in Admins, run'[v].at = "settings"
                 PROVE  \A p \in Providers : run'[v].read[p].secret.value # "" =>
                          (run'[v].read[p].secret.sealed \/ p \in past'.unsealed)
    BY DEF Step, SealedIn
  <2>2. run'[v] = run[v] /\ Step(v, "settings")
    BY <1>3, <2>1 DEF Step
  <2>3. SealedIn(run[v].read)
    BY <2>2 DEF SealedOK
  <2>4. QED
    BY <1>1, <1>5, <2>2, <2>3 DEF SealedIn
<1>12. QED
  BY <1>7, <1>10, <1>11 DEF SealedOK

LEMMA SettingsStaySealed ==
  ASSUME PATypeOK, SealedOK, PANext
  PROVE  SealedOK'
<1> USE DEF PATypeOK, rows
<1>1. ASSUME SettingsAside PROVE SealedOK'
  <2>1. (past.reverted \/ settings = past.saved)' /\ SealedIn(settings)'
    BY <1>1 DEF SettingsAside, SealedOK, SealedIn
  <2>2. ASSUME NEW v \in Admins, Step(v, "settings")' PROVE SealedIn(run[v].read)'
    <3>1. run'[v] = run[v] /\ Step(v, "settings")
      BY <1>1, <2>2 DEF SettingsAside, Step
    <3>2. SealedIn(run[v].read)
      BY <3>1 DEF SealedOK
    <3>3. QED
      BY <1>1, <3>1, <3>2 DEF SettingsAside, SealedIn
  <2>3. QED
    BY <2>1, <2>2 DEF SealedOK
<1>2. ASSUME NEW w \in Admins, Upsert(w) PROVE SealedOK'
  <2>1. PICK p \in Providers, enabled \in BOOLEAN, secret \in SentSecrets :
          /\ run' = [run EXCEPT ![w] = [op |-> "upsert", at |-> "settings", provider |-> p,
                                        enabled |-> enabled, secret |-> secret, read |-> settings]]
          /\ UNCHANGED <<settings, past>>
    BY ONLY <1>2, w \in Admins, Upserted
  <2>2. (past.reverted \/ settings = past.saved)' /\ SealedIn(settings)'
    BY <2>1 DEF SealedOK, SealedIn
  <2>3. ASSUME NEW v \in Admins, Step(v, "settings")' PROVE SealedIn(run[v].read)'
    <3>1. run'[v].read = settings \/ (run'[v] = run[v] /\ Step(v, "settings"))
      BY <2>1, <2>3 DEF Step
    <3>2. SealedIn(settings) /\ (Step(v, "settings") => SealedIn(run[v].read))
      BY DEF SealedOK
    <3>3. QED
      BY <2>1, <3>1, <3>2 DEF SealedIn
  <2>4. QED
    BY <2>2, <2>3 DEF SealedOK
<1>3. ASSUME \/ \E active \in BOOLEAN : SetActive(active)
             \/ DeleteSubscription \/ ConnectModify("Bea") \/ Restart
      PROVE  SettingsAside
  <2>1. ASSUME Restart PROVE SettingsAside
    BY <2>1 DEF Restart, SettingsAside, Pasts, IdleRequest
  <2>2. ASSUME ConnectModify("Bea") PROVE SettingsAside
    BY <2>2 DEF ConnectModify, SettingsAside, Pasts
  <2>3. QED
    BY <1>3, <2>1, <2>2 DEF SetActive, DeleteSubscription, SettingsAside
<1>4. QED
  BY <1>1, <1>2, <1>3, AsideOfTheSettings, SettingsWritten DEF PANext

\* From the sealed settings follows what a gateway is given.
LEMMA KeptSettings ==
  ASSUME PATypeOK, SealedOK
  PROVE  SettingsAreKept
BY DEF PATypeOK, SealedOK, SealedIn, SettingsAreKept, SecretFor

-----------------------------------------------------------------------------
(* Taxes and subscriptions.                                                *)

TaxesOK == ProfilesOK /\ TaxedOK /\ RowsOK

TaxSteps == {"profile", "rule", "bus", "bind"}

\* A step that has nothing to do with tax profiles and subscriptions; a request may
\* pass by the taxes, that asks for none or whose country has none.
TaxesAside ==
  /\ UNCHANGED <<profiles, bus>>
  /\ past'.torn = past.torn /\ past'.answered = past.answered
  /\ \A v \in Admins :
       \/ run'[v] = run[v]
       \/ /\ run[v].at \notin TaxSteps /\ run'[v].at \notin {"profile", "rule", "bind"}
          /\ run'[v].at = "bus" => ~run'[v].taxes \/ run'[v].country \notin Presets

LEMMA SubsetCounts ==
  ASSUME NEW S, IsFiniteSet(S), NEW T \in SUBSET S
  PROVE  /\ IsFiniteSet(T) /\ Cardinality(T) \in Nat /\ Cardinality(S) \in Nat
         /\ Cardinality(T) <= Cardinality(S)
BY FS_Subset, FS_CardinalityType

LEMMA RowsFinite ==
  ASSUME PATypeOK
  PROVE  /\ \A c : IsFiniteSet(ProfilesOf(c)) /\ Cardinality(ProfilesOf(c)) \in Nat
         /\ \A c : IsFiniteSet(Inserting(c)) /\ Cardinality(Inserting(c)) \in Nat
         /\ IsFiniteSet(Binding) /\ Cardinality(Binding) \in Nat
         /\ Cardinality(Admins) \in Nat /\ Len(bus) \in Nat
<1>1. ASSUME NEW c PROVE IsFiniteSet(ProfilesOf(c)) /\ Cardinality(ProfilesOf(c)) \in Nat
  <2>1. ProfilesOf(c) \in SUBSET (1 .. Len(profiles)) /\ Len(profiles) \in Nat
    BY DEF ProfilesOf, PATypeOK
  <2>2. IsFiniteSet(1 .. Len(profiles))
    BY <2>1, FS_Interval
  <2>3. QED
    BY <2>1, <2>2, SubsetCounts
<1>2. ASSUME NEW c PROVE IsFiniteSet(Inserting(c)) /\ Cardinality(Inserting(c)) \in Nat
  <2>1. Inserting(c) \in SUBSET Admins
    BY DEF Inserting
  <2>2. QED
    BY <2>1, SubsetCounts, AdminAssumption
<1>3. Binding \in SUBSET Admins
  BY DEF Binding
<1>4. QED
  BY <1>1, <1>2, <1>3, SubsetCounts, AdminAssumption, FS_CardinalityType DEF PATypeOK

\* No profile leaves, or changes its country.
ProfilesKept ==
  \A i \in DOMAIN profiles : i \in DOMAIN profiles' /\ profiles'[i].country = profiles[i].country

LEMMA ProfilesStay ==
  ASSUME ProfilesKept
  PROVE  \A c : ProfilesOf(c) \subseteq ProfilesOf(c)'
BY DEF ProfilesKept, ProfilesOf

\* Fewer who insert or bind, and the rows as they are.
LEMMA RowsStay ==
  ASSUME PATypeOK, RowsOK, \A c : ProfilesOf(c)' = ProfilesOf(c), Len(bus') = Len(bus),
         \A c : Inserting(c)' \subseteq Inserting(c), Binding' \subseteq Binding
  PROVE  RowsOK'
<1>1. ASSUME NEW c \in Presets
      PROVE  (Cardinality(ProfilesOf(c)) + Cardinality(Inserting(c)) <= Cardinality(Admins))'
  <2>1. Cardinality(Inserting(c)') \in Nat /\ Cardinality(Inserting(c)') <= Cardinality(Inserting(c))
    BY RowsFinite, SubsetCounts
  <2>2. Cardinality(ProfilesOf(c)) + Cardinality(Inserting(c)) <= Cardinality(Admins)
    BY DEF RowsOK
  <2>3. Cardinality(ProfilesOf(c)') = Cardinality(ProfilesOf(c))
    OBVIOUS
  <2>4. QED
    BY <2>1, <2>2, <2>3, RowsFinite
<1>2. (Len(bus) + Cardinality(Binding) <= Cardinality(Admins))'
  <2>1. Cardinality(Binding') \in Nat /\ Cardinality(Binding') <= Cardinality(Binding)
    BY RowsFinite, SubsetCounts
  <2>2. QED
    BY <2>1, RowsFinite DEF RowsOK
<1>3. QED
  BY <1>1, <1>2 DEF RowsOK

LEMMA RulesGoOn ==
  ASSUME ProfilesOK, profiles' = profiles, past'.torn = past.torn,
         \A v \in Admins : run'[v] = run[v] \/ (run[v].at # "rule" /\ run'[v].at # "rule")
  PROVE  ProfilesOK'
BY DEF ProfilesOK, Step

LEMMA TaxesAsideKept ==
  ASSUME PATypeOK, TaxesOK, TaxesAside
  PROVE  TaxesOK'
<1> USE DEF TaxesOK, TaxesAside, TaxSteps
<1>1. \A c : ProfilesOf(c)' = ProfilesOf(c)
  BY DEF ProfilesOf
<1>2. ProfilesOK'
  BY DEF ProfilesOK, Step
<1>3. TaxedOK'
  BY <1>1 DEF TaxedOK, Step
<1>4. (\A c : Inserting(c)' \subseteq Inserting(c)) /\ Binding' \subseteq Binding
  BY DEF Inserting, Binding, Step
<1>5. RowsOK'
  BY <1>1, <1>4, RowsStay
<1>6. QED
  BY <1>2, <1>3, <1>5

LEMMA NotTheTaxes ==
  ASSUME PATypeOK, NEW w \in Admins, NEW r, run' = [run EXCEPT ![w] = r], run[w].at \notin TaxSteps,
         r.at \notin {"profile", "rule", "bind"}, r.at = "bus" => ~r.taxes \/ r.country \notin Presets,
         UNCHANGED <<profiles, bus>>, past'.torn = past.torn, past'.answered = past.answered
  PROVE  TaxesAside
<1>1. \A v \in Admins : run'[v] = IF v = w THEN r ELSE run[v]
  BY DEF PATypeOK
<1>2. QED
  BY <1>1 DEF TaxesAside

LEMMA AsideOfTheTaxes ==
  ASSUME PATypeOK, NEW w \in Admins,
         \/ Provision(w) \/ FindTenant(w) \/ SaveTenant(w) \/ Upsert(w) \/ SaveSettings(w)
         \/ UpdateGuest(w) \/ FindGuest(w) \/ WriteGuest(w) \/ Erase(w) \/ Anonymise(w)
         \/ LogErasure(w)
  PROVE  TaxesAside
<1> USE DEF PATypeOK, rows, Go, EndRequest, TaxSteps
<1>0. IdleRequest.at \notin TaxSteps
  BY DEF IdleRequest
<1>1. ASSUME Provision(w) PROVE TaxesAside
  <2>1. PICK c \in Countries, taxes \in BOOLEAN :
          BeginRequest(w, [op |-> "provision", at |-> "property", country |-> c, taxes |-> taxes,
                           found |-> FALSE, row |-> 0])
    BY <1>1 DEF Provision
  <2>2. QED
    BY <1>0, NotTheTaxes, <2>1 DEF BeginRequest
<1>2. ASSUME FindTenant(w) PROVE TaxesAside
  <2>1. [run[w] EXCEPT !.at = "save", !.found = tenant # "none"].at = "save"
    BY <1>2, RequestsAt DEF FindTenant, Provisions
  <2>2. QED
    BY <1>0, NotTheTaxes, <1>2, <2>1 DEF FindTenant, Step
<1>3. ASSUME SaveTenant(w) PROVE TaxesAside
  <2> DEFINE r == [run[w] EXCEPT !.at = AfterSave(run[w])]
  <2>1. run[w] \in Provisions
    BY <1>3, RequestsAt DEF SaveTenant
  <2>2. r.at = AfterSave(run[w]) /\ r.taxes = run[w].taxes /\ r.country = run[w].country
    BY <2>1 DEF Provisions
  <2>3. r.at \notin {"profile", "rule", "bind"} /\ (r.at = "bus" => ~r.taxes \/ r.country \notin Presets)
    BY <2>2 DEF AfterSave
  <2>4. /\ run' = [run EXCEPT ![w] = r] \/ run' = [run EXCEPT ![w] = IdleRequest]
        /\ UNCHANGED <<profiles, bus, past>> /\ run[w].at \notin TaxSteps
    BY <1>3 DEF SaveTenant, Step
  <2> HIDE DEF r
  <2>5. QED
    BY <1>0, NotTheTaxes, <2>3, <2>4
<1>4. ASSUME Upsert(w) PROVE TaxesAside
  BY <1>0, NotTheTaxes, <1>4 DEF Upsert
<1>5. ASSUME SaveSettings(w) PROVE TaxesAside
  <2>1. past'.torn = past.torn /\ past'.answered = past.answered
    BY <1>5 DEF SaveSettings, Pasts
  <2>2. QED
    BY <1>0, NotTheTaxes, <1>5, <2>1 DEF SaveSettings, Step
<1>6. ASSUME UpdateGuest(w) PROVE TaxesAside
  <2>1. PICK name \in {"Ann", "Bea"}, consent \in {"unsaid", "yes", "no"} :
          BeginRequest(w, [op |-> "update", at |-> "guest", name |-> name, consent |-> consent])
    BY <1>6 DEF UpdateGuest
  <2>2. QED
    BY <1>0, NotTheTaxes, <2>1 DEF BeginRequest
<1>7. ASSUME FindGuest(w) PROVE TaxesAside
  <2>1. [run[w] EXCEPT !.at = "write"].at = "write"
    BY <1>7, RequestsAt DEF FindGuest, Updates
  <2>2. QED
    BY <1>0, NotTheTaxes, <1>7, <2>1 DEF FindGuest, Step
<1>8. ASSUME WriteGuest(w) PROVE TaxesAside
  <2>1. past'.torn = past.torn /\ past'.answered = past.answered
    BY <1>8 DEF WriteGuest, Pasts
  <2>2. QED
    BY <1>0, NotTheTaxes, <1>8, <2>1 DEF WriteGuest, Step
<1>9. ASSUME Erase(w) PROVE TaxesAside
  BY <1>0, NotTheTaxes, <1>9 DEF Erase, BeginRequest
<1>10. ASSUME Anonymise(w) PROVE TaxesAside
  <2>1. past'.torn = past.torn /\ past'.answered = past.answered
    BY <1>10 DEF Anonymise, Pasts
  <2>2. [run[w] EXCEPT !.at = "log"].at = "log"
    BY <1>10, RequestsAt DEF Anonymise, Erasures
  <2>3. QED
    BY <1>0, NotTheTaxes, <1>10, <2>1, <2>2 DEF Anonymise, Step
<1>11. ASSUME LogErasure(w) PROVE TaxesAside
  BY <1>0, NotTheTaxes, <1>11 DEF LogErasure, Step
<1>12. QED
  BY <1>1, <1>2, <1>3, <1>4, <1>5, <1>6, <1>7, <1>8, <1>9, <1>10, <1>11

\* Somebody is about to insert a profile only where there was none.
LEMMA ProfileLookedFor ==
  ASSUME PATypeOK, TaxesOK, NEW w \in Admins, FindProfile(w)
  PROVE  TaxesOK'
<1> USE DEF PATypeOK, TaxesOK
<1> DEFINE c == run[w].country
           at == IF ProfilesOf(c) = {} THEN "profile" ELSE "bus"
<1>1. run[w] \in Provisions /\ run[w].at = "taxes"
  BY RequestsAt DEF FindProfile, Step
<1>2. /\ run'[w].at = at /\ run'[w].country = c /\ run'[w].taxes = run[w].taxes
      /\ \A v \in Admins \ {w} : run'[v] = run[v]
      /\ UNCHANGED <<profiles, bus, past>>
  BY <1>1 DEF FindProfile, Go, rows, Provisions
<1>3. \A d : ProfilesOf(d)' = ProfilesOf(d)
  BY <1>2 DEF ProfilesOf
<1>4. ProfilesOK'
  <2>1. run'[w].at # "rule"
    BY <1>2
  <2>2. \A v \in Admins : Step(v, "rule")' <=> Step(v, "rule")
    BY <1>1, <1>2, <2>1 DEF Step
  <2>3. \A v \in Admins : Step(v, "rule") => run'[v] = run[v]
    BY <1>1, <1>2 DEF Step
  <2>4. ASSUME NEW i \in DOMAIN profiles'
        PROVE  \/ profiles'[i].rules = PresetRules
               \/ profiles'[i].country \in past'.torn
               \/ \E v \in Admins : Step(v, "rule")' /\ run'[v].row = i
    <3>1. \/ profiles[i].rules = PresetRules
          \/ profiles[i].country \in past.torn
          \/ \E v \in Admins : Step(v, "rule") /\ run[v].row = i
      BY <1>2 DEF ProfilesOK
    <3>2. ASSUME NEW v \in Admins, Step(v, "rule"), run[v].row = i
          PROVE  Step(v, "rule")' /\ run'[v].row = i
      BY <2>2, <2>3, <3>2
    <3> QED
      BY <1>2, <3>1, <3>2
  <2>5. ASSUME NEW v \in Admins, Step(v, "rule")'
        PROVE  run'[v].row \in DOMAIN profiles' /\ profiles'[run'[v].row].country = run'[v].country
    BY <1>2, <2>2, <2>3, <2>5 DEF ProfilesOK
  <2>6. QED
    BY <2>4, <2>5 DEF ProfilesOK
<1>5. TaxedOK'
  BY <1>2, <1>3 DEF TaxedOK, Step
<1>6. Binding' = Binding
  BY <1>1, <1>2 DEF Binding, Step
<1>7. ASSUME NEW d \in Presets
      PROVE  (Cardinality(ProfilesOf(d)) + Cardinality(Inserting(d)) <= Cardinality(Admins))'
  <2>1. CASE d = c /\ ProfilesOf(c) = {}
    <3>1. Inserting(d)' \in SUBSET Admins
      BY DEF Inserting
    <3>2. Cardinality(Inserting(d)') \in Nat /\ Cardinality(Inserting(d)') <= Cardinality(Admins)
      BY <3>1, SubsetCounts, AdminAssumption
    <3>3. ProfilesOf(d)' = {}
      BY <1>3, <2>1
    <3>4. Cardinality(ProfilesOf(d)') = 0
      BY <3>3, FS_EmptySet
    <3>5. QED
      BY <3>2, <3>4, RowsFinite
  <2>2. CASE ~(d = c /\ ProfilesOf(c) = {})
    <3>1. Inserting(d)' = Inserting(d)
      BY <1>1, <1>2, <2>2 DEF Inserting, Step
    <3>2. QED
      BY <1>3, <3>1 DEF RowsOK
  <2>3. QED
    BY <2>1, <2>2
<1>8. RowsOK'
  BY <1>2, <1>6, <1>7 DEF RowsOK
<1>9. QED
  BY <1>4, <1>5, <1>8

\* Profiles are not taken away, and who goes on with the subscription has seen one.
LEMMA TaxedStays ==
  ASSUME TaxedOK, NEW W, \A v \in Admins \ {W} : run'[v] = run[v],
         \A d : ProfilesOf(d) \subseteq ProfilesOf(d)',
         \/ run'[W].at \notin {"bus", "bind"}
         \/ /\ run[W].at \in {"bus", "bind"}
            /\ run'[W].taxes = run[W].taxes /\ run'[W].country = run[W].country,
         \A c \in Presets \cap past'.answered : ProfilesOf(c) # {}
  PROVE  TaxedOK'
<1>1. ASSUME NEW v \in Admins, run'[v].at = "bus" \/ run'[v].at = "bind"
      PROVE  ~run'[v].taxes \/ run'[v].country \notin Presets \/ ProfilesOf(run[v].country)' # {}
  <2>1. PICK d : d = run[v].country
    OBVIOUS
  <2>2. /\ run[v].at = "bus" \/ run[v].at = "bind"
        /\ run'[v].taxes = run[v].taxes /\ run'[v].country = d
    BY <1>1, <2>1
  <2>3. ~run[v].taxes \/ d \notin Presets \/ ProfilesOf(d) # {}
    BY <2>1, <2>2 DEF TaxedOK, Step
  <2>4. ProfilesOf(d) \subseteq ProfilesOf(d)'
    OBVIOUS
  <2>5. ProfilesOf(run[v].country)' = ProfilesOf(d)'
    BY <2>2 DEF ProfilesOf
  <2>6. QED
    BY <2>2, <2>3, <2>4, <2>5
<1>2. QED
  BY <1>1 DEF TaxedOK, Step

LEMMA ProfileInserted ==
  ASSUME PATypeOK, TaxesOK, NEW w \in Admins, InsertProfile(w)
  PROVE  TaxesOK'
<1> USE DEF PATypeOK, TaxesOK
<1> DEFINE n == Len(profiles) + 1
<1>0. PICK c : c = run[w].country
  OBVIOUS
<1>1. run[w] \in Provisions /\ run[w].at = "profile"
  BY RequestsAt DEF InsertProfile, Step
<1>2. /\ profiles' = Append(profiles, [country |-> c, rules |-> 0])
      /\ UNCHANGED <<bus, past>>
      /\ run' = [run EXCEPT ![w] = [run[w] EXCEPT !.at = "rule", !.row = Len(profiles')]]
  BY <1>0 DEF InsertProfile, Go
<1>3. /\ DOMAIN profiles = 1 .. Len(profiles) /\ Len(profiles) \in Nat
      /\ DOMAIN profiles' = 1 .. n /\ Len(profiles') = n
      /\ \A i \in DOMAIN profiles : profiles'[i] = profiles[i]
      /\ profiles'[n].country = c /\ n \notin DOMAIN profiles
  BY <1>2
<1>4. /\ run'[w].at = "rule" /\ run'[w].country = c /\ run'[w].row = n
      /\ \A v \in Admins \ {w} : run'[v] = run[v]
  BY <1>0, <1>1, <1>2, <1>3 DEF Provisions
<1>5. ProfilesOK'
  <2>1. \A v \in Admins : Step(v, "rule")' =>
          run'[v].row \in DOMAIN profiles' /\ profiles'[run'[v].row].country = run'[v].country
    <3>1. SUFFICES ASSUME NEW v \in Admins, run'[v].at = "rule"
                   PROVE  run'[v].row \in DOMAIN profiles' /\ profiles'[run'[v].row].country = run'[v].country
      BY DEF Step
    <3>2. CASE v = w
      BY <1>3, <1>4, <3>2
    <3>3. CASE v # w
      <4>1. run'[v] = run[v] /\ run[v].row \in DOMAIN profiles
            /\ profiles[run[v].row].country = run[v].country
        BY <1>4, <3>1, <3>3 DEF ProfilesOK, Step
      <4>2. QED
        BY <1>3, <4>1
    <3>4. QED
      BY <3>2, <3>3
  <2>2. ASSUME NEW i \in DOMAIN profiles'
        PROVE  \/ profiles'[i].rules = PresetRules
               \/ profiles'[i].country \in past'.torn
               \/ \E v \in Admins : Step(v, "rule")' /\ run'[v].row = i
    <3>1. CASE i = n
      BY <1>4, <3>1 DEF Step
    <3>2. CASE i \in DOMAIN profiles
      <4>1. CASE \E v \in Admins : Step(v, "rule") /\ run[v].row = i
        BY <1>1, <1>4, <4>1 DEF Step
      <4>2. QED
        BY <1>2, <1>3, <3>2, <4>1 DEF ProfilesOK
    <3>3. QED
      BY <1>3, <3>1, <3>2
  <2>3. QED
    BY <2>1, <2>2 DEF ProfilesOK
<1>6. \A d : ProfilesOf(d) \subseteq ProfilesOf(d)'
  BY <1>3, ProfilesStay DEF ProfilesKept
<1>7. TaxedOK'
  <2>1. \A d \in Presets \cap past'.answered : ProfilesOf(d) # {}
    BY <1>2 DEF TaxedOK
  <2>2. QED
    BY ONLY <1>4, <1>6, <2>1, TaxesOK, TaxedStays DEF TaxesOK
<1>8. /\ ProfilesOf(c)' = ProfilesOf(c) \cup {n} /\ n \notin ProfilesOf(c)
      /\ \A d : d # c => ProfilesOf(d)' = ProfilesOf(d)
  BY <1>3 DEF ProfilesOf
<1>9. /\ Inserting(c)' = Inserting(c) \ {w} /\ w \in Inserting(c)
      /\ \A d : d # c => Inserting(d)' = Inserting(d)
      /\ Binding' = Binding
  <2>1. Inserting(c)' = Inserting(c) \ {w} /\ w \in Inserting(c)
    BY <1>0, <1>1, <1>4 DEF Inserting, Step
  <2>2. ASSUME NEW d, d # c PROVE Inserting(d)' = Inserting(d)
    <3>1. run[w].country # d /\ run'[w].at # "profile" /\ \A v \in Admins \ {w} : run'[v] = run[v]
      BY <1>0, <1>4, <2>2
    <3>2. QED
      BY ONLY <3>1 DEF Inserting, Step
  <2>3. Binding' = Binding
    BY <1>1, <1>4 DEF Binding, Step
  <2>4. QED
    BY <2>1, <2>2, <2>3
<1>10. ASSUME NEW d \in Presets
       PROVE  (Cardinality(ProfilesOf(d)) + Cardinality(Inserting(d)) <= Cardinality(Admins))'
  <2>1. CASE d = c
    <3>1. Cardinality(ProfilesOf(c) \cup {n}) = Cardinality(ProfilesOf(c)) + 1
      BY <1>8, RowsFinite, FS_AddElement
    <3>2. Cardinality(Inserting(c) \ {w}) = Cardinality(Inserting(c)) - 1
      BY <1>9, RowsFinite, FS_RemoveElement
    <3>3. Cardinality(ProfilesOf(c)) + Cardinality(Inserting(c)) <= Cardinality(Admins)
      BY <2>1 DEF RowsOK
    <3>4. /\ Cardinality(ProfilesOf(c)) \in Nat /\ Cardinality(Inserting(c)) \in Nat
          /\ Cardinality(Admins) \in Nat
      BY RowsFinite
    <3>5. /\ Cardinality(ProfilesOf(c)') = Cardinality(ProfilesOf(c)) + 1
          /\ Cardinality(Inserting(c)') = Cardinality(Inserting(c)) - 1
      BY <1>8, <1>9, <3>1, <3>2
    <3>6. Cardinality(ProfilesOf(c)') + Cardinality(Inserting(c)') <= Cardinality(Admins)
      BY <3>3, <3>4, <3>5
    <3>7. QED
      BY <2>1, <3>6
  <2>2. CASE d # c
    BY <1>8, <1>9, <2>2 DEF RowsOK
  <2>3. QED
    BY <2>1, <2>2
<1>11. RowsOK'
  BY <1>2, <1>9, <1>10 DEF RowsOK
<1>12. QED
  BY <1>5, <1>7, <1>11

LEMMA RuleInserted ==
  ASSUME PATypeOK, TaxesOK, NEW w \in Admins, InsertRule(w)
  PROVE  TaxesOK'
<1> USE DEF PATypeOK, TaxesOK
<1> DEFINE r == run[w].row
           n == profiles[r].rules + 1
<1>1. run[w] \in Provisions /\ run[w].at = "rule" /\ r \in DOMAIN profiles
      /\ profiles[r].country = run[w].country
  BY RequestsAt DEF InsertRule, Step, ProfilesOK
<1>2. /\ profiles' = [profiles EXCEPT ![r].rules = n]
      /\ UNCHANGED <<bus, past>>
      /\ run' = [run EXCEPT ![w] = [run[w] EXCEPT !.at = IF n = PresetRules THEN "bus" ELSE "rule"]]
  BY DEF InsertRule, Go
<1>3. \A i \in DOMAIN profiles : profiles[i] \in [country : Countries, rules : Nat]
  <2>1. profiles \in Seq([country : Countries, rules : Nat])
    OBVIOUS
  <2>2. DOMAIN profiles = 1 .. Len(profiles)
    BY <2>1
  <2>3. QED
    BY ONLY <2>1, <2>2, ElementOfSeq
<1>4. /\ DOMAIN profiles' = DOMAIN profiles
      /\ \A i \in DOMAIN profiles : /\ profiles'[i].country = profiles[i].country
                                    /\ i # r => profiles'[i] = profiles[i]
      /\ profiles'[r].rules = n
  BY <1>1, <1>2, <1>3
<1> HIDE DEF n
<1>5. /\ run'[w].at = IF n = PresetRules THEN "bus" ELSE "rule"
      /\ run'[w].country = run[w].country /\ run'[w].row = r /\ run'[w].taxes = run[w].taxes
      /\ \A v \in Admins \ {w} : run'[v] = run[v]
  BY <1>1, <1>2 DEF Provisions
<1>6. ProfilesOK'
  <2>1. \A v \in Admins : Step(v, "rule")' =>
          run'[v].row \in DOMAIN profiles' /\ profiles'[run'[v].row].country = run'[v].country
    <3>1. SUFFICES ASSUME NEW v \in Admins, run'[v].at = "rule"
                   PROVE  run'[v].row \in DOMAIN profiles' /\ profiles'[run'[v].row].country = run'[v].country
      BY DEF Step
    <3>2. run'[v].row = run[v].row /\ run'[v].country = run[v].country /\ run[v].at = "rule"
      BY <1>1, <1>5, <3>1
    <3>3. run[v].row \in DOMAIN profiles /\ profiles[run[v].row].country = run[v].country
      BY <3>2 DEF ProfilesOK, Step
    <3>4. QED
      BY <1>4, <3>2, <3>3
  <2>2. ASSUME NEW i \in DOMAIN profiles'
        PROVE  \/ profiles'[i].rules = PresetRules
               \/ profiles'[i].country \in past'.torn
               \/ \E v \in Admins : Step(v, "rule")' /\ run'[v].row = i
    <3>1. CASE i = r
      BY <1>4, <1>5, <3>1 DEF Step
    <3>2. CASE i # r
      <4>1. CASE \E v \in Admins : Step(v, "rule") /\ run[v].row = i
        BY <1>5, <3>2, <4>1 DEF Step
      <4>2. QED
        BY <1>2, <1>4, <3>2, <4>1 DEF ProfilesOK
    <3>3. QED
      BY <3>1, <3>2
  <2>3. QED
    BY <2>1, <2>2 DEF ProfilesOK
<1>7. \A d : ProfilesOf(d)' = ProfilesOf(d)
  BY <1>4 DEF ProfilesOf
<1>8. ProfilesOf(run[w].country) # {}
  BY <1>1 DEF ProfilesOf
<1>9. TaxedOK'
  BY <1>2, <1>5, <1>7, <1>8 DEF TaxedOK, Step
<1>10. (\A d : Inserting(d)' \subseteq Inserting(d)) /\ Binding' \subseteq Binding
  BY <1>5 DEF Inserting, Binding, Step
<1>11. RowsOK'
  BY <1>2, <1>7, <1>10, RowsStay
<1>12. QED
  BY <1>6, <1>9, <1>11

\* An activation is answered after it has left the taxes behind.
LEMMA TaxedWhenAnswered ==
  ASSUME PATypeOK, TaxedOK, NEW w \in Admins, Step(w, "bus") \/ Step(w, "bind"), Answered(run[w])
  PROVE  /\ past'.torn = past.torn
         /\ \A c \in Presets \cap past'.answered : ProfilesOf(c) # {}
<1>1. past'.torn = past.torn
      /\ past'.answered = IF run[w].taxes THEN past.answered \cup {run[w].country} ELSE past.answered
  BY DEF Answered, PATypeOK, Pasts
<1>2. QED
  BY <1>1 DEF TaxedOK

LEMMA BusLookedFor ==
  ASSUME PATypeOK, TaxesOK, NEW w \in Admins, FindBus(w)
  PROVE  TaxesOK'
<1> USE DEF PATypeOK, TaxesOK
<1>1. run[w] \in Provisions /\ run[w].at = "bus" /\ Step(w, "bus")
  BY RequestsAt DEF FindBus, Step
<1>2. UNCHANGED <<profiles, bus>> /\ \A d : ProfilesOf(d)' = ProfilesOf(d)
  BY DEF FindBus, rows, ProfilesOf
<1>3. CASE config.url
  <2> DEFINE x == [run[w] EXCEPT !.at = "bind", !.found = bus # <<>>]
  <2>1. run' = [run EXCEPT ![w] = x] /\ past' = past
    BY <1>3 DEF FindBus, Go
  <2>2. /\ x.at = "bind" /\ x.country = run[w].country /\ x.taxes = run[w].taxes
        /\ x.found <=> bus # <<>>
    BY <1>1 DEF Provisions
  <2> HIDE DEF x
  <2>3. \A v \in Admins : run'[v] = IF v = w THEN x ELSE run[v]
    BY <2>1
  <2>4. ProfilesOK'
    BY <1>1, <1>2, <2>1, <2>2, <2>3 DEF ProfilesOK, Step
  <2>5. TaxedOK'
    BY <1>1, <1>2, <2>1, <2>2, <2>3 DEF TaxedOK, Step
  <2>6. \A d : Inserting(d)' = Inserting(d)
    BY <1>1, <2>2, <2>3 DEF Inserting, Step
  <2>7. (Len(bus) + Cardinality(Binding) <= Cardinality(Admins))'
    <3>1. CASE bus = <<>>
      <4>1. Binding' \in SUBSET Admins
        BY DEF Binding
      <4>2. Cardinality(Binding') \in Nat /\ Cardinality(Binding') <= Cardinality(Admins)
        BY <4>1, SubsetCounts, AdminAssumption
      <4>3. Len(bus') = 0
        BY <1>2, <3>1
      <4>4. QED
        BY <4>2, <4>3, RowsFinite
    <3>2. CASE bus # <<>>
      <4>1. Binding' = Binding
        BY <1>1, <2>2, <2>3, <3>2 DEF Binding, Step
      <4>2. QED
        BY <1>2, <4>1 DEF RowsOK
    <3>3. QED
      BY <3>1, <3>2
  <2>8. RowsOK'
    BY <1>2, <2>6, <2>7 DEF RowsOK
  <2>9. QED
    BY <2>4, <2>5, <2>8
<1>4. CASE ~config.url
  <2>1. run' = [run EXCEPT ![w] = IdleRequest] /\ Answered(run[w])
    BY <1>4 DEF FindBus, EndRequest, Go
  <2>2. \A v \in Admins : run'[v] = IF v = w THEN IdleRequest ELSE run[v]
    BY <2>1
  <2>3. past'.torn = past.torn /\ \A c \in Presets \cap past'.answered : ProfilesOf(c) # {}
    BY <1>1, <2>1, TaxedWhenAnswered
  <2>4. \A v \in Admins : run'[v] = run[v] \/ (run[v].at = "bus" /\ run'[v].at = "idle")
    BY <1>1, <2>2 DEF IdleRequest
  <2>5. ProfilesOK'
    BY <1>2, <2>3, <2>4, RulesGoOn
  <2>6. TaxedOK'
    <3>1. /\ \A v \in Admins \ {w} : run'[v] = run[v]
          /\ run'[w].at \notin {"bus", "bind"}
          /\ \A d : ProfilesOf(d) \subseteq ProfilesOf(d)'
      BY <1>2, <2>2 DEF IdleRequest
    <3>2. QED
      BY ONLY <2>3, <3>1, TaxesOK, TaxedStays DEF TaxesOK
  <2>7. (\A d : Inserting(d)' \subseteq Inserting(d)) /\ Binding' \subseteq Binding
    BY <2>4 DEF Inserting, Binding, Step
  <2>8. RowsOK'
    BY <1>2, <2>7, RowsStay
  <2>9. QED
    BY <2>5, <2>6, <2>8
<1>5. QED
  BY <1>3, <1>4

LEMMA BusSaved ==
  ASSUME PATypeOK, TaxesOK, NEW w \in Admins, SaveBus(w)
  PROVE  TaxesOK'
<1> USE DEF PATypeOK, TaxesOK
<1>1. run[w] \in Provisions /\ run[w].at = "bind" /\ Step(w, "bind")
  BY RequestsAt DEF SaveBus, Step
<1>2. profiles' = profiles /\ \A d : ProfilesOf(d)' = ProfilesOf(d)
  BY DEF SaveBus, ProfilesOf
<1>3. \A v \in Admins : run'[v] = IF v = w THEN IdleRequest ELSE run[v]
  BY DEF SaveBus, EndRequest, Go
<1>4. past'.torn = past.torn /\ \A c \in Presets \cap past'.answered : ProfilesOf(c) # {}
  BY <1>1, TaxedWhenAnswered DEF SaveBus
<1>5. ProfilesOK'
  BY <1>1, <1>2, <1>3, <1>4 DEF ProfilesOK, Step, IdleRequest
<1>6. TaxedOK'
  <2>1. /\ \A v \in Admins \ {w} : run'[v] = run[v]
        /\ run'[w].at \notin {"bus", "bind"}
        /\ \A d : ProfilesOf(d) \subseteq ProfilesOf(d)'
    BY <1>2, <1>3 DEF IdleRequest
  <2>2. QED
    BY ONLY <1>4, <2>1, TaxesOK, TaxedStays DEF TaxesOK
<1>7. \A d : Inserting(d)' = Inserting(d)
  BY <1>1, <1>3 DEF Inserting, Step, IdleRequest
<1>8. CASE run[w].found
  <2>1. Len(bus') = Len(bus)
    BY <1>8 DEF SaveBus
  <2>2. Binding' \subseteq Binding
    BY <1>3 DEF Binding, Step, IdleRequest
  <2>3. RowsOK'
    BY <1>2, <1>7, <2>1, <2>2, RowsStay
  <2>4. QED
    BY <1>5, <1>6, <2>3
<1>9. CASE ~run[w].found
  <2>1. Len(bus') = Len(bus) + 1
    <3>1. bus' = Append(bus, TRUE)
      BY <1>9 DEF SaveBus
    <3>2. QED
      BY <3>1
  <2>2. Binding' = Binding \ {w} /\ w \in Binding
    BY <1>1, <1>3, <1>9 DEF Binding, Step, IdleRequest
  <2>3. Cardinality(Binding \ {w}) = Cardinality(Binding) - 1
    BY <2>2, RowsFinite, FS_RemoveElement
  <2>4. (Len(bus) + Cardinality(Binding) <= Cardinality(Admins))'
    BY <2>1, <2>2, <2>3, RowsFinite DEF RowsOK
  <2>5. RowsOK'
    BY <1>2, <1>7, <2>4 DEF RowsOK
  <2>6. QED
    BY <1>5, <1>6, <2>5
<1>10. QED
  BY <1>8, <1>9

\* Whoever stops at a profile's rules leaves the country torn.
LEMMA TaxesStopped ==
  ASSUME PATypeOK, TaxesOK, NEW S \in SUBSET Admins, UNCHANGED <<profiles, bus>>,
         past'.torn = past.torn \cup Torn(S), past'.answered = past.answered,
         \A v \in Admins : run'[v] = IF v \in S THEN IdleRequest ELSE run[v]
  PROVE  TaxesOK'
<1> USE DEF TaxesOK
<1>1. \A d : ProfilesOf(d)' = ProfilesOf(d)
  BY DEF ProfilesOf
<1>2. ProfilesOK'
  <2>1. \A v \in Admins : Step(v, "rule")' =>
          run'[v].row \in DOMAIN profiles' /\ profiles'[run'[v].row].country = run'[v].country
    BY DEF ProfilesOK, Step, IdleRequest
  <2>2. ASSUME NEW i \in DOMAIN profiles, NEW v \in Admins, Step(v, "rule"), run[v].row = i
        PROVE  profiles[i].country \in past'.torn \/ (Step(v, "rule")' /\ run'[v].row = i)
    <3>1. profiles[i].country = run[v].country
      BY <2>2 DEF ProfilesOK
    <3>2. v \in S => run[v].country \in Torn(S)
      BY <2>2 DEF Torn
    <3>3. QED
      BY <2>2, <3>1, <3>2 DEF Step
  <2>3. QED
    BY <2>1, <2>2 DEF ProfilesOK
<1>3. TaxedOK'
  BY <1>1 DEF TaxedOK, Step, IdleRequest
<1>4. (\A d : Inserting(d)' \subseteq Inserting(d)) /\ Binding' \subseteq Binding
  BY DEF Inserting, Binding, Step, IdleRequest
<1>5. RowsOK'
  BY <1>1, <1>4, RowsStay
<1>6. QED
  BY <1>2, <1>3, <1>5

LEMMA TaxesKept ==
  ASSUME PATypeOK, TaxesOK, PANext
  PROVE  TaxesOK'
<1> USE DEF PATypeOK
<1>1. ASSUME NEW w \in Admins, Fault(w) PROVE TaxesOK'
  <2>1. /\ past'.torn = past.torn \cup Torn({w}) /\ past'.answered = past.answered
        /\ UNCHANGED <<profiles, bus>>
        /\ \A v \in Admins : run'[v] = IF v \in {w} THEN IdleRequest ELSE run[v]
    BY <1>1 DEF Fault, rows, Pasts
  <2>2. QED
    BY <2>1, TaxesStopped
<1>2. ASSUME Restart PROVE TaxesOK'
  <2>1. /\ past'.torn = past.torn \cup Torn(Admins) /\ past'.answered = past.answered
        /\ UNCHANGED <<profiles, bus>>
        /\ \A v \in Admins : run'[v] = IdleRequest
    BY <1>2 DEF Restart, rows, Pasts
  <2>2. QED
    BY <2>1, TaxesStopped
<1>3. ASSUME (\E active \in BOOLEAN : SetActive(active)) \/ ConnectModify("Bea") PROVE TaxesOK'
  <2>1. TaxesAside
    BY <1>3 DEF SetActive, ConnectModify, TaxesAside, Pasts
  <2>2. QED
    BY <2>1, TaxesAsideKept
<1>4. ASSUME DeleteSubscription PROVE TaxesOK'
  <2>1. Len(bus') = Len(bus) /\ UNCHANGED <<profiles, run, past>>
    BY <1>4 DEF DeleteSubscription
  <2>2. (\A c : ProfilesOf(c)' = ProfilesOf(c) /\ Inserting(c)' = Inserting(c)) /\ Binding' = Binding
    BY <2>1 DEF ProfilesOf, Inserting, Binding, Step
  <2>3. ProfilesOK' /\ TaxedOK'
    BY <2>1, <2>2 DEF TaxesOK, ProfilesOK, TaxedOK, Step
  <2>4. RowsOK'
    BY <2>1, <2>2, RowsStay DEF TaxesOK
  <2>5. QED
    BY <2>3, <2>4 DEF TaxesOK
<1>5. QED
  BY <1>1, <1>2, <1>3, <1>4, AsideOfTheTaxes, TaxesAsideKept, ProfileLookedFor, ProfileInserted,
     RuleInserted, BusLookedFor, BusSaved DEF PANext

\* The rows count no more than the requests that may overlap; every profile of a country
\* that was answered is whole, torn, or being written.
LEMMA AppliedTaxes ==
  ASSUME PATypeOK, TaxesOK
  PROVE  TaxesAreApplied
<1> USE DEF TaxesOK
<1>1. ASSUME NEW c \in Presets \cap past.answered
      PROVE  \/ \E i \in ProfilesOf(c) : profiles[i].rules = PresetRules
             \/ c \in past.torn
             \/ \E w \in Admins : Step(w, "rule") /\ run[w].country = c
  <2>1. PICK i \in DOMAIN profiles : profiles[i].country = c /\ i \in ProfilesOf(c)
    BY DEF TaxedOK, ProfilesOf
  <2>2. QED
    BY <2>1 DEF ProfilesOK
<1>2. QED
  BY <1>1, RowsFinite DEF TaxesAreApplied, RowsOK

LEMMA PAInitially ==
  ASSUME PAInit
  PROVE  PAInv
<1> USE AdminAssumption DEF PAInit
<1>1. settings \in ProviderSettings /\ past.saved = settings
  BY DEF ProviderSettings, Secrets, SentSecrets, NoSecret
<1>2. past \in Pasts
  BY <1>1 DEF Pasts
<1>3. run \in [Admins -> PARequests]
  BY DEF PARequests
<1>4. PATypeOK
  BY <1>1, <1>2, <1>3 DEF PATypeOK
<1>5. \A w \in Admins : run[w].at = "idle"
  BY DEF IdleRequest
<1>6. LateOK /\ ErasureHolds
  BY DEF LateOK, ErasureHolds
<1>7. profiles = <<>> /\ bus = <<>> /\ past.answered = {}
  OBVIOUS
<1>8. ProfilesOK /\ TaxedOK
  BY <1>5, <1>7 DEF ProfilesOK, TaxedOK, Step
<1>9. RowsOK
  <2>1. (\A c : ProfilesOf(c) = {} /\ Inserting(c) = {}) /\ Binding = {}
    BY <1>5, <1>7 DEF ProfilesOf, Inserting, Binding, Step
  <2>2. Cardinality({}) = 0 /\ Len(bus) = 0 /\ Cardinality(Admins) \in Nat
    BY <1>7, FS_EmptySet, FS_CardinalityType
  <2>3. /\ \A c : Cardinality(ProfilesOf(c)) = 0 /\ Cardinality(Inserting(c)) = 0
        /\ Cardinality(Binding) = 0
    BY <2>1, <2>2
  <2>4. QED
    BY <2>2, <2>3 DEF RowsOK
<1>10. SealedOK
  BY <1>1, <1>5 DEF SealedOK, SealedIn, NoSecret, Step
<1>11. QED
  BY <1>4, <1>6, <1>8, <1>9, <1>10 DEF PAInv

LEMMA PAInductive ==
  PAInv /\ [PANext]_paVars => PAInv'
<1>1. CASE PAInv /\ PANext
  BY <1>1, PATyped, ErasureKept, SettingsStaySealed, TaxesKept DEF PAInv, TaxesOK
<1>2. CASE PAInv /\ UNCHANGED paVars
  <2>1. PATypeOK'
    BY <1>2 DEF PAInv, paVars, rows, PATypeOK
  <2>2. LateOK' /\ ErasureHolds'
    BY <1>2 DEF PAInv, paVars, rows, LateOK, ErasureHolds, Step
  <2>3. TaxesOK'
    <3>1. TaxesAside
      BY <1>2 DEF paVars, rows, TaxesAside
    <3>2. QED
      BY <1>2, <3>1, TaxesAsideKept DEF PAInv, TaxesOK
  <2>4. SealedOK'
    BY <1>2 DEF PAInv, paVars, rows, SealedOK, SealedIn, Step
  <2>5. QED
    BY <2>1, <2>2, <2>3, <2>4 DEF PAInv, TaxesOK
<1>3. QED
  BY <1>1, <1>2

\* The administration's invariant, for any number of requests, countries and providers.
THEOREM AdminInvariant == PASpec => []PAInv
<1>1. QED
  BY PAInitially, PAInductive, PTL DEF PASpec

\* Rows, settings, guest and requests keep their types (PropertyAdmin).
THEOREM AdminTypeCorrect == PASpec => []PATypeOK
<1>1. PAInv => PATypeOK
  BY DEF PAInv
<1>2. QED
  BY <1>1, AdminInvariant, PTL

\* ErasureHolds: an erased guest stays erased but for those who wrote late, and the log
\* says so (guest.service delete, update).
THEOREM ErasuresHold == PASpec => []ErasureHolds
<1>1. PAInv => ErasureHolds
  BY DEF PAInv
<1>2. QED
  BY <1>1, AdminInvariant, PTL

\* SettingsAreKept: the providers' settings are those saved last but for a stale write,
\* and their secrets sealed but for those set without a key (payment-settings service).
THEOREM SettingsKept == PASpec => []SettingsAreKept
<1>1. PAInv => SettingsAreKept
  BY KeptSettings DEF PAInv
<1>2. QED
  BY <1>1, AdminInvariant, PTL

\* TaxesAreApplied: an activation that was answered has left its taxes, whole unless it
\* broke off, and rows double only as far as requests overlap (provisioning service).
THEOREM TaxesApplied == PASpec => []TaxesAreApplied
<1>1. PAInv => TaxesAreApplied
  BY AppliedTaxes DEF PAInv, TaxesOK
<1>2. QED
  BY <1>1, AdminInvariant, PTL

-----------------------------------------------------------------------------
(* Agents: what a clerk is about, and what the rows say.                   *)

DecisionRows ==
  [agent : AgentTypes, subject : Reservations \cup Reviews,
   status : {"pending", "approved", "rejected", "auto_executed"}, done : Nat, error : BOOLEAN]

\* A run of an agent, and somebody at the desk.
RunTasks ==
  [at : {"store", "execute", "mark"}, agent : AgentTypes, auto : BOOLEAN,
   todo : SUBSET (Reservations \cup Reviews), row : Nat]

DeskTasks == [at : {"execute", "mark", "reject"}, agent : {"nobody"}, row : Nat]

ClerkTypes ==
  /\ launched \in Nat
  /\ clerk \in [Clerks -> {FreeClerk} \cup RunTasks \cup DeskTasks]

Holding == {"execute", "mark", "reject"}

\* Each agent keeps to its subjects; the row a clerk holds is there.
SubjectsOK ==
  /\ \A k \in Clerks : clerk[k].at \in {"store", "execute", "mark"} /\ clerk[k].agent # "nobody" =>
       clerk[k].todo \subseteq IF clerk[k].agent = "guest_comms" THEN Reservations ELSE Reviews
  /\ \A d \in DOMAIN decision :
       decision[d].subject \in IF decision[d].agent = "guest_comms" THEN Reservations ELSE Reviews
  /\ \A k \in Clerks : clerk[k].at \in Holding => clerk[k].row \in DOMAIN decision

AGTyped == AGTypeOK /\ ClerkTypes /\ SubjectsOK

\* Who holds an undisputed decision holds it alone, and knows what has become of it.
HeldOK ==
  \A d \in DOMAIN decision \ disputed :
    /\ \A k, l \in Holders(d) : k = l
    /\ \A k \in Holders(d) :
         decision[d].status = "pending" /\ decision[d].done = IF clerk[k].at = "mark" THEN 1 ELSE 0
    /\ Holders(d) = {} /\ decision[d].status = "pending" => decision[d].done = 0

\* The decisions about a reservation, the runs that may still write to its guest, ...
About(r) == {d \in DOMAIN decision : decision[d].subject = r}

Unwritten(r) == {k \in Clerks : Mailing(k) /\ r \in clerk[k].todo}

\* ... and whether nothing has gone wrong with any of them.
Clean(r) == r \notin reanalysed /\ \A d \in About(r) : d \notin disputed /\ ~decision[d].error

Rejected(d) == decision[d].status = "rejected"

\* Of a reservation, one decision at most is not rejected, or one run is to make it; and a
\* mail that has gone out is in a decision.
MailsOK ==
  \A r \in Reservations : Clean(r) =>
    /\ \A d, e \in About(r) : Rejected(d) \/ Rejected(e) \/ d = e
    /\ \A k \in Unwritten(r), d \in About(r) : Rejected(d)
    /\ \A k, l \in Unwritten(r) : k = l
    /\ mail[r] = 0 \/ (mail[r] = 1 /\ \E d \in About(r) : decision[d].done >= 1)

AGInv == AGTyped /\ HeldOK /\ StatusIsTrue /\ MailsOK

ClerkStates == {FreeClerk} \cup RunTasks \cup DeskTasks

LEMMA ClerkAt ==
  ASSUME AGTyped, NEW k \in Clerks
  PROVE  /\ clerk[k] \in ClerkStates /\ FreeClerk.at = "free"
         /\ clerk[k].at = "store" => clerk[k] \in RunTasks
         /\ clerk[k].at = "reject" => clerk[k] \in DeskTasks
         /\ clerk[k].at \in {"execute", "mark"} =>
              (clerk[k].agent # "nobody" /\ clerk[k] \in RunTasks)
              \/ (clerk[k].agent = "nobody" /\ clerk[k] \in DeskTasks)
         /\ clerk[k].at \in Holding => clerk[k].row \in DOMAIN decision
         /\ clerk[k] # FreeClerk => clerk[k].at \in {"store", "execute", "mark", "reject"}
BY DEF AGTyped, ClerkTypes, ClerkStates, RunTasks, DeskTasks, FreeClerk, SubjectsOK, Holding, AgentTypes

LEMMA RowAt ==
  ASSUME AGTyped
  PROVE  /\ decision \in Seq(DecisionRows) /\ Len(decision) \in Nat
         /\ DOMAIN decision = 1 .. Len(decision)
         /\ \A d \in DOMAIN decision : decision[d] \in DecisionRows
<1>1. decision \in Seq(DecisionRows)
  BY DEF AGTyped, AGTypeOK, DecisionRows
<1>2. Len(decision) \in Nat /\ DOMAIN decision = 1 .. Len(decision)
  BY <1>1
<1>3. QED
  BY ONLY <1>1, <1>2, ElementOfSeq

LEMMA ClerkSet ==
  ASSUME AGTyped, NEW k \in Clerks, NEW x \in ClerkStates, clerk' = [clerk EXCEPT ![k] = x]
  PROVE  /\ clerk' \in [Clerks -> ClerkStates]
         /\ \A j \in Clerks : clerk'[j] = IF j = k THEN x ELSE clerk[j]
BY DEF AGTyped, ClerkTypes, ClerkStates

LEMMA RowSet ==
  ASSUME AGTyped, NEW d \in DOMAIN decision, NEW x \in DecisionRows, decision' = [decision EXCEPT ![d] = x]
  PROVE  /\ decision' \in Seq(DecisionRows) /\ DOMAIN decision' = DOMAIN decision
         /\ \A e \in DOMAIN decision : decision'[e] = IF e = d THEN x ELSE decision[e]
BY RowAt

\* A clerk that holds a row writes it, and goes on or leaves.
Writes(k, x, y) ==
  /\ decision' = [decision EXCEPT ![clerk[k].row] = x]
  /\ clerk' = [clerk EXCEPT ![k] = y]

LEMMA ClerkGoesOn ==
  ASSUME AGTyped, NEW k \in Clerks, clerk[k].at \in {"execute", "mark"},
         NEW at \in {"store", "execute", "mark"}, at = "store" => clerk[k].agent # "nobody"
  PROVE  LET x == [clerk[k] EXCEPT !.at = at]
         IN /\ x \in ClerkStates /\ x.at = at /\ x.row = clerk[k].row /\ x.agent = clerk[k].agent
            /\ x.agent # "nobody" => x.todo = clerk[k].todo
<1>1. CASE clerk[k] \in RunTasks
  BY <1>1 DEF RunTasks, ClerkStates
<1>2. CASE clerk[k] \in DeskTasks
  BY <1>2 DEF DeskTasks, ClerkStates
<1>3. QED
  BY <1>1, <1>2, ClerkAt

\* The clerk that executes, marks, fails or rejects, and the row it writes.
LEMMA Execution ==
  ASSUME AGTyped, NEW k \in Clerks, ExecuteDecision(k)
  PROVE  LET d == clerk[k].row
         IN /\ Writes(k, [decision[d] EXCEPT !.done = @ + 1], [clerk[k] EXCEPT !.at = "mark"])
            /\ UNCHANGED <<launched, disputed, reanalysed>>
            /\ decision[d].agent = "guest_comms" => UNCHANGED review
            /\ decision[d].agent # "guest_comms" => UNCHANGED mail
BY DEF ExecuteDecision, Done, GoOn, Effect, Writes

LEMMA Mark ==
  ASSUME AGTyped, NEW k \in Clerks, MarkDecision(k)
  PROVE  LET d == clerk[k].row
         IN /\ UNCHANGED <<setup, mail, review, launched, disputed, reanalysed>>
            /\ \/ /\ clerk[k].agent # "nobody"
                  /\ Writes(k, [decision[d] EXCEPT !.status = "auto_executed"],
                            [clerk[k] EXCEPT !.at = "store"])
               \/ /\ clerk[k].agent = "nobody"
                  /\ Writes(k, [decision[d] EXCEPT !.status = "approved"], FreeClerk)
BY DEF MarkDecision, GoOn, Leave, Writes

LEMMA Failure ==
  ASSUME AGTyped, NEW k \in Clerks, FailDecision(k)
  PROVE  LET d == clerk[k].row
         IN /\ UNCHANGED <<setup, mail, review, launched, disputed, reanalysed>>
            /\ Writes(k, [decision[d] EXCEPT !.status = "rejected", !.error = TRUE],
                      [clerk[k] EXCEPT !.at = "store"])
<1>1. clerk[k].row \in DOMAIN decision /\ decision \in Seq(DecisionRows)
  BY ClerkAt, RowAt DEF FailDecision, Holding
<1>2. QED
  BY <1>1 DEF FailDecision, GoOn, Writes

LEMMA Rejection ==
  ASSUME AGTyped, NEW k \in Clerks, MarkRejected(k)
  PROVE  LET d == clerk[k].row
         IN /\ UNCHANGED <<setup, mail, review, launched, disputed, reanalysed>>
            /\ Writes(k, [decision[d] EXCEPT !.status = "rejected"], FreeClerk)
BY DEF MarkRejected, Leave, Writes

\* A row after it has been written, and the clerk after that.
LEMMA Written ==
  ASSUME AGTyped, NEW k \in Clerks, clerk[k].at \in Holding, NEW x, NEW y \in ClerkStates,
         Writes(k, x, y), x \in DecisionRows
  PROVE  /\ decision' \in Seq(DecisionRows) /\ DOMAIN decision' = DOMAIN decision
         /\ \A e \in DOMAIN decision : decision'[e] = IF e = clerk[k].row THEN x ELSE decision[e]
         /\ clerk' \in [Clerks -> ClerkStates]
         /\ \A j \in Clerks : clerk'[j] = IF j = k THEN y ELSE clerk[j]
BY ClerkAt, ClerkSet, RowSet DEF Writes

LEMMA RowVariants ==
  ASSUME NEW x \in DecisionRows
  PROVE  /\ LET z == [x EXCEPT !.done = @ + 1]
            IN /\ z \in DecisionRows /\ z.status = x.status /\ z.done = x.done + 1 /\ z.error = x.error
               /\ z.agent = x.agent /\ z.subject = x.subject
         /\ \A s \in {"approved", "rejected", "auto_executed"} :
              LET z == [x EXCEPT !.status = s]
              IN /\ z \in DecisionRows /\ z.status = s /\ z.done = x.done /\ z.error = x.error
                 /\ z.agent = x.agent /\ z.subject = x.subject
         /\ LET z == [x EXCEPT !.status = "rejected", !.error = TRUE]
            IN /\ z \in DecisionRows /\ z.status = "rejected" /\ z.done = x.done /\ z.error = TRUE
               /\ z.agent = x.agent /\ z.subject = x.subject
<1>1. LET z == [x EXCEPT !.done = @ + 1]
      IN /\ z \in DecisionRows /\ z.status = x.status /\ z.done = x.done + 1 /\ z.error = x.error
         /\ z.agent = x.agent /\ z.subject = x.subject
  BY DEF DecisionRows
<1>2. ASSUME NEW s \in {"approved", "rejected", "auto_executed"}
      PROVE  LET z == [x EXCEPT !.status = s]
             IN /\ z \in DecisionRows /\ z.status = s /\ z.done = x.done /\ z.error = x.error
                /\ z.agent = x.agent /\ z.subject = x.subject
  BY DEF DecisionRows
<1>3. LET z == [x EXCEPT !.status = "rejected", !.error = TRUE]
      IN /\ z \in DecisionRows /\ z.status = "rejected" /\ z.done = x.done /\ z.error = TRUE
         /\ z.agent = x.agent /\ z.subject = x.subject
  BY DEF DecisionRows
<1>4. QED
  BY <1>1, <1>2, <1>3

\* What a clerk may be after it has written: it keeps its row and what is left to do.
LEMMA WrittenTyped ==
  ASSUME AGTyped, NEW k \in Clerks, clerk[k].at \in Holding, NEW x \in DecisionRows, NEW y \in ClerkStates,
         Writes(k, x, y), x.agent = decision[clerk[k].row].agent, x.subject = decision[clerk[k].row].subject,
         y = FreeClerk \/ (/\ y.agent = clerk[k].agent /\ y.row = clerk[k].row
                           /\ y.agent # "nobody" => y.todo = clerk[k].todo /\ clerk[k].at # "reject"),
         UNCHANGED <<launched, disputed, reanalysed, setup>>,
         mail' \in [Reservations -> Nat],
         review' \in [Reviews -> {"none", "pending", "drafted", "approved", "posted"}]
  PROVE  AGTyped'
<1>1. /\ decision' \in Seq(DecisionRows) /\ DOMAIN decision' = DOMAIN decision
      /\ \A e \in DOMAIN decision : decision'[e] = IF e = clerk[k].row THEN x ELSE decision[e]
      /\ clerk' \in [Clerks -> ClerkStates]
      /\ \A j \in Clerks : clerk'[j] = IF j = k THEN y ELSE clerk[j]
  BY Written
<1>2. AGTypeOK' /\ ClerkTypes'
  BY <1>1 DEF AGTyped, AGTypeOK, ClerkTypes, ClerkStates, DecisionRows
<1>3. \A j \in Clerks : clerk'[j].at \in {"store", "execute", "mark"} /\ clerk'[j].agent # "nobody" =>
        clerk'[j].todo \subseteq IF clerk'[j].agent = "guest_comms" THEN Reservations ELSE Reviews
  <2>1. CASE y = FreeClerk
    BY <1>1, <2>1 DEF AGTyped, SubjectsOK, FreeClerk
  <2>2. CASE y.agent = clerk[k].agent /\ (y.agent # "nobody" => y.todo = clerk[k].todo /\ clerk[k].at # "reject")
    BY <1>1, <2>2 DEF AGTyped, SubjectsOK, Holding
  <2>3. QED
    BY <2>1, <2>2
<1>4. \A d \in DOMAIN decision' :
        decision'[d].subject \in IF decision'[d].agent = "guest_comms" THEN Reservations ELSE Reviews
  BY <1>1 DEF AGTyped, SubjectsOK
<1>5. \A j \in Clerks : clerk'[j].at \in Holding => clerk'[j].row \in DOMAIN decision'
  BY <1>1 DEF AGTyped, SubjectsOK, FreeClerk, Holding
<1>6. QED
  BY <1>2, <1>3, <1>4, <1>5 DEF AGTyped, SubjectsOK

LEMMA ExecutionTyped ==
  ASSUME AGTyped, NEW k \in Clerks, ExecuteDecision(k)
  PROVE  AGTyped'
<1> DEFINE x == [decision[clerk[k].row] EXCEPT !.done = @ + 1]
           y == [clerk[k] EXCEPT !.at = "mark"]
<1>1. clerk[k].at = "execute" /\ clerk[k].row \in DOMAIN decision
      /\ decision[clerk[k].row] \in DecisionRows /\ UNCHANGED setup
  BY ClerkAt, RowAt DEF ExecuteDecision, Holding
<1>2. Writes(k, x, y) /\ UNCHANGED <<launched, disputed, reanalysed>>
  BY Execution
<1>3. /\ x \in DecisionRows /\ x.agent = decision[clerk[k].row].agent
      /\ x.subject = decision[clerk[k].row].subject
  BY <1>1, RowVariants
<1>4. /\ y \in ClerkStates /\ y.row = clerk[k].row /\ y.agent = clerk[k].agent
      /\ y.agent # "nobody" => y.todo = clerk[k].todo
  BY <1>1, ClerkGoesOn
<1>5. /\ mail' \in [Reservations -> Nat]
      /\ review' \in [Reviews -> {"none", "pending", "drafted", "approved", "posted"}]
  <2>1. /\ mail \in [Reservations -> Nat]
        /\ review \in [Reviews -> {"none", "pending", "drafted", "approved", "posted"}]
    BY DEF AGTyped, AGTypeOK
  <2>2. PICK s : s = decision[clerk[k].row].subject
    OBVIOUS
  <2>3. /\ mail' = [mail EXCEPT ![s] = mail[s] + 1] \/ mail' = mail
        /\ review' = [review EXCEPT ![s] = "drafted"] \/ review' = review
    BY <2>2 DEF ExecuteDecision, Effect
  <2>4. QED
    BY <2>1, <2>3
<1> HIDE DEF x, y
<1>6. QED
  BY <1>1, <1>2, <1>3, <1>4, <1>5, WrittenTyped DEF Holding

LEMMA MarkTyped ==
  ASSUME AGTyped, NEW k \in Clerks, MarkDecision(k)
  PROVE  AGTyped'
<1> DEFINE x(s) == [decision[clerk[k].row] EXCEPT !.status = s]
           y == [clerk[k] EXCEPT !.at = "store"]
<1>1. clerk[k].at = "mark" /\ clerk[k].row \in DOMAIN decision /\ decision[clerk[k].row] \in DecisionRows
  BY ClerkAt, RowAt DEF MarkDecision, Holding
<1>2. /\ UNCHANGED <<setup, mail, review, launched, disputed, reanalysed>>
      /\ \/ clerk[k].agent # "nobody" /\ Writes(k, x("auto_executed"), y)
         \/ clerk[k].agent = "nobody" /\ Writes(k, x("approved"), FreeClerk)
  BY Mark
<1>3. ASSUME NEW s \in {"approved", "auto_executed"}
      PROVE  /\ x(s) \in DecisionRows /\ x(s).agent = decision[clerk[k].row].agent
             /\ x(s).subject = decision[clerk[k].row].subject
  <2>1. PICK row \in DecisionRows : row = decision[clerk[k].row]
    BY <1>1
  <2>2. LET z == [row EXCEPT !.status = s]
        IN z \in DecisionRows /\ z.agent = row.agent /\ z.subject = row.subject
    BY DEF DecisionRows
  <2>3. QED
    BY <2>1, <2>2
<1>4. clerk[k].agent # "nobody" =>
        /\ y \in ClerkStates /\ y.row = clerk[k].row /\ y.agent = clerk[k].agent
        /\ y.agent # "nobody" => y.todo = clerk[k].todo
  BY <1>1, ClerkGoesOn
<1>5. /\ mail' \in [Reservations -> Nat]
      /\ review' \in [Reviews -> {"none", "pending", "drafted", "approved", "posted"}]
  BY <1>2 DEF AGTyped, AGTypeOK
<1>6. FreeClerk \in ClerkStates
  BY DEF ClerkStates
<1> HIDE DEF x, y
<1>7. QED
  BY <1>1, <1>2, <1>3, <1>4, <1>5, <1>6, WrittenTyped DEF Holding

LEMMA FailureTyped ==
  ASSUME AGTyped, NEW k \in Clerks, FailDecision(k)
  PROVE  AGTyped'
<1> DEFINE x == [decision[clerk[k].row] EXCEPT !.status = "rejected", !.error = TRUE]
           y == [clerk[k] EXCEPT !.at = "store"]
<1>1. clerk[k].at \in {"execute", "mark"} /\ clerk[k].agent # "nobody" /\ clerk[k].row \in DOMAIN decision
      /\ decision[clerk[k].row] \in DecisionRows
  BY ClerkAt, RowAt DEF FailDecision, Holding
<1>2. Writes(k, x, y) /\ UNCHANGED <<setup, mail, review, launched, disputed, reanalysed>>
  BY Failure
<1>3. /\ x \in DecisionRows /\ x.agent = decision[clerk[k].row].agent
      /\ x.subject = decision[clerk[k].row].subject
  BY <1>1, RowVariants
<1>4. /\ y \in ClerkStates /\ y.row = clerk[k].row /\ y.agent = clerk[k].agent
      /\ y.agent # "nobody" => y.todo = clerk[k].todo
  BY <1>1, ClerkGoesOn
<1>5. /\ mail' \in [Reservations -> Nat]
      /\ review' \in [Reviews -> {"none", "pending", "drafted", "approved", "posted"}]
  BY <1>2 DEF AGTyped, AGTypeOK
<1> HIDE DEF x, y
<1>6. QED
  BY <1>1, <1>2, <1>3, <1>4, <1>5, WrittenTyped DEF Holding

LEMMA RejectionTyped ==
  ASSUME AGTyped, NEW k \in Clerks, MarkRejected(k)
  PROVE  AGTyped'
<1> DEFINE x == [decision[clerk[k].row] EXCEPT !.status = "rejected"]
<1>1. clerk[k].at = "reject" /\ clerk[k].row \in DOMAIN decision /\ decision[clerk[k].row] \in DecisionRows
  BY ClerkAt, RowAt DEF MarkRejected, Holding
<1>2. Writes(k, x, FreeClerk) /\ UNCHANGED <<setup, mail, review, launched, disputed, reanalysed>>
  BY Rejection
<1>3. /\ x \in DecisionRows /\ x.agent = decision[clerk[k].row].agent
      /\ x.subject = decision[clerk[k].row].subject
  BY <1>1, RowVariants
<1>4. /\ mail' \in [Reservations -> Nat] /\ FreeClerk \in ClerkStates
      /\ review' \in [Reviews -> {"none", "pending", "drafted", "approved", "posted"}]
  BY <1>2 DEF AGTyped, AGTypeOK, ClerkStates
<1> HIDE DEF x
<1>5. QED
  BY <1>1, <1>2, <1>3, <1>4, WrittenTyped DEF Holding

\* A clerk that begins, goes on or leaves without writing a decision.
LEMMA ChangedTyped ==
  ASSUME AGTyped, NEW k \in Clerks, NEW x \in ClerkStates, clerk' = [clerk EXCEPT ![k] = x],
         decision' = decision, launched' \in Nat, UNCHANGED <<setup, mail>>,
         x.at \in {"store", "execute", "mark"} /\ x.agent # "nobody" =>
           x.todo \subseteq IF x.agent = "guest_comms" THEN Reservations ELSE Reviews,
         x.at \in Holding => x.row \in DOMAIN decision,
         disputed' \subseteq DOMAIN decision, reanalysed' \subseteq Reservations,
         review' \in [Reviews -> {"none", "pending", "drafted", "approved", "posted"}]
  PROVE  AGTyped'
<1>1. /\ clerk' \in [Clerks -> ClerkStates]
      /\ \A j \in Clerks : clerk'[j] = IF j = k THEN x ELSE clerk[j]
  BY ClerkSet
<1>2. AGTypeOK' /\ ClerkTypes'
  BY <1>1 DEF AGTyped, AGTypeOK, ClerkTypes, ClerkStates
<1>3. \A j \in Clerks : clerk'[j].at \in {"store", "execute", "mark"} /\ clerk'[j].agent # "nobody" =>
        clerk'[j].todo \subseteq IF clerk'[j].agent = "guest_comms" THEN Reservations ELSE Reviews
  BY <1>1 DEF AGTyped, SubjectsOK
<1>4. \A j \in Clerks : clerk'[j].at \in Holding => clerk'[j].row \in DOMAIN decision'
  BY <1>1 DEF AGTyped, SubjectsOK
<1>5. SubjectsOK'
  BY <1>3, <1>4 DEF AGTyped, SubjectsOK
<1>6. QED
  BY <1>2, <1>5 DEF AGTyped

\* Steps that begin with reviews, end a run or change nothing that the decisions are about.
AgentsAside ==
  /\ UNCHANGED <<decision, mail, disputed, reanalysed>>
  /\ \A j \in Clerks : \/ clerk'[j] = clerk[j]
                       \/ /\ clerk[j].at \notin Holding
                          /\ \/ clerk'[j].at = "free"
                             \/ clerk'[j].at = "store" /\ clerk'[j].agent = "review_response"

LEMMA TaskTyped ==
  ASSUME AGTyped, NEW a \in AgentTypes, NEW todo \in SUBSET (Reservations \cup Reviews)
  PROVE  LET x == RunTask(a, todo)
         IN x \in ClerkStates /\ x.at = "store" /\ x.agent = a /\ x.todo = todo
<1>1. (setup[a].mode = "autopilot") \in BOOLEAN
  OBVIOUS
<1>2. QED
  BY <1>1 DEF RunTask, ClerkStates, RunTasks, NoDecision, AgentTypes

LEMMA ReviewRun ==
  ASSUME AGTyped, NEW k \in Clerks, NEW todo \in SUBSET Reviews,
         BeginRun(k, RunTask("review_response", todo)), UNCHANGED <<decision, setup, mail, disputed, reanalysed>>,
         review' \in [Reviews -> {"none", "pending", "drafted", "approved", "posted"}]
  PROVE  AGTyped' /\ AgentsAside
<1> DEFINE x == RunTask("review_response", todo)
<1>1. x \in ClerkStates /\ x.at = "store" /\ x.agent = "review_response" /\ x.todo = todo
  BY TaskTyped DEF AgentTypes
<1> HIDE DEF x
<1>2. clerk[k] = FreeClerk /\ clerk' = [clerk EXCEPT ![k] = x] /\ launched' = launched + 1
  BY DEF BeginRun, x
<1>3. AGTyped'
  <2>1. launched' \in Nat /\ disputed' \subseteq DOMAIN decision /\ reanalysed' \subseteq Reservations
    BY <1>2 DEF AGTyped, AGTypeOK, ClerkTypes
  <2>2. x.at \notin Holding /\ x.todo \subseteq Reviews /\ x.agent # "guest_comms"
    BY <1>1 DEF Holding
  <2>3. QED
    BY <1>1, <1>2, <2>1, <2>2, ChangedTyped
<1>4. AgentsAside
  BY <1>1, <1>2, ClerkSet DEF AgentsAside, FreeClerk, Holding
<1>5. QED
  BY <1>3, <1>4

LEMMA AsideOfTheDecisions ==
  ASSUME AGTyped,
         \/ \E a \in AgentTypes, on \in BOOLEAN, mode \in Modes : UpdateAgent(a, on, mode)
         \/ \E v \in Reviews, s \in {"pending", "drafted", "approved", "posted"} : UpdateReview(v, s)
         \/ \E k \in Clerks : RunReviewResponse(k) \/ FinishRun(k) \/ \E v \in Reviews : CreateReview(k, v)
  PROVE  AGTyped' /\ AgentsAside
<1>1. ASSUME NEW a \in AgentTypes, NEW on \in BOOLEAN, NEW mode \in Modes, UpdateAgent(a, on, mode)
      PROVE  AGTyped' /\ AgentsAside
  <2>1. setup' \in [AgentTypes -> [enabled : BOOLEAN, mode : Modes]]
    BY <1>1 DEF UpdateAgent, AGTyped, AGTypeOK
  <2>2. QED
    BY <1>1, <2>1 DEF UpdateAgent, RunRequest, AGTyped, AGTypeOK, ClerkTypes, SubjectsOK, AgentsAside
<1>2. ASSUME NEW v \in Reviews, NEW s \in {"pending", "drafted", "approved", "posted"}, UpdateReview(v, s)
      PROVE  AGTyped' /\ AgentsAside
  <2>1. review' \in [Reviews -> {"none", "pending", "drafted", "approved", "posted"}]
    BY <1>2 DEF UpdateReview, AGTyped, AGTypeOK
  <2>2. QED
    BY <1>2, <2>1 DEF UpdateReview, RunRequest, AGTyped, AGTypeOK, ClerkTypes, SubjectsOK, AgentsAside
<1>3. ASSUME NEW k \in Clerks, RunReviewResponse(k)
      PROVE  AGTyped' /\ AgentsAside
  <2>1. PendingReviews \in SUBSET Reviews
    BY DEF PendingReviews
  <2>2. QED
    BY <1>3, <2>1, ReviewRun DEF RunReviewResponse, AGTyped, AGTypeOK
<1>4. ASSUME NEW k \in Clerks, FinishRun(k)
      PROVE  AGTyped' /\ AgentsAside
  <2>1. clerk[k].at = "store" /\ clerk' = [clerk EXCEPT ![k] = FreeClerk]
        /\ UNCHANGED <<setup, decision, mail, review, launched, disputed, reanalysed>>
    BY <1>4 DEF FinishRun, Leave
  <2>2. FreeClerk \in ClerkStates /\ FreeClerk.at = "free"
    BY DEF ClerkStates, FreeClerk
  <2>3. AGTyped'
    BY <2>1, <2>2, ChangedTyped DEF AGTyped, AGTypeOK, ClerkTypes, Holding
  <2>4. AgentsAside
    BY <2>1, <2>2, ClerkSet DEF AgentsAside, Holding
  <2>5. QED
    BY <2>3, <2>4
<1>5. ASSUME NEW k \in Clerks, NEW v \in Reviews, CreateReview(k, v)
      PROVE  AGTyped' /\ AgentsAside
  <2>1. review' \in [Reviews -> {"none", "pending", "drafted", "approved", "posted"}]
        /\ UNCHANGED <<setup, decision, mail, disputed, reanalysed>>
    BY <1>5 DEF CreateReview, AGTyped, AGTypeOK
  <2>2. CASE setup["review_response"].enabled
    <3>1. BeginRun(k, RunTask("review_response", {v}))
      BY <1>5, <2>2 DEF CreateReview
    <3>2. QED
      BY <2>1, <3>1, ReviewRun
  <2>3. CASE ~setup["review_response"].enabled
    <3>1. launched' = launched + 1 /\ clerk' = clerk
      BY <1>5, <2>3 DEF CreateReview, RunRequest
    <3>2. QED
      BY <2>1, <3>1 DEF AGTyped, AGTypeOK, ClerkTypes, SubjectsOK, AgentsAside
  <2>4. QED
    BY <2>2, <2>3
<1>6. QED
  BY <1>1, <1>2, <1>3, <1>4, <1>5

LEMMA AgentsAsideKept ==
  ASSUME AGTyped, HeldOK, StatusIsTrue, MailsOK, AgentsAside
  PROVE  HeldOK' /\ StatusIsTrue' /\ MailsOK'
<1> USE DEF AgentsAside, Holding
<1>1. \A d : Holders(d)' = Holders(d)
  BY DEF Holders
<1>2. HeldOK'
  <2>1. \A d : \A k \in Holders(d) : clerk'[k] = clerk[k]
    BY DEF Holders
  <2>2. QED
    BY <1>1, <2>1 DEF HeldOK
<1>3. StatusIsTrue'
  BY DEF StatusIsTrue, Decided
<1>4. \A r \in Reservations : About(r)' = About(r) /\ (Clean(r)' <=> Clean(r))
  BY DEF About, Clean
<1>5. \A r \in Reservations : Unwritten(r)' \subseteq Unwritten(r)
  BY DEF Unwritten, Mailing
<1>6. MailsOK'
  BY <1>4, <1>5 DEF MailsOK, Rejected
<1>7. QED
  BY <1>2, <1>3, <1>6

LEMMA RowIsAbout ==
  ASSUME AGTyped, NEW d \in DOMAIN decision, NEW r \in Reservations, decision[d].subject = r
  PROVE  decision[d].agent = "guest_comms"
BY AgentsAssumption DEF AGTyped, SubjectsOK

LEMMA MailsStay ==
  ASSUME MailsOK, UNCHANGED <<decision, mail>>,
         \A r \in Reservations : /\ Unwritten(r)' \subseteq Unwritten(r) /\ About(r)' = About(r)
                                 /\ Clean(r)' => Clean(r)
  PROVE  MailsOK'
<1>1. ASSUME NEW r \in Reservations, Clean(r)'
      PROVE  /\ \A d, e \in About(r)' : Rejected(d)' \/ Rejected(e)' \/ d = e
             /\ \A j \in Unwritten(r)', d \in About(r)' : Rejected(d)'
             /\ \A j, l \in Unwritten(r)' : j = l
             /\ mail'[r] = 0 \/ (mail'[r] = 1 /\ \E d \in About(r)' : decision'[d].done >= 1)
  <2>1. /\ \A d, e \in About(r) : Rejected(d) \/ Rejected(e) \/ d = e
        /\ \A j \in Unwritten(r), d \in About(r) : Rejected(d)
        /\ \A j, l \in Unwritten(r) : j = l
        /\ mail[r] = 0 \/ (mail[r] = 1 /\ \E d \in About(r) : decision[d].done >= 1)
    <3>1. Clean(r)
      BY <1>1 DEF Clean, About
    <3>2. QED
      BY ONLY <3>1, MailsOK, r \in Reservations DEF MailsOK
  <2>2. \A d : Rejected(d)' <=> Rejected(d)
    BY DEF Rejected
  <2>3. Unwritten(r)' \subseteq Unwritten(r) /\ About(r)' = About(r)
    BY DEF Unwritten, Mailing, About
  <2>4. mail' = mail /\ decision' = decision
    OBVIOUS
  <2>5. QED
    BY ONLY <2>1, <2>2, <2>3, <2>4
<1>2. QED
  BY <1>1 DEF MailsOK

\* A run of guest_comms begins: whom it is to write to has no decision that is not
\* rejected, and is in no other run, or counts as analysed again.
LEMMA MailRun ==
  ASSUME AGTyped, HeldOK, StatusIsTrue, MailsOK, NEW k \in Clerks, NEW due \in SUBSET Reservations,
         RunGuestComms(k, due)
  PROVE  AGTyped' /\ HeldOK' /\ StatusIsTrue' /\ MailsOK'
<1> DEFINE x == RunTask("guest_comms", MailsFor(due))
<1>1. MailsFor(due) \subseteq due /\ StillOpen(due) \subseteq due
  BY DEF MailsFor, StillOpen
<1>2. x \in ClerkStates /\ x.at = "store" /\ x.agent = "guest_comms" /\ x.todo = MailsFor(due)
  BY <1>1, TaskTyped DEF AgentTypes
<1> HIDE DEF x
<1>3. /\ clerk[k] = FreeClerk /\ clerk' = [clerk EXCEPT ![k] = x] /\ launched' = launched + 1
      /\ reanalysed' = reanalysed \cup StillOpen(due)
      /\ UNCHANGED <<setup, decision, mail, review, disputed>>
  BY DEF BeginRun, RunGuestComms, x
<1>4. AGTyped'
  <2>1. /\ launched' \in Nat /\ disputed' \subseteq DOMAIN decision /\ reanalysed' \subseteq Reservations
        /\ review' \in [Reviews -> {"none", "pending", "drafted", "approved", "posted"}]
    BY <1>1, <1>3 DEF AGTyped, AGTypeOK, ClerkTypes
  <2>2. x.at \notin Holding /\ x.todo \subseteq Reservations
    BY <1>1, <1>2 DEF Holding
  <2>3. QED
    BY <1>2, <1>3, <2>1, <2>2, ChangedTyped
<1>5. \A j \in Clerks : clerk'[j] = IF j = k THEN x ELSE clerk[j]
  BY <1>2, <1>3, ClerkSet
<1>6. clerk[k].at \notin {"store", "execute", "mark", "reject"}
  BY <1>3 DEF FreeClerk
<1>7. \A d : Holders(d)' = Holders(d) /\ \A j \in Holders(d) : clerk'[j] = clerk[j]
  BY <1>2, <1>5, <1>6 DEF Holders
<1>8. HeldOK'
  BY <1>3, <1>7 DEF HeldOK
<1>9. StatusIsTrue'
  BY <1>3 DEF StatusIsTrue, Decided
<1>10. ASSUME NEW r \in Reservations, Clean(r)'
       PROVE  /\ Clean(r) /\ r \notin StillOpen(due) /\ About(r)' = About(r)
              /\ \A d : Rejected(d)' <=> Rejected(d)
              /\ Unwritten(r)' \subseteq Unwritten(r) \cup {k}
              /\ r \notin MailsFor(due) => Unwritten(r)' \subseteq Unwritten(r)
  BY <1>2, <1>3, <1>5, <1>10 DEF Clean, About, Rejected, Unwritten, Mailing
<1>11. ASSUME NEW r \in MailsFor(due), Clean(r)'
       PROVE  Unwritten(r) = {} /\ \A d \in About(r) : Rejected(d)
  <2>1. r \in Reservations /\ r \in due /\ ~WasMailed(r) /\ r \notin StillOpen(due)
    BY <1>1, <1>10, <1>11 DEF MailsFor
  <2>2. Unwritten(r) = {}
    BY <2>1 DEF StillOpen, Unwritten
  <2>3. ASSUME NEW d \in About(r) PROVE Rejected(d)
    <3>1. d \in DOMAIN decision /\ decision[d].subject = r /\ decision[d].agent = "guest_comms"
      BY <2>1, RowIsAbout DEF About
    <3>2. decision[d].status # "pending"
      BY <2>1, <3>1 DEF StillOpen
    <3>3. ~Decided(d)
      BY <2>1, <3>1 DEF WasMailed
    <3>4. decision[d] \in DecisionRows
      BY <3>1, RowAt
    <3>5. QED
      BY <3>2, <3>3, <3>4 DEF Decided, Rejected, DecisionRows
  <2>4. QED
    BY <2>2, <2>3
<1>12. ASSUME NEW r \in Reservations, Clean(r)'
       PROVE  /\ \A d, e \in About(r)' : Rejected(d)' \/ Rejected(e)' \/ d = e
              /\ \A j \in Unwritten(r)', d \in About(r)' : Rejected(d)'
              /\ \A j, l \in Unwritten(r)' : j = l
              /\ mail'[r] = 0 \/ (mail'[r] = 1 /\ \E d \in About(r)' : decision'[d].done >= 1)
  <2>1. /\ \A d, e \in About(r) : Rejected(d) \/ Rejected(e) \/ d = e
        /\ \A j \in Unwritten(r), d \in About(r) : Rejected(d)
        /\ \A j, l \in Unwritten(r) : j = l
        /\ mail[r] = 0 \/ (mail[r] = 1 /\ \E d \in About(r) : decision[d].done >= 1)
    BY <1>10, <1>12 DEF MailsOK
  <2>2. CASE r \in MailsFor(due)
    BY <1>3, <1>10, <1>11, <1>12, <2>1, <2>2
  <2>3. CASE r \notin MailsFor(due)
    BY <1>3, <1>10, <1>12, <2>1, <2>3
  <2>4. QED
    BY <2>2, <2>3
<1>13. MailsOK'
  BY <1>12 DEF MailsOK
<1>14. QED
  BY <1>4, <1>8, <1>9, <1>13

\* Somebody at the desk takes up a pending decision: alone, or it is disputed.
LEMMA TakenUp ==
  ASSUME AGTyped, HeldOK, StatusIsTrue, MailsOK, NEW k \in Clerks, NEW d \in DOMAIN decision,
         NEW at \in {"execute", "reject"}, Take(k, d, at)
  PROVE  AGTyped' /\ HeldOK' /\ StatusIsTrue' /\ MailsOK'
<1> DEFINE x == [at |-> at, agent |-> "nobody", row |-> d]
<1>1. d \in Nat
  BY RowAt
<1>2. x \in ClerkStates /\ x.at = at /\ x.agent = "nobody" /\ x.row = d
  BY <1>1 DEF ClerkStates, DeskTasks
<1> HIDE DEF x
<1>3. /\ clerk[k] = FreeClerk /\ clerk' = [clerk EXCEPT ![k] = x] /\ launched' = launched + 1
      /\ decision[d].status = "pending"
      /\ disputed' = IF Holders(d) # {} THEN disputed \cup {d} ELSE disputed
      /\ UNCHANGED <<setup, decision, mail, review, reanalysed>>
  BY DEF Take, BeginRun, Pending, x
<1>4. AGTyped'
  <2>1. /\ launched' \in Nat /\ disputed' \subseteq DOMAIN decision /\ reanalysed' \subseteq Reservations
        /\ review' \in [Reviews -> {"none", "pending", "drafted", "approved", "posted"}]
    BY <1>3 DEF AGTyped, AGTypeOK, ClerkTypes
  <2>2. QED
    BY <1>2, <1>3, <2>1, ChangedTyped
<1>5. \A j \in Clerks : clerk'[j] = IF j = k THEN x ELSE clerk[j]
  BY <1>2, <1>3, ClerkSet
<1>6. clerk[k].at \notin {"store", "execute", "mark", "reject"}
  BY <1>3 DEF FreeClerk
<1>7. /\ Holders(d)' = Holders(d) \cup {k}
      /\ \A e : e # d => Holders(e)' = Holders(e)
      /\ \A e : \A j \in Holders(e) : clerk'[j] = clerk[j]
  BY <1>2, <1>5, <1>6 DEF Holders
<1>8. ASSUME NEW e \in DOMAIN decision' \ disputed'
      PROVE  /\ \A j, l \in Holders(e)' : j = l
             /\ \A j \in Holders(e)' :
                  decision'[e].status = "pending" /\ decision'[e].done = IF clerk'[j].at = "mark" THEN 1 ELSE 0
             /\ Holders(e)' = {} /\ decision'[e].status = "pending" => decision'[e].done = 0
  <2>1. e \in DOMAIN decision \ disputed
    BY <1>3
  <2>2. CASE e = d
    <3>1. Holders(d) = {}
      BY <1>3, <2>2
    <3>2. Holders(e)' = {k} /\ decision[e].done = 0 /\ clerk'[k].at # "mark"
      BY <1>2, <1>3, <1>5, <1>7, <2>1, <2>2, <3>1 DEF HeldOK
    <3>3. QED
      BY <1>3, <2>2, <3>2
  <2>3. CASE e # d
    BY <1>3, <1>7, <2>1, <2>3 DEF HeldOK
  <2>4. QED
    BY <2>2, <2>3
<1>9. HeldOK'
  BY <1>8 DEF HeldOK
<1>10. StatusIsTrue'
  BY <1>3 DEF StatusIsTrue, Decided
<1>11. \A r \in Reservations : /\ Unwritten(r)' \subseteq Unwritten(r) /\ About(r)' = About(r)
                               /\ Clean(r)' => Clean(r)
  BY <1>2, <1>3, <1>5, <1>6 DEF Unwritten, Mailing, About, Clean
<1>12. MailsOK'
  BY <1>3, <1>11, MailsStay
<1>13. QED
  BY <1>4, <1>9, <1>10, <1>12

\* A handler is cut off: what it had executed and not marked is disputed.
LEMMA AgentCutOff ==
  ASSUME AGTyped, HeldOK, StatusIsTrue, MailsOK, NEW k \in Clerks, CutOffRun(k)
  PROVE  AGTyped' /\ HeldOK' /\ StatusIsTrue' /\ MailsOK'
<1> DEFINE d == clerk[k].row
<1>1. /\ clerk' = [clerk EXCEPT ![k] = FreeClerk]
      /\ disputed' = IF clerk[k].at = "mark" THEN disputed \cup {d} ELSE disputed
      /\ UNCHANGED <<setup, decision, mail, review, launched, reanalysed>>
  BY DEF CutOffRun, Leave
<1>2. FreeClerk \in ClerkStates /\ FreeClerk.at = "free"
  BY DEF ClerkStates, FreeClerk
<1>3. clerk[k].at = "mark" => d \in DOMAIN decision
  BY ClerkAt DEF Holding
<1>4. AGTyped'
  <2>1. /\ launched' \in Nat /\ disputed' \subseteq DOMAIN decision /\ reanalysed' \subseteq Reservations
        /\ review' \in [Reviews -> {"none", "pending", "drafted", "approved", "posted"}]
    BY <1>1, <1>3 DEF AGTyped, AGTypeOK, ClerkTypes
  <2>2. QED
    BY <1>1, <1>2, <2>1, ChangedTyped DEF Holding
<1>5. \A j \in Clerks : clerk'[j] = IF j = k THEN FreeClerk ELSE clerk[j]
  BY <1>1, <1>2, ClerkSet
<1>6. \A e : Holders(e)' = Holders(e) \ {k} /\ \A j \in Holders(e)' : clerk'[j] = clerk[j]
  BY <1>2, <1>5 DEF Holders
<1>7. ASSUME NEW e \in DOMAIN decision' \ disputed'
      PROVE  /\ \A j, l \in Holders(e)' : j = l
             /\ \A j \in Holders(e)' :
                  decision'[e].status = "pending" /\ decision'[e].done = IF clerk'[j].at = "mark" THEN 1 ELSE 0
             /\ Holders(e)' = {} /\ decision'[e].status = "pending" => decision'[e].done = 0
  <2>1. e \in DOMAIN decision \ disputed /\ (clerk[k].at = "mark" => e # d)
    BY <1>1
  <2>2. /\ \A j, l \in Holders(e)' : j = l
        /\ \A j \in Holders(e)' :
             decision'[e].status = "pending" /\ decision'[e].done = IF clerk'[j].at = "mark" THEN 1 ELSE 0
    BY <1>1, <1>6, <2>1 DEF HeldOK
  <2>3. ASSUME Holders(e)' = {}, decision'[e].status = "pending" PROVE decision'[e].done = 0
    <3>1. CASE k \in Holders(e)
      <4>1. clerk[k].at # "mark"
        BY <2>1, <3>1 DEF Holders
      <4>2. QED
        BY <1>1, <2>1, <3>1, <4>1 DEF HeldOK
    <3>2. CASE k \notin Holders(e)
      <4>1. Holders(e) = {}
        BY <1>6, <2>3, <3>2
      <4>2. QED
        BY <1>1, <2>1, <2>3, <4>1 DEF HeldOK
    <3>3. QED
      BY <3>1, <3>2
  <2>4. QED
    BY <2>2, <2>3
<1>8. HeldOK'
  BY <1>7 DEF HeldOK
<1>9. StatusIsTrue'
  BY <1>1 DEF StatusIsTrue, Decided
<1>10. \A r \in Reservations : /\ Unwritten(r)' \subseteq Unwritten(r) /\ About(r)' = About(r)
                               /\ Clean(r)' => Clean(r)
  BY <1>1, <1>2, <1>5 DEF Unwritten, Mailing, About, Clean
<1>11. MailsOK'
  BY <1>1, <1>10, MailsStay
<1>12. QED
  BY <1>4, <1>8, <1>9, <1>11

\* A recommendation is stored as a new row, held by the clerk if it is to execute it.
LEMMA DecisionStored ==
  ASSUME AGTyped, HeldOK, StatusIsTrue, MailsOK, NEW k \in Clerks, NEW confident \in BOOLEAN,
         StoreDecision(k, confident)
  PROVE  AGTyped' /\ HeldOK' /\ StatusIsTrue' /\ MailsOK'
<1>0. PICK n \in Nat : n = Len(decision) + 1
  BY RowAt
<1> DEFINE at == IF clerk[k].auto /\ confident THEN "execute" ELSE "store"
           z(s) == [agent |-> clerk[k].agent, subject |-> s, status |-> "pending", done |-> 0, error |-> FALSE]
           y(s) == [clerk[k] EXCEPT !.todo = @ \ {s}, !.row = n, !.at = at]
<1>1. PICK s \in clerk[k].todo :
        /\ decision' = Append(decision, z(s))
        /\ clerk' = [clerk EXCEPT ![k].todo = @ \ {s}, ![k].row = n, ![k].at = at]
  BY <1>0 DEF StoreDecision
<1>2. clerk[k].at = "store" /\ UNCHANGED <<setup, mail, review, launched, disputed, reanalysed>>
  BY DEF StoreDecision
<1>3. clerk[k] \in RunTasks
  BY <1>2, ClerkAt
<1>4. /\ decision \in Seq(DecisionRows) /\ Len(decision) \in Nat /\ n \in Nat
      /\ DOMAIN decision = 1 .. Len(decision) /\ n \notin DOMAIN decision
  BY <1>0, RowAt
<1>5. clerk' = [clerk EXCEPT ![k] = y(s)]
  BY <1>1, <1>3 DEF AGTyped, ClerkTypes, RunTasks
<1>6. at \in {"store", "execute"}
  OBVIOUS
<1> HIDE DEF at
<1>7. /\ y(s) \in ClerkStates /\ y(s).at = at /\ y(s).agent = clerk[k].agent
      /\ y(s).todo = clerk[k].todo \ {s} /\ y(s).row = n
  BY <1>3, <1>4, <1>6 DEF ClerkStates, RunTasks
<1>8. /\ clerk[k].agent \in AgentTypes /\ s \in Reservations \cup Reviews
      /\ clerk[k].todo \subseteq IF clerk[k].agent = "guest_comms" THEN Reservations ELSE Reviews
  <2>1. clerk[k].agent \in AgentTypes /\ s \in Reservations \cup Reviews
    BY <1>1, <1>3 DEF RunTasks
  <2>2. QED
    BY <1>2, <2>1 DEF AGTyped, SubjectsOK, AgentTypes
<1>9. /\ z(s) \in DecisionRows /\ z(s).status = "pending" /\ z(s).done = 0 /\ z(s).error = FALSE
      /\ z(s).subject = s /\ z(s).agent = clerk[k].agent
  BY <1>8 DEF DecisionRows
<1> HIDE DEF y, z
<1>10. /\ decision' \in Seq(DecisionRows) /\ DOMAIN decision' = DOMAIN decision \cup {n}
       /\ decision'[n] = z(s) /\ \A e \in DOMAIN decision : decision'[e] = decision[e]
  <2>1. Len(decision') = n /\ decision' \in Seq(DecisionRows)
    BY <1>0, <1>1, <1>4, <1>9
  <2>2. DOMAIN decision' = 1 .. n
    BY <2>1
  <2>3. DOMAIN decision' = DOMAIN decision \cup {n}
    BY <1>0, <1>4, <2>2
  <2>4. QED
    BY <1>0, <1>1, <1>4, <2>1, <2>3
<1>11. /\ clerk' \in [Clerks -> ClerkStates]
       /\ \A j \in Clerks : clerk'[j] = IF j = k THEN y(s) ELSE clerk[j]
  BY <1>5, <1>7, ClerkSet
<1>12. AGTyped'
  <2>1. AGTypeOK' /\ ClerkTypes'
    BY <1>2, <1>10, <1>11 DEF AGTyped, AGTypeOK, ClerkTypes, ClerkStates, DecisionRows
  <2>2. \A j \in Clerks : clerk'[j].at \in {"store", "execute", "mark"} /\ clerk'[j].agent # "nobody" =>
          clerk'[j].todo \subseteq IF clerk'[j].agent = "guest_comms" THEN Reservations ELSE Reviews
    BY <1>7, <1>8, <1>11 DEF AGTyped, SubjectsOK
  <2>3. \A e \in DOMAIN decision' :
          decision'[e].subject \in IF decision'[e].agent = "guest_comms" THEN Reservations ELSE Reviews
    BY <1>1, <1>8, <1>9, <1>10 DEF AGTyped, SubjectsOK
  <2>4. \A j \in Clerks : clerk'[j].at \in Holding => clerk'[j].row \in DOMAIN decision'
    BY <1>7, <1>10, <1>11 DEF AGTyped, SubjectsOK
  <2>5. QED
    BY <2>1, <2>2, <2>3, <2>4 DEF AGTyped, SubjectsOK
<1>13. n \notin disputed' /\ n \notin DOMAIN decision
  BY <1>2, <1>4 DEF AGTyped, AGTypeOK
<1>14. \A e \in DOMAIN decision : Holders(e)' = Holders(e) /\ \A j \in Holders(e) : clerk'[j] = clerk[j]
  BY <1>2, <1>4, <1>7, <1>11, <1>6 DEF Holders
<1>15. \A j \in Holders(n)' : j = k /\ clerk'[j].at = "execute"
  <2>1. \A j \in Clerks : clerk[j].at \in Holding => clerk[j].row # n
    BY <1>4 DEF AGTyped, SubjectsOK
  <2>2. QED
    BY <1>6, <1>7, <1>11, <2>1 DEF Holders, Holding
<1>16. ASSUME NEW e \in DOMAIN decision' \ disputed'
       PROVE  /\ \A j, l \in Holders(e)' : j = l
              /\ \A j \in Holders(e)' :
                   decision'[e].status = "pending" /\ decision'[e].done = IF clerk'[j].at = "mark" THEN 1 ELSE 0
              /\ Holders(e)' = {} /\ decision'[e].status = "pending" => decision'[e].done = 0
  <2>1. CASE e = n
    BY <1>9, <1>10, <1>15, <2>1
  <2>2. CASE e # n
    BY <1>2, <1>10, <1>14, <2>2 DEF HeldOK
  <2>3. QED
    BY <2>1, <2>2
<1>17. HeldOK'
  BY <1>16 DEF HeldOK
<1>18. StatusIsTrue'
  BY <1>2, <1>9, <1>10 DEF StatusIsTrue, Decided
<1>19. ASSUME NEW r \in Reservations, Clean(r)'
       PROVE  /\ \A d, e \in About(r)' : Rejected(d)' \/ Rejected(e)' \/ d = e
              /\ \A j \in Unwritten(r)', d \in About(r)' : Rejected(d)'
              /\ \A j, l \in Unwritten(r)' : j = l
              /\ mail'[r] = 0 \/ (mail'[r] = 1 /\ \E d \in About(r)' : decision'[d].done >= 1)
  <2>1. Clean(r)
    BY <1>2, <1>10, <1>19 DEF Clean, About
  <2>2. /\ \A d, e \in About(r) : Rejected(d) \/ Rejected(e) \/ d = e
        /\ \A j \in Unwritten(r), d \in About(r) : Rejected(d)
        /\ \A j, l \in Unwritten(r) : j = l
        /\ mail[r] = 0 \/ (mail[r] = 1 /\ \E d \in About(r) : decision[d].done >= 1)
    BY <2>1 DEF MailsOK
  <2>3. \A d \in About(r) : d \in DOMAIN decision /\ decision'[d] = decision[d] /\ (Rejected(d)' <=> Rejected(d))
    BY <1>10 DEF About, Rejected
  <2>4. CASE s = r
    <3>1. k \in Unwritten(r)
      BY <1>1, <1>2, <1>8, <2>4, AgentsAssumption DEF Unwritten, Mailing
    <3>2. About(r)' = About(r) \cup {n}
      BY <1>9, <1>10, <2>4 DEF About
    <3>3. Unwritten(r)' = {}
      BY <1>7, <1>11, <2>2, <2>4, <3>1 DEF Unwritten, Mailing
    <3>4. QED
      BY <1>2, <2>2, <2>3, <3>1, <3>2, <3>3
  <2>5. CASE s # r
    <3>1. About(r)' = About(r)
      BY <1>9, <1>10, <1>13, <2>5 DEF About
    <3>2. Unwritten(r)' = Unwritten(r)
      BY <1>2, <1>6, <1>7, <1>11, <2>5 DEF Unwritten, Mailing
    <3>3. QED
      BY <1>2, <2>2, <2>3, <3>1, <3>2
  <2>6. QED
    BY <2>4, <2>5
<1>20. MailsOK'
  BY <1>19 DEF MailsOK
<1>21. QED
  BY <1>12, <1>17, <1>18, <1>20

\* What a clerk may write to a row that it holds alone, ...
RowTold(d, x, y) ==
  /\ x.subject = decision[d].subject
  /\ decision[d].error = TRUE => x.error = TRUE
  /\ d \notin disputed /\ y.at = "mark" => x.status = "pending" /\ x.done = 1
  /\ d \notin disputed /\ y.at # "mark" => x.status # "pending" /\ x.done = decision[d].done
  /\ d \notin disputed /\ x.status \in {"approved", "auto_executed"} => x.done = 1
  /\ d \notin disputed /\ x.status = "rejected" /\ x.error = FALSE => x.done = 0

\* ... what it is after that, ...
ClerkTold(k, d, y) ==
  \/ y = FreeClerk /\ clerk[k].agent = "nobody"
  \/ /\ y.at = "store" \/ (y.at = "mark" /\ clerk[k].at = "execute")
     /\ y.agent = clerk[k].agent /\ y.row = d
     /\ y.agent # "nobody" => y.todo = clerk[k].todo /\ clerk[k].at # "reject"

\* ... and what mails have gone out.
MailTold(d, y) ==
  /\ mail' \in [Reservations -> Nat]
  /\ y.at # "mark" => mail' = mail
  /\ \A r \in Reservations : mail'[r] = mail[r] \/ (mail'[r] = mail[r] + 1 /\ decision[d].subject = r)

\* All that is known of the decisions and the mails stays true.
LEMMA RowAnswered ==
  ASSUME AGTyped, HeldOK, StatusIsTrue, MailsOK, NEW k \in Clerks, clerk[k].at \in Holding,
         NEW x \in DecisionRows, NEW y \in ClerkStates, Writes(k, x, y), UNCHANGED <<disputed, reanalysed>>,
         NEW d \in DOMAIN decision, d = clerk[k].row,
         RowTold(d, x, y), ClerkTold(k, d, y), MailTold(d, y)
  PROVE  HeldOK' /\ StatusIsTrue' /\ MailsOK'
<1> USE DEF RowTold, ClerkTold, MailTold
<1>1. /\ decision' \in Seq(DecisionRows) /\ DOMAIN decision' = DOMAIN decision
      /\ \A e \in DOMAIN decision : decision'[e] = IF e = d THEN x ELSE decision[e]
      /\ clerk' \in [Clerks -> ClerkStates]
      /\ \A j \in Clerks : clerk'[j] = IF j = k THEN y ELSE clerk[j]
  BY Written
<1>2. FreeClerk.at = "free"
  BY DEF FreeClerk
<1>3. k \in Holders(d) /\ \A e : e # d => k \notin Holders(e)
  BY DEF Holders, Holding
<1>4. \A e : e # d => Holders(e)' = Holders(e) /\ \A j \in Holders(e) : clerk'[j] = clerk[j]
  BY <1>1, <1>2, <1>3 DEF Holders
<1>5. Holders(d)' = IF y.at = "mark" THEN Holders(d) ELSE Holders(d) \ {k}
  BY <1>1, <1>2, <1>3 DEF Holders
<1>6. d \notin disputed =>
        /\ Holders(d) = {k} /\ decision[d].status = "pending"
        /\ clerk[k].at = "execute" => decision[d].done = 0
        /\ decision[d].done \in {0, 1} /\ x.done \in {0, 1}
  BY <1>3 DEF HeldOK
<1>7. ASSUME NEW e \in DOMAIN decision' \ disputed'
      PROVE  /\ \A j, l \in Holders(e)' : j = l
             /\ \A j \in Holders(e)' :
                  decision'[e].status = "pending" /\ decision'[e].done = IF clerk'[j].at = "mark" THEN 1 ELSE 0
             /\ Holders(e)' = {} /\ decision'[e].status = "pending" => decision'[e].done = 0
  <2>1. CASE e = d
    <3>1. d \in DOMAIN decision \ disputed /\ decision'[d] = x /\ clerk'[k] = y
      BY <1>1, <2>1
    <3>2. CASE y.at = "mark"
      <4>1. Holders(d)' = {k} /\ x.status = "pending" /\ x.done = 1
        BY <1>5, <1>6, <3>1, <3>2
      <4>2. QED
        BY <2>1, <3>1, <3>2, <4>1
    <3>3. CASE y.at # "mark"
      <4>1. Holders(d)' = {} /\ x.status # "pending"
        BY <1>5, <1>6, <3>1, <3>3
      <4>2. QED
        BY <2>1, <3>1, <4>1
    <3>4. QED
      BY <3>2, <3>3
  <2>2. CASE e # d
    BY <1>1, <1>4, <2>2 DEF HeldOK
  <2>3. QED
    BY <2>1, <2>2
<1>8. HeldOK'
  BY <1>7 DEF HeldOK
<1>9. StatusIsTrue'
  <2>1. ASSUME NEW e \in DOMAIN decision' \ disputed'
        PROVE  /\ decision'[e].done <= 1
               /\ Decided(e)' => decision'[e].done = 1
               /\ decision'[e].status = "rejected" /\ ~decision'[e].error => decision'[e].done = 0
    <3>1. CASE e = d
      <4>1. x.error \in BOOLEAN
        BY DEF DecisionRows
      <4>2. QED
        BY <1>1, <1>6, <3>1, <4>1 DEF Decided
    <3>2. CASE e # d
      BY <1>1, <3>2 DEF StatusIsTrue, Decided
    <3>3. QED
      BY <3>1, <3>2
  <2>2. QED
    BY <2>1 DEF StatusIsTrue
<1>10. ASSUME NEW r \in Reservations, Clean(r)'
       PROVE  /\ \A e, f \in About(r)' : Rejected(e)' \/ Rejected(f)' \/ e = f
              /\ \A j \in Unwritten(r)', e \in About(r)' : Rejected(e)'
              /\ \A j, l \in Unwritten(r)' : j = l
              /\ mail'[r] = 0 \/ (mail'[r] = 1 /\ \E e \in About(r)' : decision'[e].done >= 1)
  <2>1. About(r)' = About(r) /\ d \in DOMAIN decision
    BY <1>1 DEF About
  <2>2. \A e \in About(r) : e \in DOMAIN decision /\ e \notin disputed /\ decision'[e].error = FALSE
    <3>1. \A e \in About(r) : e \in DOMAIN decision /\ decision'[e] \in DecisionRows
      BY <1>1, RowAt DEF About
    <3>2. \A e \in About(r)' : e \notin disputed' /\ ~decision'[e].error
      BY <1>10 DEF Clean
    <3>3. QED
      BY <2>1, <3>1, <3>2 DEF DecisionRows
  <2>3. \A e \in About(r) : decision[e].error = FALSE
    <3>1. \A e \in About(r) : decision[e] \in DecisionRows
      BY RowAt DEF About
    <3>2. QED
      BY <1>1, <2>2, <3>1 DEF DecisionRows
  <2>4. Clean(r)
    BY <1>10, <2>2, <2>3 DEF Clean
  <2>5. /\ \A e, f \in About(r) : Rejected(e) \/ Rejected(f) \/ e = f
        /\ \A j \in Unwritten(r), e \in About(r) : Rejected(e)
        /\ \A j, l \in Unwritten(r) : j = l
        /\ mail[r] = 0 \/ (mail[r] = 1 /\ \E e \in About(r) : decision[e].done >= 1)
    BY <2>4 DEF MailsOK
  <2>6. Unwritten(r)' \subseteq Unwritten(r)
    BY <1>1, <1>2 DEF Unwritten, Mailing, Holding
  <2>7. \A e \in About(r) : Rejected(e) => Rejected(e)'
    BY <1>1, <1>6, <2>2 DEF Rejected
  <2>8. mail'[r] = 0 \/ (mail'[r] = 1 /\ \E e \in About(r) : decision'[e].done >= 1)
    <3>1. CASE decision[d].subject # r
      BY <1>1, <2>5, <3>1 DEF About
    <3>2. CASE decision[d].subject = r /\ y.at # "mark"
      BY <1>1, <1>6, <2>2, <2>5, <3>2
    <3>3. CASE decision[d].subject = r /\ y.at = "mark"
      <4>1. d \in About(r) /\ d \notin disputed
        BY <2>2, <3>3 DEF About
      <4>2. decision[d].done = 0 /\ decision'[d].done = 1 /\ ~Rejected(d)
        BY <1>1, <1>2, <1>6, <3>3, <4>1 DEF Rejected
      <4>3. \A e \in About(r) : e # d => decision[e].done = 0
        <5>1. ASSUME NEW e \in About(r), e # d PROVE decision[e].done = 0
          <6>1. decision[e].status = "rejected" /\ e \in DOMAIN decision \ disputed
            BY <2>2, <2>5, <4>1, <4>2, <5>1 DEF Rejected
          <6>2. ~decision[e].error
            BY <2>3
          <6>3. QED
            BY <6>1, <6>2 DEF StatusIsTrue
        <5>2. QED
          BY <5>1
      <4>4. mail[r] = 0
        BY <2>5, <4>2, <4>3
      <4>5. QED
        BY <4>1, <4>2, <4>4
    <3>4. QED
      BY <3>1, <3>2, <3>3
  <2>9. QED
    BY ONLY <2>1, <2>5, <2>6, <2>7, <2>8
<1>11. MailsOK'
  BY <1>10 DEF MailsOK
<1>12. QED
  BY <1>8, <1>9, <1>11

LEMMA Executed ==
  ASSUME AGTyped, HeldOK, StatusIsTrue, MailsOK, NEW k \in Clerks, ExecuteDecision(k)
  PROVE  HeldOK' /\ StatusIsTrue' /\ MailsOK'
<1>1. PICK d \in DOMAIN decision : d = clerk[k].row
  BY ClerkAt DEF ExecuteDecision, Holding
<1> DEFINE x == [decision[d] EXCEPT !.done = @ + 1]
           y == [clerk[k] EXCEPT !.at = "mark"]
<1>2. clerk[k].at = "execute" /\ decision[d] \in DecisionRows
  BY RowAt DEF ExecuteDecision
<1>3. Writes(k, x, y) /\ UNCHANGED <<launched, disputed, reanalysed>>
  BY <1>1, Execution
<1>4. /\ x \in DecisionRows /\ x.status = decision[d].status /\ x.done = decision[d].done + 1
      /\ x.error = decision[d].error /\ x.subject = decision[d].subject
  BY <1>2, RowVariants
<1>5. /\ y \in ClerkStates /\ y.at = "mark" /\ y.row = d /\ y.agent = clerk[k].agent
      /\ y.agent # "nobody" => y.todo = clerk[k].todo
  BY <1>1, <1>2, ClerkGoesOn
<1>6. d \notin disputed => decision[d].status = "pending" /\ decision[d].done = 0
  BY <1>1, <1>2 DEF HeldOK, Holders
<1>7. /\ mail' \in [Reservations -> Nat]
      /\ \A r \in Reservations : \/ mail'[r] = mail[r]
                                 \/ mail'[r] = mail[r] + 1 /\ decision[d].subject = r
  <2>1. mail \in [Reservations -> Nat]
    BY DEF AGTyped, AGTypeOK
  <2>2. PICK s : s = decision[d].subject
    OBVIOUS
  <2>3. mail' = [mail EXCEPT ![s] = mail[s] + 1] \/ mail' = mail
    BY <1>1, <2>2 DEF ExecuteDecision, Effect
  <2>4. QED
    BY <2>1, <2>2, <2>3
<1> HIDE DEF x, y
<1>8. clerk[k].at \in Holding /\ UNCHANGED <<disputed, reanalysed>>
  BY <1>2, <1>3 DEF Holding
<1>9. RowTold(d, x, y)
  BY <1>4, <1>5, <1>6 DEF RowTold
<1>10. ClerkTold(k, d, y)
  BY <1>2, <1>5 DEF ClerkTold
<1>11. MailTold(d, y)
  BY <1>5, <1>7 DEF MailTold
<1>12. QED
  BY <1>1, <1>3, <1>4, <1>5, <1>8, <1>9, <1>10, <1>11, RowAnswered

LEMMA Marked ==
  ASSUME AGTyped, HeldOK, StatusIsTrue, MailsOK, NEW k \in Clerks, MarkDecision(k)
  PROVE  HeldOK' /\ StatusIsTrue' /\ MailsOK'
<1>1. PICK d \in DOMAIN decision : d = clerk[k].row
  BY ClerkAt DEF MarkDecision, Holding
<1> DEFINE x(s) == [decision[d] EXCEPT !.status = s]
           z == [clerk[k] EXCEPT !.at = "store"]
<1>2. clerk[k].at = "mark" /\ decision[d] \in DecisionRows
  BY RowAt DEF MarkDecision
<1>3. UNCHANGED <<setup, mail, review, launched, disputed, reanalysed>>
  BY Mark
<1>4. PICK s \in {"approved", "auto_executed"}, y \in ClerkStates :
        /\ Writes(k, x(s), y)
        /\ \/ y = FreeClerk /\ clerk[k].agent = "nobody"
           \/ /\ y.at = "store" /\ y.agent = clerk[k].agent /\ y.row = d
              /\ y.agent # "nobody" => y.todo = clerk[k].todo /\ clerk[k].at # "reject"
  <2>1. CASE clerk[k].agent # "nobody"
    <3>1. /\ z \in ClerkStates /\ z.at = "store" /\ z.row = d /\ z.agent = clerk[k].agent
          /\ z.agent # "nobody" => z.todo = clerk[k].todo
      BY <1>1, <1>2, <2>1, ClerkGoesOn
    <3>2. Writes(k, x("auto_executed"), z)
      BY <1>1, <2>1, Mark
    <3> HIDE DEF z, x
    <3>3. QED
      BY <1>2, <3>1, <3>2
  <2>2. CASE clerk[k].agent = "nobody"
    <3>1. FreeClerk \in ClerkStates /\ Writes(k, x("approved"), FreeClerk)
      BY <1>1, <2>2, Mark DEF ClerkStates
    <3> HIDE DEF z, x
    <3>2. QED
      BY <2>2, <3>1
  <2>3. QED
    BY <2>1, <2>2
<1>5. PICK w : w = x(s)
  OBVIOUS
<1>6. /\ w \in DecisionRows /\ w.status = s /\ w.done = decision[d].done
      /\ w.error = decision[d].error /\ w.subject = decision[d].subject
  <2>1. PICK row \in DecisionRows : row = decision[d]
    BY <1>2
  <2>2. LET v == [row EXCEPT !.status = s]
        IN /\ v \in DecisionRows /\ v.status = s /\ v.done = row.done /\ v.error = row.error
           /\ v.subject = row.subject
    BY DEF DecisionRows
  <2>3. QED
    BY <1>5, <2>1, <2>2
<1> HIDE DEF x, z
<1>7. Writes(k, w, y)
  BY <1>4, <1>5
<1>8. d \notin disputed => decision[d].done = 1
  BY <1>1, <1>2 DEF HeldOK, Holders
<1>9. clerk[k].at \in Holding /\ y.at # "mark"
  BY <1>2, <1>4 DEF Holding, FreeClerk
<1>10. RowTold(d, w, y)
  BY <1>6, <1>8, <1>9 DEF RowTold
<1>11. ClerkTold(k, d, y)
  BY <1>4 DEF ClerkTold
<1>12. MailTold(d, y)
  BY <1>3 DEF MailTold, AGTyped, AGTypeOK
<1>13. QED
  BY <1>1, <1>3, <1>6, <1>7, <1>9, <1>10, <1>11, <1>12, RowAnswered

LEMMA Failed ==
  ASSUME AGTyped, HeldOK, StatusIsTrue, MailsOK, NEW k \in Clerks, FailDecision(k)
  PROVE  HeldOK' /\ StatusIsTrue' /\ MailsOK'
<1>1. PICK d \in DOMAIN decision : d = clerk[k].row
  BY ClerkAt DEF FailDecision, Holding
<1> DEFINE x == [decision[d] EXCEPT !.status = "rejected", !.error = TRUE]
           y == [clerk[k] EXCEPT !.at = "store"]
<1>2. clerk[k].at \in {"execute", "mark"} /\ clerk[k].agent # "nobody" /\ decision[d] \in DecisionRows
  BY RowAt DEF FailDecision
<1>3. Writes(k, x, y) /\ UNCHANGED <<setup, mail, review, launched, disputed, reanalysed>>
  BY <1>1, Failure
<1>4. /\ x \in DecisionRows /\ x.status = "rejected" /\ x.done = decision[d].done
      /\ x.error = TRUE /\ x.subject = decision[d].subject
  BY <1>2, RowVariants
<1>5. /\ y \in ClerkStates /\ y.at = "store" /\ y.row = d /\ y.agent = clerk[k].agent
      /\ y.agent # "nobody" => y.todo = clerk[k].todo
  BY <1>1, <1>2, ClerkGoesOn
<1> HIDE DEF x, y
<1>6. clerk[k].at \in Holding
  BY <1>2 DEF Holding
<1>7. RowTold(d, x, y)
  BY <1>4, <1>5 DEF RowTold
<1>8. ClerkTold(k, d, y)
  BY <1>2, <1>5 DEF ClerkTold
<1>9. MailTold(d, y)
  BY <1>3 DEF MailTold, AGTyped, AGTypeOK
<1>10. QED
  BY <1>1, <1>3, <1>4, <1>5, <1>6, <1>7, <1>8, <1>9, RowAnswered

LEMMA DecisionRefused ==
  ASSUME AGTyped, HeldOK, StatusIsTrue, MailsOK, NEW k \in Clerks, MarkRejected(k)
  PROVE  HeldOK' /\ StatusIsTrue' /\ MailsOK'
<1>1. PICK d \in DOMAIN decision : d = clerk[k].row
  BY ClerkAt DEF MarkRejected, Holding
<1> DEFINE x == [decision[d] EXCEPT !.status = "rejected"]
<1>2. clerk[k].at = "reject" /\ clerk[k].agent = "nobody" /\ decision[d] \in DecisionRows
  BY RowAt, ClerkAt DEF MarkRejected, DeskTasks
<1>3. Writes(k, x, FreeClerk) /\ UNCHANGED <<setup, mail, review, launched, disputed, reanalysed>>
  BY <1>1, Rejection
<1>4. /\ x \in DecisionRows /\ x.status = "rejected" /\ x.done = decision[d].done
      /\ x.error = decision[d].error /\ x.subject = decision[d].subject
  BY <1>2, RowVariants
<1>5. d \notin disputed => decision[d].done = 0
  BY <1>1, <1>2 DEF HeldOK, Holders
<1> HIDE DEF x
<1>6. clerk[k].at \in Holding /\ FreeClerk \in ClerkStates /\ FreeClerk.at = "free"
  BY <1>2 DEF Holding, ClerkStates, FreeClerk
<1>7. RowTold(d, x, FreeClerk)
  BY <1>4, <1>5, <1>6 DEF RowTold
<1>8. ClerkTold(k, d, FreeClerk)
  BY <1>2 DEF ClerkTold
<1>9. MailTold(d, FreeClerk)
  BY <1>3 DEF MailTold, AGTyped, AGTypeOK
<1>10. QED
  BY <1>1, <1>3, <1>4, <1>6, <1>7, <1>8, <1>9, RowAnswered

LEMMA AGInitially == AGInit => AGInv
<1> SUFFICES ASSUME AGInit PROVE AGInv
  OBVIOUS
<1>1. clerk \in [Clerks -> {FreeClerk}] /\ \A k \in Clerks : clerk[k] = FreeClerk
  BY DEF AGInit
<1>2. FreeClerk.at = "free"
  BY DEF FreeClerk
<1>3. DOMAIN decision = {} /\ decision = <<>>
  BY DEF AGInit
<1>4. AGTypeOK
  <2>1. setup \in [AgentTypes -> [enabled : BOOLEAN, mode : Modes]]
    <3>1. DefaultConfig \in [enabled : BOOLEAN, mode : Modes]
      BY DEF DefaultConfig, Modes
    <3>2. \A c \in [enabled : {TRUE}, mode : Modes] : c \in [enabled : BOOLEAN, mode : Modes]
      OBVIOUS
    <3>3. {DefaultConfig} \cup [enabled : {TRUE}, mode : Modes] \subseteq [enabled : BOOLEAN, mode : Modes]
      BY <3>1, <3>2
    <3>4. setup \in [AgentTypes -> {DefaultConfig} \cup [enabled : {TRUE}, mode : Modes]]
      BY DEF AGInit
    <3>5. QED
      BY ONLY <3>3, <3>4
  <2>2. QED
    BY <1>3, <2>1 DEF AGInit, AGTypeOK
<1>5. ClerkTypes /\ SubjectsOK
  BY <1>1, <1>2, <1>3 DEF AGInit, ClerkTypes, SubjectsOK, Holding
<1>6. HeldOK /\ StatusIsTrue
  BY <1>3 DEF HeldOK, StatusIsTrue
<1>7. MailsOK
  BY <1>1, <1>2, <1>3 DEF AGInit, MailsOK, About, Unwritten, Mailing
<1>8. QED
  BY <1>4, <1>5, <1>6, <1>7 DEF AGInv, AGTyped

LEMMA AGInductive == AGInv /\ [AGNext]_agVars => AGInv'
<1> SUFFICES ASSUME AGTyped, HeldOK, StatusIsTrue, MailsOK, [AGNext]_agVars
             PROVE  AGTyped' /\ HeldOK' /\ StatusIsTrue' /\ MailsOK'
  BY DEF AGInv
<1> DEFINE Kept == AGTyped' /\ HeldOK' /\ StatusIsTrue' /\ MailsOK'
<1>1. CASE \/ \E a \in AgentTypes, on \in BOOLEAN, mode \in Modes : UpdateAgent(a, on, mode)
           \/ \E v \in Reviews, s \in {"pending", "drafted", "approved", "posted"} : UpdateReview(v, s)
           \/ \E k \in Clerks : RunReviewResponse(k) \/ FinishRun(k) \/ \E v \in Reviews : CreateReview(k, v)
  BY <1>1, AsideOfTheDecisions, AgentsAsideKept
<1>2. ASSUME NEW k \in Clerks, NEW due \in SUBSET Reservations, RunGuestComms(k, due)
      PROVE  Kept
  BY <1>2, MailRun
<1>3. ASSUME NEW k \in Clerks, NEW confident \in BOOLEAN, StoreDecision(k, confident)
      PROVE  Kept
  BY <1>3, DecisionStored
<1>4. ASSUME NEW k \in Clerks, ExecuteDecision(k) PROVE Kept
  BY <1>4, ExecutionTyped, Executed
<1>5. ASSUME NEW k \in Clerks, MarkDecision(k) PROVE Kept
  BY <1>5, MarkTyped, Marked
<1>6. ASSUME NEW k \in Clerks, FailDecision(k) PROVE Kept
  BY <1>6, FailureTyped, Failed
<1>7. ASSUME NEW k \in Clerks, NEW d \in DOMAIN decision, ApproveDecision(k, d) PROVE Kept
  BY <1>7, TakenUp DEF ApproveDecision
<1>8. ASSUME NEW k \in Clerks, NEW d \in DOMAIN decision, RejectDecision(k, d) PROVE Kept
  BY <1>8, TakenUp DEF RejectDecision
<1>9. ASSUME NEW k \in Clerks, MarkRejected(k) PROVE Kept
  BY <1>9, RejectionTyped, DecisionRefused
<1>10. ASSUME NEW k \in Clerks, CutOffRun(k) PROVE Kept
  BY <1>10, AgentCutOff
<1>11. CASE UNCHANGED agVars
  BY <1>11 DEF agVars, AGTyped, AGTypeOK, ClerkTypes, SubjectsOK, HeldOK, Holders, StatusIsTrue, Decided,
     MailsOK, Clean, About, Unwritten, Mailing, Rejected
<1>12. CASE AGNext
  BY <1>12, <1>1, <1>2, <1>3, <1>4, <1>5, <1>6, <1>7, <1>8, <1>9, <1>10 DEF AGNext
<1>13. QED
  BY <1>11, <1>12

\* Whatever decisions are stored, executed, approved and rejected by any number of handlers,
\* all that AGInv says of them holds.
THEOREM AgentsInvariant == AGSpec => []AGInv
<1>1. QED
  BY AGInitially, AGInductive, PTL DEF AGSpec

\* Rows, effects and handlers keep their types.
THEOREM AgentsTypeCorrect == AGSpec => []AGTypeOK
<1>1. AGInv => AGTypeOK
  BY DEF AGInv, AGTyped
<1>2. QED
  BY <1>1, AgentsInvariant, PTL

\* approveDecision and runAgent: a decision that is marked was executed once, and one the
\* desk has rejected never was, unless two handlers held it or one was cut off.
THEOREM StatusesAreTrue == AGSpec => []StatusIsTrue
<1>1. AGInv => StatusIsTrue
  BY DEF AGInv
<1>2. QED
  BY <1>1, AgentsInvariant, PTL

\* guest_comms: a guest is written to once about a reservation, unless it was analysed again
\* with a mail still open, or a decision about it was disputed or failed.
THEOREM OneMail == AGSpec => []OneMailPerReservation
<1>1. ASSUME AGInv PROVE OneMailPerReservation
  <2>1. SUFFICES ASSUME NEW r \in Reservations \ reanalysed, mail[r] > 1
                 PROVE  \E d \in DOMAIN decision :
                          decision[d].subject = r /\ (d \in disputed \/ decision[d].error)
    BY DEF OneMailPerReservation
  <2>2. mail \in [Reservations -> Nat]
    BY <1>1 DEF AGInv, AGTyped, AGTypeOK
  <2>3. ~(mail[r] = 0 \/ mail[r] = 1)
    BY <2>1, <2>2
  <2>4. ~Clean(r)
    BY <1>1, <2>3 DEF AGInv, MailsOK
  <2>5. QED
    BY <2>1, <2>4 DEF Clean, About
<1>2. QED
  BY <1>1, AgentsInvariant, PTL

-----------------------------------------------------------------------------
(* The desks: what a list shows, and what its desk has been told.          *)

Rows == [Bookings -> Nat]

Calls ==
  [op : {"idle"} \cup {b.op : b \in Buttons}, r : Bookings, body : {{}} \cup {b.body : b \in Buttons},
   at : {"idle", "asked", "refused", "emit", "done"}, wrote : Nat]

CacheEntries ==
  [seen : Rows, invalid : BOOLEAN, fetch : {"idle", "asked", "answered"}, answer : Rows,
   late : BOOLEAN, missed : BOOLEAN]

LDTypeOK ==
  /\ statusLog \in [Bookings -> Seq(ReservationStatus) \ {<<>>}]
  /\ call \in [Callers -> Calls]
  /\ page \in [Desks -> Pages \cup {"none"}]
  /\ cache \in [Desks -> [Lists -> CacheEntries]]
  /\ sock \in [Desks -> {"off", "asking", "joined", "rejected", "outside"}]
  /\ wire \in [Desks -> Nat] /\ auth \in BOOLEAN
  /\ owed \in [Desks -> Rows]

\* Nobody is told of what has not happened.
NewsIsTrue ==
  /\ \A d \in Desks, r \in Bookings : owed[d][r] <= Len(statusLog[r])
  /\ \A c \in Callers : call[c].at \in {"emit", "done"} => call[c].wrote <= Len(statusLog[call[c].r])

UpTo(seen, told) == \A r \in Bookings : seen[r] >= told[r]

\* What a list shows is not older than what its desk was told, or the list is marked, or it
\* has missed the mark, or the event is still on its way; and so is the answer on its way.
EntryOK(e, events, told) ==
  /\ e.seen = Unseen \/ e.invalid = TRUE \/ e.missed = TRUE \/ events > 0 \/ UpTo(e.seen, told)
  /\ e.fetch = "answered" => e.late = TRUE \/ events > 0 \/ UpTo(e.answer, told)

CachesOK == \A d \in Desks, q \in Lists : EntryOK(cache[d][q], wire[d], owed[d])

LDInv == LDTypeOK /\ NewsIsTrue /\ CachesOK

LEMMA UnfetchedTyped ==
  /\ Unseen \in Rows /\ Unfetched \in CacheEntries /\ Idle \in Calls /\ Idle.at = "idle"
  /\ \A events \in Nat, told \in Rows : EntryOK(Unfetched, events, told)
<1>1. Unseen \in Rows BY DEF Unseen, Rows
<1>2. Unfetched \in CacheEntries BY <1>1 DEF Unfetched, CacheEntries
<1>3. Idle \in Calls
  <2> DEFINE b == CHOOSE r \in Bookings : TRUE
  <2>1. PICK r : r = b OBVIOUS
  <2>2. r \in Bookings BY <2>1, LiveDesksAssumption
  <2>3. Idle = [op |-> "idle", r |-> r, body |-> {}, at |-> "idle", wrote |-> 0] BY <2>1 DEF Idle
  <2> QED BY <2>2, <2>3 DEF Calls
<1>4. Unfetched.seen = Unseen /\ Unfetched.fetch = "idle" BY DEF Unfetched
<1>5. Idle.at = "idle" BY DEF Idle
<1> QED BY <1>1, <1>2, <1>3, <1>4, <1>5 DEF EntryOK

LEMMA LogTyped ==
  ASSUME LDTypeOK, NEW r \in Bookings
  PROVE  /\ Status(r) \in ReservationStatus /\ Len(statusLog[r]) \in Nat \ {0}
         /\ \A s \in ReservationStatus :
              /\ Append(statusLog[r], s) \in Seq(ReservationStatus) \ {<<>>}
              /\ Len(Append(statusLog[r], s)) = Len(statusLog[r]) + 1
<1>1. PICK log \in Seq(ReservationStatus) : log = statusLog[r] /\ log # <<>> BY DEF LDTypeOK
<1>2. Len(log) \in Nat \ {0} BY <1>1, EmptySeq
<1>3. log[Len(log)] \in ReservationStatus BY <1>2, ElementOfSeq
<1>4. ASSUME NEW s \in ReservationStatus
      PROVE  Append(log, s) \in Seq(ReservationStatus) \ {<<>>} /\ Len(Append(log, s)) = Len(log) + 1
  <2>1. Append(log, s) \in Seq(ReservationStatus) /\ Len(Append(log, s)) = Len(log) + 1
    BY AppendProperties
  <2>2. Append(log, s) # <<>>
    <3>1. Len(Append(log, s)) # 0 BY <2>1, <1>2
    <3>2. Len(<<>>) = 0 OBVIOUS
    <3> QED BY <3>1, <3>2
  <2> QED BY <2>1, <2>2
<1> QED BY <1>1, <1>2, <1>3, <1>4 DEF Status

LEMMA LDInitially == LDInit => LDInv
<1> SUFFICES ASSUME LDInit PROVE LDInv OBVIOUS
<1>1. statusLog \in [Bookings -> Seq(ReservationStatus) \ {<<>>}]
  <2>1. \A s \in CreatedStatus : <<s>> \in Seq(ReservationStatus) \ {<<>>}
    <3> TAKE s \in CreatedStatus
    <3>1. s \in ReservationStatus BY DEF CreatedStatus, ReservationStatus
    <3>2. <<s>> \in Seq(ReservationStatus) BY <3>1
    <3>3. <<s>> # <<>> OBVIOUS
    <3> QED BY <3>2, <3>3
  <2>2. {<<s>> : s \in CreatedStatus} \subseteq Seq(ReservationStatus) \ {<<>>}
    <3> SUFFICES ASSUME NEW s \in CreatedStatus PROVE <<s>> \in Seq(ReservationStatus) \ {<<>>} OBVIOUS
    <3> QED BY <2>1
  <2>3. PICK X : X = {<<s>> : s \in CreatedStatus} OBVIOUS
  <2>4. X \subseteq Seq(ReservationStatus) \ {<<>>} BY <2>2, <2>3
  <2>5. statusLog \in [Bookings -> X] BY <2>3 DEF LDInit
  <2> QED BY <2>4, <2>5
<1>2. LDTypeOK BY <1>1, UnfetchedTyped DEF LDInit, LDTypeOK
<1>3. \A d \in Desks, r \in Bookings : owed[d][r] = 0 BY DEF LDInit, Unseen
<1>4. \A c \in Callers : call[c].at = "idle" BY DEF LDInit, Idle
<1>5. NewsIsTrue BY <1>2, <1>3, <1>4, LogTyped DEF NewsIsTrue
<1>6. CachesOK BY UnfetchedTyped DEF LDInit, CachesOK
<1> QED BY <1>2, <1>5, <1>6 DEF LDInv

\* A row that goes on goes on to a status of the graph, and nothing that has been told of
\* becomes untrue.
LEMMA LogGrows ==
  ASSUME LDInv, NEW r \in Bookings, NEW to, ValidTransition(Status(r), to),
         statusLog' = [statusLog EXCEPT ![r] = Append(statusLog[r], to)]
  PROVE  /\ statusLog' \in [Bookings -> Seq(ReservationStatus) \ {<<>>}]
         /\ Len(statusLog'[r]) = Len(statusLog[r]) + 1
         /\ \A b \in Bookings : Len(statusLog[b]) <= Len(statusLog'[b])
         /\ \A b \in Bookings : Len(statusLog[b]) \in Nat /\ Len(statusLog'[b]) \in Nat
<1>1. LDTypeOK BY DEF LDInv
<1>2. Status(r) \in ReservationStatus BY <1>1, LogTyped
<1>3. to \in ReservationStatus BY <1>2 DEF ValidTransition, VALID_TRANSITIONS, ReservationStatus
<1>4. PICK log : log = Append(statusLog[r], to) OBVIOUS
<1>5. log \in Seq(ReservationStatus) \ {<<>>} /\ Len(log) = Len(statusLog[r]) + 1
  BY <1>1, <1>3, <1>4, LogTyped
<1>6. statusLog' = [statusLog EXCEPT ![r] = log] BY <1>4
<1>7. statusLog' \in [Bookings -> Seq(ReservationStatus) \ {<<>>}] BY <1>1, <1>5, <1>6 DEF LDTypeOK
<1>8. \A b \in Bookings : statusLog'[b] = IF b = r THEN log ELSE statusLog[b] BY <1>1, <1>6 DEF LDTypeOK
<1>9. \A b \in Bookings : Len(statusLog[b]) \in Nat BY <1>1, LogTyped
<1> QED BY <1>5, <1>7, <1>8, <1>9

\* The three kinds of step that leave the caches alone: the log grows, or the calls change,
\* and no desk is told anything.
LEMMA CachesAside ==
  ASSUME LDInv, UNCHANGED <<browser, net, owed>>,
         statusLog' \in [Bookings -> Seq(ReservationStatus) \ {<<>>}],
         \A b \in Bookings : Len(statusLog[b]) <= Len(statusLog'[b]),
         \A b \in Bookings : Len(statusLog[b]) \in Nat /\ Len(statusLog'[b]) \in Nat,
         call' \in [Callers -> Calls],
         \A c \in Callers : call'[c].at \in {"emit", "done"} =>
           \/ call'[c].wrote <= Len(statusLog'[call'[c].r])
           \/ call[c].at \in {"emit", "done"} /\ call'[c].wrote = call[c].wrote /\ call'[c].r = call[c].r
  PROVE  LDInv'
<1>1. UNCHANGED <<page, cache, sock, wire, auth, owed>> BY DEF browser, net
<1>2. LDTypeOK' BY <1>1 DEF LDInv, LDTypeOK
<1>3. CachesOK' BY <1>1 DEF LDInv, CachesOK
<1>4. \A d \in Desks, r \in Bookings : owed'[d][r] <= Len(statusLog'[r])
  <2> TAKE d \in Desks, r \in Bookings
  <2>1. owed[d][r] \in Nat BY DEF LDInv, LDTypeOK, Rows
  <2>2. owed[d][r] <= Len(statusLog[r]) BY DEF LDInv, NewsIsTrue
  <2> QED BY <1>1, <2>1, <2>2
<1>5. ASSUME NEW c \in Callers, call'[c].at \in {"emit", "done"}
      PROVE  call'[c].wrote <= Len(statusLog'[call'[c].r])
  <2>1. CASE call'[c].wrote <= Len(statusLog'[call'[c].r]) BY <2>1
  <2>2. CASE call[c].at \in {"emit", "done"} /\ call'[c].wrote = call[c].wrote /\ call'[c].r = call[c].r
    <3>1. call[c].wrote <= Len(statusLog[call[c].r]) BY <2>2 DEF LDInv, NewsIsTrue
    <3>2. call[c].wrote \in Nat /\ call[c].r \in Bookings BY DEF LDInv, LDTypeOK, Calls
    <3> QED BY <2>2, <3>1, <3>2
  <2> QED BY <1>5, <2>1, <2>2
<1>6. NewsIsTrue' BY <1>4, <1>5 DEF NewsIsTrue
<1> QED BY <1>2, <1>3, <1>6 DEF LDInv

\* A call that only changes where it stands, and not to where it had something to tell.
LEMMA CallStep ==
  ASSUME LDInv, NEW c \in Callers, NEW z \in Calls, call' = [call EXCEPT ![c] = z],
         z.at \in {"emit", "done"} =>
           call[c].at \in {"emit", "done"} /\ z.wrote = call[c].wrote /\ z.r = call[c].r
  PROVE  /\ call' \in [Callers -> Calls]
         /\ \A x \in Callers : call'[x].at \in {"emit", "done"} =>
              call[x].at \in {"emit", "done"} /\ call'[x].wrote = call[x].wrote /\ call'[x].r = call[x].r
<1>1. call \in [Callers -> Calls] BY DEF LDInv, LDTypeOK
<1>2. \A x \in Callers : call'[x] = IF x = c THEN z ELSE call[x] BY <1>1
<1> QED BY <1>1, <1>2

LEMMA LogStill ==
  ASSUME LDInv, UNCHANGED statusLog
  PROVE  /\ statusLog' \in [Bookings -> Seq(ReservationStatus) \ {<<>>}]
         /\ \A b \in Bookings : Len(statusLog[b]) \in Nat /\ Len(statusLog'[b]) \in Nat
         /\ \A b \in Bookings : Len(statusLog[b]) <= Len(statusLog'[b])
<1>1. \A b \in Bookings : Len(statusLog[b]) \in Nat BY LogTyped DEF LDInv
<1>2. statusLog' \in [Bookings -> Seq(ReservationStatus) \ {<<>>}] BY DEF LDInv, LDTypeOK
<1> QED BY <1>1, <1>2

-----------------------------------------------------------------------------
LEMMA PressStep == LDInv /\ (\E d \in Desks, b \in Buttons, r \in Bookings : Press(d, b, r)) => LDInv'
<1> SUFFICES ASSUME LDInv, NEW d \in Desks, NEW b \in Buttons, NEW r \in Bookings, Press(d, b, r)
             PROVE LDInv'
  OBVIOUS
<1> DEFINE c == [op |-> b.op, r |-> r, body |-> b.body, at |-> "asked", wrote |-> 0]
<1>1. c \in Calls /\ c.at = "asked" BY DEF Calls
<1>2. d \in Callers BY DEF Callers
<1>3. call' = [call EXCEPT ![d] = c] BY DEF Press
<1> HIDE DEF c
<1>4. call \in [Callers -> Calls] BY DEF LDInv, LDTypeOK
<1>5. call' \in [Callers -> Calls] BY <1>1, <1>3, <1>4
<1>6. \A k \in Callers : call'[k].at \in {"emit", "done"} => call'[k] = call[k] BY <1>1, <1>2, <1>3, <1>4
<1>7. UNCHANGED <<statusLog, browser, net, owed>> BY DEF Press
<1> QED BY <1>5, <1>6, <1>7, LogStill, CachesAside

\* A handler that has claimed its transition: its row has gone on, and it knows how far.
LEMMA ClaimStep ==
  ASSUME LDInv, NEW c \in Callers, NEW op, NEW r \in Bookings,
         ValidTransition(Status(r), Handlers[op].to), Claim(c, op, r), UNCHANGED <<browser, net, owed>>
  PROVE  LDInv'
<1> DEFINE to == Handlers[op].to
<1>1. statusLog' = [statusLog EXCEPT ![r] = Append(statusLog[r], to)] BY DEF Claim, LDInv, LDTypeOK
<1>2. PICK t : t = to OBVIOUS
<1>3. /\ statusLog' \in [Bookings -> Seq(ReservationStatus) \ {<<>>}]
      /\ Len(statusLog'[r]) = Len(statusLog[r]) + 1
      /\ \A b \in Bookings : Len(statusLog[b]) <= Len(statusLog'[b])
      /\ \A b \in Bookings : Len(statusLog[b]) \in Nat /\ Len(statusLog'[b]) \in Nat
  BY <1>1, <1>2, LogGrows
<1>4. PICK k \in Calls : k = call[c] BY DEF LDInv, LDTypeOK
<1>5. PICK n \in Nat : n = Len(statusLog[r]) + 1 BY <1>3
<1>6. PICK at \in {"emit", "done"} : at = IF Handlers[op].emits THEN "emit" ELSE "done" OBVIOUS
<1> DEFINE y == [k EXCEPT !.r = r, !.at = at, !.wrote = n]
<1>7. y \in Calls /\ y.r = r /\ y.wrote = n BY DEF Calls
<1>8. \E z \in {Idle, y} : call' = [call EXCEPT ![c] = z] BY <1>4, <1>5, <1>6 DEF Claim, LDInv, LDTypeOK
<1> HIDE DEF y
<1>9. PICK z \in {Idle, y} : call' = [call EXCEPT ![c] = z] BY <1>8
<1>10. z \in Calls /\ (z.at \in {"emit", "done"} => z.r = r /\ z.wrote = n)
  BY <1>7, UnfetchedTyped
<1>11. call \in [Callers -> Calls] BY DEF LDInv, LDTypeOK
<1>12. call' \in [Callers -> Calls] BY <1>9, <1>10, <1>11
<1>13. \A x \in Callers : call'[x] = IF x = c THEN z ELSE call[x] BY <1>9, <1>11
<1>14. n <= Len(statusLog'[r]) BY <1>3, <1>5
<1>15. ASSUME NEW x \in Callers, call'[x].at \in {"emit", "done"}
       PROVE  \/ call'[x].wrote <= Len(statusLog'[call'[x].r])
              \/ call[x].at \in {"emit", "done"} /\ call'[x].wrote = call[x].wrote /\ call'[x].r = call[x].r
  <2>1. CASE x = c BY <2>1, <1>10, <1>13, <1>14, <1>15
  <2>2. CASE x # c BY <2>2, <1>13, <1>15
  <2> QED BY <2>1, <2>2
<1> QED BY <1>3, <1>12, <1>15, CachesAside

LEMMA ServeStep == LDInv /\ (\E d \in Desks : Serve(d)) => LDInv'
<1> SUFFICES ASSUME LDInv, NEW d \in Desks, Serve(d) PROVE LDInv'
  OBVIOUS
<1>1. d \in Callers BY DEF Callers
<1>2. PICK k \in Calls : k = call[d] BY <1>1 DEF LDInv, LDTypeOK
<1>3. PICK r \in Bookings, op \in {k.op} : r = call[d].r /\ op = call[d].op BY <1>2 DEF Calls
<1>4. UNCHANGED <<browser, net, owed>> BY DEF Serve
<1>5. CASE Takes(op, r, call[d].body) /\ Claim(d, op, r)
  <2>1. ValidTransition(Status(r), Handlers[op].to) BY <1>5 DEF Takes
  <2> QED BY <1>1, <1>4, <1>5, <2>1, ClaimStep
<1>6. CASE UNCHANGED statusLog /\ call' = [call EXCEPT ![d].at = "refused"]
  <2> DEFINE z == [k EXCEPT !.at = "refused"]
  <2>1. z \in Calls /\ z.at = "refused" BY DEF Calls
  <2>2. call' = [call EXCEPT ![d] = z] BY <1>2, <1>6 DEF LDInv, LDTypeOK
  <2> HIDE DEF z
  <2> QED BY <1>1, <1>4, <1>6, <2>1, <2>2, CallStep, LogStill, CachesAside
<1> QED BY <1>3, <1>5, <1>6 DEF Serve

LEMMA CallApiStep == LDInv /\ (\E op \in DOMAIN Handlers, r \in Bookings : CallApi(op, r)) => LDInv'
<1> SUFFICES ASSUME LDInv, NEW op \in DOMAIN Handlers, NEW r \in Bookings, CallApi(op, r) PROVE LDInv'
  OBVIOUS
<1>1. Api \in Callers BY DEF Callers
<1>2. ValidTransition(Status(r), Handlers[op].to) /\ Claim(Api, op, r) /\ UNCHANGED <<browser, net, owed>>
  BY DEF CallApi, Takes
<1> QED BY <1>1, <1>2, ClaimStep

LEMMA FailStep == LDInv /\ (\E c \in Callers : Fail(c)) => LDInv'
<1> SUFFICES ASSUME LDInv, NEW c \in Callers, Fail(c) PROVE LDInv'
  OBVIOUS
<1>1. PICK k \in Calls : k = call[c] BY DEF LDInv, LDTypeOK
<1> DEFINE y == [k EXCEPT !.at = "refused"]
<1>2. y \in Calls /\ y.at = "refused" BY DEF Calls
<1>3. \E z \in {Idle, y} : call' = [call EXCEPT ![c] = z] BY <1>1 DEF Fail, LDInv, LDTypeOK
<1> HIDE DEF y
<1>4. PICK z \in {Idle, y} : call' = [call EXCEPT ![c] = z] BY <1>3
<1>5. z \in Calls /\ z.at \notin {"emit", "done"} BY <1>2, UnfetchedTyped
<1>6. UNCHANGED <<statusLog, browser, net, owed>> BY DEF Fail
<1> QED BY <1>4, <1>5, <1>6, CallStep, LogStill, CachesAside

LEMMA AuditStep == LDInv /\ (\E r \in Bookings : NightAudit(r)) => LDInv'
<1> SUFFICES ASSUME LDInv, NEW r \in Bookings, NightAudit(r) PROVE LDInv'
  OBVIOUS
<1>1. PICK to \in {"stayover", "due_out", "no_show"} :
        ValidTransition(Status(r), to) /\ statusLog' = [statusLog EXCEPT ![r] = Append(@, to)]
  BY DEF NightAudit
<1>2. statusLog' = [statusLog EXCEPT ![r] = Append(statusLog[r], to)] BY <1>1 DEF LDInv, LDTypeOK
<1>3. UNCHANGED <<call, browser, net, owed>> BY DEF NightAudit
<1>4. call' \in [Callers -> Calls] BY <1>3 DEF LDInv, LDTypeOK
<1> QED BY <1>1, <1>2, <1>3, <1>4, LogGrows, CachesAside

-----------------------------------------------------------------------------
\* A fetch that begins anew changes nothing in what the list shows.
LEMMA RefetchKeeps ==
  ASSUME NEW old \in CacheEntries
  PROVE  /\ Refetch(old) \in CacheEntries
         /\ Refetch(old).seen = old.seen /\ Refetch(old).fetch = "asked"
         /\ \A events \in Nat, told \in Rows : EntryOK(old, events, told) => EntryOK(Refetch(old), events, told)
<1> DEFINE e == Refetch(old)
<1>1. e \in CacheEntries BY UnfetchedTyped DEF Refetch, CacheEntries
<1>2. e.seen = old.seen /\ e.invalid = old.invalid /\ e.missed = old.missed /\ e.fetch = "asked"
  BY DEF Refetch, CacheEntries
<1> HIDE DEF e
<1> QED BY <1>1, <1>2 DEF EntryOK, e

\* A mark of the reservations reaches every list of the desk.
LEMMA InvalidateMarks ==
  ASSUME LDTypeOK, NEW d \in Desks, NEW keys, "reservations" \in keys, Invalidate(d, keys)
  PROVE  /\ cache' \in [Desks -> [Lists -> CacheEntries]]
         /\ \A x \in Desks \ {d} : cache'[x] = cache[x]
         /\ \A q \in Lists : \/ cache'[d][q].seen = Unseen
                             \/ cache'[d][q].invalid = TRUE
         /\ \A q \in Lists : cache'[d][q].fetch = "answered" => cache'[d][q].late = TRUE
<1> DEFINE deaf == {q \in Lists : Fetching(d, q) /\ (q \notin Active(d) \/ cache[d][q].seen = Unseen)}
           anew == (Lists \cap Active(d)) \ deaf
           base(q) == IF q \in anew THEN Refetch(cache[d][q]) ELSE cache[d][q]
           entry(q) == [base(q) EXCEPT !.invalid = @ \/ (q \in Lists /\ base(q).seen # Unseen),
                                       !.late = @ \/ q \in deaf]
<1>1. cache' = [cache EXCEPT ![d] = [q \in Lists |-> entry(q)]] BY DEF Invalidate
<1>2. ASSUME NEW q \in Lists
      PROVE  /\ entry(q) \in CacheEntries
             /\ entry(q).seen = Unseen \/ entry(q).invalid = TRUE
             /\ entry(q).fetch = "answered" => entry(q).late = TRUE
  <2>1. PICK e \in CacheEntries : e = cache[d][q] BY DEF LDTypeOK
  <2>2. PICK b : b = base(q) OBVIOUS
  <2>3. b \in CacheEntries /\ (q \in anew => b.fetch = "asked") /\ (q \notin anew => b = e)
    BY <2>1, <2>2, RefetchKeeps
  <2>4. b.invalid \in BOOLEAN /\ b.late \in BOOLEAN BY <2>3 DEF CacheEntries
  <2>5. PICK i \in BOOLEAN : i = (b.invalid \/ (q \in Lists /\ b.seen # Unseen)) BY <2>4
  <2>6. PICK l \in BOOLEAN : l = (b.late \/ q \in deaf) BY <2>4
  <2> DEFINE y == [b EXCEPT !.invalid = i, !.late = l]
  <2>7. y \in CacheEntries /\ y.seen = b.seen /\ y.fetch = b.fetch /\ y.invalid = i /\ y.late = l
    BY <2>3 DEF CacheEntries
  <2>8. entry(q) = y BY <2>2, <2>3, <2>5, <2>6 DEF CacheEntries
  <2> HIDE DEF y
  <2>9. y.seen = Unseen \/ y.invalid = TRUE BY <2>5, <2>7
  <2>10. y.fetch = "answered" => y.late = TRUE
    <3> SUFFICES ASSUME y.fetch = "answered" PROVE l = TRUE BY <2>7
    <3>1. q \notin anew /\ b = e BY <2>3, <2>7
    <3>2. Fetching(d, q) BY <2>1, <2>7, <3>1 DEF Fetching
    <3>3. q \in deaf BY <3>1, <3>2
    <3> QED BY <2>6, <3>3
  <2> QED BY <2>7, <2>8, <2>9, <2>10
<1> HIDE DEF entry
<1>3. cache \in [Desks -> [Lists -> CacheEntries]] BY DEF LDTypeOK
<1>4. \A x \in Desks : cache'[x] = IF x = d THEN [q \in Lists |-> entry(q)] ELSE cache[x] BY <1>1, <1>3
<1>5. [q \in Lists |-> entry(q)] \in [Lists -> CacheEntries] BY <1>2
<1>6. cache' \in [Desks -> [Lists -> CacheEntries]] BY <1>1, <1>3, <1>5
<1>7. \A q \in Lists : cache'[d][q] = entry(q) BY <1>4
<1> QED BY <1>2, <1>4, <1>6, <1>7

\* A step of one list: its new entry is as good as the old one.
LEMMA EntryStep ==
  ASSUME LDInv, NEW d \in Desks, NEW q \in Lists, NEW e \in CacheEntries, EntryOK(e, wire[d], owed[d]),
         cache' = [cache EXCEPT ![d][q] = e],
         UNCHANGED <<statusLog, call, page, net, owed>>
  PROVE  LDInv'
<1>1. cache \in [Desks -> [Lists -> CacheEntries]] BY DEF LDInv, LDTypeOK
<1>2. cache' \in [Desks -> [Lists -> CacheEntries]] BY <1>1
<1>3. \A x \in Desks, p \in Lists : cache'[x][p] = IF x = d /\ p = q THEN e ELSE cache[x][p] BY <1>1
<1>4. UNCHANGED <<statusLog, call, page, sock, wire, auth, owed>> BY DEF net
<1>5. LDTypeOK' BY <1>2, <1>4 DEF LDInv, LDTypeOK
<1>6. NewsIsTrue' BY <1>4 DEF LDInv, NewsIsTrue
<1>7. ASSUME NEW x \in Desks, NEW p \in Lists PROVE EntryOK(cache[x][p]', wire[x]', owed[x]')
  <2>1. EntryOK(cache[x][p], wire[x], owed[x]) BY DEF LDInv, CachesOK
  <2>2. CASE x = d /\ p = q
    <3>1. cache'[x][p] = e /\ wire'[x] = wire[d] /\ owed'[x] = owed[d] BY <1>3, <1>4, <2>2
    <3> QED BY <3>1
  <2>3. CASE ~(x = d /\ p = q)
    <3>1. cache'[x][p] = cache[x][p] /\ wire'[x] = wire[x] /\ owed'[x] = owed[x] BY <1>3, <1>4, <2>3
    <3> QED BY <2>1, <3>1
  <2> QED BY <2>2, <2>3
<1>8. CachesOK' BY <1>7 DEF CachesOK
<1> QED BY <1>5, <1>6, <1>8 DEF LDInv

\* What one desk does to its own cache, wire and debt.
LEMMA OneDesk ==
  ASSUME LDInv, NEW d \in Desks,
         \A x \in Desks \ {d} : cache'[x] = cache[x] /\ wire'[x] = wire[x] /\ owed'[x] = owed[x],
         \A q \in Lists : EntryOK(cache[d][q]', wire[d]', owed[d]')
  PROVE  CachesOK'
<1> SUFFICES ASSUME NEW x \in Desks, NEW p \in Lists PROVE EntryOK(cache[x][p]', wire[x]', owed[x]')
  BY DEF CachesOK
<1>1. CASE x = d BY <1>1
<1>2. CASE x # d
  <2>1. EntryOK(cache[x][p], wire[x], owed[x]) BY DEF LDInv, CachesOK
  <2>2. cache'[x][p] = cache[x][p] /\ wire'[x] = wire[x] /\ owed'[x] = owed[x] BY <1>2
  <2> QED BY <2>1, <2>2
<1> QED BY <1>1, <1>2

\* A page that opens, or the window's focus, begins fetches and changes nothing that is shown.
LEMMA BeginStep ==
  ASSUME LDInv, NEW d \in Desks, NEW lists, Begin(d, lists), page' \in [Desks -> Pages \cup {"none"}],
         UNCHANGED <<statusLog, call, net, owed>>
  PROVE  LDInv'
<1> DEFINE entry(q) == IF q \in lists /\ ~Fetching(d, q) THEN Refetch(cache[d][q]) ELSE cache[d][q]
<1>1. cache' = [cache EXCEPT ![d] = [q \in Lists |-> entry(q)]] BY DEF Begin
<1>2. ASSUME NEW q \in Lists PROVE entry(q) \in CacheEntries /\ EntryOK(entry(q), wire[d], owed[d])
  <2>1. PICK e \in CacheEntries : e = cache[d][q] BY DEF LDInv, LDTypeOK
  <2>2. EntryOK(e, wire[d], owed[d]) BY <2>1 DEF LDInv, CachesOK
  <2>3. wire[d] \in Nat /\ owed[d] \in Rows BY DEF LDInv, LDTypeOK
  <2>4. Refetch(e) \in CacheEntries /\ EntryOK(Refetch(e), wire[d], owed[d]) BY <2>2, <2>3, RefetchKeeps
  <2>5. entry(q) \in {e, Refetch(e)} BY <2>1
  <2> HIDE DEF entry
  <2> QED BY <2>2, <2>4, <2>5
<1> HIDE DEF entry
<1>3. cache \in [Desks -> [Lists -> CacheEntries]] BY DEF LDInv, LDTypeOK
<1>4. [q \in Lists |-> entry(q)] \in [Lists -> CacheEntries] BY <1>2
<1>5. cache' \in [Desks -> [Lists -> CacheEntries]] BY <1>1, <1>3, <1>4
<1>6. /\ \A x \in Desks \ {d} : cache'[x] = cache[x]
      /\ \A q \in Lists : cache'[d][q] = entry(q)
  BY <1>1, <1>3
<1>7. UNCHANGED <<statusLog, call, sock, wire, auth, owed>> BY DEF net
<1>8. LDTypeOK' BY <1>5, <1>7 DEF LDInv, LDTypeOK
<1>9. NewsIsTrue' BY <1>7 DEF LDInv, NewsIsTrue
<1>10. \A q \in Lists : EntryOK(cache[d][q]', wire[d]', owed[d]')
  <2> TAKE q \in Lists
  <2>1. cache'[d][q] = entry(q) /\ wire'[d] = wire[d] /\ owed'[d] = owed[d] BY <1>6, <1>7
  <2> QED BY <1>2, <2>1
<1>11. CachesOK' BY <1>6, <1>7, <1>10, OneDesk
<1> QED BY <1>8, <1>9, <1>11 DEF LDInv

LEMMA OpenStep == LDInv /\ (\E d \in Desks, p \in Pages : OpenPage(d, p)) => LDInv'
<1> SUFFICES ASSUME LDInv, NEW d \in Desks, NEW p \in Pages, OpenPage(d, p) PROVE LDInv'
  OBVIOUS
<1>1. PICK lists : Begin(d, lists) BY DEF OpenPage
<1>2. page' = [page EXCEPT ![d] = p] /\ UNCHANGED <<statusLog, call, net, owed>> BY DEF OpenPage
<1>3. page' \in [Desks -> Pages \cup {"none"}] BY <1>2 DEF LDInv, LDTypeOK
<1> QED BY <1>1, <1>2, <1>3, BeginStep

LEMMA FocusStep == LDInv /\ (\E d \in Desks : Focus(d)) => LDInv'
<1> SUFFICES ASSUME LDInv, NEW d \in Desks, Focus(d) PROVE LDInv'
  OBVIOUS
<1>1. PICK lists : Begin(d, lists) BY DEF Focus
<1>2. UNCHANGED page /\ UNCHANGED <<statusLog, call, net, owed>> BY DEF Focus
<1>3. page' \in [Desks -> Pages \cup {"none"}] BY <1>2 DEF LDInv, LDTypeOK
<1> QED BY <1>1, <1>2, <1>3, BeginStep

\* The rows of this moment are not older than anything a desk has been told of.
LEMMA PresentIsNew ==
  ASSUME LDInv, NEW d \in Desks
  PROVE  Present \in Rows /\ UpTo(Present, owed[d])
<1>1. \A r \in Bookings : Len(statusLog[r]) \in Nat BY LogTyped DEF LDInv
<1>2. Present \in Rows BY <1>1 DEF Present, Rows
<1>3. ASSUME NEW r \in Bookings PROVE Present[r] >= owed[d][r]
  <2>1. owed[d][r] <= Len(statusLog[r]) BY DEF LDInv, NewsIsTrue
  <2>2. owed[d][r] \in Nat BY DEF LDInv, LDTypeOK, Rows
  <2> QED BY <1>1, <2>1, <2>2 DEF Present
<1> QED BY <1>2, <1>3 DEF UpTo

LEMMA AnswerStep == LDInv /\ (\E d \in Desks, q \in Lists : AnswerQuery(d, q)) => LDInv'
<1> SUFFICES ASSUME LDInv, NEW d \in Desks, NEW q \in Lists, AnswerQuery(d, q) PROVE LDInv'
  OBVIOUS
<1>1. PICK c \in CacheEntries : c = cache[d][q] BY DEF LDInv, LDTypeOK
<1>2. PICK now \in Rows : now = Present /\ UpTo(now, owed[d]) BY PresentIsNew
<1> DEFINE e == [c EXCEPT !.fetch = "answered", !.answer = now]
<1>3. /\ e \in CacheEntries /\ e.answer = now
      /\ e.seen = c.seen /\ e.invalid = c.invalid /\ e.missed = c.missed
  BY DEF CacheEntries
<1>4. cache' = [cache EXCEPT ![d][q] = e] BY <1>1, <1>2 DEF AnswerQuery, LDInv, LDTypeOK
<1> HIDE DEF e
<1>5. EntryOK(c, wire[d], owed[d]) BY <1>1 DEF LDInv, CachesOK
<1>6. EntryOK(e, wire[d], owed[d]) BY <1>2, <1>3, <1>5 DEF EntryOK
<1>7. UNCHANGED <<statusLog, call, page, net, owed>> BY DEF AnswerQuery
<1> QED BY <1>3, <1>4, <1>6, <1>7, EntryStep

LEMMA ReceiveStep == LDInv /\ (\E d \in Desks, q \in Lists : ReceiveAnswer(d, q)) => LDInv'
<1> SUFFICES ASSUME LDInv, NEW d \in Desks, NEW q \in Lists, ReceiveAnswer(d, q) PROVE LDInv'
  OBVIOUS
<1>1. PICK c \in CacheEntries : c = cache[d][q] BY DEF LDInv, LDTypeOK
<1>2. c.answer \in Rows /\ c.late \in BOOLEAN /\ c.fetch = "answered" BY <1>1 DEF CacheEntries, ReceiveAnswer
<1> DEFINE e == [Unfetched EXCEPT !.seen = c.answer, !.missed = c.late]
<1>3. e \in CacheEntries /\ e.seen = c.answer /\ e.missed = c.late /\ e.fetch = "idle"
  BY <1>2, UnfetchedTyped DEF Unfetched, CacheEntries
<1>4. cache' = [cache EXCEPT ![d][q] = e] BY <1>1 DEF ReceiveAnswer
<1> HIDE DEF e
<1>5. EntryOK(c, wire[d], owed[d]) BY <1>1 DEF LDInv, CachesOK
<1>6. EntryOK(e, wire[d], owed[d]) BY <1>2, <1>3, <1>5 DEF EntryOK
<1>7. UNCHANGED <<statusLog, call, page, net, owed>> BY DEF ReceiveAnswer
<1> QED BY <1>3, <1>4, <1>6, <1>7, EntryStep

LEMMA FailQueryStep == LDInv /\ (\E d \in Desks, q \in Lists : FailQuery(d, q)) => LDInv'
<1> SUFFICES ASSUME LDInv, NEW d \in Desks, NEW q \in Lists, FailQuery(d, q) PROVE LDInv'
  OBVIOUS
<1>1. PICK c \in CacheEntries : c = cache[d][q] BY DEF LDInv, LDTypeOK
<1>2. PICK next \in {"asked", "idle"} :
        cache' = [cache EXCEPT ![d][q].fetch = next, ![d][q].answer = Unseen,
                               ![d][q].late = @ /\ next = "asked"]
  BY DEF FailQuery
<1>3. c.late \in BOOLEAN BY DEF CacheEntries
<1>4. PICK l \in BOOLEAN : l = (c.late /\ next = "asked") BY <1>3
<1> DEFINE e == [c EXCEPT !.fetch = next, !.answer = Unseen, !.late = l]
<1>5. /\ e \in CacheEntries /\ e.fetch # "answered"
      /\ e.seen = c.seen /\ e.invalid = c.invalid /\ e.missed = c.missed
  BY UnfetchedTyped DEF CacheEntries
<1>6. cache' = [cache EXCEPT ![d][q] = e] BY <1>1, <1>2, <1>4 DEF LDInv, LDTypeOK, CacheEntries
<1> HIDE DEF e
<1>7. EntryOK(c, wire[d], owed[d]) BY <1>1 DEF LDInv, CachesOK
<1>8. EntryOK(e, wire[d], owed[d]) BY <1>5, <1>7 DEF EntryOK
<1>9. UNCHANGED <<statusLog, call, page, net, owed>> BY DEF FailQuery
<1> QED BY <1>5, <1>6, <1>8, <1>9, EntryStep

-----------------------------------------------------------------------------
\* A desk is told no more than has happened, and only the desks that are meant are told.
LEMMA DeskTold ==
  ASSUME LDInv, NEW desks, NEW c \in Callers, call[c].at \in {"emit", "done"}, OweTo(desks, c)
  PROVE  /\ owed' \in [Desks -> Rows]
         /\ \A x \in Desks \ desks : owed'[x] = owed[x]
         /\ \A x \in Desks, r \in Bookings : owed'[x][r] <= Len(statusLog[r])
<1>1. PICK k \in Calls : k = call[c] BY DEF LDInv, LDTypeOK
<1>2. k.r \in Bookings /\ k.wrote \in Nat /\ k.wrote <= Len(statusLog[k.r])
  BY <1>1 DEF Calls, LDInv, NewsIsTrue
<1> DEFINE debt(x) == IF x \in desks /\ owed[x][k.r] < k.wrote THEN [owed[x] EXCEPT ![k.r] = k.wrote]
                      ELSE owed[x]
<1>3. owed' = [x \in Desks |-> debt(x)] BY <1>1 DEF OweTo
<1>4. ASSUME NEW x \in Desks
      PROVE  /\ debt(x) \in Rows
             /\ x \notin desks => debt(x) = owed[x]
             /\ \A r \in Bookings : debt(x)[r] <= Len(statusLog[r])
  <2>1. PICK o \in Rows : o = owed[x] BY DEF LDInv, LDTypeOK
  <2>2. \A r \in Bookings : o[r] <= Len(statusLog[r]) BY <2>1 DEF LDInv, NewsIsTrue
  <2> DEFINE n == [o EXCEPT ![k.r] = k.wrote]
  <2>3. n \in Rows /\ \A r \in Bookings : n[r] = IF r = k.r THEN k.wrote ELSE o[r] BY <1>2, <2>1 DEF Rows
  <2>4. debt(x) = o \/ debt(x) = n BY <2>1
  <2>5. x \notin desks => debt(x) = o BY <2>1
  <2> HIDE DEF n, debt
  <2>6. \A r \in Bookings : n[r] <= Len(statusLog[r]) BY <1>2, <2>2, <2>3
  <2> QED BY <2>1, <2>2, <2>3, <2>4, <2>5, <2>6
<1> HIDE DEF debt
<1> QED BY <1>3, <1>4

\* The sockets of the room are told and sent the event by one statement.
LEMMA EmitStep ==
  ASSUME Wildcard = TRUE
  PROVE  LDInv /\ (\E c \in Callers : Emit(c)) => LDInv'
<1> SUFFICES ASSUME LDInv, NEW c \in Callers, Emit(c) PROVE LDInv'
  OBVIOUS
<1>1. call[c].at = "emit" /\ OweTo(Room, c) BY DEF Emit
<1>2. /\ owed' \in [Desks -> Rows]
      /\ \A x \in Desks \ Room : owed'[x] = owed[x]
      /\ \A x \in Desks, r \in Bookings : owed'[x][r] <= Len(statusLog[r])
  BY <1>1, DeskTold
<1>3. wire \in [Desks -> Nat] BY DEF LDInv, LDTypeOK
<1>4. \A x \in Desks : wire'[x] = IF x \in Room THEN wire[x] + 1 ELSE wire[x] BY DEF Emit
<1>5. wire' \in [Desks -> Nat]
  <2>1. wire' = [x \in Desks |-> IF x \in Room THEN wire[x] + 1 ELSE wire[x]] BY DEF Emit
  <2> QED BY <1>3, <2>1
<1>6. UNCHANGED <<statusLog, page, cache, sock, auth>> BY DEF Emit, browser
<1>7. PICK k \in Calls : k = call[c] BY DEF LDInv, LDTypeOK
<1> DEFINE y == [k EXCEPT !.at = "done"]
<1>8. y \in Calls /\ y.wrote = k.wrote /\ y.r = k.r BY DEF Calls
<1>9. \E z \in {Idle, y} : call' = [call EXCEPT ![c] = z] BY <1>7 DEF Emit, LDInv, LDTypeOK
<1> HIDE DEF y
<1>10. PICK z \in {Idle, y} : call' = [call EXCEPT ![c] = z] BY <1>9
<1>11. z \in Calls /\ (z.at \in {"emit", "done"} => z.wrote = k.wrote /\ z.r = k.r)
  BY <1>8, UnfetchedTyped
<1>12. /\ call' \in [Callers -> Calls]
       /\ \A x \in Callers : call'[x].at \in {"emit", "done"} =>
            call[x].at \in {"emit", "done"} /\ call'[x].wrote = call[x].wrote /\ call'[x].r = call[x].r
  BY <1>1, <1>7, <1>10, <1>11, CallStep
<1>13. LDTypeOK' BY <1>2, <1>5, <1>6, <1>12 DEF LDInv, LDTypeOK
<1>14. \A x \in Callers : call'[x].at \in {"emit", "done"} => call'[x].wrote <= Len(statusLog'[call'[x].r])
  BY <1>6, <1>12 DEF LDInv, NewsIsTrue
<1>15. NewsIsTrue' BY <1>2, <1>6, <1>14 DEF NewsIsTrue
<1>16. ASSUME NEW x \in Desks, NEW q \in Lists PROVE EntryOK(cache[x][q]', wire[x]', owed[x]')
  <2>1. cache'[x][q] = cache[x][q] /\ EntryOK(cache[x][q], wire[x], owed[x]) BY <1>6 DEF LDInv, CachesOK
  <2>2. CASE x \in Room
    <3>1. wire'[x] > 0 BY <1>3, <1>4, <2>2
    <3> QED BY <3>1 DEF EntryOK
  <2>3. CASE x \notin Room
    <3>1. wire'[x] = wire[x] /\ owed'[x] = owed[x] BY <1>2, <1>4, <2>3
    <3> QED BY <2>1, <3>1
  <2> QED BY <2>2, <2>3
<1>17. CachesOK' BY <1>16 DEF CachesOK
<1> QED BY <1>13, <1>15, <1>17 DEF LDInv

\* The answer to its own call marks the lists of the desk that it tells.
LEMMA ReplyStep == LDInv /\ (\E d \in Desks : Reply(d)) => LDInv'
<1> SUFFICES ASSUME LDInv, NEW d \in Desks, Reply(d) PROVE LDInv'
  OBVIOUS
<1>1. d \in Callers BY DEF Callers
<1>2. call' = [call EXCEPT ![d] = Idle] BY DEF Reply
<1>3. /\ call' \in [Callers -> Calls]
      /\ \A x \in Callers : call'[x].at \in {"emit", "done"} =>
           call[x].at \in {"emit", "done"} /\ call'[x].wrote = call[x].wrote /\ call'[x].r = call[x].r
  BY <1>1, <1>2, UnfetchedTyped, CallStep
<1>4. UNCHANGED <<statusLog, page, sock, wire, auth>> BY DEF Reply, net
<1>5. \A x \in Callers : call'[x].at \in {"emit", "done"} => call'[x].wrote <= Len(statusLog'[call'[x].r])
  BY <1>3, <1>4 DEF LDInv, NewsIsTrue
<1>6. CASE call[d].at = "done"
  <2>1. Invalidate(d, {"reservations", "rooms"}) /\ OweTo({d}, d) BY <1>6 DEF Reply
  <2>2. /\ owed' \in [Desks -> Rows]
        /\ \A x \in Desks \ {d} : owed'[x] = owed[x]
        /\ \A x \in Desks, r \in Bookings : owed'[x][r] <= Len(statusLog[r])
    BY <1>1, <1>6, <2>1, DeskTold
  <2>3. LDTypeOK BY DEF LDInv
  <2>4. /\ cache' \in [Desks -> [Lists -> CacheEntries]]
        /\ \A x \in Desks \ {d} : cache'[x] = cache[x]
        /\ \A q \in Lists : cache'[d][q].seen = Unseen \/ cache'[d][q].invalid = TRUE
        /\ \A q \in Lists : cache'[d][q].fetch = "answered" => cache'[d][q].late = TRUE
    BY <2>1, <2>3, InvalidateMarks
  <2>5. LDTypeOK' BY <1>3, <1>4, <2>2, <2>4 DEF LDInv, LDTypeOK
  <2>6. NewsIsTrue' BY <1>4, <1>5, <2>2 DEF NewsIsTrue
  <2>7. \A q \in Lists : EntryOK(cache[d][q]', wire[d]', owed[d]') BY <2>4 DEF EntryOK
  <2>8. CachesOK' BY <1>4, <2>2, <2>4, <2>7, OneDesk
  <2> QED BY <2>5, <2>6, <2>8 DEF LDInv
<1>7. CASE UNCHANGED <<cache, owed>>
  <2>1. UNCHANGED <<browser, net, owed>> BY <1>4, <1>7 DEF browser, net
  <2> QED BY <1>3, <1>4, <2>1, LogStill, CachesAside
<1> QED BY <1>6, <1>7 DEF Reply

LEMMA DeliverStep == LDInv /\ (\E d \in Desks : DeliverEvent(d)) => LDInv'
<1> SUFFICES ASSUME LDInv, NEW d \in Desks, DeliverEvent(d) PROVE LDInv'
  OBVIOUS
<1>1. LDTypeOK BY DEF LDInv
<1>2. "reservations" \in KeysOf("reservation") BY DEF KeysOf
<1>3. Invalidate(d, KeysOf("reservation")) BY DEF DeliverEvent
<1>4. PICK keys : keys = KeysOf("reservation") OBVIOUS
<1>5. /\ cache' \in [Desks -> [Lists -> CacheEntries]]
      /\ \A x \in Desks \ {d} : cache'[x] = cache[x]
      /\ \A q \in Lists : cache'[d][q].seen = Unseen \/ cache'[d][q].invalid = TRUE
      /\ \A q \in Lists : cache'[d][q].fetch = "answered" => cache'[d][q].late = TRUE
  BY <1>1, <1>2, <1>3, <1>4, InvalidateMarks
<1>6. wire \in [Desks -> Nat] /\ wire[d] > 0 /\ wire' = [wire EXCEPT ![d] = wire[d] - 1]
  BY DEF DeliverEvent, LDInv, LDTypeOK
<1>7. wire' \in [Desks -> Nat] /\ \A x \in Desks \ {d} : wire'[x] = wire[x] BY <1>6
<1>8. UNCHANGED <<statusLog, call, page, sock, auth, owed>> BY DEF DeliverEvent
<1>9. LDTypeOK' BY <1>5, <1>7, <1>8 DEF LDInv, LDTypeOK
<1>10. NewsIsTrue' BY <1>8 DEF LDInv, NewsIsTrue
<1>11. \A q \in Lists : EntryOK(cache[d][q]', wire[d]', owed[d]') BY <1>5 DEF EntryOK
<1>12. CachesOK' BY <1>5, <1>7, <1>8, <1>11, OneDesk
<1> QED BY <1>9, <1>10, <1>12 DEF LDInv

\* What was on the way is lost with the promise of it.
LEMMA ForgetStep ==
  ASSUME LDInv, NEW d \in Desks, Forget(d), UNCHANGED <<statusLog, call, cache, auth>>,
         page' \in [Desks -> Pages \cup {"none"}],
         sock' \in [Desks -> {"off", "asking", "joined", "rejected", "outside"}]
  PROVE  LDInv'
<1>1. wire \in [Desks -> Nat] /\ owed \in [Desks -> Rows] BY DEF LDInv, LDTypeOK
<1>2. wire' = [wire EXCEPT ![d] = 0] /\ (owed' = IF wire[d] > 0 THEN [owed EXCEPT ![d] = Unseen] ELSE owed)
  BY DEF Forget
<1>3. wire' \in [Desks -> Nat] /\ \A x \in Desks \ {d} : wire'[x] = wire[x] BY <1>1, <1>2
<1>4. PICK none : none = Unseen OBVIOUS
<1>5. none \in Rows /\ \A r \in Bookings : none[r] = 0 BY <1>4, UnfetchedTyped DEF Unseen
<1>6. owed' \in [Desks -> Rows] /\ \A x \in Desks \ {d} : owed'[x] = owed[x] BY <1>1, <1>2, <1>4, <1>5
<1>7. owed'[d] = IF wire[d] > 0 THEN none ELSE owed[d] BY <1>1, <1>2, <1>4
<1>8. LDTypeOK' BY <1>3, <1>6 DEF LDInv, LDTypeOK
<1>9. \A x \in Desks, r \in Bookings : owed'[x][r] <= Len(statusLog'[r])
  <2> TAKE x \in Desks, r \in Bookings
  <2>1. owed[x][r] <= Len(statusLog[r]) BY DEF LDInv, NewsIsTrue
  <2>2. Len(statusLog[r]) \in Nat BY LogTyped DEF LDInv
  <2>3. owed'[x] \in {owed[x], none} BY <1>6, <1>7
  <2> QED BY <1>5, <2>1, <2>2, <2>3
<1>10. NewsIsTrue' BY <1>9 DEF LDInv, NewsIsTrue
<1>11. ASSUME NEW q \in Lists PROVE EntryOK(cache[d][q]', wire[d]', owed[d]')
  <2>1. EntryOK(cache[d][q], wire[d], owed[d]) BY DEF LDInv, CachesOK
  <2>2. CASE wire[d] > 0
    <3>1. PICK e \in CacheEntries : e = cache[d][q] BY DEF LDInv, LDTypeOK
    <3>2. UpTo(e.seen, none) /\ UpTo(e.answer, none) BY <1>5 DEF UpTo, CacheEntries, Rows
    <3>3. EntryOK(e, 0, none) BY <3>2 DEF EntryOK
    <3>4. cache'[d][q] = e /\ wire'[d] = 0 /\ owed'[d] = none BY <1>1, <1>2, <1>7, <2>2, <3>1
    <3> QED BY <3>3, <3>4
  <2>3. CASE ~(wire[d] > 0)
    <3>1. wire'[d] = wire[d] /\ owed'[d] = owed[d] /\ cache'[d][q] = cache[d][q] BY <1>1, <1>2, <1>7, <2>3
    <3> QED BY <2>1, <3>1
  <2> QED BY <2>2, <2>3
<1>12. CachesOK' BY <1>3, <1>6, <1>11, OneDesk
<1> QED BY <1>8, <1>10, <1>12 DEF LDInv

LEMMA SocketStep ==
  LDInv /\ (\E d \in Desks : ChooseProperty(d) \/ HandleConnection(d) \/ Reconnect(d) \/ LeaveProperty(d))
    => LDInv'
<1> SUFFICES ASSUME LDInv, NEW d \in Desks,
                    ChooseProperty(d) \/ HandleConnection(d) \/ Reconnect(d) \/ LeaveProperty(d)
             PROVE  LDInv'
  OBVIOUS
<1> DEFINE S == {"off", "asking", "joined", "rejected", "outside"}
<1>1. sock \in [Desks -> S] /\ page \in [Desks -> Pages \cup {"none"}] /\ call \in [Callers -> Calls]
  BY DEF LDInv, LDTypeOK
<1>2. ASSUME NEW s \in S, sock' = [sock EXCEPT ![d] = s], UNCHANGED <<statusLog, call, browser, wire, auth, owed>>
      PROVE  LDInv'
  <2>1. sock' \in [Desks -> S] BY <1>1, <1>2
  <2>2. UNCHANGED <<statusLog, call, page, cache, wire, auth, owed>> BY <1>2 DEF browser
  <2>3. LDTypeOK' BY <2>1, <2>2 DEF LDInv, LDTypeOK
  <2>4. NewsIsTrue' BY <2>2 DEF LDInv, NewsIsTrue
  <2>5. CachesOK' BY <2>2 DEF LDInv, CachesOK
  <2> QED BY <2>3, <2>4, <2>5 DEF LDInv
<1>3. CASE ChooseProperty(d) BY <1>2, <1>3 DEF ChooseProperty
<1>4. CASE HandleConnection(d)
  <2>1. PICK s \in S : s = IF auth THEN "rejected" ELSE "joined" OBVIOUS
  <2>2. sock' = [sock EXCEPT ![d] = s] /\ UNCHANGED <<statusLog, call, browser, wire, auth, owed>>
    BY <1>4, <2>1 DEF HandleConnection
  <2> QED BY <1>2, <2>2
<1>5. CASE Reconnect(d)
  <2>1. sock' \in [Desks -> S] BY <1>1, <1>5 DEF Reconnect
  <2>2. Forget(d) /\ UNCHANGED <<statusLog, call, cache, auth>> /\ UNCHANGED page BY <1>5 DEF Reconnect, browser
  <2> QED BY <1>1, <2>1, <2>2, ForgetStep
<1>6. CASE LeaveProperty(d)
  <2>1. sock' \in [Desks -> S] /\ page' \in [Desks -> Pages \cup {"none"}] BY <1>1, <1>6 DEF LeaveProperty
  <2>2. Forget(d) /\ UNCHANGED <<statusLog, call, cache, auth>> BY <1>6 DEF LeaveProperty
  <2> QED BY <2>1, <2>2, ForgetStep
<1> QED BY <1>3, <1>4, <1>5, <1>6

LEMMA DesksNext ==
  ASSUME Wildcard = TRUE
  PROVE  LDInv /\ [LDNext]_ldVars => LDInv'
<1> SUFFICES ASSUME LDInv, [LDNext]_ldVars PROVE LDInv'
  OBVIOUS
<1>1. CASE UNCHANGED ldVars
  BY <1>1 DEF ldVars, LDInv, LDTypeOK, NewsIsTrue, CachesOK
<1>2. CASE Server
  BY <1>2, ServeStep, EmitStep, FailStep, CallApiStep, AuditStep DEF Server
<1>3. CASE \E d \in Desks : Desk(d)
  BY <1>3, PressStep, OpenStep, AnswerStep, ReceiveStep, FailQueryStep, FocusStep, ReplyStep, SocketStep,
     DeliverStep DEF Desk
<1> QED BY <1>1, <1>2, <1>3 DEF LDNext

\* A debt of nothing can be met by everybody, and a row that has never been seen is shown by
\* no list.
LEMMA RestIsCurrent == LDInv => DesksFollow
<1> SUFFICES ASSUME LDInv, NEW d \in Desks, NEW q \in Lists, AtRest(d, q), ~cache[d][q].missed,
                    NEW r \in Bookings
             PROVE  cache[d][q].seen[r] >= owed[d][r]
  BY DEF DesksFollow
<1>1. EntryOK(cache[d][q], wire[d], owed[d]) BY DEF LDInv, CachesOK
<1>2. cache[d][q].seen # Unseen /\ ~cache[d][q].invalid /\ wire[d] = 0 BY DEF AtRest
<1>3. UpTo(cache[d][q].seen, owed[d]) BY <1>1, <1>2 DEF EntryOK
<1> QED BY <1>3 DEF UpTo

\* Where the events are sent, a list that has come to rest is not older than what its desk was
\* told, for any number of desks, rows and lists.
THEOREM DesksInvariant ==
  ASSUME Wildcard = TRUE
  PROVE  LDSpec => []LDInv
<1>1. LDInit => LDInv BY LDInitially
<1>2. LDInv /\ [LDNext]_ldVars => LDInv' BY DesksNext
<1> QED BY <1>1, <1>2, PTL DEF LDSpec

THEOREM DesksAreTold ==
  ASSUME Wildcard = TRUE
  PROVE  LDSpec => []DesksFollow
BY DesksInvariant, RestIsCurrent, PTL
=================================================================================
