---------------------------- MODULE TaskLifecycle ----------------------------
(***************************************************************************)
(* What housekeeping promises of a task, whatever requests interleave: it  *)
(* walks along one graph, and somebody is responsible for it exactly while *)
(* it is assigned, in progress or waiting for its inspection.              *)
(***************************************************************************)
CONSTANTS Tasks, Housekeepers, NoOne

VARIABLES status, doer

vars == <<status, doer>>

\* housekeeping_tasks.status, and what a row is before and after it exists.
TaskStatus ==
  {"none", "pending", "assigned", "in_progress", "completed", "inspected",
   "skipped", "deleted"}

Init == status = [t \in Tasks |-> "none"] /\ doer = [t \in Tasks |-> NoOne]

Move(t, from, to, by) ==
  /\ status[t] \in from
  /\ status' = [status EXCEPT ![t] = to]
  /\ doer' = [doer EXCEPT ![t] = by]

Create(t) == Move(t, {"none"}, "pending", NoOne)

Assign(t) == \E h \in Housekeepers : Move(t, {"pending"}, "assigned", h)

Unassign(t) == Move(t, {"assigned"}, "pending", NoOne)

Start(t) == Move(t, {"assigned"}, "in_progress", doer[t])

\* A hotel may do without inspections.
Complete(t) == \E to \in {"completed", "inspected"} : Move(t, {"in_progress"}, to, doer[t])

Inspect(t) ==
  \/ Move(t, {"completed"}, "inspected", doer[t])
  \/ Move(t, {"completed"}, "pending", NoOne)

Skip(t) == Move(t, {"pending", "assigned"}, "skipped", doer[t])

Delete(t) == Move(t, TaskStatus \ {"none", "deleted"}, "deleted", doer[t])

\* A step moves one task.
Next ==
  /\ status' # status
  /\ \E t \in Tasks :
       \/ Create(t) \/ Assign(t) \/ Unassign(t) \/ Start(t) \/ Complete(t)
       \/ Inspect(t) \/ Skip(t) \/ Delete(t)

Spec == Init /\ [][Next]_vars
=============================================================================
