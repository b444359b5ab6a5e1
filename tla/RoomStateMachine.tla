--------------------------- MODULE RoomStateMachine ---------------------------
(***************************************************************************)
(* The housekeeping status graph of a room: the table VALID_TRANSITIONS of *)
(* the room status service.                                                *)
(***************************************************************************)

\* Every status a room row can hold.
RoomStatus ==
  {"vacant_clean", "vacant_dirty", "clean", "inspected", "guest_ready",
   "occupied", "out_of_order", "out_of_service"}

\* The statuses each room status may move to.
RoomTransitions ==
  [ vacant_clean   |-> {"occupied", "out_of_order", "out_of_service"},
    vacant_dirty   |-> {"clean", "out_of_order"},
    clean          |-> {"inspected", "vacant_clean", "out_of_order"},
    inspected      |-> {"guest_ready", "out_of_order"},
    guest_ready    |-> {"occupied", "out_of_order"},
    occupied       |-> {"vacant_dirty"},
    out_of_order   |-> {"vacant_dirty"},
    out_of_service |-> {"vacant_dirty"} ]

\* transitionStatus throws unless this holds of the status it read.
ValidRoomTransition(current, target) == target \in RoomTransitions[current]

\* The statuses in which a room may be assigned or handed over at check-in.
Assignable == {"guest_ready", "vacant_clean"}
=============================================================================
