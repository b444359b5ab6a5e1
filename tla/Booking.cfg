\* Two handlers, three rows, one type with one room, two nights.
SPECIFICATION Spec
CONSTANTS
  Reservations = {r1, r2, r3}
  RoomTypes = {t1}
  Rooms <- OneRoomEach
  OverbookingPct = 5
  LastNight = 1
  Requests = {q1, q2}
  External = {e1}
  NoExternal = NoExternal
  FieldSets <- OneDateOrAll
  MaxStarts = 4
SYMMETRY Symmetry
INVARIANTS
  OversellingIsBounded
  DuplicatesAreBounded
CHECK_DEADLOCK FALSE
