\* One handler at a time, stays of up to two nights.
SPECIFICATION Spec
CONSTANTS
  Reservations = {r1, r2}
  RoomTypes = {t1}
  Rooms <- OneRoomEach
  OverbookingPct = 5
  LastNight = 1
  Requests = {q1}
  External = {}
  NoExternal = NoExternal
  FieldSets <- OneDateOrAll
  MaxStarts = 4
PROPERTIES
  CreatedWithinLimit
CHECK_DEADLOCK FALSE
