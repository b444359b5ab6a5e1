\* Two requests in flight over two reservations and one room.
SPECIFICATION Spec
CONSTANTS
  Reservations = {r1, r2}
  Rooms = {a}
  Requests = {q1, q2}
  NoRoom = NoRoom
  NoReservation = NoReservation
  PatchTargets = {"clean", "vacant_clean", "out_of_order"}
  LateFee = FALSE
SYMMETRY Symmetry
INVARIANTS
  StayHasRoom
  AtMostOneAutoFolio
  CheckedOutRoomVacated
  EventsAreTrue
PROPERTIES
  ImplementsLifecycle
  RoomFixedDuringStay
