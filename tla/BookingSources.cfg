\* One reservation, two requests, and both outside cancellers.
SPECIFICATION AllSpec
CONSTANTS
  Reservations = {r1}
  Rooms = {a}
  Requests = {q1, q2}
  NoRoom = NoRoom
  NoReservation = NoReservation
  PatchTargets = {"clean", "vacant_clean", "out_of_order"}
  LateFee = FALSE
SYMMETRY Symmetry
PROPERTIES
  CancelledIsFinal
