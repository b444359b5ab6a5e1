\* Late departures at a hotel with a late check-out fee.
SPECIFICATION Spec
CONSTANTS
  Reservations = {r1}
  Rooms = {a}
  Requests = {q1, q2}
  NoRoom = NoRoom
  NoReservation = NoReservation
  PatchTargets = {"clean", "vacant_clean", "out_of_order"}
  LateFee = TRUE
INVARIANTS
  OneLateFeePerStay
