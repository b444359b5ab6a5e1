\* Two deliveries, two overlapping scans, a fault.
SPECIFICATION Spec
CONSTANTS
  Deliveries = {d1, d2}
  Workers = {w1, w2}
  MaxAttempts = 2
  MaxFaults = 1
INVARIANTS
  DeliveredWasAccepted
  NoEarlyGivingUp
PROPERTIES
  EveryDeliverySettles
CHECK_DEADLOCK FALSE
