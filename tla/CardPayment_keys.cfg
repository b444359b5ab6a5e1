\* Two partial refunds of the same amount after a first one.
SPECIFICATION MCSpec
CONSTANTS
  Requests = {q1, q2}
  Amount = 4
  Webhooks = FALSE
  Instapay = FALSE
  Stops = FALSE
INVARIANTS
  BookedRefundsWereMade
CHECK_DEADLOCK FALSE
