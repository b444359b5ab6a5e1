\* Stripe, with webhooks, lost answers and handlers that stop.
SPECIFICATION MCSpec
CONSTANTS
  Requests = {q1, q2}
  Amount = 2
  Webhooks = TRUE
  Instapay = FALSE
  Stops = TRUE
SYMMETRY Symmetry
INVARIANTS
  OneClaimAtATime
  ConfirmedStaysCaptured
  LoneRefundsWereMade
CHECK_DEADLOCK FALSE
