\* One handler at a time on one folio: a charge, its payment, and a refund.
SPECIFICATION Spec
CONSTANTS
  Folios = {1}
  Requests = {q1}
  NoRequest = NoRequest
  Amounts = {2}
  MaxStarts = 2
INVARIANTS
  BalanceIsWhatIsOwed
CHECK_DEADLOCK FALSE
