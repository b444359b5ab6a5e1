\* One guest and one night, two handlers at the desk, three requests of the desk.
SPECIFICATION FairSpec
CONSTANTS
  Reservations = {r1}
  Dates = {1}
  Requests = {q1, q2}
  MaxStarts = 3
INVARIANTS
  NightChargedOnce
  CompletedRunAccounts
  ReversedOnce

  
CHECK_DEADLOCK FALSE
