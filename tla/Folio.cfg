\* Two handlers over two folios, one of them perhaps still to be created.
SPECIFICATION Spec
CONSTANTS
  Folios = {1, 2}
  Requests = {q1, q2}
  NoRequest = NoRequest
  Amounts = {2}
  MaxStarts = 3
SYMMETRY Symmetry
INVARIANTS
  BalanceMatchesRows
  NoWaitCycle
PROPERTIES
  SettledInBalance
CHECK_DEADLOCK FALSE
