CONSTANTS
  Accounts = {a1, a2}
  NoAccount = NoAccount
  Clients = {c1, c2}
  Readers = {h1}
  Amounts <- MCAmounts
  MaxInt = 3
  Limit = 1
  Offsets = {0, 1}
  ClockSteps <- MCMovesOn
  MaxClock = 4
  MaxRows = 5
  DBFaults = TRUE
  Crashes = TRUE
SPECIFICATION Spec
SYMMETRY Symmetry
INVARIANTS
  TypeOK
  LedgerExact
  HistoryForward
PROPERTY Promise
