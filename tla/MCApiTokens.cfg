CONSTANTS
  Tokens = {t1}
  Requests = {r1, r2}
  NoToken = NoToken
  MaxTime = 3
  MaxUses = 3
  Analytics = TRUE
  DBFaults = TRUE
  Crashes = TRUE
SPECIFICATION Spec
SYMMETRY Symmetry
INVARIANTS
  TypeOK
  DeadNeverServed
PROPERTY InactiveForGood
