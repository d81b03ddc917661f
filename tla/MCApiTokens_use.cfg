CONSTANTS
  Tokens = {t1}
  Requests = {r1, r2}
  NoToken = NoToken
  MaxTime = 3
  MaxUses = 2
  Analytics = TRUE
  DBFaults = FALSE
  Crashes = FALSE
SPECIFICATION FairSpec
INVARIANT NoUseLost
PROPERTY ExpiredWhenUsed
