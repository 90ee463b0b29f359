\* Two requests on one token while it is created, used, revoked and expires.
CONSTANTS
  Token = {t1}
  Request = {r1, r2}
  LifeTime = 1
  MaxTime = 2
  MaxCalls = 1
SPECIFICATION FairSpec
INVARIANTS TypeOK PassesOnlyValidTokens
PROPERTIES RevokedForGood RefusesOnlyWithReason EndTakesEffect
CHECK_DEADLOCK FALSE
