\* Three concurrent calls over two windows: resets race, answers are lost.
CONSTANTS
  Caller = {c1, c2, c3}
  Limit = 1
  WindowSize = 1
  Lossy = TRUE
  MaxTime = 3
  MaxSent = 4
SPECIFICATION FairSpec
INVARIANTS TypeOK GrantedOnce
PROPERTIES ImplementsQuota OnlyLateResetsForgetTooEarly EveryCallReturns
CHECK_DEADLOCK FALSE
