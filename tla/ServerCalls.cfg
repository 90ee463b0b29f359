\* Three concurrent requests, two minutes and lost answers for the limiter;
\* two invocations of the key function; two publications; three updates of an
\* item.
CONSTANTS
  Request = {r1, r2, r3}
  Limit = 2
  Lossy = TRUE
  MaxMinute = 1
  MaxSent = 5
  Invocation = {i1, i2}
  Api = {a1}
  Publication = {p1, p2}
  MaxCalls = 3
  MaxTotal = 5
  Update = {u1, u2, u3}
  Status = {"PENDING", "COMPLETED"}
  Pending = "PENDING"
  MaxTime = 2
  None = None
SPECIFICATION SpecServerCalls
INVARIANTS
  TypeOK
  GrantedOnce
  RefusedOnlyOverLimit
  AnswersTellWhatHappened
  CountsAddUp
  TimelineAddsUp
PROPERTIES ImplementsQuota
SYMMETRY Symmetry
CHECK_DEADLOCK FALSE
