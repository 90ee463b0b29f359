\* Three requests of which any one may wait while the others are answered.
CONSTANTS
  c1 = c1
  c2 = c2
  c3 = c3
  a1 = a1
  s1 = s1
  q1 = q1
  Call = {c1, c2, c3}
  Api = {a1, a2}
  Field = {f1}
  Server = {s1, s2}
  Query = {q1,q2}
  TTL = 1
  MaxTime = 2
  MaxWrites = 2
  NoItem = NoItem
SPECIFICATION SpecRegistry
INVARIANTS
  AcknowledgedChangesHold
  AnswersAreRecent
PROPERTIES DeletedApisStayDeleted
CHECK_DEADLOCK FALSE
