\* Four tasks, up to four dependencies, repeated and circular ones tried too.
CONSTANTS
  Task = {t1, t2, t3, t4}
  MaxDependencies = 4
SPECIFICATION Spec
INVARIANTS TypeOK Acyclic BothSidesAgree SearchFindsCycles NeverTooLate PassesSettle CriticalPathIsWholeChain
PROPERTIES FinishNeverMovesEarlier
SYMMETRY TaskSymmetry
CHECK_DEADLOCK FALSE
