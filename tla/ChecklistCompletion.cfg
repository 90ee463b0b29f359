\* One call at a time completes items that depend on each other.
CONSTANTS
  Task = {t1, t2}
  Subtask = {}
  Status = {"PENDING", "COMPLETED"}
  Call = {c1}
  Now = 20000
  MaxDependencies = 1
  Restarts = FALSE
SPECIFICATION Spec
INVARIANTS CompletesAfterDependencies
SYMMETRY Symmetry
CHECK_DEADLOCK FALSE
