\* Three calls that tick subtasks of one item off and open them again.
CONSTANTS
  Task = {t1}
  Subtask = {s1, s2}
  Status = {"PENDING", "COMPLETED"}
  Call = {c1, c2, c3}
  Now = 20000
  MaxDependencies = 0
  Restarts = FALSE
SPECIFICATION Spec
PROPERTIES SubtasksReopenOnlyWithReason
SYMMETRY Symmetry
CHECK_DEADLOCK FALSE
