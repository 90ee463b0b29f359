\* Two calls on two items whose dependencies outlive the process.
CONSTANTS
  Task = {t1, t2}
  Subtask = {}
  Status = {"PENDING"}
  Call = {c1, c2}
  Now = 20000
  MaxDependencies = 3
  Restarts = TRUE
SPECIFICATION Spec
INVARIANTS TypeOK TableAndGraphAgree
SYMMETRY Symmetry
CHECK_DEADLOCK FALSE
