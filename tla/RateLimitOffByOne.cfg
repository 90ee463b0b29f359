\* One call at a time: the call that resets the counter is not counted.
CONSTANTS
  Caller = {c1}
  Limit = 2
  WindowSize = 1
  Lossy = FALSE
  MaxTime = 5
  MaxSent = 8
SPECIFICATION Spec
INVARIANTS LimitPerWindow
CHECK_DEADLOCK FALSE
