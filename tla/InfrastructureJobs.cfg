\* Every job, two items per loop: two failures, or two runs that meet.
CONSTANTS
  Item <- MCItem
  Run = {1, 2}
  Scenario <- MCScenario
SPECIFICATION Spec
INVARIANTS RejectsOnlyWithReason CopiesAreCleanedUp MetricsTellTheOutcome
  TrafficMovesOnlyWithReason LoopsStopOnlyThemselves
CHECK_DEADLOCK FALSE
