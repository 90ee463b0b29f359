\* Failing over: what is looked at is not where traffic goes.
CONSTANTS
  Item <- MCItem
  Run = {1, 2}
  Scenario <- MCScenario
SPECIFICATION Spec
INVARIANT TrafficMovesToConfiguredRegion
CHECK_DEADLOCK FALSE
