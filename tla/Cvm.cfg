SPECIFICATION CvmSpec
CONSTANTS
  t1 = t1
  t2 = t2
  None = None
  Tasks <- MCTasks
  MaxId = 5
  Names <- MCNames
  Vals <- MCVals
  Limit = 2
  Retries = 1
  Faults <- MCFaults
  Scenarios <- MCScenarios
  EagerReboot = TRUE
INVARIANTS
  NeverBelowTarget
PROPERTIES
  ExactWhenAlone
  OldestFirst
  SettledWhenReported
CHECK_DEADLOCK FALSE
