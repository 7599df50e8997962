SPECIFICATION Spec
CONSTANTS
  t1 = t1
  t2 = t2
  k1 = k1
  k2 = k2
  local = local
  None = None
  Tasks <- MCTasks
  Keys <- MCKeys
  Vals = {"a", "b"}
  System = {local}
  Retries = 1
  Faults <- MCFaults
  Scenarios <- MCScenarios
INVARIANTS
  NeverBare
  UntouchedSurvive
  PlaysAddUp
PROPERTIES
  ReportedIsThere
CHECK_DEADLOCK FALSE
