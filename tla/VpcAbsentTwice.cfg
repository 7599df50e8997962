SPECIFICATION Spec
CONSTANTS
  t1 = t1
  t2 = t2
  i1 = i1
  i2 = i2
  i3 = i3
  None = None
  Unborn = Unborn
  Gone = Gone
  Ids = {i1, i2, i3}
  Tasks <- MCTasks
  Names <- MCNames
  Attrs <- MCAttrs
  TagKeys <- MCTagKeys
  TagVals <- MCTagVals
  Substring <- MCSubstring
  Limit = 3
  Retries = 1
  Faults <- NoFaults
  Scenarios <- AbsentTwiceScenarios
  Accounts <- FuzzyAccounts
INVARIANT
  SecondDeleteUnchanged
CHECK_DEADLOCK FALSE
