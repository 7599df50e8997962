SPECIFICATION Spec
CONSTANTS
  l1 = l1
  l2 = l2
  l3 = l3
  Logs <- MCLogs
  Batch = 2
  Lookback = 1
  Interval = 2
  MaxLag = 2
  Never = Never
  MaxClock = 7
  MaxFaults = 1
INVARIANTS NeverTwice NoneSkipped
CHECK_DEADLOCK FALSE
