SPECIFICATION FairSpec
CONSTANTS
  m1 = m1
  m2 = m2
  Messages <- MCMessages
  Modes = {TRUE, FALSE}
  Room = 1
  Failure = Failure
  None = None
  MaxFaults = 2
  MaxCrashes = 1
  MaxSlow = 1
  MaxYields = 3
INVARIANTS YieldedFirst OnlyACrashLoses OncePerTimeout
PROPERTIES EveryMessageYielded Drains
