SPECIFICATION FairSpec
CONSTANTS
  c1 = c1
  c2 = c2
  running = running
  abnormal = abnormal
  Clusters <- MCClusters
  Signatures <- MCSignatures
  Counts = {1, 2}
  None = None
  Modes = {TRUE, FALSE}
  MaxChanges = 3
  MaxFaults = 1
INVARIANTS EventsAreChained
PROPERTY EveryStateSeen
