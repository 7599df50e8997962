SPECIFICATION FairSpec
CONSTANTS
  Keys <- MCKeys
  PageSize = 2
  Caps = {2, 3, 9}
  Modes = {TRUE, FALSE}
  MaxStamp = 2
  MaxFaults = 1
INVARIANTS WalksInFull OnceEach
PROPERTY EveryObjectSeen
