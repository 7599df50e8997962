SPECIFICATION FairInventorySpec
CONSTANTS
  a = a
  b = b
  c = c
  d = d
  k1 = k1
  k2 = k2
  None = None
  NoFilter = NoFilter
  Ids <- MCIds
  Clusters <- MCClusters
  Regions = {"gz", "sh"}
  Flat = {"cvm"}
  PageSize = 2
  Filters = {NoFilter, "some"}
  Shows <- MCShows
  Scripts <- MCScripts
  Worlds <- MCWorlds
  Apis <- MCApis
  MaxListChanges = 1
INVARIANTS
  ServedOwn
PROPERTIES
  WalkedInFull
  OneHostEach
  EveryRunEnds
CHECK_DEADLOCK FALSE
