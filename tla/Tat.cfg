SPECIFICATION Spec
CONSTANTS
  agent = agent
  root = root
  app = app
  Files <- MCFiles
  Scripts <- MCScripts
  MaxChars = 4
  ChunkCap = 2
  Overhead = 1
  CacheMax = 2
  OutputMax = 2
  FailedCodes = {1}
  Agent = agent
  Root = root
  Users = {app}
INVARIANTS
  RunsAsAsked
  RunsOnce
  NeverTorn
PROPERTIES
  Delivered
CHECK_DEADLOCK FALSE
