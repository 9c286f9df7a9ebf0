SPECIFICATION FairSpec
CONSTANTS
  Host = {h1, h2}
  Ungranted = ungranted
  MaxHandles = 1
  MaxClients = 2
  MaxFiles = 3
INVARIANTS ActsOnNamedHost NoStray RefsBalanced CleanFilesKept
PROPERTIES EndsClean
CHECK_DEADLOCK FALSE
