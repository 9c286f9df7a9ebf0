SPECIFICATION Spec
CONSTANTS
  Host = {h1, h2}
  Ungranted = ungranted
  MaxHandles = 1
  MaxClients = 1
  MaxFiles = 1
INVARIANTS CrossHostRefused
CHECK_DEADLOCK FALSE
