SPECIFICATION Spec
CONSTANTS
  BufLen = 3
INVARIANTS WaitsForInput PastedOnly
PROPERTIES KeysInOrder GoneLeaves
CHECK_DEADLOCK FALSE
