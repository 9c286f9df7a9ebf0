SPECIFICATION FairSpec
CONSTANTS
  ChanCap = 1
  MaxSessions = 2
  MaxAhead = 1
INVARIANTS StolenBound
PROPERTIES GoneLeaves QuitWorks
CHECK_DEADLOCK FALSE
