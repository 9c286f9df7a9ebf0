SPECIFICATION Spec
CONSTANTS
  HostCounts <- MCHostCounts
  Capacity <- MCCapacity
INVARIANTS BlanksCause WalkComplete
PROPERTIES CrashCause
CHECK_DEADLOCK FALSE
