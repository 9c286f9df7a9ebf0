SPECIFICATION Spec
CONSTANTS
  Versions <- StableVersions
  Broken = broken
INVARIANTS ListRight CrashCause
CHECK_DEADLOCK FALSE
