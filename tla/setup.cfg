SPECIFICATION FairSpec
CONSTANTS
  Session = {s1, s2}
INVARIANTS StaleBound RefsBalanced RegistrySound
PROPERTIES CleansUp
CHECK_DEADLOCK FALSE
