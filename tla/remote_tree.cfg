SPECIFICATION TreeFairSpec
CONSTANTS
  MaxMeddles = 3
  Name <- MCName
  Place <- MCPlace
  Targets <- MCTargets
  StartTree <- MCStartTree
INVARIANTS TreeTypeOK ErrorHasCause
PROPERTIES OnlyInside SuccessMeansGone Returns
CHECK_DEADLOCK FALSE
