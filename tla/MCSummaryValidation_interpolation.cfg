\* The summaries that are left for the next upgrade need not be tree interpolants.
CONSTANTS
  NumCalls = 3
  Parent <- ChainParent
  Fn = {"main", "f", "g"}
  FnOf <- OwnFn
  Val <- MCVal
  Safe <- MCSafe
  Versions <- ChainVersions
  Logic = "qflra"
  Lang <- MCLang
SPECIFICATION Spec
CHECK_DEADLOCK FALSE
INVARIANT TreeInterpolation
