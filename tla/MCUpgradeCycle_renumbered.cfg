\* With the SMT logics a summary file that has gaps is numbered anew when it is read.
CONSTANTS
  NumCalls = 3
  Parent <- ChainParent
  Fn = {"main", "f", "g"}
  FnOf <- OwnFn
  Val <- MCVal
  Safe <- MCSafe
  Versions <- ChainVersions
  Logic = "qfuf"
  Lang <- MCLang
  MaxUpgrades = 2
SPECIFICATION CycleSpec
CHECK_DEADLOCK FALSE
INVARIANT SummaryIDsRemain
