\* Two upgrades in a row with prop, which may fail or be killed at any step.
CONSTANTS
  NumCalls = 3
  Parent <- ChainParent
  Fn = {"main", "f", "g"}
  FnOf <- OwnFn
  Val <- MCVal
  Safe <- MCSafe
  Versions <- ChainVersions
  Logic = "prop"
  Lang <- MCLang
  MaxUpgrades = 2
SPECIFICATION CycleSpec
\* After the last upgrade nothing happens.
CHECK_DEADLOCK FALSE
INVARIANTS
  CycleTypeOK
  NoForeignSummary
  SummaryIDsRemain
  CleanRunsMissNothing
PROPERTY RightVerdicts
