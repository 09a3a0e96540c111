\* A call of a function that is called twice is removed.
CONSTANTS
  NumCalls = 3
  Parent <- MCParent
  Fn = {"main", "g", "f", "h", "start", "init"}
  FnOf <- MCFnOf
  Val <- MCVal
  Safe <- MCSafe
  Versions <- MCVersions
  Logic = "qfuf"
  Lang <- MCLang
  Revisions <- HomonymRevisions
  OldRevisions <- HomonymOld
  NewRevisions <- MCNew
  Entry = "start"
  Initializer = "init"
  NoCall = NoCall
  Depth = 3
SPECIFICATION UpgradeSpec
\* The checker exits when the verdict is reported.
CHECK_DEADLOCK FALSE
INVARIANT VerdictSound
