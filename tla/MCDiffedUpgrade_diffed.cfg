\* Every function is called once: diff and validation of every pair of revisions.
CONSTANTS
  NumCalls = 3
  Parent <- MCParent
  Fn = {"main", "g", "f", "h", "start", "init"}
  FnOf <- MCFnOf
  Val <- MCVal
  Safe <- MCSafe
  Versions <- MCVersions
  Logic = "qfuf"
  Lang <- MCLang
  Revisions <- MCRevisions
  OldRevisions <- MCOld
  NewRevisions <- MCNew
  Entry = "start"
  Initializer = "init"
  NoCall = NoCall
  Depth = 3
SPECIFICATION UpgradeSpec
\* The checker exits when the verdict is reported.
CHECK_DEADLOCK FALSE
INVARIANTS
  VerdictSound
  VerdictExact
  IdenticalIsSafe
PROPERTY DiffKeepsProof
