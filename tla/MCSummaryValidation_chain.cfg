\* Three calls in a chain, Houdini on (qflra): the traversal, every repair and every
\* refinement.
CONSTANTS
  NumCalls = 3
  Parent <- ChainParent
  Fn = {"main", "f", "g"}
  FnOf <- OwnFn
  Val <- MCVal
  Safe <- MCSafe
  Versions <- ChainVersions
  Logic = "qflra"
  Lang <- MCLang
SPECIFICATION Spec
\* The checker exits when the verdict is reported.
CHECK_DEADLOCK FALSE
INVARIANTS
  TypeOK
  VerdictSound
  VerdictExact
  SummariesSound
  NoLostSummary
  NodesOwnTheirSummary
  RepairedIsLive
  NoOrphanSummary
PROPERTIES
  SkippedIsSupported
  Terminates
