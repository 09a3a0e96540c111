\* Four calls on three levels, two of them of one function, with prop: summaries are
\* read but unknown by id, refined and generated again, up to main.
CONSTANTS
  NumCalls = 4
  Parent <- TreeParent
  Fn = {"main", "f", "g"}
  FnOf <- TreeFn
  Val <- TreeVal
  Safe <- TreeSafe
  Versions <- TreeVersions
  Logic = "prop"
  Lang <- TreeLang
SPECIFICATION Spec
\* The checker exits when the verdict is reported.
CHECK_DEADLOCK FALSE
INVARIANTS
  SummariesSound
  NoLostSummary
PROPERTY RightVerdict
