\* Every pair of revisions that add, remove, swap or change calls.
CONSTANTS
  Revisions <- MCRevisions
  Entry = "start"
  Initializer = "init"
  NoCall = NoCall
  Depth = 3
SPECIFICATION DiffSpec
\* do_diff returns.
CHECK_DEADLOCK FALSE
INVARIANTS
  DiffTypeOK
  SummariesNotShared
  ResultExact
  CommonIsLongest
