\* Revisions with another initial value or jump target are reported as identical.
CONSTANTS
  Revisions <- SilentRevisions
  Entry = "start"
  Initializer = "init"
  NoCall = NoCall
  Depth = 3
SPECIFICATION DiffSpec
CHECK_DEADLOCK FALSE
INVARIANT IdenticalIsIdentical
