\* A call by its body, a summary or a stub; definitions, guards, assumptions and
\* assertions that need it or not.
CONSTANTS
  Symbol <- MCSymbol
  Value <- MCValue
  NoSymbol = NoSymbol
  Equations <- MCEquations
SPECIFICATION SliceSpec
\* partitioning_slice returns.
CHECK_DEADLOCK FALSE
INVARIANTS
  SliceTypeOK
  SliceExact
  NothingDangling
PROPERTY SliceEnds
