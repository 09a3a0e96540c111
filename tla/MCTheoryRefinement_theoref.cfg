\* One assertion, every heuristic that ends, --custom and --force; the assumptions
\* are encoded exactly.
CONSTANTS
  Symbol <- MCSymbol
  Value <- MCValue
  NoSymbol = NoSymbol
  Equations <- MCEquations
  Terms <- MCTerms
  Options <- MCOptions
SPECIFICATION TheorySpec
\* assertion_holds_smt returns.
CHECK_DEADLOCK FALSE
INVARIANTS
  TheoryTypeOK
  HoldsSound
  FailsExact
  RefinedAreSatisfied
PROPERTIES
  NoneOverlooked
  AnswerGiven
