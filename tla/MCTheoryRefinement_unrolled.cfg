\* An assertion in a loop that is unrolled twice, with the default options.
CONSTANTS
  Symbol <- MCSymbol
  Value <- MCValue
  NoSymbol = NoSymbol
  Equations <- UnrolledEquations
  Terms <- UnrolledTerms
  Options <- DefaultOptions
SPECIFICATION TheorySpec
\* assertion_holds_smt returns.
CHECK_DEADLOCK FALSE
INVARIANT HoldsSound
