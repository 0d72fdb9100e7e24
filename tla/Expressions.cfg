SPECIFICATION Spec
CONSTANTS
  Int8 = 2
  MaxMatches = 1
  ConstArrayOpt = TRUE
  WordBits = 4
  OptimizeDivides = TRUE
  MaxOps = 2
  Late = {"Add", "Sub", "And", "Or", "Eq"}
INVARIANT CreateKeepsMeaning
INVARIANT TermsKeepMeaning
CHECK_DEADLOCK FALSE
