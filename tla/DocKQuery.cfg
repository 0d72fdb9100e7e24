SPECIFICATION Spec
CONSTANTS
  Int8 = 2
  WordBits = 4
  OptimizeDivides = FALSE
  Int32 = 4
  MaxMatches = 1
  ConstArrayOpt = FALSE
  printer <- printQuery
  commandParser <- ParseQueryCommand
  scriptOf <- generateOutput
  MinQueryTimeToLog = TRUE
  DumpPartialQueriesEarly = FALSE
  ClearArrayAfterQuery = FALSE
  AnyBytes = TRUE
  MaxWrites = 2
  MaxWork = 3
INVARIANT ReadBack
CHECK_DEADLOCK FALSE
