SPECIFICATION Spec
CONSTANTS
  Int8 = 2
  MaxMatches = 1
  ConstArrayOpt = TRUE
  RewriteEqualities = TRUE
  LongBits = 6
  Cell = {0, 1}
  Cells = {0, 1}
  CellValue <- ByteValues
  Meaning <- Eval
  ValueUnder <- EvaluatedTo
  Constant <- IsConst
  ConstantValue <- ValueOf
  Width <- WidthOf
  Falsehood <- False
  Negation <- createIsZero
  Simplified <- simplifyExpr
  ReadSet <- IndependentElementSet
  TheArray <- Symbolic
  EqualTo <- CreateEqualTo
  UpTo <- CreateUpTo
  FitsIn <- CreateFitsIn
  Highest <- Ones
  Propagate <- Propagated
  Refutes <- AssignmentWrong
  OtherThan <- CreateOtherThan
  Instance <- InstanceQuery
  Ask <- AskLayers
  Programs <- SomePrograms
  Solver <- TimingSolver
  Chains <- SomeChains
  Constrained <- addConstraint
  MaxConditions = 2
  MaxQuestions = 2
  FastRanges = FALSE
INVARIANT PathKept
INVARIANT AnswersRight
INVARIANT CachesRight
INVARIANT OnlyCoreFails
CHECK_DEADLOCK FALSE
