SPECIFICATION Spec
CONSTANTS
  State = {a, b, c}
  Null = Null
  Inst = {i1}
  Condition <- Conditions
  Term <- Terms
  Indices = {0, 1}
  Cores <- AllCores
  SgsIndex = 0
  Rewards = {1, 2}
  Sampling = FALSE
  OnlyOutputStatesCoveringNew = TRUE
  MaxCost = 1
  MaxBranches = 2
SYMMETRY Symmetry
INVARIANT VectorsRight
INVARIANT HiddenIsHistory
