SPECIFICATION Spec
CONSTANTS
  Structures = {"distances"}
  MaxNodes = 24
  MaxItems = 5
  Key = {1, 2, 3, 4}
  Tree = {a, b}
  Changed = {a}
  Weight = {1, 2}
  Varied = 1
  Element = {1, 2, 3}
  Val = {1, 2}
  MaxOps = 6
  ForkWays = {"fork", "internal"}
  BufferSizes = {1, 2}
  MaxPaths = 3
  MaxBranches = 2
  MaxFrames = 3
INVARIANT CalleesCount
CHECK_DEADLOCK FALSE
