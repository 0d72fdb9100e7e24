SPECIFICATION Spec
CONSTANTS
  Structures = {"tree", "pdf", "sets", "streams", "distances"}
  MaxNodes = 24
  MaxItems = 5
  Key = {1, 2, 3, 4}
  Tree = {a, b}
  Changed = {a}
  Weight = {1, 2}
  Varied = 1
  Element = {1, 2, 3}
  Val = {1, 2}
  MaxOps = 6
  ForkWays = {"fork", "internal"}
  BufferSizes = {1, 2}
  MaxPaths = 3
  MaxBranches = 2
  MaxFrames = 3
INVARIANT TreesRight
INVARIANT ChoicesRight
INVARIANT SetsRight
INVARIANT StreamsRight
INVARIANT DistancesRight
CHECK_DEADLOCK FALSE
