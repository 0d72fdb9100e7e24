SPECIFICATION Spec
CONSTANTS
  MaxSize = 2
  MaxStates = 2
  MaxObjects = 3
  MaxObjectStates = 5
  MaxOps = 4
  Sizes = {0, 2}
  Alignments = {1}
  Fill = {1}
  SpaceSize = 12
  RedzoneSize = 1
  Modes = {TRUE, FALSE}
  UseConstantArrays = TRUE
  Misuse = {}
INVARIANT ContentsRight
INVARIANT OwnedAlone
INVARIANT ObjectsKept
INVARIANT NoOverlap
INVARIANT ResolutionRight
CHECK_DEADLOCK FALSE
