SPECIFICATION Spec
CONSTANTS
  State = {a, b, c}
  Null = Null
  MaxAdded = 2
  Configs <- DefaultDeepening
INVARIANT NoFault
