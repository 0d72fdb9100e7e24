SPECIFICATION FairSpec
CONSTANTS
  State = {a, b, c}
  Handler = {g, h, k}
  Point = {p, q}
  Null = Null
  MaxNesting = 2
  IncompleteModes = {TRUE, FALSE}
  DumpStatesOnHalt = FALSE
  MemoryCap = FALSE
INVARIANT MergeBooksRight
INVARIANT NoFault
PROPERTY ImplementsContract
PROPERTY WaitingEnds
