SPECIFICATION FairSpec
CONSTANTS
  State = {a, b, c}
  Null = Null
  MaxAdded = 2
  Configs <- SafeConfigs
INVARIANT ListsAgree
INVARIANT CachesUsable
INVARIANT NoFault
PROPERTY ImplementsContract
PROPERTY BFSRunsAll
