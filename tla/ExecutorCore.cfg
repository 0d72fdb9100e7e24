SPECIFICATION Spec
CONSTANTS
  MaxStates = 5
  MaxTargets = 3
  Seeds = {}
  MaxForks <- Unlimited
  MaxDepth = 3
  FeatureExtract = TRUE
  MemoryCap = FALSE
  MaxMemoryInhibit = TRUE
  OnlyReplaySeeds = FALSE
  OnlySeed = {FALSE}
  DumpStatesOnHalt = TRUE
  StrictSearcher = TRUE
  Program <- PlainProgram
INVARIANT StatesAccounted
INVARIANT TreeMatchesStates
INVARIANT SearcherHoldsStates
INVARIANT NoDanglingPointer
INVARIANT NoFault
