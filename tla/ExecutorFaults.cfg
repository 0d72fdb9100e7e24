SPECIFICATION FairSpec
CONSTANTS
  MaxStates = 4
  MaxTargets = 2
  Seeds = {k1, k2}
  k1 = k1
  k2 = k2
  MaxForks <- Unlimited
  MaxDepth = 2
  FeatureExtract = FALSE
  MemoryCap = TRUE
  MaxMemoryInhibit = TRUE
  OnlyReplaySeeds = TRUE
  OnlySeed = {TRUE, FALSE}
  DumpStatesOnHalt = TRUE
  StrictSearcher = FALSE
  Program = {"br", "switch", "indirectbr", "illegalLabel", "call",
             "illegalFunction", "invoke", "mem", "alloc", "free"}
INVARIANT SeedsHaveOneOwner
PROPERTY SeedsNotLost
PROPERTY HaltEnds
