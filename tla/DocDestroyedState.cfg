SPECIFICATION Spec
CONSTANTS
  MaxStates = 3
  MaxTargets = 2
  Seeds = {}
  MaxForks <- Unlimited
  MaxDepth = 0
  FeatureExtract = FALSE
  MemoryCap = FALSE
  MaxMemoryInhibit = TRUE
  OnlyReplaySeeds = FALSE
  OnlySeed = {FALSE}
  DumpStatesOnHalt = TRUE
  StrictSearcher = TRUE
  Program = {"call", "invoke", "mem"}
INVARIANT DestroyedStateUntouched
