SPECIFICATION Spec
CONSTANTS
  MaxStates = 3
  MaxTargets = 2
  Seeds = {}
  MaxForks <- Unlimited
  MaxDepth = 0
  FeatureExtract = FALSE
  MemoryCap = TRUE
  MaxMemoryInhibit = TRUE
  OnlyReplaySeeds = FALSE
  OnlySeed = {FALSE}
  DumpStatesOnHalt = TRUE
  StrictSearcher = TRUE
  Program = {"br"}
INVARIANT SearcherOwnsRemoved
