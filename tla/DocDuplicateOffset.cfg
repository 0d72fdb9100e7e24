SPECIFICATION Spec
CONSTANTS
  MaxFds = 4
  SymFile = {"A"}
  OsEntry = {"x"}
  Size = 2
  SymStdin = TRUE
  SymStdout = FALSE
  MaxFailures = 2
  SaveAllWrites = {TRUE, FALSE}
  Kinds = {"reg"}
  Owned = {TRUE}
  Modes = {{"r", "w"}}
  Counts = {0, 1, 2}
  DirBase = 2
  MaxOff = 3
  MaxOpens = 1
  MaxCalls = 5
  Programs = {{"read", "dup"}}
CHECK_DEADLOCK FALSE
INVARIANT DuplicatesShareOffset
