SPECIFICATION Spec
CONSTANTS
  Handles <- MCHandles
  ForceCleanup = {FALSE}
  Watching = TRUE
  PartialLoss = TRUE
  MaxChanges = 2
  MaxLives = 1
  MaxListErrors = 0
  MaxAddErrors = 0
CHECK_DEADLOCK FALSE
INVARIANT NoDuplicates
