SPECIFICATION FairSpec
CONSTANTS
  Handles <- MCHandles
  ForceCleanup = {TRUE, FALSE}
  Watching = TRUE
  PartialLoss = TRUE
  MaxChanges = 2
  MaxLives = 2
  MaxListErrors = 1
  MaxAddErrors = 1
CHECK_DEADLOCK FALSE
INVARIANTS TypeOK OneAttacher NoDuplicatesAfterWipes PairIsCurrent
PROPERTY EventuallyCollecting
