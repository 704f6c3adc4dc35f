SPECIFICATION FairSpec
CONSTANTS
  a = a
  b = b
  IPs = {a, b}
  BanTime = 2
  Script = "counting"
  Prompt = TRUE
  MaxLaunches = 5
  MaxRestarts = 0
  MaxFailures = 0
INVARIANT RulesMatch
PROPERTIES ImplementsLease BanEnds EventuallyUnblocked
