SPECIFICATION Spec
CONSTANTS
  a = a
  b = b
  IPs = {a, b}
  BanTime = 1
  Script = "checking"
  Prompt = TRUE
  MaxLaunches = 3
  MaxRestarts = 1
  MaxFailures = 1
SYMMETRY Symmetry
INVARIANTS LaunchesAlternate SingleRule NoRuleLeft
