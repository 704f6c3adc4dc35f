SPECIFICATION Spec
CONSTANTS
  a = a
  b = b
  IPs = {a, b}
  BanTime = 1
  Script = "checking"
  Prompt = TRUE
  MaxLaunches = 3
  MaxRestarts = 0
  MaxFailures = 0
INVARIANT BannedMeansBlocked
