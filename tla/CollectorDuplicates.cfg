SPECIFICATION Spec
CONSTANTS
  m = m
  x = x
  y = y
  NoKey = NoKey
  IPs <- MCIPs
  Flows <- Churn
  Bucket <- ChurnBucket
  Filtering = TRUE
  Monitored = {m}
  MapSize = 2
  MaxCredit = 2
  BanRx = 1
  BanTx = 0
  MaxStrays = 0
  MaxPackets = 6
INVARIANT BanOnlyOverThreshold
