SPECIFICATION Spec
CONSTANTS
  m = m
  x = x
  y = y
  NoKey = NoKey
  IPs <- MCIPs
  Flows <- Crossing
  Bucket <- CrossingBucket
  Filtering = TRUE
  Monitored = {m}
  MapSize = 2
  MaxCredit = 2
  BanRx = 1
  BanTx = 1
  MaxStrays = 1
  MaxPackets = 5
INVARIANTS TypeOK NoOverReport ExactWhenIntact CompletePass BanMatchesTraffic RxMeansReceived
PROPERTY NoMissedBan
