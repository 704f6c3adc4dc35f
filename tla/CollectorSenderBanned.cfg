SPECIFICATION Spec
CONSTANTS
  m = m
  x = x
  y = y
  NoKey = NoKey
  IPs <- MCIPs
  Flows <- OneWay
  Bucket <- OneWayBucket
  Filtering = FALSE
  Monitored = {m}
  MapSize = 1
  MaxCredit = 3
  BanRx = 1
  BanTx = 0
  MaxStrays = 0
  MaxPackets = 6
INVARIANT RxBanMeansReceiving
