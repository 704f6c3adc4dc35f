SPECIFICATION FairSpec
CONSTANTS
  Rates = {0, 2}
  Min <- MCMin
  Batches = {"b1", "b2"}
  NoBatch = NoBatch
  Conns = {"c1", "c2"}
  NoConn = NoConn
  NoRow = NoRow
  MaxFaults = 2
CHECK_DEADLOCK FALSE
INVARIANTS TypeOK ExportsAgree OneConnection NoNilWrite CrashNeedsFault
PROPERTIES SendersEnd DeliveryResumes
