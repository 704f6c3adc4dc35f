SPECIFICATION Spec
CONSTANTS
  m = m
  x = x
  y = y
  IPs <- MCIPs
  Flows <- MCFlows
  Filtering = TRUE
  Monitored = {m}
  CPUs = {1, 2}
  Elems = {"e1", "e2"}
  MaxCredit = 2
CHECK_DEADLOCK FALSE
INVARIANTS TypeOK ExactUnlessDisturbed
PROPERTIES PacketsRefineFlowMap BytesRefineFlowMap
