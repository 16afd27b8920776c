CONSTANTS
  v1 = v1
  m1 = m1
  a1 = a1
  a2 = a2
  Worker = {p1, p2}
  RunsFitTTL = TRUE
  Asset = {a1, a2}
  Held = {a1}
  Batch = 1
  MaxTime = 2
  Past <- MCPast
  Vault = {v1, m1}
  ChainOf <- MCChainOf
  Market = {m1}
  Served = {v1, m1}
  Odd = {}
  EventLabel <- MCEventLabel
  Kinds = {"vaults"}
SPECIFICATION FairSpec
PROPERTIES TrackedIsMeasured
CHECK_DEADLOCK FALSE
