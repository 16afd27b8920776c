CONSTANTS
  v1 = v1
  m1 = m1
  a1 = a1
  a2 = a2
  Worker = {p1, p2}
  RunsFitTTL = TRUE
  Asset = {a1, a2}
  Held = {a1}
  Batch = 1
  MaxTime = 2
  Past <- MCPast
  Vault = {v1, m1}
  ChainOf <- MCChainOf
  Market = {m1}
  Served = {v1, m1}
  Odd = {m1}
  EventLabel <- MCEventLabel
  Kinds = {"prices", "backfill", "vaults"}
SPECIFICATION FairSpec
INVARIANTS TypeOK CacheNotBehindUpdates PricesAreOnRecord
PROPERTIES PricesComeBack SwitchedOffStaysOff ServedVaultIsMeasured
CHECK_DEADLOCK FALSE
