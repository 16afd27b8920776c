CONSTANTS
  Wallet = {w1}
  Solana = {}
  Worker = {p1, p2}
  NoWallet = NoWallet
  MaxHeight = 1
  MaxSubmits = 2
  MaxRetries = 1
  RunsFitTTL = TRUE
  ChainAdvances = TRUE
  CommitFirst = FALSE
  PatchActive = TRUE
  Faults = TRUE
  Crashes = TRUE
SYMMETRY Symmetry
SPECIFICATION Spec
INVARIANTS TypeOK ReconExclusive SyncExclusive EventsCoveredByCheckpoint
PROPERTY ImplementsLedger
CHECK_DEADLOCK FALSE
