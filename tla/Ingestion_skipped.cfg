CONSTANTS
  Wallet = {w1}
  Solana = {}
  Worker = {p1, p2}
  NoWallet = NoWallet
  MaxHeight = 2
  MaxSubmits = 1
  MaxRetries = 0
  RunsFitTTL = TRUE
  ChainAdvances = FALSE
  CommitFirst = TRUE
  PatchActive = FALSE
  Faults = FALSE
  Crashes = FALSE
SYMMETRY Symmetry
SPECIFICATION Spec
INVARIANT EventsCoveredByCheckpoint
CHECK_DEADLOCK FALSE
