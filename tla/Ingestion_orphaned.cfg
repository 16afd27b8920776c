CONSTANTS
  Wallet = {w1}
  Solana = {}
  Worker = {p1, p2}
  NoWallet = NoWallet
  MaxHeight = 1
  MaxSubmits = 1
  MaxRetries = 0
  RunsFitTTL = TRUE
  ChainAdvances = FALSE
  CommitFirst = FALSE
  PatchActive = FALSE
  Faults = FALSE
  Crashes = FALSE
SPECIFICATION FairSpec
PROPERTY CreatedIsReconstructed
CHECK_DEADLOCK FALSE
