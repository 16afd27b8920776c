CONSTANTS
  Wallet = {w1}
  Solana = {}
  Worker = {p1, p2}
  NoWallet = NoWallet
  MaxHeight = 3
  MaxSubmits = 1
  MaxRetries = 0
  RunsFitTTL = TRUE
  ChainAdvances = TRUE
  CommitFirst = TRUE
  PatchActive = FALSE
  Faults = FALSE
  Crashes = FALSE
SPECIFICATION BeatSpec
PROPERTIES CreatedIsReconstructed EventIsIngested
CHECK_DEADLOCK FALSE
