CONSTANTS
  Wallet = {w1, sol}
  Solana = {sol}
  Worker = {p1, p2}
  NoWallet = NoWallet
  MaxHeight = 2
  MaxSubmits = 1
  MaxRetries = 0
  RunsFitTTL = TRUE
  ChainAdvances = FALSE
  CommitFirst = FALSE
  PatchActive = TRUE
  Faults = FALSE
  Crashes = FALSE
SYMMETRY Symmetry
SPECIFICATION Spec
INVARIANTS OneLotPerEvent PipelineExclusive PositionsCoverCheckpoint
PROPERTY CheckpointNeverRegresses
CHECK_DEADLOCK FALSE
