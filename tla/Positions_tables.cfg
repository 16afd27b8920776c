CONSTANTS
  Wallet = {a, b}
  Worker = {p1, p2}
  NoWallet = NoWallet
  NoId = NoId
  Amount = {1, 2}
  MaxLots = 3
  MaxRuns = 3
  Address = {x, y}
  Overlap = FALSE
  SameBlock = FALSE
SYMMETRY Symmetry
SPECIFICATION Spec
INVARIANTS TypeOK LinksResolve LinkedToOwner AmountIsChronological LotsAgreeWithPosition
CHECK_DEADLOCK FALSE
