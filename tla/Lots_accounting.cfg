CONSTANTS
  Amount = {0, 1, 2}
  Price = {1, 3}
  NoPrice = NoPrice
  MaxRows = 4
  Scale = 840
SPECIFICATION Spec
INVARIANTS FifoOldestFirst RemainingIsReplay CurrentIsFlow FifoConservesPnl MethodsAgreeOnOnePrice
CHECK_DEADLOCK FALSE
