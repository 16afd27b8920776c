CONSTANTS
  Log <- MCLog
  MaxHeight = 4
  MaxLogs = 1
  NoAnswer = NoAnswer
  Action = {"deposit"}
  MaxTxs = 5
  MaxPages = 2
  Limit = 2
SPECIFICATION Spec
INVARIANTS TypeOK LogsReadOnce RangeIsCovered PagesAdvance SignaturesUnbroken MovementsAreFound EventsInChainOrder
PROPERTIES ImplementsAtomicScan
CHECK_DEADLOCK FALSE
