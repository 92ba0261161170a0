SPECIFICATION ComputationSpec
CONSTANTS
  N = 3
  BidCount = 3
  OnlyAward = FALSE
  RankCost = 978000
  Size <- EngineSize
  Weight <- EngineWeight
  Cost <- EngineCost
  FheGasLimit = 10000000
  UInt32Max = 2147483647
  Iters <- MCIters
  TotalQuantity = 3
  UInt256Max = 15
  Books <- MCBooks
INVARIANTS EndIsReported StoredResultsAreRight ThresholdsAnnounceResults
PROPERTIES ImplementsIterator StoredResultsAreFinal
CHECK_DEADLOCK FALSE
