SPECIFICATION EngineSpec
CONSTANTS
  N = 3
  TotalQuantity = 3
  UInt256Max = 4
  Books <- MCBooks
INVARIANTS
  EngineTypeOK
  ErrorsUnreachable
  SortIsResumable
  AwardsAreRight
CHECK_DEADLOCK FALSE
