SPECIFICATION FairIteratorSpec
CONSTANTS
  Size <- MCSize
  Weight <- MCWeight
  Cost <- MCCost
  FheGasLimit = 5
  UInt32Max = 7
  Iters <- MCIters
INVARIANTS IteratorTypeOK ProgressAccounting PagesFit
PROPERTY ComputationFinishes
CHECK_DEADLOCK FALSE
