SPECIFICATION TokensSpec
CONSTANTS
  deployer = deployer
  alice = alice
  bob = bob
  Signers <- MCSigners
  Terminals = {t1, t2}
  Commands <- MCCommands
  InitialTokens <- MCTokens
  InitialEther <- MCEther
  GasFee = 1
  MaxSafeInteger = 9
INVARIANTS
  SetBalanceSets
  SetMinBalanceReaches
  SoleCommandsFailAtEdgesOnly
SYMMETRY Symmetry
CHECK_DEADLOCK FALSE
