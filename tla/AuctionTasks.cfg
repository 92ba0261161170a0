SPECIFICATION TasksSpec
CONSTANTS
  b1 = b1
  b2 = b2
  alice = alice
  bob = bob
  Bidders = {b1, b2}
  Rejecting = {}
  Rule = "PriceId"
  AuctionQuantity = 3
  MinimumDeposit = 2
  PaymentPenalty = 1
  Funds = 4
  Deposits = {0, 1, 2, 3, 4}
  Offers <- MCOffers
  MaxNextId = 2
  MaxCopies = 1
  Durations = {1}
  MaxTime = 1
  Terminals = {alice, bob}
  Commands <- MCCommands
  Interruptible = {alice}
  MaximumBidCount = 2
INVARIANTS
  SoleCommandsAreAccepted
  TransactionsAreVerified
  DepositsOnce
CHECK_DEADLOCK FALSE
