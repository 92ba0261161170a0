SPECIFICATION AuctionSpec
CONSTANTS
  Bidders = {b1, b2}
  Rejecting = {b2}
  Rule = "PriceQuantityId"
  AuctionQuantity = 3
  MinimumDeposit = 2
  PaymentPenalty = 1
  Funds = 4
  Deposits = {2, 4}
  Offers <- MCOffersWithZero
  MaxNextId = 3
  MaxCopies = 1
  Durations = {0, 1}
  MaxTime = 2
INVARIANTS
  AuctionTypeOK
  PaidAsOwed
  EscrowCoversDebts
  ValidBidsStayCovered
  CountersAgree
  ClosingsAgree
PROPERTIES
  FollowsStateGraph
CHECK_DEADLOCK FALSE
