SPECIFICATION AuctionSpec
CONSTANTS
  Bidders = {b1, b2}
  Rejecting = {}
  Rule = "PriceId"
  AuctionQuantity = 3
  MinimumDeposit = 2
  PaymentPenalty = 1
  Funds = 2
  Deposits = {2}
  Offers <- MCOffers
  MaxNextId = 2
  MaxCopies = 1
  Durations = {1}
  MaxTime = 1
INVARIANTS
  DepositWithoutBidIsWithdrawable
CHECK_DEADLOCK FALSE
