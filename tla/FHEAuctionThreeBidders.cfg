SPECIFICATION AuctionSpec
CONSTANTS
  Bidders = {b1, b2, b3}
  Rejecting = {}
  Rule = "PriceId"
  AuctionQuantity = 3
  MinimumDeposit = 2
  PaymentPenalty = 1
  Funds = 2
  Deposits = {2}
  Offers <- MCOffers
  MaxNextId = 3
  MaxCopies = 1
  Durations = {1}
  MaxTime = 1
INVARIANTS
  PendingAnswersArePayable
  BlindRanksAreFair
PROPERTIES
  ImplementsSettlement
SYMMETRY BidderSymmetry
CHECK_DEADLOCK FALSE
