SPECIFICATION RegistrySpec
CONSTANTS
  Bidders = {alice, bob, carol}
  NoBidder = NoBidder
  TotalQuantity = 3
  MaxBidCount = 3
  UInt16Max = 9
  UInt256Max = 9
  Offers <- MCOffers
INVARIANTS RegistryTypeOK MappingsMatch ChecksHold
PROPERTIES LaterBidsGetLargerIds ImplementsBook
CHECK_DEADLOCK FALSE
