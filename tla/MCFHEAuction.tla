---------------------------- MODULE MCFHEAuction ----------------------------
EXTENDS FHEAuction, TLC

\* A deposit of 2 covers the cheap bid, only one of 4 the dear bid.
MCOffers == {[price |-> 1, quantity |-> 2], [price |-> 2, quantity |-> 2]}

\* With the bid that addBid() makes of a price above the maximum.
MCOffersWithZero == MCOffers \cup {[price |-> 0, quantity |-> 0]}

\* The bidders are interchangeable where all of them accept refunds.
BidderSymmetry == Permutations(Bidders)
=============================================================================
