---------------------------- MODULE MCBidRegistry ----------------------------
(* Three bidders, eight ids: every order of bids and cancellations until the  *)
(* ids run out.  Prices around maximumPrice() = 9 \div 3.                     *)
EXTENDS BidRegistry
MCOffers == {[price |-> 4, quantity |-> 5], [price |-> 3, quantity |-> 5],
             [price |-> 2, quantity |-> 0]}
=============================================================================
