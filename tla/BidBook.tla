------------------------------ MODULE BidBook ------------------------------
(***************************************************************************)
(* What the bid storage of FHEAuctionEngine.sol promises to the auction:   *)
(* a book with at most one bid per bidder, into which bids are entered and *)
(* from which they are taken out until it is closed, without any other bid *)
(* being touched.  BidRegistry.tla is shown to implement it.               *)
(***************************************************************************)
CONSTANTS Bidders, Bids

VARIABLES
  book,    \* the bids in the book, a function from the bidders who have one
  sealed   \* no bid enters or leaves any more

BookInit == book = [b \in {} |-> {}] /\ sealed = FALSE

Enter(bidder, bid) ==
  /\ ~sealed
  /\ bidder \notin DOMAIN book
  /\ book' = [b \in DOMAIN book \cup {bidder} |->
                IF b = bidder THEN bid ELSE book[b]]
  /\ UNCHANGED sealed

Leave(bidder) ==
  /\ ~sealed
  /\ bidder \in DOMAIN book
  /\ book' = [b \in DOMAIN book \ {bidder} |-> book[b]]
  /\ UNCHANGED sealed

Seal == ~sealed /\ sealed' = TRUE /\ UNCHANGED book

BookNext ==
  \/ \E bidder \in Bidders : Leave(bidder) \/ \E bid \in Bids : Enter(bidder, bid)
  \/ Seal

BookSpec == BookInit /\ [][BookNext]_<<book, sealed>>
=============================================================================
