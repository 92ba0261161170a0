--------------------------- MODULE MCAuctionTasks ---------------------------
EXTENDS AuctionTasks, TLC
CONSTANTS b1, b2, alice, bob

\* The cheap bid requires the minimum, the dear one twice as much.
Cheap == [price |-> 1, quantity |-> 2]
Dear == [price |-> 2, quantity |-> 2]
MCOffers == {Cheap, Dear}

\* Started to be stopped, or to end by the clock once the sale is approved.
Starting(flag) == [name |-> "start", duration |-> 1,
                   nonStoppable |-> flag, noApproval |-> flag]
Owning == {Starting(FALSE), Starting(TRUE)} \cup [name : {"stop"}]
Computing(award) ==
  [name : {"compute"}, award : award] \cup [name : {"decrypt-uniform-price"}]

\* Alice owns the auction and bids; Bob bids, does what a worker does, and may
\* cancel Alice's bid for her.
MCCommands ==
  alice :> (Owning
              \cup [name : {"bid"}, bidder : {b1}, offer : {Cheap, Dear}]
              \cup [name : {"approve"}, bidder : {b1}, amount : {1}]
              \cup [name : {"blind-claim"}, bidder : {b1}, forceClaimAgain : BOOLEAN]) @@
  bob :> (Computing({FALSE})
            \cup [name : {"can-bid", "bid"}, bidder : {b2}, offer : {Dear}]
            \cup [name : {"cancel-bid"}, bidder : {b1}]
            \cup [name : {"award"}, rank : {0}]
            \cup [name : {"claim"}, bidder : {b2}])

\* The commands that lead to the payment of everybody by awards.
MCLivenessCommands ==
  alice :> (Owning \cup [name : {"bid"}, bidder : {b1}, offer : {Cheap}]) @@
  bob :> (Computing({TRUE})
            \cup [name : {"bid"}, bidder : {b2}, offer : {Dear}]
            \cup [name : {"award"}, rank : {0, 1}])
=============================================================================
