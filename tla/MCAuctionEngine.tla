-------------------------- MODULE MCAuctionEngine --------------------------
(* Three bidders; ids and random numbers in and against the order of indices. *)
EXTENDS AuctionEngine

Offers == {[price |-> 1, quantity |-> 1, balance |-> 4],
           [price |-> 2, quantity |-> 1, balance |-> 2],
           [price |-> 2, quantity |-> 2, balance |-> 4],
           [price |-> 2, quantity |-> 2, balance |-> 3]}

Ids == {<<1, 3, 2>>, <<4, 3, 2>>}
Rands == {<<5, 7, 6>>, <<7, 6, 5>>}

BookOf(offers, ids, rands) ==
  [bids    |-> [i \in Indices |-> [price |-> offers[i].price,
                                   quantity |-> offers[i].quantity,
                                   id |-> ids[i], rand |-> rands[i]]],
   balance |-> [i \in Indices |-> offers[i].balance]]

MCBooks == {BookOf(offers, ids, rands) :
              offers \in [Indices -> Offers], ids \in Ids, rands \in Rands}
=============================================================================
