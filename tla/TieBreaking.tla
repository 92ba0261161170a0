---------------------------- MODULE TieBreaking ----------------------------
(***************************************************************************)
(* The order in which bids are served, one per deployed tie-breaking rule  *)
(* (the ebool i_gt_c of _rankFromIdxToIdx in FHEAuctionEnginePriceId,      *)
(* ...PriceQuantityId and ...PriceRandom), and what a single-price auction *)
(* owes to a set of bids ranked in such an order.                          *)
(*                                                                         *)
(* A bid is a record with the fields price, quantity, id and rand.         *)
(***************************************************************************)
EXTENDS Integers, FiniteSetsExt

Rules == {"PriceId", "PriceQuantityId", "PriceRandom"}

BeatsByPriceId(a, b) ==
  \/ a.price > b.price
  \/ a.price = b.price /\ a.id < b.id

BeatsByPriceQuantityId(a, b) ==
  \/ a.price > b.price
  \/ a.price = b.price /\ a.quantity > b.quantity
  \/ a.price = b.price /\ a.quantity = b.quantity /\ a.id < b.id

BeatsByPriceRandom(a, b) ==
  \/ a.price > b.price
  \/ a.price = b.price /\ a.rand < b.rand

Beats(rule, a, b) ==
  \/ rule = "PriceId" /\ BeatsByPriceId(a, b)
  \/ rule = "PriceQuantityId" /\ BeatsByPriceQuantityId(a, b)
  \/ rule = "PriceRandom" /\ BeatsByPriceRandom(a, b)

-----------------------------------------------------------------------------
(* The reference: a function `bids' from indices to bids, Q for sale. *)

\* The quantity wanted by the bids that are served before bid i.
Ahead(rule, bids, i) ==
  SumFunctionOnSet([j \in DOMAIN bids |-> bids[j].quantity],
                   {j \in DOMAIN bids : Beats(rule, bids[j], bids[i])})

Lesser(a, b) == IF a < b THEN a ELSE b

\* What bid i wins: what is left for it, at most what it asks for.
Won(rule, bids, Q, i) ==
  LET ahead == Ahead(rule, bids, i)
  IN  IF ahead < Q THEN Lesser(Q - ahead, bids[i].quantity) ELSE 0

Winners(rule, bids, Q) == {i \in DOMAIN bids : Won(rule, bids, Q, i) > 0}

\* Everybody pays the price of the lowest winning bid.
SinglePrice(rule, bids, Q) ==
  LET prices == {bids[i].price : i \in Winners(rule, bids, Q)}
  IN  IF prices = {} THEN 0 ELSE Min(prices)
=============================================================================
