---------------------- MODULE FHEAuctionEngineIterator ----------------------
(***************************************************************************)
(* contracts/engines/FHEAuctionEngineIterator.sol: the four-step iterator  *)
(* with the sizes and weights of the auction computation for BidCount bids *)
(* and the FHE gas costs that FHEAuctionEngine._close() passes to it.      *)
(***************************************************************************)
EXTENDS FourStepsIterator

CONSTANTS
  BidCount,
  OnlyAward,    \* the auction is claimed blindly: step 4 is empty
  RankCost      \* _rankFheGasCostPerIdx() of the tie-breaking rule

\* Bid validation is linear, ranking compares every pair of bids, won quantities
\* are linear by rank and quadratic by bidder.
EngineSize ==
  [s \in StepIds |->
     CASE s = 0 -> BidCount
       [] s = 1 -> IF BidCount = 0 THEN 0
                   ELSE IF BidCount < 3 THEN 1
                   ELSE (BidCount * (BidCount - 1)) \div 2
       [] s = 2 -> BidCount
       [] s = 3 -> IF OnlyAward THEN 0 ELSE BidCount * BidCount]

EngineWeight ==
  [s \in StepIds |->
     CASE s \in {0, 2} -> 1
       [] s = 1 -> 2
       [] s = 3 -> IF OnlyAward THEN 0 ELSE 1]

\* Mutant of EngineCost: one unit of step 4 takes the FHE gas of a whole
\* transaction.
EngineCostFullTransaction ==
  [s \in StepIds |-> IF s = 3 THEN FheGasLimit ELSE 100000]

EngineCost ==
  [s \in StepIds |->
     CASE s = 0 -> 2456000
       [] s = 1 -> RankCost
       [] s = 2 -> 1469000
       [] s = 3 -> IF OnlyAward THEN 0 ELSE 101000]

\* The parameters of _initializeFourSteps() for the auction, and the cost of a
\* comparison with ties broken by the order of the bids, at random, by quantity.
EngineSteps ==
  /\ BidCount \in Nat /\ OnlyAward \in BOOLEAN
  /\ RankCost \in {978000, 1104000, 1397000}
  /\ Size = EngineSize /\ Weight = EngineWeight /\ Cost = EngineCost
  /\ FheGasLimit = 10000000
=============================================================================
