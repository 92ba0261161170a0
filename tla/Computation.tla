---------------------------- MODULE Computation ----------------------------
(***************************************************************************)
(* FHEAuctionEngine.computeAuctionIterations(): the pages of the iterator, *)
(* in which runStep1 to runStep4 of the engine compute on their storage.   *)
(* A page is one transaction.  The variables of the engine are its storage *)
(* as the transaction in progress sees it; `stored' is what everybody else *)
(* sees, and what is left when the transaction reverts.                    *)
(*                                                                         *)
(* The auction is not claimed blindly only (OnlyAward is FALSE) and has    *)
(* bids: no step is empty, and SkipStep of the iterator has nothing to do. *)
(***************************************************************************)
EXTENDS FHEAuctionEngineIterator

CONSTANTS N, TotalQuantity, UInt256Max, Books  \* as in AuctionEngine

VARIABLES
  rule, balance, bids,
  rankedBids, rankedBidCount, cursorRB, resumeIdxRB,
  rankedWonQuantities, cumulativeQuantity, uniformPrice, wonQuantitiesByRankReady,
  wonQuantities, idxWQ, resumeIdxWQ, quantityWQ, wonQuantitiesByIdReady,
  run,     \* the call of runStep1..4 in progress
  stored   \* the storage between two transactions

\* Where the transaction in progress is.
CurrentStep == IF pc = "idle" THEN step ELSE call.s
CurrentProgress == IF pc = "idle" THEN stepProgress ELSE call.p

Engine == INSTANCE AuctionEngine
            WITH step <- CurrentStep, progress <- CurrentProgress

\* As in AuctionEngine.
ASSUME ComputationAssumption ==
  /\ N \in Nat \ {0}
  /\ TotalQuantity \in Nat \ {0} /\ UInt256Max \in Nat /\ TotalQuantity <= UInt256Max
  /\ \A b \in Books : Engine!IsBook(b)

memory ==
  <<rule, balance, bids, rankedBids, rankedBidCount, cursorRB, resumeIdxRB,
    rankedWonQuantities, cumulativeQuantity, uniformPrice, wonQuantitiesByRankReady,
    wonQuantities, idxWQ, resumeIdxWQ, quantityWQ, wonQuantitiesByIdReady, run>>
computationVars == <<iteratorVars, memory, stored>>

Snapshot ==
  [step |-> CurrentStep, progress |-> CurrentProgress, bids |-> bids,
   rankedBids |-> rankedBids, rankedBidCount |-> rankedBidCount,
   cursorRB |-> cursorRB, resumeIdxRB |-> resumeIdxRB,
   rankedWonQuantities |-> rankedWonQuantities,
   cumulativeQuantity |-> cumulativeQuantity, uniformPrice |-> uniformPrice,
   wonQuantitiesByRankReady |-> wonQuantitiesByRankReady,
   wonQuantities |-> wonQuantities, idxWQ |-> idxWQ, resumeIdxWQ |-> resumeIdxWQ,
   quantityWQ |-> quantityWQ, wonQuantitiesByIdReady |-> wonQuantitiesByIdReady,
   run |-> run]

Restore ==
  /\ UNCHANGED <<rule, balance>>
  /\ bids' = stored.bids
  /\ rankedBids' = stored.rankedBids
  /\ rankedBidCount' = stored.rankedBidCount
  /\ cursorRB' = stored.cursorRB
  /\ resumeIdxRB' = stored.resumeIdxRB
  /\ rankedWonQuantities' = stored.rankedWonQuantities
  /\ cumulativeQuantity' = stored.cumulativeQuantity
  /\ uniformPrice' = stored.uniformPrice
  /\ wonQuantitiesByRankReady' = stored.wonQuantitiesByRankReady
  /\ wonQuantities' = stored.wonQuantities
  /\ idxWQ' = stored.idxWQ
  /\ resumeIdxWQ' = stored.resumeIdxWQ
  /\ quantityWQ' = stored.quantityWQ
  /\ wonQuantitiesByIdReady' = stored.wonQuantitiesByIdReady
  /\ run' = stored.run

ComputationInit ==
  /\ IteratorInit
  /\ Engine!EngineInit
  /\ stored = Snapshot

-----------------------------------------------------------------------------
(* The transaction begins and ends. *)

\* The auction is computed up to the awards by rank, or to the end.
LastSteps == {2, 3}

BeginPage(iter, stop) == Call(iter, stop) /\ UNCHANGED <<memory, stored>>

\* It reverts, for a product that is too large or for lack of gas: all that the engine
\* wrote in it is lost.
RevertPage == (Overflow \/ OutOfGas) /\ Restore /\ UNCHANGED stored

StopPage == NoFheGasLeft /\ UNCHANGED <<memory, stored>>

ReturnPage == Return /\ UNCHANGED memory /\ stored' = Snapshot'

(* The engine is called for the units that the page pays for.  The steps it takes *)
(* until it answers are its own; the iterator files the answer.                   *)

EngineWorks ==
  \/ Engine!RefuseCall
  \/ Engine!BeginCall(Units)
  \/ Engine!ContinueCall

WorkOn ==
  /\ Asking
  /\ UNCHANGED <<iteratorVars, stored>>
  /\ EngineWorks
  /\ run'.pc # "idle"

TakeAnswer ==
  /\ Asking
  /\ \E j \in 0..Size[call.s], code \in Codes :
       /\ Work(j, code)
       /\ EngineWorks
       /\ run'.pc = "idle" /\ run'.count = j /\ run'.code = code
  /\ UNCHANGED stored

ComputationNext ==
  \/ \E n \in Iters, stop \in LastSteps : BeginPage(n, stop)
  \/ RevertPage
  \/ StopPage
  \/ ReturnPage
  \/ WorkOn
  \/ TakeAnswer

ComputationSpec == ComputationInit /\ [][ComputationNext]_computationVars

-----------------------------------------------------------------------------
(* Properties *)

\* The sizes and weights of the auction's steps, as EngineSteps has them.
PagesOfBids ==
  /\ BidCount = N /\ OnlyAward = FALSE
  /\ Size = EngineSize /\ Weight = EngineWeight

Storage ==
  INSTANCE AuctionEngine
  WITH step <- stored.step, progress <- stored.progress,
       bids <- stored.bids, rankedBids <- stored.rankedBids,
       rankedBidCount <- stored.rankedBidCount, cursorRB <- stored.cursorRB,
       resumeIdxRB <- stored.resumeIdxRB,
       rankedWonQuantities <- stored.rankedWonQuantities,
       cumulativeQuantity <- stored.cumulativeQuantity,
       uniformPrice <- stored.uniformPrice,
       wonQuantitiesByRankReady <- stored.wonQuantitiesByRankReady,
       wonQuantities <- stored.wonQuantities, idxWQ <- stored.idxWQ,
       resumeIdxWQ <- stored.resumeIdxWQ, quantityWQ <- stored.quantityWQ,
       wonQuantitiesByIdReady <- stored.wonQuantitiesByIdReady, run <- stored.run

\* The engine answers as the iterator needs it: pages that are computed on the bids
\* are pages of FourStepsIterator, and the require()s of _next() on the answers
\* ("Panic") never fail.
ImplementsIterator == IteratorSpec

\* The iterator asks as the engine needs it: for what is left of the step, so that
\* no index runs past the bids (the debug errors of _runStep1 to _runStep4).
CallsKeepContract ==
  Asking /\ run.pc = "idle" =>
    Units <= Engine!StepSize(CurrentStep) - CurrentProgress

\* What is stored and announced is the result that the definition of the auction
\* gives and can be paid, also when pages revert that had computed more, or had
\* announced results already.
StoredResultsAreRight ==
  Storage!AwardsAreRight /\ Storage!WinnersCanPay

\* ... and stays what it is: the claims that are based on it see no other result
\* after any later page, mined or reverted.
StoredResultsAreFinal == Storage!ReadyResultsAreFinal

\* minIterationsForPrizeAward() and iterProgressMax() are the numbers of iterations
\* at which the results by rank and by id are there: not one page earlier or later.
ThresholdsAnnounceResults ==
  /\ stored.wonQuantitiesByRankReady <=> iterProgress >= Cumulative(2)
  /\ stored.wonQuantitiesByIdReady <=> iterProgress >= IterProgressMax
=============================================================================
