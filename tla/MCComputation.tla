---------------------------- MODULE MCComputation ----------------------------
(* The auction of three bids, two of them equal but for their ids, with the      *)
(* production gas costs; all bids are covered by their deposits, or all but one. *)
(* Pages of nothing, of one unit, of a few and of everything.                    *)
EXTENDS Computation

MCBids ==
  [i \in 1..N |-> [price |-> <<1, 2, 2>>[i], quantity |-> <<1, 2, 2>>[i],
                   id |-> i, rand |-> <<7, 5, 6>>[i]]]
MCBooks ==
  {[bids |-> MCBids, balance |-> [i \in 1..N |-> b[i]]] :
     b \in {<<4, 4, 4>>, <<4, 3, 4>>, <<0, 4, 4>>}}

MCIters == {0, 1, 3, 30}

\* The constants are those of an auction.
ASSUME EngineSteps
=============================================================================
