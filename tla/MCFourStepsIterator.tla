------------------------- MODULE MCFourStepsIterator -------------------------
(* Scaled-down iterator: an empty step, a step of weight 3, a free step, and  *)
(* a page big enough for i * unitFheGasCost to overflow.                      *)
EXTENDS FourStepsIterator
MCSize == [s \in StepIds |-> <<4, 3, 0, 2>>[s + 1]]
MCWeight == [s \in StepIds |-> <<1, 3, 0, 2>>[s + 1]]
MCCost == [s \in StepIds |-> <<2, 3, 1, 0>>[s + 1]]
MCIters == {0, 1, 2, 3, 4, 20}
=============================================================================
