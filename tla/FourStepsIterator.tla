-------------------------- MODULE FourStepsIterator --------------------------
(***************************************************************************)
(* contracts/FourStepsIterator.sol: the paging mechanism that spreads a    *)
(* computation of four steps over many transactions.  Each transaction is  *)
(* one call of _next(): its local variables live in `call' until it        *)
(* returns, and only Return writes the three storage variables.  A call    *)
(* that reverts leaves the storage as it was.                              *)
(*                                                                         *)
(* The four steps are run by the owner (IFourStepsIterable), which is here *)
(* the environment: Reply says what it may answer.                         *)
(***************************************************************************)
EXTENDS Integers

CONSTANTS
  Size,          \* _steps[s].size, for s in 0..3
  Weight,        \* _steps[s].nativeGasWeight
  Cost,          \* _steps[s].unitFheGasCost
  FheGasLimit,   \* the FHE gas of one transaction, 10_000_000 in the source
  UInt32Max,     \* the largest uint32
  Iters          \* the values of the parameter iter

StepIds == 0..3

\* _initializeFourSteps() refuses a step that has a size and no weight.
ASSUME SizeAssumption == Size \in [StepIds -> Nat]
ASSUME WeightAssumption ==
  /\ Weight \in [StepIds -> Nat]
  /\ \A s \in StepIds : Size[s] > 0 => Weight[s] > 0
ASSUME CostAssumption == Cost \in [StepIds -> Nat]
ASSUME LimitsAssumption ==
  FheGasLimit \in Nat \ {0} /\ UInt32Max \in Nat /\ Iters \subseteq Nat

S_NOT_FINISHED == 0
S_FINISHED == 1
E_NOT_ENOUGH_GAS == 2
Codes == {S_NOT_FINISHED, S_FINISHED, E_NOT_ENOUGH_GAS}

VARIABLES
  step,          \* _step
  stepProgress,  \* _stepProgress
  iterProgress,  \* _iterProgress
  lastCode,      \* the code returned by the last call
  pc,            \* "idle" between two transactions, "loop" and "exit" in _next
  call           \* the parameters and local variables of _next

storage == <<step, stepProgress, iterProgress>>
iteratorVars == <<step, stepProgress, iterProgress, lastCode, pc, call>>

NoCall == [request |-> 0, stop |-> 0, iter |-> 0, s |-> 0, p |-> 0,
           gas |-> 0, done |-> 0, code |-> S_NOT_FINISHED]

-----------------------------------------------------------------------------
(* Views *)

\* Mutant of Cumulative: the weights are forgotten.
CumulativeUnits(s) ==
  Size[0] + (IF s >= 1 THEN Size[1] ELSE 0) + (IF s >= 2 THEN Size[2] ELSE 0)
          + (IF s >= 3 THEN Size[3] ELSE 0)

\* _cumulatives[s]: the iterations needed to complete the steps up to s.
Cumulative(s) ==
    Size[0] * Weight[0]
  + (IF s >= 1 THEN Size[1] * Weight[1] ELSE 0)
  + (IF s >= 2 THEN Size[2] * Weight[2] ELSE 0)
  + (IF s >= 3 THEN Size[3] * Weight[3] ELSE 0)

IterProgressMax == Cumulative(3)

Finished == step = 4

-----------------------------------------------------------------------------
(* One call of _next() *)

IteratorInit ==
  /\ step = 0
  /\ stepProgress = 0
  /\ iterProgress = 0
  /\ lastCode = S_NOT_FINISHED
  /\ pc = "idle"
  /\ call = NoCall

\* A transaction calls _next(iter, stop).  A call with _step > stop returns at
\* once and changes nothing.
Call(iter, stop) ==
  /\ pc = "idle"
  /\ step <= stop
  /\ pc' = "loop"
  /\ call' = [request |-> iter, stop |-> stop, iter |-> iter, s |-> step,
              p |-> stepProgress, gas |-> FheGasLimit, done |-> 0,
              code |-> S_NOT_FINISHED]
  /\ UNCHANGED <<step, stepProgress, iterProgress, lastCode>>

InLoop == pc = "loop" /\ call.s < 4 /\ call.s <= call.stop /\ call.gas > 0

Remaining == Size[call.s] - call.p

\* Mutant of AlignedIter: `iter = w' is missing.
UnalignedIter == call.iter

\* A request smaller than the weight of the step is rounded up to one unit.
AlignedIter == IF call.iter < Weight[call.s] THEN Weight[call.s] ELSE call.iter

\* Mutants of Wanted: a request is not rounded up to one unit; a rest smaller than
\* a unit counts as one more unit.
WantedUnaligned ==
  IF call.iter >= Remaining * Weight[call.s] THEN Remaining
  ELSE call.iter \div Weight[call.s]

WantedRoundedUp ==
  IF call.iter >= Remaining * Weight[call.s] THEN Remaining
  ELSE (call.iter + Weight[call.s] - 1) \div Weight[call.s]

\* The units of the current step that the request pays for.
Wanted ==
  IF call.iter < Weight[call.s] THEN 1
  ELSE IF call.iter >= Remaining * Weight[call.s] THEN Remaining
  ELSE call.iter \div Weight[call.s]

\* ... and the units that the FHE gas left in this transaction allows.
Units == IF Wanted * Cost[call.s] > call.gas
         THEN call.gas \div Cost[call.s]
         ELSE Wanted

\* The loop is about to work on a step that is not complete.
AtStep == InLoop /\ Remaining # 0 /\ call.iter # 0

SkipStep ==
  /\ InLoop
  /\ Remaining = 0
  /\ call' = [call EXCEPT !.p = 0, !.s = @ + 1]
  /\ UNCHANGED <<step, stepProgress, iterProgress, lastCode, pc>>

\* i * unitFheGasCost is a checked uint32 product: the transaction reverts.
Overflow ==
  /\ AtStep
  /\ Wanted * Cost[call.s] > UInt32Max
  /\ pc' = "idle"
  /\ call' = NoCall
  /\ UNCHANGED <<step, stepProgress, iterProgress, lastCode>>

\* A transaction may run out of native gas anywhere, whatever the steps do to stop
\* before: it reverts as well.
OutOfGas ==
  /\ pc # "idle"
  /\ pc' = "idle"
  /\ call' = NoCall
  /\ UNCHANGED <<step, stepProgress, iterProgress, lastCode>>

NoFheGasLeft ==
  /\ AtStep
  /\ Wanted * Cost[call.s] <= UInt32Max
  /\ Units = 0
  /\ call' = [call EXCEPT !.iter = AlignedIter, !.gas = 0]
  /\ pc' = "exit"
  /\ UNCHANGED <<step, stepProgress, iterProgress, lastCode>>

\* The owner is asked to run `Units' of the current step.
Asking ==
  /\ AtStep
  /\ Wanted * Cost[call.s] <= UInt32Max
  /\ Units > 0

\* What runStep(progress, iter, size) of the owner may answer: it does all
\* `units' asked for, or fewer when the native gas runs out, and says S_FINISHED
\* exactly when the step is complete.
Reply(units, j, code) ==
  /\ (code = S_FINISHED) <=> (call.p + j = Size[call.s])
  /\ code = S_NOT_FINISHED => j = units

\* Mutant of Work: units are counted instead of iterations.
WorkCountingUnits(j, code) ==
  /\ call' = [call EXCEPT
                !.gas = @ - Units * Cost[call.s],
                !.done = @ + j,
                !.iter = AlignedIter - j * Weight[call.s],
                !.code = code,
                !.p = IF code = S_FINISHED THEN 0 ELSE @ + j,
                !.s = IF code = S_FINISHED THEN @ + 1 ELSE @]
  /\ pc' = IF code = E_NOT_ENOUGH_GAS THEN "exit" ELSE "loop"
  /\ UNCHANGED <<step, stepProgress, iterProgress, lastCode>>

\* The owner has run `j' units of the current step and answered `code'.
Work(j, code) ==
  /\ call' = [call EXCEPT
                !.gas = @ - Units * Cost[call.s],
                !.done = @ + j * Weight[call.s],
                !.iter = AlignedIter - j * Weight[call.s],
                !.code = code,
                !.p = IF code = S_FINISHED THEN 0 ELSE @ + j,
                !.s = IF code = S_FINISHED THEN @ + 1 ELSE @]
  /\ pc' = IF code = E_NOT_ENOUGH_GAS THEN "exit" ELSE "loop"
  /\ UNCHANGED <<step, stepProgress, iterProgress, lastCode>>

\* The owner is asked, and answers as it may.
RunStep(j, code) ==
  /\ Asking
  /\ j \in 0..Units
  /\ Reply(Units, j, code)
  /\ Work(j, code)

\* After the loop: the storage is written and the code decided.
Return ==
  /\ \/ pc = "exit"
     \/ pc = "loop" /\ ~InLoop
     \/ InLoop /\ Remaining # 0 /\ call.iter = 0
  /\ step' = call.s
  /\ stepProgress' = call.p
  /\ iterProgress' = iterProgress + call.done
  /\ lastCode' =
       IF \/ call.iter > 0 /\ call.gas = 0
          \/ call.code = E_NOT_ENOUGH_GAS
       THEN E_NOT_ENOUGH_GAS
       ELSE IF call.s = 4 THEN S_FINISHED ELSE S_NOT_FINISHED
  /\ pc' = "idle"
  /\ call' = NoCall

\* One unit is done in answer to the smallest request.
OneUnitDone == call.request = 1 /\ \E c \in Codes : RunStep(1, c)

RunSomeStep ==
  \E j \in 0..(IF AtStep THEN Units ELSE 0), c \in Codes : RunStep(j, c)

IteratorNext ==
  \/ \E n \in Iters, stop \in StepIds : Call(n, stop)
  \/ SkipStep
  \/ Overflow
  \/ OutOfGas
  \/ NoFheGasLeft
  \/ RunSomeStep
  \/ Return

IteratorSpec == IteratorInit /\ [][IteratorNext]_iteratorVars

\* A transaction that has begun runs to its end; the caller does not give up
\* asking for one more iteration of the whole computation; native gas is not short
\* every time it asks; and it learns to send enough that nothing reverts for lack
\* of it.  The last three are promises of the caller, not of the code: without a
\* caller nothing moves, and a caller that only ever sends pages whose gas product
\* overflows is reverted for ever.
IteratorFairness ==
  /\ WF_iteratorVars(SkipStep \/ Overflow \/ NoFheGasLeft \/ Return)
  /\ WF_iteratorVars(RunSomeStep)
  /\ SF_iteratorVars(Call(1, 3))
  /\ SF_iteratorVars(OneUnitDone)
  /\ <>[][~OutOfGas]_iteratorVars

FairIteratorSpec == IteratorSpec /\ IteratorFairness

-----------------------------------------------------------------------------
(* Properties *)

CallType == [request : Nat, stop : StepIds, iter : Nat, s : 0..4, p : Nat,
             gas : Nat, done : Nat, code : Codes]

\* Types of the storage and of the local variables; nothing that is subtracted
\* in _next() goes below zero (checked arithmetic would revert for ever).
IteratorTypeOK ==
  /\ step \in 0..4
  /\ stepProgress \in Nat
  /\ iterProgress \in Nat
  /\ lastCode \in Codes
  /\ pc \in {"idle", "loop", "exit"}
  /\ call \in CallType

\* The iterations that stand behind "p units of step s".
Completed(s, p) ==
    (IF s > 0 THEN Size[0] * Weight[0] ELSE 0)
  + (IF s > 1 THEN Size[1] * Weight[1] ELSE 0)
  + (IF s > 2 THEN Size[2] * Weight[2] ELSE 0)
  + (IF s > 3 THEN Size[3] * Weight[3] ELSE 0)
  + (IF s < 4 THEN p * Weight[s] ELSE 0)

\* The three storage variables tell one story however the work was paged, gas
\* ran out or transactions reverted: _iterProgress is exactly the number of
\* iterations behind (_step, _stepProgress), also for the values in flight.
ProgressAccounting ==
  /\ iterProgress = Completed(step, stepProgress)
  /\ pc # "idle" => iterProgress + call.done = Completed(call.s, call.p)

\* _stepProgress is a proper part of the current step, so that the debug
\* require()s of _next() never stop the computation, and the owner is never
\* asked for more units than the step has left (what the require()s of
\* FourStepsIteratorMock._runStep demand of the caller).
PartOfStep ==
  /\ step < 4 => (stepProgress = 0 \/ stepProgress < Size[step])
  /\ step = 4 => stepProgress = 0
  /\ AtStep => /\ call.p < Size[call.s]
               /\ call.p + Units <= Size[call.s]
               /\ Units * Cost[call.s] <= call.gas

\* A call does at most the iterations that were requested.  It does more only when
\* the rest of the request was rounded up to one unit of a step: nothing is left
\* of the request then, and the excess is smaller than that unit.
BoundedPage ==
  pc # "idle" =>
    \/ call.done <= call.request
    \/ /\ call.iter = 0
       /\ \E s \in StepIds : s <= call.s /\ call.done < call.request + Weight[s]

\* What a call may do: it stays within its step and within its request.
PagesFit == PartOfStep /\ BoundedPage

\* minIterationsForPrizeAward() and iterProgressMax() are thresholds: between
\* two transactions the steps up to s are complete exactly when iterProgress()
\* has reached the cumulated count of s.
ThresholdsAreExact ==
  pc = "idle" =>
    \A s \in StepIds :
      Size[s] > 0 => (step > s <=> iterProgress >= Cumulative(s))

\* The call that completes the computation says S_FINISHED: an exhausted FHE gas
\* budget never hides the end of the computation from the caller.
EndIsReported == (pc = "idle" /\ Finished) => lastCode = S_FINISHED

\* With a caller that keeps asking, the computation ends: no mixture of paging,
\* rounding and gas limits leaves it stuck.
ComputationFinishes == <>Finished
=============================================================================
