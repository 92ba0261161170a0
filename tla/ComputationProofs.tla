-------------------------- MODULE ComputationProofs --------------------------
(***************************************************************************)
(* Proofs about the computation in pages.  The first half is about         *)
(* FourStepsIterator.tla alone, for any four sizes, weights, costs and gas *)
(* limits: the bookkeeping of the paging is exact, and the debug           *)
(* require()s of _next() can never fire; for the sizes and the costs of    *)
(* FHEAuctionEngineIterator.tla, the end of the computation is reported.   *)
(* The second half is about Computation.tla: iterator and engine keep the  *)
(* promises that each relies on, and what is stored is right.              *)
(***************************************************************************)
EXTENDS Computation, TLAPS

-----------------------------------------------------------------------------
(* Arithmetic *)

LEMMA ProductNat ==
  ASSUME NEW a \in Nat, NEW b \in Nat
  PROVE  a * b \in Nat
  OBVIOUS

LEMMA Distributes ==
  ASSUME NEW a \in Nat, NEW b \in Nat, NEW c \in Nat
  PROVE  (a + b) * c = a * c + b * c
  OBVIOUS

LEMMA ProductMonotone ==
  ASSUME NEW a \in Nat, NEW b \in Nat, NEW c \in Nat, a <= b
  PROVE  a * c <= b * c
  OBVIOUS

LEMMA Quotient ==
  ASSUME NEW a \in Nat, NEW b \in Nat, b > 0
  PROVE  a \div b \in Nat /\ (a \div b) * b <= a
  OBVIOUS

LEMMA QuotientBelow ==
  ASSUME NEW a \in Nat, NEW b \in Nat, NEW c \in Nat, b > 0, a < c * b
  PROVE  a \div b < c
  OBVIOUS

-----------------------------------------------------------------------------
(* The inductive invariant *)

\* The locals of a running call point into the current step.
InFlight ==
  pc # "idle" => /\ call.s < 4 => (call.p = 0 \/ call.p < Size[call.s])
                 /\ call.s = 4 => call.p = 0

InStorage == /\ step < 4 => (stepProgress = 0 \/ stepProgress < Size[step])
             /\ step = 4 => stepProgress = 0

IteratorInv == IteratorTypeOK /\ ProgressAccounting /\ InFlight /\ InStorage

\* What the loop asks of the owner stays inside the step, the request and the
\* FHE gas of the transaction.
LEMMA UnitsInRange ==
  ASSUME IteratorTypeOK, InFlight, AtStep
  PROVE  /\ call.s \in StepIds
         /\ call.p < Size[call.s]
         /\ Weight[call.s] \in Nat \ {0}
         /\ Wanted \in Nat \ {0}
         /\ Wanted <= Remaining
         /\ Units \in Nat
         /\ Units <= Remaining
         /\ Units * Cost[call.s] <= call.gas
         /\ AlignedIter \in Nat
         /\ Wanted * Weight[call.s] <= AlignedIter
         /\ Units * Weight[call.s] <= AlignedIter
<1> DEFINE w == Weight[call.s]
           c == Cost[call.s]
           n == Size[call.s]
<1>1. /\ call.s \in StepIds /\ call.p \in Nat /\ call.iter \in Nat \ {0}
      /\ call.gas \in Nat /\ pc # "idle"
  BY DEF IteratorTypeOK, CallType, AtStep, InLoop, StepIds
<1>2. n \in Nat /\ w \in Nat /\ c \in Nat
  BY <1>1, SizeAssumption, WeightAssumption, CostAssumption
<1>3. call.p < n
  BY <1>1, <1>2 DEF InFlight, AtStep, Remaining, StepIds
<1>4. w > 0
  BY <1>1, <1>2, <1>3, WeightAssumption
<1>5. Remaining \in Nat \ {0}
  BY <1>1, <1>2, <1>3 DEF Remaining
<1> HIDE DEF w, c, n
<1>6. Wanted \in Nat \ {0} /\ Wanted <= Remaining
  <2>1. CASE call.iter < w
    BY <2>1, <1>5 DEF Wanted, w
  <2>2. CASE call.iter >= w /\ call.iter >= Remaining * w
    BY <2>2, <1>1, <1>2, <1>5 DEF Wanted, w
  <2>3. CASE call.iter >= w /\ ~(call.iter >= Remaining * w)
    <3>1. Wanted = call.iter \div w
      BY <2>3, <1>1, <1>2 DEF Wanted, w
    <3>2. call.iter \div w \in Nat /\ call.iter \div w < Remaining
      BY <2>3, <1>1, <1>2, <1>4, <1>5, Quotient, QuotientBelow, ProductNat
    <3>3. call.iter \div w > 0
      BY <2>3, <1>1, <1>2, <1>4
    <3> QED
      BY <3>1, <3>2, <3>3, <1>5
  <2> QED
    BY <2>1, <2>2, <2>3, <1>1, <1>2
<1>7. Units \in Nat /\ Units <= Wanted /\ Units * c <= call.gas
  <2>1. CASE Wanted * c > call.gas
    <3>1. c > 0
      BY <2>1, <1>1, <1>2, <1>6
    <3>2. Units = call.gas \div c
      BY <2>1 DEF Units, c
    <3>3. Units \in Nat /\ Units * c <= call.gas
      BY <3>1, <3>2, <1>1, <1>2, Quotient
    <3>4. Units < Wanted
      BY <2>1, <3>1, <3>2, <1>1, <1>2, <1>6, QuotientBelow
    <3> QED
      BY <3>3, <3>4, <1>6
  <2>2. CASE ~(Wanted * c > call.gas)
    <3>1. Units = Wanted
      BY <2>2 DEF Units, c
    <3> QED
      BY <2>2, <3>1, <1>1, <1>2, <1>6, ProductNat
  <2> QED
    BY <2>1, <2>2
<1>8. AlignedIter \in Nat /\ Wanted * w <= AlignedIter
  <2>1. CASE call.iter < w
    BY <2>1, <1>2 DEF AlignedIter, Wanted, w
  <2>2. CASE call.iter >= w /\ call.iter >= Remaining * w
    BY <2>2, <1>1, <1>2, <1>5 DEF AlignedIter, Wanted, w
  <2>3. CASE call.iter >= w /\ ~(call.iter >= Remaining * w)
    <3>1. Wanted = call.iter \div w /\ AlignedIter = call.iter
      BY <2>3, <1>1, <1>2 DEF AlignedIter, Wanted, w
    <3> QED
      BY <3>1, <1>1, <1>2, <1>4, Quotient
  <2> QED
    BY <2>1, <2>2, <2>3, <1>1, <1>2
<1>9. Units * w <= AlignedIter
  <2>1. Units * w <= Wanted * w
    BY <1>2, <1>6, <1>7, ProductMonotone
  <2> QED
    BY <2>1, <1>2, <1>6, <1>7, <1>8, ProductNat
<1> QED
  BY <1>1, <1>2, <1>3, <1>4, <1>5, <1>6, <1>7, <1>8, <1>9 DEF w, c, n

-----------------------------------------------------------------------------
(* How the count of completed iterations grows *)

LEMMA CompletedNat ==
  ASSUME NEW s \in 0..4, NEW p \in Nat
  PROVE  Completed(s, p) \in Nat
<1>1. \A t \in StepIds : Size[t] * Weight[t] \in Nat /\ p * Weight[t] \in Nat
  BY SizeAssumption, WeightAssumption, ProductNat
<1> QED
  BY <1>1 DEF Completed, StepIds

\* j more units of step s.
LEMMA CompletedUnits ==
  ASSUME NEW s \in StepIds, NEW p \in Nat, NEW j \in Nat
  PROVE  Completed(s, p + j) = Completed(s, p) + j * Weight[s]
<1>1. /\ Weight[s] \in Nat
      /\ \A t \in StepIds : Size[t] * Weight[t] \in Nat
  BY SizeAssumption, WeightAssumption, ProductNat
<1>2. (p + j) * Weight[s] = p * Weight[s] + j * Weight[s]
  BY <1>1, Distributes
<1>3. p * Weight[s] \in Nat /\ j * Weight[s] \in Nat
  BY <1>1, ProductNat
<1> DEFINE pw == p * Weight[s]
           jw == j * Weight[s]
           q == (p + j) * Weight[s]
<1>4. pw \in Nat /\ jw \in Nat /\ q = pw + jw
  BY <1>2, <1>3
<1>5. /\ Completed(s, p + j) = Completed(s, 0) - 0 * Weight[s] + q
      /\ Completed(s, p) = Completed(s, 0) - 0 * Weight[s] + pw
  BY <1>1, <1>4 DEF Completed, StepIds
<1>6. Completed(s, 0) \in Nat /\ 0 * Weight[s] = 0
  BY <1>1, CompletedNat DEF StepIds
<1> QED
  BY <1>4, <1>5, <1>6

\* All units of step s are step s + 1 before its first unit.
LEMMA CompletedWhole ==
  ASSUME NEW s \in StepIds
  PROVE  Completed(s, Size[s]) = Completed(s + 1, 0)
<1>1. \A t \in StepIds : Size[t] * Weight[t] \in Nat /\ Weight[t] \in Nat
  BY SizeAssumption, WeightAssumption, ProductNat
<1>2. \A t \in StepIds : 0 * Weight[t] = 0
  BY <1>1
<1> QED
  BY <1>1, <1>2 DEF Completed, StepIds

-----------------------------------------------------------------------------
(* The invariant is inductive *)

LEMMA IteratorInvInit == IteratorInit => IteratorInv
<1> SUFFICES ASSUME IteratorInit PROVE IteratorInv
  OBVIOUS
<1>1. IteratorTypeOK
  BY DEF IteratorInit, IteratorTypeOK, CallType, NoCall, Codes, StepIds, S_NOT_FINISHED
<1>2. Completed(0, 0) = 0
  BY WeightAssumption DEF Completed, StepIds
<1> QED
  BY <1>1, <1>2 DEF IteratorInit, IteratorInv, ProgressAccounting, InFlight,
                    InStorage

LEMMA CallPreserves ==
  ASSUME IteratorInv, NEW n \in Iters, NEW stop \in StepIds, Call(n, stop)
  PROVE  IteratorInv'
<1>1. IteratorTypeOK'
  <2>1. /\ n \in Nat /\ FheGasLimit \in Nat /\ S_NOT_FINISHED \in Codes
        /\ step \in 0..4 /\ stepProgress \in Nat
    BY LimitsAssumption DEF IteratorInv, IteratorTypeOK, Codes
  <2>2. call' \in CallType
    BY <2>1 DEF Call, CallType
  <2> QED
    BY <2>2 DEF IteratorInv, IteratorTypeOK, Call
<1>2. call'.s = step /\ call'.p = stepProgress /\ call'.done = 0
  BY DEF Call
<1>3. Completed(step, stepProgress) \in Nat
  BY CompletedNat DEF IteratorInv, IteratorTypeOK
<1>4. ProgressAccounting'
  BY <1>2, <1>3 DEF IteratorInv, ProgressAccounting, Call, Completed
<1>5. InFlight' /\ InStorage'
  BY <1>2 DEF IteratorInv, InFlight, InStorage, Call
<1> QED
  BY <1>1, <1>4, <1>5 DEF IteratorInv

LEMMA SkipStepPreserves ==
  ASSUME IteratorInv, SkipStep
  PROVE  IteratorInv'
<1>1. call.s \in StepIds /\ call.p \in Nat /\ pc = "loop"
  BY DEF IteratorInv, IteratorTypeOK, CallType, SkipStep, InLoop, StepIds
<1>2. call.p = Size[call.s]
  BY <1>1, SizeAssumption DEF SkipStep, Remaining
<1>3. call' = [call EXCEPT !.p = 0, !.s = call.s + 1]
  BY DEF SkipStep
<1>4. IteratorTypeOK'
  <2>1. call.s + 1 \in 0..4
    BY <1>1 DEF StepIds
  <2>2. call' \in CallType
    BY <1>3, <2>1 DEF IteratorInv, IteratorTypeOK, CallType
  <2> QED
    BY <2>2 DEF IteratorInv, IteratorTypeOK, SkipStep
<1>5. call'.s = call.s + 1 /\ call'.p = 0 /\ call'.done = call.done
  BY <1>3 DEF IteratorInv, IteratorTypeOK, CallType
<1>6. Completed(call.s, call.p) = Completed(call.s + 1, 0)
  BY <1>1, <1>2, CompletedWhole
<1>7. ProgressAccounting'
  BY <1>1, <1>5, <1>6 DEF IteratorInv, ProgressAccounting, SkipStep, Completed
<1>8. InFlight' /\ InStorage'
  BY <1>5 DEF IteratorInv, InFlight, InStorage, SkipStep
<1> QED
  BY <1>4, <1>7, <1>8 DEF IteratorInv

LEMMA RevertPreserves ==
  ASSUME IteratorInv, Overflow \/ OutOfGas
  PROVE  IteratorInv'
<1>1. IteratorTypeOK'
  BY DEF IteratorInv, IteratorTypeOK, CallType, Overflow, OutOfGas, NoCall, Codes,
         StepIds, S_NOT_FINISHED
<1>2. ProgressAccounting' /\ InFlight' /\ InStorage'
  BY DEF IteratorInv, ProgressAccounting, InFlight, InStorage, Overflow,
         OutOfGas, Completed
<1> QED
  BY <1>1, <1>2 DEF IteratorInv

LEMMA NoFheGasLeftPreserves ==
  ASSUME IteratorInv, NoFheGasLeft
  PROVE  IteratorInv'
<1>1. AlignedIter \in Nat
  BY UnitsInRange DEF IteratorInv, NoFheGasLeft
<1>2. call' = [call EXCEPT !.iter = AlignedIter, !.gas = 0]
  BY DEF NoFheGasLeft
<1>3. IteratorTypeOK'
  <2>1. call' \in CallType
    BY <1>1, <1>2 DEF IteratorInv, IteratorTypeOK, CallType
  <2> QED
    BY <2>1 DEF IteratorInv, IteratorTypeOK, NoFheGasLeft
<1>4. call'.s = call.s /\ call'.p = call.p /\ call'.done = call.done
  BY <1>2 DEF IteratorInv, IteratorTypeOK, CallType
<1>5. pc # "idle"
  BY DEF NoFheGasLeft, AtStep, InLoop
<1>6. ProgressAccounting' /\ InFlight' /\ InStorage'
  BY <1>4, <1>5 DEF IteratorInv, ProgressAccounting, InFlight, InStorage,
                    NoFheGasLeft, Completed
<1> QED
  BY <1>3, <1>6 DEF IteratorInv

LEMMA RunStepPreserves ==
  ASSUME IteratorInv, NEW j \in Nat, NEW code \in Codes, RunStep(j, code)
  PROVE  IteratorInv'
<1> DEFINE w == Weight[call.s]
<1>1. AtStep /\ j <= Units /\ pc = "loop" /\ Reply(Units, j, code)
  BY DEF RunStep, Work, Asking, AtStep, InLoop, IteratorInv, IteratorTypeOK, CallType
<1>2. /\ call.s \in StepIds /\ call.p < Size[call.s] /\ w \in Nat \ {0}
      /\ Units \in Nat /\ Units <= Remaining
      /\ Units * Cost[call.s] <= call.gas
      /\ AlignedIter \in Nat /\ Units * w <= AlignedIter
  BY <1>1, UnitsInRange DEF IteratorInv
<1>3. /\ Size[call.s] \in Nat /\ Cost[call.s] \in Nat /\ call.p \in Nat
      /\ call.gas \in Nat /\ call.done \in Nat
  BY <1>2, SizeAssumption, CostAssumption DEF IteratorInv, IteratorTypeOK, CallType
<1>4. j * w \in Nat /\ j * w <= AlignedIter /\ Units * Cost[call.s] \in Nat
  <2>1. j * w <= Units * w /\ j * w \in Nat /\ Units * w \in Nat
    BY <1>1, <1>2, ProductMonotone, ProductNat
  <2>2. Units * Cost[call.s] \in Nat
    BY <1>2, <1>3, ProductNat
  <2> QED
    BY <2>1, <2>2, <1>2
<1> DEFINE jw == j * w
           uc == Units * Cost[call.s]
           newP == IF code = S_FINISHED THEN 0 ELSE call.p + j
           newS == IF code = S_FINISHED THEN call.s + 1 ELSE call.s
<1>5. jw \in Nat /\ jw <= AlignedIter /\ uc \in Nat /\ uc <= call.gas
  BY <1>2, <1>4
<1>6. call' = [call EXCEPT !.gas = call.gas - uc, !.done = call.done + jw,
                           !.iter = AlignedIter - jw, !.code = code,
                           !.p = newP, !.s = newS]
  BY DEF RunStep, Work, Asking
<1>7. newP \in Nat /\ newS \in 0..4
  BY <1>2, <1>3 DEF StepIds
<1>8. /\ call.done + jw \in Nat /\ call.gas - uc \in Nat
      /\ AlignedIter - jw \in Nat
  BY <1>2, <1>3, <1>5
<1>9. Completed(newS, newP) = Completed(call.s, call.p) + jw
  <2>1. Completed(call.s, call.p + j) = Completed(call.s, call.p) + jw
    BY <1>2, <1>3, CompletedUnits
  <2>2. CASE code = S_FINISHED
    <3>1. call.p + j = Size[call.s]
      BY <2>2, <1>1 DEF Reply
    <3> QED
      BY <2>1, <2>2, <3>1, <1>2, CompletedWhole
  <2>3. CASE code # S_FINISHED
    BY <2>1, <2>3
  <2> QED
    BY <2>2, <2>3
<1>10. /\ newS < 4 => newP = 0 \/ newP < Size[newS]
       /\ newS = 4 => newP = 0
  <2>1. CASE code = S_FINISHED
    BY <2>1
  <2>2. CASE code # S_FINISHED
    <3>1. call.p + j <= Size[call.s] /\ call.p + j # Size[call.s]
      BY <2>2, <1>1, <1>2, <1>3 DEF Reply, Remaining
    <3> QED
      BY <2>2, <3>1, <1>2, <1>3 DEF StepIds
  <2> QED
    BY <2>1, <2>2
<1>11. Completed(call.s, call.p) \in Nat
  <2>1. call.s \in 0..4 /\ call.p \in Nat
    BY <1>2, <1>3 DEF StepIds
  <2> QED
    BY <2>1, CompletedNat
<1> HIDE DEF jw, uc, newP, newS
<1>12. /\ call'.s = newS /\ call'.p = newP /\ call'.done = call.done + jw
       /\ IteratorTypeOK'
  BY <1>6, <1>7, <1>8 DEF IteratorInv, IteratorTypeOK, CallType, RunStep, Work, Asking
<1>13. ProgressAccounting'
  <2>1. /\ iterProgress' = iterProgress /\ step' = step
        /\ stepProgress' = stepProgress /\ iterProgress \in Nat
    BY DEF RunStep, Work, Asking, IteratorInv, IteratorTypeOK, CallType
  <2>2. iterProgress + call.done = Completed(call.s, call.p)
    BY <1>1 DEF IteratorInv, ProgressAccounting
  <2>3. iterProgress + (call.done + jw) = Completed(newS, newP)
    BY <2>1, <2>2, <1>3, <1>5, <1>9, <1>11 DEF jw
  <2> QED
    BY <2>1, <2>3, <1>12 DEF IteratorInv, ProgressAccounting, Completed
<1>14. InFlight' /\ InStorage'
  BY <1>10, <1>12 DEF IteratorInv, InFlight, InStorage, RunStep, Work, Asking
<1> QED
  BY <1>12, <1>13, <1>14 DEF IteratorInv

LEMMA ReturnPreserves ==
  ASSUME IteratorInv, Return
  PROVE  IteratorInv'
<1>1. pc # "idle"
  BY DEF Return, InLoop
<1>2. /\ step' = call.s /\ stepProgress' = call.p /\ pc' = "idle"
      /\ iterProgress' = iterProgress + call.done /\ call' = NoCall
      /\ lastCode' \in Codes
  BY DEF Return, Codes
<1>3. IteratorTypeOK'
  BY <1>2 DEF IteratorInv, IteratorTypeOK, CallType, NoCall, Codes, StepIds,
              S_NOT_FINISHED
<1>4. ProgressAccounting'
  BY <1>1, <1>2 DEF IteratorInv, ProgressAccounting, Completed
<1>5. InFlight' /\ InStorage'
  BY <1>1, <1>2 DEF IteratorInv, InFlight, InStorage
<1> QED
  BY <1>3, <1>4, <1>5 DEF IteratorInv

\* IteratorInv holds in every reachable state.
LEMMA IteratorPreserved == IteratorInv /\ [IteratorNext]_iteratorVars => IteratorInv'
<1> SUFFICES ASSUME IteratorInv, [IteratorNext]_iteratorVars
             PROVE  IteratorInv'
  OBVIOUS
<1>1. ASSUME NEW n \in Iters, NEW stop \in StepIds, Call(n, stop)
      PROVE  IteratorInv'
  BY <1>1, CallPreserves
<1>2. CASE SkipStep
  BY <1>2, SkipStepPreserves
<1>3. CASE Overflow \/ OutOfGas
  BY <1>3, RevertPreserves
<1>4. CASE NoFheGasLeft
  BY <1>4, NoFheGasLeftPreserves
<1>5. CASE RunSomeStep
  <2>1. PICK j \in 0..(IF AtStep THEN Units ELSE 0), c \in Codes :
          RunStep(j, c)
    BY <1>5 DEF RunSomeStep
  <2>2. j \in Nat
    BY <2>1, UnitsInRange DEF IteratorInv
  <2> QED
    BY <2>1, <2>2, RunStepPreserves
<1>6. CASE Return
  BY <1>6, ReturnPreserves
<1>7. CASE UNCHANGED iteratorVars
  BY <1>7 DEF iteratorVars, IteratorInv, IteratorTypeOK, ProgressAccounting,
              InFlight, InStorage, Completed
<1> QED
  BY <1>1, <1>2, <1>3, <1>4, <1>5, <1>6, <1>7 DEF IteratorNext

LEMMA IteratorInvariant == IteratorSpec => []IteratorInv
BY IteratorInvInit, IteratorPreserved, PTL DEF IteratorSpec

-----------------------------------------------------------------------------
(* The size of a page *)

\* What was done and what is left of the request add up to the request, until a
\* rest is rounded up: then that unit ends the page, done or not.
PageInv ==
  pc # "idle" =>
    \/ call.done + call.iter = call.request
    \/ call.done <= call.request /\ pc = "exit"
    \/ /\ call.iter = 0
       /\ \E s \in StepIds : s <= call.s /\ call.done < call.request + Weight[s]

\* The FHE gas can only reduce the one unit that a small rest asks for.
LEMMA RoundedUnit ==
  ASSUME IteratorTypeOK, AtStep, Wanted = 1, call.s \in StepIds, Units \in Nat
  PROVE  Units <= 1
<1>1. Cost[call.s] \in Nat /\ call.gas \in Nat
  BY CostAssumption DEF IteratorTypeOK, CallType, AtStep, InLoop
<1> QED
  BY <1>1 DEF Units

LEMMA RunStepKeepsPage ==
  ASSUME IteratorInv, PageInv, NEW j \in Nat, NEW code \in Codes, RunStep(j, code)
  PROVE  PageInv'
<1> DEFINE w == Weight[call.s]
           jw == j * w
<1>1. AtStep /\ j <= Units /\ pc = "loop" /\ Reply(Units, j, code)
  BY DEF RunStep, Work, Asking, AtStep, InLoop, IteratorInv, IteratorTypeOK, CallType
<1>2. /\ call.s \in StepIds /\ call.p < Size[call.s] /\ w \in Nat \ {0}
      /\ Units \in Nat /\ Wanted \in Nat /\ Units * w <= AlignedIter
      /\ AlignedIter \in Nat
  BY <1>1, UnitsInRange DEF IteratorInv
<1>3. /\ call.p \in Nat /\ Size[call.s] \in Nat /\ call.done \in Nat
      /\ call.request \in Nat /\ call.iter \in Nat \ {0}
  BY <1>1, <1>2, SizeAssumption DEF IteratorInv, IteratorTypeOK, CallType, AtStep
<1>4. jw \in Nat /\ jw <= AlignedIter
  <2>1. jw \in Nat /\ jw <= Units * w /\ Units * w \in Nat
    BY <1>1, <1>2, ProductMonotone, ProductNat
  <2> QED
    BY <2>1, <1>2
<1>5. call.done + call.iter = call.request
  BY <1>1, <1>3 DEF PageInv
<1>6. /\ call'.done = call.done + jw /\ call'.iter = AlignedIter - jw
      /\ call'.request = call.request
      /\ call'.s = IF code = S_FINISHED THEN call.s + 1 ELSE call.s
  BY DEF RunStep, Work, Asking, IteratorInv, IteratorTypeOK, CallType
<1>7. pc' = IF code = E_NOT_ENOUGH_GAS THEN "exit" ELSE "loop"
  BY DEF RunStep, Work, Asking
<1>8. CASE call.iter >= w
  <2>1. AlignedIter = call.iter
    BY <1>8, <1>2, <1>3 DEF AlignedIter
  <2> HIDE DEF jw, w
  <2> QED
    BY <2>1, <1>3, <1>4, <1>5, <1>6 DEF PageInv
<1>9. CASE call.iter < w
  <2>1. AlignedIter = w /\ Wanted = 1
    BY <1>9 DEF AlignedIter, Wanted
  <2>2. Units <= 1
    BY <2>1, <1>1, <1>2, RoundedUnit DEF IteratorInv
  <2>3. CASE j = 0
    <3>1. jw = 0
      BY <2>3, <1>2
    <3>2. code = E_NOT_ENOUGH_GAS
      BY <2>3, <1>1, <1>2, <1>3 DEF Reply, RunStep, Work, Asking, Codes
    <3> QED
      BY <3>1, <3>2, <1>3, <1>5, <1>6, <1>7 DEF PageInv
  <2>4. CASE j = 1
    <3>1. jw = w
      BY <2>4, <1>2
    <3>2. call'.iter = 0
      BY <3>1, <2>1, <1>2, <1>6
    <3>3. call'.done < call'.request + Weight[call.s] /\ call.s <= call'.s
      BY <3>1, <1>2, <1>3, <1>5, <1>6, <1>9 DEF StepIds
    <3> QED
      BY <3>2, <3>3, <1>2 DEF PageInv
  <2> QED
    BY <2>2, <2>3, <2>4, <1>1, <1>2
<1> QED
  BY <1>2, <1>3, <1>8, <1>9

LEMMA PageInvariant == IteratorSpec => []PageInv
<1>1. IteratorInit => PageInv
  BY DEF IteratorInit, PageInv
<1>2. IteratorInv /\ PageInv /\ [IteratorNext]_iteratorVars => PageInv'
  <2> SUFFICES ASSUME IteratorInv, PageInv, [IteratorNext]_iteratorVars
               PROVE  PageInv'
    OBVIOUS
  <2>1. ASSUME NEW n \in Iters, NEW stop \in StepIds, Call(n, stop)
        PROVE  PageInv'
    BY <2>1, LimitsAssumption DEF Call, PageInv
  <2>2. CASE SkipStep
    <3>1. /\ call'.done = call.done /\ call'.iter = call.iter
          /\ call'.request = call.request /\ call'.s = call.s + 1
          /\ pc' = pc /\ pc = "loop" /\ call.s \in StepIds
      BY <2>2 DEF SkipStep, InLoop, IteratorInv, IteratorTypeOK, CallType, StepIds
    <3> QED
      BY <3>1 DEF PageInv, StepIds
  <2>3. CASE Overflow \/ OutOfGas
    BY <2>3 DEF Overflow, OutOfGas, PageInv
  <2>4. CASE NoFheGasLeft
    <3>1. /\ call'.done = call.done /\ call'.request = call.request
          /\ pc' = "exit" /\ pc = "loop" /\ call.iter # 0
          /\ call.done \in Nat /\ call.iter \in Nat /\ call.request \in Nat
      BY <2>4 DEF NoFheGasLeft, AtStep, InLoop, IteratorInv, IteratorTypeOK,
                  CallType
    <3> QED
      BY <3>1 DEF PageInv
  <2>5. CASE RunSomeStep
    <3>1. PICK j \in 0..(IF AtStep THEN Units ELSE 0), c \in Codes :
            RunStep(j, c)
      BY <2>5 DEF RunSomeStep
    <3>2. j \in Nat
      BY <3>1, UnitsInRange DEF IteratorInv
    <3> QED
      BY <3>1, <3>2, RunStepKeepsPage
  <2>6. CASE Return
    BY <2>6 DEF Return, PageInv
  <2>7. CASE UNCHANGED iteratorVars
    BY <2>7 DEF iteratorVars, PageInv
  <2> QED
    BY <2>1, <2>2, <2>3, <2>4, <2>5, <2>6, <2>7 DEF IteratorNext
<1> QED
  BY <1>1, <1>2, IteratorInvariant, PTL DEF IteratorSpec

-----------------------------------------------------------------------------
(* The end of the computation is reported *)

\* The FHE gas of the units behind "p units of step s".
GasBehind(s, p) ==
    (IF s > 0 THEN Size[0] * Cost[0] ELSE 0)
  + (IF s > 1 THEN Size[1] * Cost[1] ELSE 0)
  + (IF s > 2 THEN Size[2] * Cost[2] ELSE 0)
  + (IF s > 3 THEN Size[3] * Cost[3] ELSE 0)
  + (IF s < 4 THEN p * Cost[s] ELSE 0)

\* From no point of the computation does the rest take exactly the FHE gas of one
\* transaction: the call that did it all would have nothing left and say so.
NoExactGas ==
  \A s \in StepIds : \A p \in 0..Size[s] :
    GasBehind(4, 0) # FheGasLimit + GasBehind(s, p)

\* The loop has paid for what it did since the transaction began, and only the
\* loop that goes on can have completed the last step.
GasInv ==
  /\ pc # "idle" => step \in StepIds
  /\ pc = "loop" =>
       /\ call.code # E_NOT_ENOUGH_GAS
       /\ call.gas + GasBehind(call.s, call.p) = FheGasLimit + GasBehind(step, stepProgress)
  /\ pc = "exit" => call.s < 4

LEMMA GasBehindNat ==
  ASSUME NEW s \in 0..4, NEW p \in Nat
  PROVE  GasBehind(s, p) \in Nat
<1>1. \A t \in StepIds : Size[t] * Cost[t] \in Nat /\ p * Cost[t] \in Nat
  BY SizeAssumption, CostAssumption, ProductNat
<1> QED
  BY <1>1 DEF GasBehind, StepIds

\* j more units of step s.
LEMMA GasBehindUnits ==
  ASSUME NEW s \in StepIds, NEW p \in Nat, NEW j \in Nat
  PROVE  GasBehind(s, p + j) = GasBehind(s, p) + j * Cost[s]
<1>1. /\ Cost[s] \in Nat
      /\ \A t \in StepIds : Size[t] * Cost[t] \in Nat
  BY SizeAssumption, CostAssumption, ProductNat
<1>2. (p + j) * Cost[s] = p * Cost[s] + j * Cost[s]
  BY <1>1, Distributes
<1>3. p * Cost[s] \in Nat /\ j * Cost[s] \in Nat
  BY <1>1, ProductNat
<1> DEFINE pc0 == p * Cost[s]
           jc == j * Cost[s]
           q == (p + j) * Cost[s]
<1>4. pc0 \in Nat /\ jc \in Nat /\ q = pc0 + jc
  BY <1>2, <1>3
<1>5. /\ GasBehind(s, p + j) = GasBehind(s, 0) - 0 * Cost[s] + q
      /\ GasBehind(s, p) = GasBehind(s, 0) - 0 * Cost[s] + pc0
  BY <1>1, <1>4 DEF GasBehind, StepIds
<1>6. GasBehind(s, 0) \in Nat /\ 0 * Cost[s] = 0
  BY <1>1, GasBehindNat DEF StepIds
<1> QED
  BY <1>4, <1>5, <1>6

LEMMA GasBehindWhole ==
  ASSUME NEW s \in StepIds
  PROVE  GasBehind(s, Size[s]) = GasBehind(s + 1, 0)
<1>1. \A t \in StepIds : Size[t] * Cost[t] \in Nat /\ Cost[t] \in Nat
  BY SizeAssumption, CostAssumption, ProductNat
<1>2. \A t \in StepIds : 0 * Cost[t] = 0
  BY <1>1
<1> QED
  BY <1>1, <1>2 DEF GasBehind, StepIds

LEMMA RunStepKeepsGas ==
  ASSUME IteratorInv, GasInv, NEW j \in Nat, NEW code \in Codes, RunStep(j, code)
  PROVE  GasInv'
<1>1. AtStep /\ j <= Units /\ pc = "loop" /\ Reply(Units, j, code)
  BY DEF RunStep, Work, Asking, AtStep, InLoop, IteratorInv, IteratorTypeOK, CallType
<1>2. /\ call.s \in StepIds /\ Units \in Nat /\ Units <= Remaining
      /\ Units * Cost[call.s] <= call.gas /\ call.p < Size[call.s]
  BY <1>1, UnitsInRange DEF IteratorInv
<1>3. /\ call.p \in Nat /\ call.gas \in Nat /\ Size[call.s] \in Nat
      /\ Units * Cost[call.s] \in Nat
  BY <1>2, SizeAssumption, CostAssumption, ProductNat
     DEF IteratorInv, IteratorTypeOK, CallType
<1> DEFINE newP == IF code = S_FINISHED THEN 0 ELSE call.p + j
           newS == IF code = S_FINISHED THEN call.s + 1 ELSE call.s
           paid == Units * Cost[call.s]
<1>4. /\ call'.s = newS /\ call'.p = newP /\ call'.gas = call.gas - paid
      /\ call'.code = code
      /\ pc' = IF code = E_NOT_ENOUGH_GAS THEN "exit" ELSE "loop"
      /\ step' = step /\ stepProgress' = stepProgress
  BY DEF RunStep, Work, Asking, IteratorInv, IteratorTypeOK, CallType
<1>5. CASE code = E_NOT_ENOUGH_GAS
  <2>1. call'.s < 4
    BY <1>2, <1>4, <1>5 DEF StepIds, E_NOT_ENOUGH_GAS, S_FINISHED
  <2> QED
    BY <1>1, <1>4, <1>5, <2>1 DEF GasInv
<1>6. CASE code # E_NOT_ENOUGH_GAS
  \* The units that were paid for are the units that were done.
  <2>1. j = Units
    BY <1>1, <1>2, <1>3, <1>6 DEF Reply, Codes, Remaining
  <2>2. GasBehind(call.s, call.p + j) = GasBehind(call.s, call.p) + paid
    BY <1>2, <1>3, <2>1, GasBehindUnits
  <2>3. GasBehind(newS, newP) = GasBehind(call.s, call.p + j)
    <3>1. CASE code = S_FINISHED
      BY <1>1, <1>2, <3>1, GasBehindWhole DEF Reply
    <3>2. CASE code # S_FINISHED
      BY <3>2
    <3> QED
      BY <3>1, <3>2
  <2>4. call.gas + GasBehind(call.s, call.p) = FheGasLimit + GasBehind(step, stepProgress)
    BY <1>1 DEF GasInv
  <2>5. GasBehind(call.s, call.p) \in Nat
    BY <1>2, <1>3, GasBehindNat DEF StepIds
  <2>6. GasBehind(call'.s, call'.p) = GasBehind(call.s, call.p) + paid
    BY <1>4, <2>2, <2>3
  <2>7. call'.gas + GasBehind(call'.s, call'.p) = FheGasLimit + GasBehind(step, stepProgress)
    BY <1>2, <1>3, <1>4, <2>4, <2>5, <2>6
  <2> HIDE DEF newP, newS, paid
  <2> QED
    BY <1>1, <1>4, <1>6, <2>7 DEF GasInv, GasBehind
<1> QED
  BY <1>5, <1>6

LEMMA GasInvariant == IteratorSpec => []GasInv
<1>1. IteratorInit => GasInv
  BY DEF IteratorInit, GasInv
<1>2. IteratorInv /\ GasInv /\ [IteratorNext]_iteratorVars => GasInv'
  <2> SUFFICES ASSUME IteratorInv, GasInv, [IteratorNext]_iteratorVars
               PROVE  GasInv'
    OBVIOUS
  <2>1. ASSUME NEW n \in Iters, NEW stop \in StepIds, Call(n, stop)
        PROVE  GasInv'
    <3>1. step \in StepIds
      BY <2>1 DEF Call, IteratorInv, IteratorTypeOK, StepIds
    <3>2. /\ pc' = "loop" /\ step' = step /\ stepProgress' = stepProgress
          /\ call'.s = step /\ call'.p = stepProgress /\ call'.gas = FheGasLimit
          /\ call'.code = S_NOT_FINISHED
      BY <2>1 DEF Call
    <3> QED
      BY <3>1, <3>2 DEF GasInv, GasBehind, S_NOT_FINISHED, E_NOT_ENOUGH_GAS
  <2>2. CASE SkipStep
    <3>1. /\ call.s \in StepIds /\ call.p = Size[call.s] /\ pc = "loop" /\ pc' = "loop"
      BY <2>2, SizeAssumption
         DEF SkipStep, InLoop, Remaining, IteratorInv, IteratorTypeOK, CallType, StepIds
    <3>2. /\ call'.s = call.s + 1 /\ call'.p = 0 /\ call'.gas = call.gas
          /\ call'.code = call.code /\ step' = step /\ stepProgress' = stepProgress
      BY <2>2 DEF SkipStep, IteratorInv, IteratorTypeOK, CallType
    <3>3. GasBehind(call.s, call.p) = GasBehind(call'.s, call'.p)
      BY <3>1, <3>2, GasBehindWhole
    <3>4. call'.gas + GasBehind(call'.s, call'.p) = FheGasLimit + GasBehind(step, stepProgress)
      BY <3>1, <3>2, <3>3 DEF GasInv
    <3> QED
      BY <3>1, <3>2, <3>4 DEF GasInv, GasBehind
  <2>3. CASE Overflow \/ OutOfGas \/ Return
    BY <2>3 DEF Overflow, OutOfGas, Return, GasInv
  <2>4. CASE NoFheGasLeft
    <3>1. call.s < 4 /\ call'.s = call.s /\ pc' = "exit" /\ step' = step /\ pc # "idle"
      BY <2>4 DEF NoFheGasLeft, AtStep, InLoop, IteratorInv, IteratorTypeOK, CallType
    <3> QED
      BY <3>1 DEF GasInv
  <2>5. CASE RunSomeStep
    <3>1. PICK j \in 0..(IF AtStep THEN Units ELSE 0), c \in Codes :
            RunStep(j, c)
      BY <2>5 DEF RunSomeStep
    <3>2. j \in Nat
      BY <3>1, UnitsInRange DEF IteratorInv
    <3> QED
      BY <3>1, <3>2, RunStepKeepsGas
  <2>6. CASE UNCHANGED iteratorVars
    BY <2>6 DEF iteratorVars, GasInv, GasBehind
  <2> QED
    BY <2>1, <2>2, <2>3, <2>4, <2>5, <2>6 DEF IteratorNext
<1> QED
  BY <1>1, <1>2, IteratorInvariant, PTL DEF IteratorSpec

\* A computation whose rest never takes exactly the gas of a transaction is never
\* left finished with another code than S_FINISHED.
LEMMA EndIsReportedWithoutExactGas ==
  ASSUME NoExactGas
  PROVE  IteratorSpec => []EndIsReported
<1>1. IteratorInit => EndIsReported
  BY DEF IteratorInit, EndIsReported, Finished
<1>2. ASSUME IteratorInv, GasInv, EndIsReported, [IteratorNext]_iteratorVars
      PROVE  EndIsReported'
  <2>1. CASE Return
    <3> SUFFICES ASSUME call.s = 4 PROVE lastCode' = S_FINISHED
      BY <2>1 DEF Return, EndIsReported, Finished
    <3>1. pc = "loop" /\ call.code # E_NOT_ENOUGH_GAS
      BY <1>2, <2>1 DEF Return, GasInv, InLoop
    <3>2. call.p = 0
      BY <1>2, <3>1 DEF IteratorInv, InFlight
    <3>3. call.gas + GasBehind(4, 0) = FheGasLimit + GasBehind(step, stepProgress)
      BY <1>2, <3>1, <3>2 DEF GasInv
    <3>4. step \in StepIds /\ stepProgress \in 0..Size[step]
      <4>1. step \in StepIds /\ stepProgress \in Nat /\ Size[step] \in Nat
        BY <1>2, <3>1, SizeAssumption DEF GasInv, IteratorInv, IteratorTypeOK
      <4> QED
        BY <1>2, <4>1 DEF IteratorInv, InStorage, StepIds
    <3>5. GasBehind(4, 0) # FheGasLimit + GasBehind(step, stepProgress)
      BY <3>4 DEF NoExactGas
    <3>6. GasBehind(4, 0) \in Nat
      BY GasBehindNat
    <3>7. call.gas # 0
      BY <3>3, <3>5, <3>6
    <3> QED
      BY <2>1, <3>1, <3>7 DEF Return
  <2>2. CASE ~Return /\ IteratorNext
    <3>1. step' = step /\ lastCode' = lastCode
      BY <2>2 DEF IteratorNext, Call, SkipStep, Overflow, OutOfGas, NoFheGasLeft,
                  RunSomeStep, RunStep, Work
    <3>2. step # 4 \/ pc' # "idle" \/ pc = "idle"
      BY <1>2, <2>2 DEF GasInv, StepIds
    <3> QED
      BY <1>2, <3>1, <3>2 DEF EndIsReported, Finished
  <2>3. CASE UNCHANGED iteratorVars
    BY <1>2, <2>3 DEF iteratorVars, EndIsReported, Finished
  <2> QED
    BY <1>2, <2>1, <2>2, <2>3
<1> QED
  BY <1>1, <1>2, IteratorInvariant, GasInvariant, PTL DEF IteratorSpec

-----------------------------------------------------------------------------
(* The gas costs of the auction engine *)

LEMMA EngineStepValues ==
  ASSUME EngineSteps
  PROVE  /\ Size[0] = BidCount /\ Cost[0] = 2456000
         /\ Size[1] = IF BidCount = 0 THEN 0
                      ELSE IF BidCount < 3 THEN 1
                      ELSE (BidCount * (BidCount - 1)) \div 2
         /\ Cost[1] = RankCost
         /\ Size[2] = BidCount /\ Cost[2] = 1469000
         /\ Size[3] = IF OnlyAward THEN 0 ELSE BidCount * BidCount
         /\ Cost[3] = IF OnlyAward THEN 0 ELSE 101000
  BY DEF EngineSteps, EngineSize, EngineCost, StepIds

\* What is left of each of the first three steps with n < 10 bids, x bids or y pairs
\* of bids, and what the later steps take, which is `last' for step 4.
LEMMA RestOfStepOne ==
  ASSUME NEW n \in 0..9, NEW pairs \in Nat,
         pairs = IF n = 0 THEN 0 ELSE IF n < 3 THEN 1 ELSE (n * (n - 1)) \div 2,
         NEW last, last = 0 \/ last = (n * n) * 101000, NEW x \in 0..n,
         NEW r, r = 978000 \/ r = 1104000 \/ r = 1397000
  PROVE  x * 2456000 + pairs * r + n * 1469000 + last # 10000000
<1>1. CASE n = 0
  <2>1. pairs = 0 /\ n * n = 0
    BY SMT, <1>1
  <2> QED
    BY SMT, <1>1, <2>1
<1>2. CASE n = 1
  <2>1. pairs = 1 /\ n * n = 1
    BY SMT, <1>2
  <2> QED
    BY SMT, <1>2, <2>1
<1>3. CASE n = 2
  <2>1. pairs = 1 /\ n * n = 4
    BY SMT, <1>3
  <2> QED
    BY SMT, <1>3, <2>1
<1>4. CASE n = 3
  <2>1. pairs = 3 /\ n * n = 9
    BY SMT, <1>4
  <2> QED
    BY SMT, <1>4, <2>1
<1>5. CASE n = 4
  <2>1. pairs = 6 /\ n * n = 16
    BY SMT, <1>5
  <2> QED
    BY SMT, <1>5, <2>1
<1>6. CASE n = 5
  <2>1. pairs = 10 /\ n * n = 25
    BY SMT, <1>6
  <2> QED
    BY SMT, <1>6, <2>1
<1>7. CASE n = 6
  <2>1. pairs = 15 /\ n * n = 36
    BY SMT, <1>7
  <2> QED
    BY SMT, <1>7, <2>1
<1>8. CASE n = 7
  <2>1. pairs = 21 /\ n * n = 49
    BY SMT, <1>8
  <2> QED
    BY SMT, <1>8, <2>1
<1>9. CASE n = 8
  <2>1. pairs = 28 /\ n * n = 64
    BY SMT, <1>9
  <2> QED
    BY SMT, <1>9, <2>1
<1>10. CASE n = 9
  <2>1. pairs = 36 /\ n * n = 81
    BY SMT, <1>10
  <2> QED
    BY SMT, <1>10, <2>1
<1> QED
  BY SMT, <1>1, <1>2, <1>3, <1>4, <1>5, <1>6, <1>7, <1>8, <1>9, <1>10

LEMMA RestOfStepTwo ==
  ASSUME NEW n \in 0..9, NEW pairs \in Nat,
         pairs = IF n = 0 THEN 0 ELSE IF n < 3 THEN 1 ELSE (n * (n - 1)) \div 2,
         NEW last, last = 0 \/ last = (n * n) * 101000, NEW y \in 0..pairs,
         NEW r, r = 978000 \/ r = 1104000 \/ r = 1397000
  PROVE  y * r + n * 1469000 + last # 10000000
<1>1. CASE n = 0
  <2>1. pairs = 0 /\ n * n = 0
    BY SMT, <1>1
  <2> QED
    BY SMT, <1>1, <2>1
<1>2. CASE n = 1
  <2>1. pairs = 1 /\ n * n = 1
    BY SMT, <1>2
  <2> QED
    BY SMT, <1>2, <2>1
<1>3. CASE n = 2
  <2>1. pairs = 1 /\ n * n = 4
    BY SMT, <1>3
  <2> QED
    BY SMT, <1>3, <2>1
<1>4. CASE n = 3
  <2>1. pairs = 3 /\ n * n = 9
    BY SMT, <1>4
  <2> QED
    BY SMT, <1>4, <2>1
<1>5. CASE n = 4
  <2>1. pairs = 6 /\ n * n = 16
    BY SMT, <1>5
  <2> QED
    BY SMT, <1>5, <2>1
<1>6. CASE n = 5
  <2>1. pairs = 10 /\ n * n = 25
    BY SMT, <1>6
  <2> QED
    BY SMT, <1>6, <2>1
<1>7. CASE n = 6
  <2>1. pairs = 15 /\ n * n = 36
    BY SMT, <1>7
  <2> QED
    BY SMT, <1>7, <2>1
<1>8. CASE n = 7
  <2>1. pairs = 21 /\ n * n = 49
    BY SMT, <1>8
  <2> QED
    BY SMT, <1>8, <2>1
<1>9. CASE n = 8
  <2>1. pairs = 28 /\ n * n = 64
    BY SMT, <1>9
  <2> QED
    BY SMT, <1>9, <2>1
<1>10. CASE n = 9
  <2>1. pairs = 36 /\ n * n = 81
    BY SMT, <1>10
  <2> QED
    BY SMT, <1>10, <2>1
<1> QED
  BY SMT, <1>1, <1>2, <1>3, <1>4, <1>5, <1>6, <1>7, <1>8, <1>9, <1>10

LEMMA RestOfStepThree ==
  ASSUME NEW n \in 0..9, NEW last, last = 0 \/ last = (n * n) * 101000, NEW x \in 0..n
  PROVE  x * 1469000 + last # 10000000
<1>1. CASE n = 0
  <2>1. n * n = 0
    BY SMT, <1>1
  <2> QED
    BY SMT, <1>1, <2>1
<1>2. CASE n = 1
  <2>1. n * n = 1
    BY SMT, <1>2
  <2> QED
    BY SMT, <1>2, <2>1
<1>3. CASE n = 2
  <2>1. n * n = 4
    BY SMT, <1>3
  <2> QED
    BY SMT, <1>3, <2>1
<1>4. CASE n = 3
  <2>1. n * n = 9
    BY SMT, <1>4
  <2> QED
    BY SMT, <1>4, <2>1
<1>5. CASE n = 4
  <2>1. n * n = 16
    BY SMT, <1>5
  <2> QED
    BY SMT, <1>5, <2>1
<1>6. CASE n = 5
  <2>1. n * n = 25
    BY SMT, <1>6
  <2> QED
    BY SMT, <1>6, <2>1
<1>7. CASE n = 6
  <2>1. n * n = 36
    BY SMT, <1>7
  <2> QED
    BY SMT, <1>7, <2>1
<1>8. CASE n = 7
  <2>1. n * n = 49
    BY SMT, <1>8
  <2> QED
    BY SMT, <1>8, <2>1
<1>9. CASE n = 8
  <2>1. n * n = 64
    BY SMT, <1>9
  <2> QED
    BY SMT, <1>9, <2>1
<1>10. CASE n = 9
  <2>1. n * n = 81
    BY SMT, <1>10
  <2> QED
    BY SMT, <1>10, <2>1
<1> QED
  BY SMT, <1>1, <1>2, <1>3, <1>4, <1>5, <1>6, <1>7, <1>8, <1>9, <1>10

\* With ten bids or more, the steps that follow take more than a transaction.
LEMMA TenBidsTakeMore ==
  ASSUME NEW n \in Nat, n > 9
  PROVE  /\ n * 1469000 > 10000000
         /\ (n * n) * 101000 > 10000000
<1>1. 10 * n <= n * n /\ n * n \in Nat
  BY SMT, ProductMonotone, ProductNat
<1> DEFINE square == n * n
<1>2. square >= 100 /\ square \in Nat
  BY SMT, <1>1
<1> HIDE DEF square
<1>3. square * 101000 > 10000000
  BY SMT, <1>2
<1> QED
  BY SMT, <1>3 DEF square

\* The gas behind a point, one product per step.
LEMMA GasBehindTerms ==
  ASSUME NEW p \in Nat
  PROVE  /\ GasBehind(4, 0) =   Size[0] * Cost[0] + Size[1] * Cost[1]
                              + Size[2] * Cost[2] + Size[3] * Cost[3]
         /\ GasBehind(0, p) = p * Cost[0]
         /\ GasBehind(1, p) = Size[0] * Cost[0] + p * Cost[1]
         /\ GasBehind(2, p) = Size[0] * Cost[0] + Size[1] * Cost[1] + p * Cost[2]
         /\ GasBehind(3, p) =   Size[0] * Cost[0] + Size[1] * Cost[1]
                              + Size[2] * Cost[2] + p * Cost[3]
<1>1. \A t \in StepIds : Size[t] * Cost[t] \in Nat /\ p * Cost[t] \in Nat
  BY SizeAssumption, CostAssumption, ProductNat
<1> QED
  BY <1>1 DEF GasBehind, StepIds

\* Whatever the number of bids, the rule for ties and the kind of claims, no rest of
\* the computation takes exactly the FHE gas of a transaction.
LEMMA EngineHasNoExactGas ==
  ASSUME EngineSteps
  PROVE  NoExactGas
<1> DEFINE n == BidCount
           pairs == Size[1]
           r == RankCost
           last == Size[3] * Cost[3]
           compared == pairs * r
<1>1. /\ n \in Nat /\ OnlyAward \in BOOLEAN
      /\ r = 978000 \/ r = 1104000 \/ r = 1397000
      /\ FheGasLimit = 10000000
  BY SMT DEF EngineSteps
<1>2. /\ Size[0] = n /\ Cost[0] = 2456000 /\ Size[2] = n /\ Cost[2] = 1469000
      /\ Cost[1] = r
      /\ pairs = IF n = 0 THEN 0 ELSE IF n < 3 THEN 1 ELSE (n * (n - 1)) \div 2
  BY SMT, EngineStepValues
<1>3. /\ OnlyAward => Size[3] = 0 /\ Cost[3] = 0
      /\ ~OnlyAward => Size[3] = n * n /\ Cost[3] = 101000
  BY SMT, EngineStepValues
<1>4. pairs \in Nat /\ Size[3] \in Nat /\ Cost[3] \in Nat /\ r \in Nat
  BY SMT, <1>1, SizeAssumption, CostAssumption DEF StepIds
<1>5. /\ last \in Nat /\ compared \in Nat
      /\ last = 0 \/ last = (n * n) * 101000
  BY SMT, <1>1, <1>3, <1>4, ProductNat
<1> SUFFICES ASSUME NEW s \in StepIds, NEW p \in 0..Size[s],
                    GasBehind(4, 0) = 10000000 + GasBehind(s, p)
             PROVE  FALSE
  BY SMT, <1>1 DEF NoExactGas
<1>6. p \in Nat /\ p <= Size[s] /\ Size[s] \in Nat
  BY SMT, SizeAssumption
<1>7. GasBehind(4, 0) = n * 2456000 + compared + n * 1469000 + last
  BY SMT, <1>2, <1>6, GasBehindTerms
<1>8. n > 9 => n * 1469000 > 10000000 /\ (last = 0 \/ last > 10000000)
  BY SMT, <1>1, <1>5, TenBidsTakeMore
<1>9. CASE s = 0
  <2>1. p <= n /\ n - p \in 0..n
    BY SMT, <1>1, <1>2, <1>6, <1>9
  <2>2. GasBehind(s, p) = p * 2456000
    BY SMT, <1>2, <1>6, <1>9, GasBehindTerms
  <2> HIDE DEF n, pairs, r, last, compared
  <2>3. (n - p) * 2456000 + compared + n * 1469000 + last = 10000000
    BY SMT, <1>1, <1>5, <1>6, <1>7, <2>1, <2>2
  <2>4. n \in 0..9
    BY SMT, <1>1, <1>5, <1>8, <2>1, <2>3
  <2>5. (n - p) * 2456000 + pairs * r + n * 1469000 + last # 10000000
    BY SMT, <1>1, <1>2, <1>4, <1>5, <2>1, <2>4, RestOfStepOne
  <2> QED
    BY SMT, <2>3, <2>5 DEF compared
<1>10. CASE s = 1
  <2>1. p <= pairs /\ pairs - p \in 0..pairs
    BY SMT, <1>4, <1>6, <1>10
  <2>2. GasBehind(s, p) = n * 2456000 + p * r
    BY SMT, <1>2, <1>6, <1>10, GasBehindTerms
  <2> HIDE DEF n, pairs, r, last
  <2>3. compared = (pairs - p) * r + p * r
    <3>1. pairs - p \in Nat /\ (pairs - p) + p = pairs
      BY SMT, <1>4, <1>6, <2>1
    <3> QED
      BY SMT, <1>4, <1>6, <3>1, Distributes
  <2> HIDE DEF compared
  <2>4. (pairs - p) * r \in Nat /\ p * r \in Nat
    BY SMT, <1>4, <1>6, <2>1, ProductNat
  <2>5. (pairs - p) * r + n * 1469000 + last = 10000000
    BY SMT, <1>1, <1>5, <1>7, <2>2, <2>3, <2>4
  <2>6. n \in 0..9
    BY SMT, <1>1, <1>5, <1>8, <2>4, <2>5
  <2>7. (pairs - p) * r + n * 1469000 + last # 10000000
    BY SMT, <1>1, <1>2, <1>4, <1>5, <2>1, <2>6, RestOfStepTwo
  <2> QED
    BY SMT, <2>5, <2>7
<1>11. CASE s = 2
  <2>1. p <= n /\ n - p \in 0..n
    BY SMT, <1>1, <1>2, <1>6, <1>11
  <2>2. GasBehind(s, p) = n * 2456000 + compared + p * 1469000
    BY SMT, <1>2, <1>6, <1>11, GasBehindTerms
  <2> HIDE DEF n, pairs, r, last, compared
  <2>3. (n - p) * 1469000 + last = 10000000
    BY SMT, <1>1, <1>5, <1>6, <1>7, <2>1, <2>2
  <2>4. CASE last = 0
    BY SMT, <1>1, <2>1, <2>3, <2>4
  <2>5. CASE last # 0
    <3>1. n \in 0..9
      BY SMT, <1>1, <1>5, <1>8, <2>1, <2>3, <2>5
    <3>2. (n - p) * 1469000 + last # 10000000
      BY SMT, <1>5, <2>1, <3>1, RestOfStepThree
    <3> QED
      BY SMT, <2>3, <3>2
  <2> QED
    BY SMT, <2>4, <2>5
<1>12. CASE s = 3
  <2>1. GasBehind(s, p) = n * 2456000 + compared + n * 1469000 + p * Cost[3]
    BY SMT, <1>2, <1>6, <1>12, GasBehindTerms
  <2>2. last = Size[3] * Cost[3] /\ p * Cost[3] \in Nat
    BY SMT, <1>4, <1>6, ProductNat
  <2> HIDE DEF n, last, compared
  <2>3. last = 10000000 + p * Cost[3]
    BY SMT, <1>1, <1>5, <1>7, <2>1, <2>2
  <2>4. CASE OnlyAward
    <3>1. last = 0
      BY SMT, <1>3, <2>2, <2>4
    <3> QED
      BY SMT, <2>2, <2>3, <3>1
  <2>5. CASE ~OnlyAward
    <3>1. Size[3] * 101000 = 10000000 + p * 101000
      BY SMT, <1>3, <2>2, <2>3, <2>5
    <3> QED
      BY SMT, <1>4, <1>6, <3>1
  <2> QED
    BY SMT, <2>4, <2>5
<1> QED
  BY SMT, <1>9, <1>10, <1>11, <1>12 DEF StepIds

-----------------------------------------------------------------------------
(* Theorems *)

\* The storage and the locals of _next() stay in their types: none of its checked
\* subtractions underflows, whatever sizes, weights, costs and pages it is
\* given.
THEOREM IteratorTypeCorrect == IteratorSpec => []IteratorTypeOK
BY IteratorInvariant, PTL DEF IteratorInv

\* _iterProgress is always the exact number of iterations behind
\* (_step, _stepProgress), after any sequence of pages, gas exhaustions and
\* reverted transactions.
THEOREM ProgressIsExact == IteratorSpec => []ProgressAccounting
BY IteratorInvariant, PTL DEF IteratorInv

LEMMA PagesInStep == IteratorInv => PartOfStep
<1> SUFFICES ASSUME IteratorInv PROVE PartOfStep
  OBVIOUS
<1>1. ASSUME AtStep
      PROVE  /\ call.p < Size[call.s] /\ call.p + Units <= Size[call.s]
             /\ Units * Cost[call.s] <= call.gas
  <2>1. call.s \in StepIds /\ call.p \in Nat /\ Size[call.s] \in Nat
    BY <1>1, UnitsInRange, SizeAssumption DEF IteratorInv, IteratorTypeOK, CallType
  <2> QED
    BY <1>1, <2>1, UnitsInRange DEF IteratorInv, Remaining
<1> QED
  BY <1>1 DEF IteratorInv, InStorage, PartOfStep

\* The debug require()s of _next() never fire and the owner is never asked for
\* more than the rest of the current step, nor for more FHE gas than is left.
THEOREM PagesStayInStep == IteratorSpec => []PartOfStep
BY PagesInStep, IteratorInvariant, PTL

\* A page never does more than was asked for, but for the one unit that a rest
\* smaller than the weight of a step is rounded up to.
THEOREM PagesAreBounded == IteratorSpec => []BoundedPage
<1>1. IteratorInv /\ PageInv => BoundedPage
  BY DEF IteratorInv, IteratorTypeOK, CallType, PageInv, BoundedPage
<1> QED
  BY <1>1, IteratorInvariant, PageInvariant, PTL

\* Both together, for steps of any sizes, weights and costs: what the debug
\* require()s of _next() and of the owner ask for.
THEOREM PagesAlwaysFit == IteratorSpec => []PagesFit
BY PagesStayInStep, PagesAreBounded, PTL DEF PagesFit

\* A step is behind exactly when the iterations that it ends with are.
LEMMA StepsBehind ==
  ASSUME IteratorInv, NEW s \in StepIds, Size[s] > 0
  PROVE  step > s <=> iterProgress >= Cumulative(s)
<1> DEFINE a == [k \in StepIds |-> Size[k] * Weight[k]]
           x == IF step < 4 THEN stepProgress * Weight[step] ELSE 0
<1>1. \A k \in StepIds : a[k] \in Nat
  BY SizeAssumption, WeightAssumption, ProductNat
<1>2. a[s] > 0
  <2>1. Size[s] \in Nat \ {0} /\ Weight[s] \in Nat \ {0}
    BY SizeAssumption, WeightAssumption
  <2>2. \A m \in Nat \ {0}, n \in Nat \ {0} : m * n > 0
    OBVIOUS
  <2> QED
    BY <2>1, <2>2
<1>3. step \in 0..4 /\ stepProgress \in Nat
  BY DEF IteratorInv, IteratorTypeOK
<1>4. x \in Nat
  BY <1>3, WeightAssumption, ProductNat DEF StepIds
<1>5. step < 4 => x <= a[step]
  <2> SUFFICES ASSUME step < 4 PROVE x <= a[step]
    OBVIOUS
  <2>1. step \in StepIds /\ stepProgress <= Size[step]
    BY <1>3, SizeAssumption DEF IteratorInv, InStorage, StepIds
  <2> QED
    BY <2>1, <1>3, SizeAssumption, WeightAssumption, ProductMonotone
<1>6. step = s => x < a[s]
  <2> SUFFICES ASSUME step = s PROVE x < a[s]
    OBVIOUS
  <2>1. s < 4 /\ Weight[s] \in Nat \ {0} /\ Size[s] \in Nat
    BY SizeAssumption, WeightAssumption DEF StepIds
  <2>2. CASE stepProgress = 0
    BY <2>1, <2>2, <1>2
  <2>3. CASE stepProgress < Size[s]
    <3>1. stepProgress + 1 <= Size[s] /\ stepProgress + 1 \in Nat
      BY <2>1, <2>3, <1>3
    <3>2. (stepProgress + 1) * Weight[s] <= Size[s] * Weight[s]
      BY <3>1, <2>1, ProductMonotone
    <3>3. (stepProgress + 1) * Weight[s]
            = stepProgress * Weight[s] + 1 * Weight[s]
      <4>1. stepProgress \in Nat /\ 1 \in Nat /\ Weight[s] \in Nat
        BY <1>3, <2>1
      <4> HIDE DEF a, x
      <4> QED
        BY <4>1, Distributes
    <3>4. stepProgress * Weight[s] \in Nat /\ 1 * Weight[s] = Weight[s]
      BY <1>3, <2>1, ProductNat
    <3>5. a[s] = Size[s] * Weight[s] /\ x = stepProgress * Weight[s]
      BY <2>1
    <3> HIDE DEF a, x
    <3> QED
      BY <3>2, <3>3, <3>4, <3>5, <1>1, <2>1
  <2> QED
    BY <2>1, <2>2, <2>3 DEF IteratorInv, InStorage
<1>7. iterProgress =   (IF step > 0 THEN a[0] ELSE 0)
                     + (IF step > 1 THEN a[1] ELSE 0)
                     + (IF step > 2 THEN a[2] ELSE 0)
                     + (IF step > 3 THEN a[3] ELSE 0) + x
  BY DEF IteratorInv, ProgressAccounting, Completed, StepIds
<1>8. Cumulative(s) =   a[0] + (IF s >= 1 THEN a[1] ELSE 0)
                      + (IF s >= 2 THEN a[2] ELSE 0)
                      + (IF s >= 3 THEN a[3] ELSE 0)
  BY DEF Cumulative, StepIds
<1> HIDE DEF a, x
<1>9. /\ a[0] \in Nat /\ a[1] \in Nat /\ a[2] \in Nat /\ a[3] \in Nat
      /\ s \in {0, 1, 2, 3} /\ step \in {0, 1, 2, 3, 4}
  BY <1>1, <1>3 DEF StepIds
<1> QED
  BY <1>2, <1>4, <1>5, <1>6, <1>7, <1>8, <1>9

\* minIterationsForPrizeAward() and iterProgressMax() are exact thresholds for any
\* sizes and weights: between two transactions a step is behind the computation
\* exactly when iterProgress() has reached its cumulated count.
THEOREM ThresholdsAlwaysExact == IteratorSpec => []ThresholdsAreExact
<1>1. IteratorInv => ThresholdsAreExact
  BY StepsBehind DEF ThresholdsAreExact
<1> QED
  BY <1>1, IteratorInvariant, PTL

\* The call that completes the computation of an auction answers S_FINISHED, for any
\* number of bids, any of the three rules for ties, with and without blind claims:
\* with the FHE gas costs of FHEAuctionEngine._close(), a transaction that does all
\* that was left never ends with exactly no gas, which _next() would take for a
\* computation that is not over.
THEOREM EndAlwaysReported ==
  ASSUME EngineSteps
  PROVE  IteratorSpec => []EndIsReported
BY EngineHasNoExactGas, EndIsReportedWithoutExactGas

-----------------------------------------------------------------------------
(* The computation in pages *)

\* What is proved of AuctionEngine, of the storage as the transaction in progress
\* sees it and of the storage as everybody else does.
Current ==
  INSTANCE AuctionEngineProofs WITH step <- CurrentStep, progress <- CurrentProgress
Committed ==
  INSTANCE AuctionEngineProofs
  WITH step <- stored.step, progress <- stored.progress,
       bids <- stored.bids, rankedBids <- stored.rankedBids,
       rankedBidCount <- stored.rankedBidCount, cursorRB <- stored.cursorRB,
       resumeIdxRB <- stored.resumeIdxRB,
       rankedWonQuantities <- stored.rankedWonQuantities,
       cumulativeQuantity <- stored.cumulativeQuantity,
       uniformPrice <- stored.uniformPrice,
       wonQuantitiesByRankReady <- stored.wonQuantitiesByRankReady,
       wonQuantities <- stored.wonQuantities, idxWQ <- stored.idxWQ,
       resumeIdxWQ <- stored.resumeIdxWQ, quantityWQ <- stored.quantityWQ,
       wonQuantitiesByIdReady <- stored.wonQuantitiesByIdReady, run <- stored.run

-----------------------------------------------------------------------------
(* The two instances say the same of the same storage *)

LEMMA SameSum ==
  ASSUME NEW f, NEW S
  PROVE Committed!SumFunctionOnSet(f, S) = Current!SumFunctionOnSet(f, S)
BY DEF Committed!SumFunctionOnSet, Current!SumFunctionOnSet,
       Committed!FoldFunctionOnSet, Current!FoldFunctionOnSet,
       Committed!MapThenFoldSet, Current!MapThenFoldSet

LEMMA SameBeats ==
  ASSUME NEW r, NEW a, NEW b
  PROVE Committed!Beats(r, a, b) = Current!Beats(r, a, b)
BY DEF Committed!Beats, Current!Beats, Committed!BeatsByPriceId,
       Current!BeatsByPriceId, Committed!BeatsByPriceQuantityId,
       Current!BeatsByPriceQuantityId, Committed!BeatsByPriceRandom,
       Current!BeatsByPriceRandom

LEMMA SameWon ==
  ASSUME NEW r, NEW b, NEW q, NEW i
  PROVE Committed!Won(r, b, q, i) = Current!Won(r, b, q, i)
BY SameSum, SameBeats
   DEF Committed!Won, Current!Won, Committed!Ahead, Current!Ahead, Committed!Lesser,
       Current!Lesser

\* What everybody sees is what the transaction sees.
AsStored ==
  /\ stored.step = CurrentStep /\ stored.progress = CurrentProgress
  /\ stored.bids = bids /\ stored.rankedBids = rankedBids
  /\ stored.rankedBidCount = rankedBidCount /\ stored.cursorRB = cursorRB
  /\ stored.resumeIdxRB = resumeIdxRB
  /\ stored.rankedWonQuantities = rankedWonQuantities
  /\ stored.cumulativeQuantity = cumulativeQuantity
  /\ stored.uniformPrice = uniformPrice
  /\ stored.wonQuantitiesByRankReady = wonQuantitiesByRankReady
  /\ stored.wonQuantities = wonQuantities /\ stored.idxWQ = idxWQ
  /\ stored.resumeIdxWQ = resumeIdxWQ /\ stored.quantityWQ = quantityWQ
  /\ stored.wonQuantitiesByIdReady = wonQuantitiesByIdReady
  /\ stored.run = run

\* The parts of the engine's invariant, one by one, and their conjunction.
LEMMA SameType == AsStored => (Committed!EngineTypeOK <=> Current!EngineTypeOK)
BY DEF AsStored, Committed!EngineTypeOK, Current!EngineTypeOK, Committed!Rules,
       Current!Rules, Committed!Indices, Current!Indices, Committed!Ranks,
       Current!Ranks, Committed!Amounts, Current!Amounts, Committed!Bid, Current!Bid,
       Committed!RunType, Current!RunType, Committed!S_FINISHED, Current!S_FINISHED,
       Committed!S_NOT_FINISHED, Current!S_NOT_FINISHED, Committed!E_NOT_ENOUGH_GAS,
       Current!E_NOT_ENOUGH_GAS

LEMMA SameBook == AsStored => (Committed!BookInv <=> Current!BookInv)
BY DEF AsStored, Committed!BookInv, Current!BookInv, Committed!ValidatedCount,
       Current!ValidatedCount, Committed!Done, Current!Done, Committed!Indices,
       Current!Indices

LEMMA SameStepSize == ASSUME NEW s PROVE Committed!StepSize(s) = Current!StepSize(s)
BY DEF Committed!StepSize, Current!StepSize

LEMMA SameCall == AsStored => (Committed!CallInv <=> Current!CallInv)
BY SameStepSize
   DEF AsStored, Committed!CallInv, Current!CallInv, Committed!StepOf, Current!StepOf

LEMMA SameSort == AsStored => (Committed!SortInv <=> Current!SortInv)
BY DEF AsStored, Committed!SortInv, Current!SortInv, Committed!InCall, Current!InCall,
  Committed!SortPosition, Current!SortPosition, Committed!Lesser, Current!Lesser

LEMMA SameOrder == AsStored => (Committed!OrderInv <=> Current!OrderInv)
<1> SUFFICES ASSUME AsStored PROVE Committed!OrderInv <=> Current!OrderInv
  OBVIOUS
<1>1. /\ Committed!Sorting = Current!Sorting
      /\ Committed!SortedCount = Current!SortedCount
      /\ Committed!Cursor = Current!Cursor
  BY DEF AsStored, Committed!Sorting, Current!Sorting, Committed!InCall,
         Current!InCall, Committed!SortedCount, Current!SortedCount, Committed!Cursor,
         Current!Cursor
<1>2. Committed!CursorRank = Current!CursorRank
  BY DEF AsStored, Committed!CursorRank, Current!CursorRank
<1>3. /\ stored.rankedBids = rankedBids /\ stored.bids = bids
      /\ stored.step = CurrentStep
  BY DEF AsStored
<1>4. Committed!Ranks = Current!Ranks /\ Committed!Indices = Current!Indices
  BY DEF Committed!Ranks, Current!Ranks, Committed!Indices, Current!Indices
<1>5. Committed!SortIsResumable <=> Current!SortIsResumable
  BY <1>1, <1>2, <1>3, SameBeats
     DEF Committed!SortIsResumable, Current!SortIsResumable
<1>6. Committed!Ordered(N) <=> Current!Ordered(N)
  BY <1>3, SameBeats DEF Committed!Ordered, Current!Ordered
<1> QED
  BY <1>1, <1>3, <1>4, <1>5, <1>6 DEF Committed!OrderInv, Current!OrderInv

LEMMA SameSearch ==
  AsStored => /\ Committed!SearchInv <=> Current!SearchInv
              /\ Committed!ReadyInv <=> Current!ReadyInv
BY DEF AsStored, Committed!SearchInv, Current!SearchInv, Committed!ReadyInv,
       Current!ReadyInv

LEMMA SameEngineInv == AsStored => (Committed!EngineInv <=> Current!EngineInv)
BY SameType, SameBook, SameCall, SameSort, SameOrder, SameSearch
   DEF Committed!EngineInv, Current!EngineInv

\* The same of what the invariant says of the results.
LEMMA SameResults == AsStored => (Committed!ResultInv <=> Current!ResultInv)
<1> SUFFICES ASSUME AsStored PROVE Committed!ResultInv <=> Current!ResultInv
  OBVIOUS
<1>1. /\ stored.rankedBids = rankedBids /\ stored.bids = bids
      /\ stored.step = CurrentStep
      /\ stored.run = run /\ stored.progress = CurrentProgress
      /\ stored.rankedWonQuantities = rankedWonQuantities
      /\ stored.cumulativeQuantity = cumulativeQuantity
      /\ stored.uniformPrice = uniformPrice
      /\ stored.wonQuantities = wonQuantities /\ stored.idxWQ = idxWQ
      /\ stored.resumeIdxWQ = resumeIdxWQ
      /\ stored.quantityWQ = quantityWQ
  BY DEF AsStored
<1>2. /\ Committed!Ranks = Current!Ranks /\ Committed!Indices = Current!Indices
      /\ Committed!Amounts = Current!Amounts
  BY DEF Committed!Ranks, Current!Ranks, Committed!Indices, Current!Indices,
         Committed!Amounts, Current!Amounts
<1>3. Committed!Below = Current!Below /\ Committed!Quantities = Current!Quantities
  BY <1>1, <1>2
     DEF Committed!Below, Current!Below, Committed!Quantities, Current!Quantities
<1>4. Committed!Cumulated = Current!Cumulated
  BY <1>3, SameSum DEF Committed!Cumulated, Current!Cumulated
<1>5. Committed!WonAt = Current!WonAt
  BY <1>1, <1>2, <1>4
     DEF Committed!WonAt, Current!WonAt, Committed!Lesser, Current!Lesser
<1>6. Committed!WinsBelow = Current!WinsBelow
  BY <1>5 DEF Committed!WinsBelow, Current!WinsBelow
<1>7. Committed!LowestPrices = Current!LowestPrices
  BY <1>1, <1>2, <1>6 DEF Committed!LowestPrices, Current!LowestPrices
<1>8. Committed!Wins = Current!Wins
  BY <1>1, <1>2, SameWon DEF Committed!Wins, Current!Wins
<1>9. /\ Committed!AwardedCount = Current!AwardedCount
      /\ Committed!InvertedRows = Current!InvertedRows
  BY <1>1
     DEF Committed!AwardedCount, Current!AwardedCount, Committed!Done, Current!Done,
         Committed!InvertedRows, Current!InvertedRows
<1>10. Committed!HeldBelow = Current!HeldBelow
  BY <1>1, <1>2 DEF Committed!HeldBelow, Current!HeldBelow
<1>11. Committed!FoundBelow = Current!FoundBelow
  BY <1>1, <1>2, <1>10 DEF Committed!FoundBelow, Current!FoundBelow
<1>12. Committed!AwardInv <=> Current!AwardInv
  BY <1>1, <1>3, <1>4, <1>5, <1>7, <1>8, <1>9, SameSum
     DEF Committed!AwardInv, Current!AwardInv, Committed!Lesser, Current!Lesser
<1>13. Committed!InvertInv <=> Current!InvertInv
  BY <1>1, <1>8, <1>9, <1>11 DEF Committed!InvertInv, Current!InvertInv
<1> QED
  BY <1>12, <1>13 DEF Committed!ResultInv, Current!ResultInv

\* The instance that Computation uses has the actions of the one whose proofs are
\* used here.
LEMMA SameVars ==
  /\ Engine!bookVars = Current!bookVars /\ Engine!rankVars = Current!rankVars
  /\ Engine!awardVars = Current!awardVars /\ Engine!invertVars = Current!invertVars
  /\ Engine!NoRun = Current!NoRun /\ Engine!S_FINISHED = Current!S_FINISHED
  /\ Engine!S_NOT_FINISHED = Current!S_NOT_FINISHED
  /\ Engine!E_NOT_ENOUGH_GAS = Current!E_NOT_ENOUGH_GAS
  /\ Engine!engineVars = Current!engineVars
BY DEF Engine!bookVars, Engine!rankVars, Engine!awardVars, Engine!invertVars,
       Current!bookVars, Current!rankVars, Current!awardVars, Current!invertVars,
       Engine!NoRun, Current!NoRun, Engine!Dummy, Current!Dummy, Engine!S_FINISHED,
       Current!S_FINISHED, Engine!S_NOT_FINISHED, Engine!engineVars,
       Current!engineVars, Current!S_NOT_FINISHED, Engine!E_NOT_ENOUGH_GAS,
       Current!E_NOT_ENOUGH_GAS

LEMMA SameVarsNext ==
  /\ (Engine!bookVars)' = (Current!bookVars)'
  /\ (Engine!rankVars)' = (Current!rankVars)'
  /\ (Engine!awardVars)' = (Current!awardVars)'
  /\ (Engine!invertVars)' = (Current!invertVars)'
  /\ (Engine!engineVars)' = (Current!engineVars)'
BY DEF Engine!bookVars, Engine!rankVars, Engine!awardVars, Engine!invertVars,
       Current!bookVars, Current!rankVars, Current!awardVars, Current!invertVars,
       Engine!engineVars, Current!engineVars

LEMMA SameOperators ==
  /\ \A s : Engine!StepSize(s) = Current!StepSize(s)
  /\ \A code, count : Engine!Answer(code, count) <=> Current!Answer(code, count)
  /\ \A count, short : Engine!CodeFor(count, short) = Current!CodeFor(count, short)
  /\ \A s, iter : Engine!Called(s, iter) <=> Current!Called(s, iter)
  /\ \A r, a, b : Engine!Beats(r, a, b) = Current!Beats(r, a, b)
  /\ \A a, b : Engine!Lesser(a, b) = Current!Lesser(a, b)
  /\ \A n : Engine!Wrap(n) = Current!Wrap(n)
<1>1. \A s : Engine!StepSize(s) = Current!StepSize(s)
  BY DEF Engine!StepSize, Current!StepSize
<1>2. \A code, count : Engine!Answer(code, count) <=> Current!Answer(code, count)
  BY SameVars DEF Engine!Answer, Current!Answer
<1>3. \A count, short : Engine!CodeFor(count, short) = Current!CodeFor(count, short)
  BY <1>1, SameVars DEF Engine!CodeFor, Current!CodeFor
<1>4. \A s, iter : Engine!Called(s, iter) <=> Current!Called(s, iter)
  BY <1>1 DEF Engine!Called, Current!Called
<1>5. \A r, a, b : Engine!Beats(r, a, b) = Current!Beats(r, a, b)
  BY DEF Engine!Beats, Current!Beats, Engine!BeatsByPriceId, Current!BeatsByPriceId,
         Engine!BeatsByPriceQuantityId, Current!BeatsByPriceQuantityId,
         Engine!BeatsByPriceRandom, Current!BeatsByPriceRandom
<1>6. \A a, b : Engine!Lesser(a, b) = Current!Lesser(a, b)
  BY DEF Engine!Lesser, Current!Lesser
<1>7. \A n : Engine!Wrap(n) = Current!Wrap(n)
  BY DEF Engine!Wrap, Current!Wrap
<1> QED
  BY <1>1, <1>2, <1>3, <1>4, <1>5, <1>6, <1>7

LEMMA SameBegin ==
  ASSUME NEW iter PROVE Engine!BeginCall(iter) <=> Current!BeginCall(iter)
<1> USE SameVars, SameVarsNext, SameOperators
<1>1. Engine!BeginValidation(iter) <=> Current!BeginValidation(iter)
  BY DEF Engine!BeginValidation, Current!BeginValidation
<1>2. Engine!BeginRanking(iter) <=> Current!BeginRanking(iter)
  BY DEF Engine!BeginRanking, Current!BeginRanking
<1>3. Engine!BeginAward(iter) <=> Current!BeginAward(iter)
  BY DEF Engine!BeginAward, Current!BeginAward
<1>4. Engine!BeginInversion(iter) <=> Current!BeginInversion(iter)
  BY DEF Engine!BeginInversion, Current!BeginInversion
<1> QED
  BY <1>1, <1>2, <1>3, <1>4 DEF Engine!BeginCall, Current!BeginCall

LEMMA SameContinue == Engine!ContinueCall <=> Current!ContinueCall
<1> USE SameVars, SameVarsNext, SameOperators
<1>1. \A short : Engine!EndValidation(short) <=> Current!EndValidation(short)
  BY DEF Engine!EndValidation, Current!EndValidation
<1>2. \A short : Engine!EndInversion(short) <=> Current!EndInversion(short)
  BY DEF Engine!EndInversion, Current!EndInversion
<1>3. Engine!ValidateBid <=> Current!ValidateBid
  BY DEF Engine!ValidateBid, Current!ValidateBid
<1>4. Engine!BeginPass <=> Current!BeginPass
  BY DEF Engine!BeginPass, Current!BeginPass
<1>5. Engine!Compare <=> Current!Compare
  BY DEF Engine!Compare, Current!Compare
<1>6. Engine!EndPass <=> Current!EndPass
  BY DEF Engine!EndPass, Current!EndPass
<1>7. Engine!EndRanking <=> Current!EndRanking
  BY DEF Engine!EndRanking, Current!EndRanking
<1>8. Engine!AwardRank <=> Current!AwardRank
  BY DEF Engine!AwardRank, Current!AwardRank
<1>9. Engine!EndAward <=> Current!EndAward
  BY DEF Engine!EndAward, Current!EndAward
<1>10. Engine!LookUp <=> Current!LookUp
  BY DEF Engine!LookUp, Current!LookUp
<1> QED
  BY <1>1, <1>2, <1>3, <1>4, <1>5, <1>6, <1>7, <1>8, <1>9, <1>10
     DEF Engine!ContinueCall, Current!ContinueCall

LEMMA SameWork ==
  /\ Engine!RefuseCall <=> Current!RefuseCall
  /\ EngineWorks <=> \/ Current!RefuseCall \/ Current!BeginCall(Units)
                     \/ Current!ContinueCall
<1>1. Engine!RefuseCall <=> Current!RefuseCall
  BY SameVars, SameVarsNext, SameOperators DEF Engine!RefuseCall, Current!RefuseCall
<1> QED
  BY <1>1, SameBegin, SameContinue DEF EngineWorks
-----------------------------------------------------------------------------
(* The invariant *)

\* The books are as AuctionEngineProofs assumes them, in both instances.
LEMMA BooksFit ==
  (\A b \in Books : Current!IsBook(b)) /\ (\A b \in Books : Committed!IsBook(b))
BY ComputationAssumption
   DEF Engine!IsBook, Current!IsBook, Engine!Indices, Current!Indices, Engine!Amounts,
       Current!Amounts, Engine!Bid, Current!Bid, Committed!IsBook, Committed!Indices,
       Committed!Amounts, Committed!Bid

\* What was announced before the transaction stays in it.
Frozen ==
  /\ stored.wonQuantitiesByRankReady =>
       /\ wonQuantitiesByRankReady = stored.wonQuantitiesByRankReady
       /\ rankedBids = stored.rankedBids
       /\ rankedWonQuantities = stored.rankedWonQuantities
       /\ uniformPrice = stored.uniformPrice
  /\ stored.wonQuantitiesByIdReady =>
       /\ wonQuantitiesByIdReady = stored.wonQuantitiesByIdReady
       /\ wonQuantities = stored.wonQuantities

\* The two storages agree on the page, and entirely between two transactions.
StorageInv ==
  /\ stored.step = step /\ stored.progress = stepProgress
  /\ stored.run.pc = "idle"
  /\ pc = "idle" => AsStored

\* The engine works when it is asked, for the units that it was asked for.
AskedInv == run.pc # "idle" => Asking /\ run.iter = Units

\* The iterator's invariant, the engine's in the transaction and as stored, and what
\* ties the three together.
ComputationInv ==
  /\ IteratorInv /\ Current!EngineInv /\ Committed!EngineInv
  /\ StorageInv /\ AskedInv /\ Frozen

LEMMA InitIsSame == ComputationInit => Current!EngineInit /\ AsStored
BY DEF ComputationInit, Snapshot, AsStored, Engine!EngineInit, Current!EngineInit,
       Engine!Ranks, Current!Ranks, Engine!Dummy, Current!Dummy, Engine!NoRun,
       Current!NoRun, Engine!S_NOT_FINISHED, Current!S_NOT_FINISHED, Engine!Rules,
       Current!Rules

LEMMA InitIsSound == ComputationInit => ComputationInv
<1> SUFFICES ASSUME ComputationInit PROVE ComputationInv
  OBVIOUS
<1>1. IteratorInit
  BY DEF ComputationInit
<1>2. Current!EngineInit
  BY InitIsSame
<1>3. AsStored
  BY InitIsSame
<1>4. Current!EngineInv
  BY <1>2, ComputationAssumption, BooksFit, Current!EngineInitIsSound
<1>5. Committed!EngineInv
  BY <1>3, <1>4, SameEngineInv
<1>6. IteratorInv
  BY <1>1, IteratorInvInit
<1>7. pc = "idle" /\ run.pc = "idle"
  BY <1>1, <1>2 DEF IteratorInit, Current!EngineInit, Current!NoRun
<1>8. StorageInv
  BY <1>3, <1>7 DEF StorageInv, AsStored, CurrentStep, CurrentProgress
<1>9. AskedInv /\ Frozen
  BY <1>3, <1>7 DEF AskedInv, Frozen, AsStored
<1> QED
  BY <1>4, <1>5, <1>6, <1>8, <1>9 DEF ComputationInv

\* The engine works on, or has answered.
LEMMA WorkPreserves ==
  ASSUME Current!EngineInv, EngineWorks
  PROVE  Current!EngineNext /\ Current!EngineInv'
<1>1. Current!EngineNext
  <2>1. ASSUME Current!BeginCall(Units)
        PROVE  Units \in 1..(Current!StepSize(CurrentStep) - CurrentProgress)
    BY <2>1
       DEF Current!BeginCall, Current!BeginValidation, Current!BeginRanking,
           Current!BeginAward, Current!BeginInversion, Current!Called
  <2> QED
    BY <2>1, SameWork DEF Current!EngineNext
<1> QED
  BY <1>1, ComputationAssumption, BooksFit, Current!EnginePreserved

\* What the transaction does not change.
LEMMA CommittedStays ==
  ASSUME Committed!EngineInv, UNCHANGED <<stored, rule, balance>>
  PROVE  Committed!EngineInv'
BY ComputationAssumption, BooksFit, Committed!EngineStutters
   DEF Committed!engineVars, Committed!bookVars, Committed!rankVars,
       Committed!awardVars, Committed!invertVars

LEMMA CurrentStays ==
  ASSUME Current!EngineInv, UNCHANGED <<memory, CurrentStep, CurrentProgress>>
  PROVE  Current!EngineInv'
BY ComputationAssumption, BooksFit, Current!EngineStutters
   DEF Current!engineVars, Current!bookVars, Current!rankVars, Current!awardVars,
       Current!invertVars, memory

\* One lemma per action of a transaction.
LEMMA BeginPagePreserves ==
  ASSUME ComputationInv, NEW n \in Iters, NEW stop \in LastSteps, BeginPage(n, stop)
  PROVE  ComputationInv'
<1>1. Call(n, stop) /\ UNCHANGED <<memory, stored>> /\ pc = "idle"
  BY DEF BeginPage, Call
<1>2. IteratorInv'
  BY <1>1, CallPreserves DEF ComputationInv, LastSteps, StepIds
<1>3. UNCHANGED <<CurrentStep, CurrentProgress, step, stepProgress>> /\ pc' # "idle"
  BY <1>1 DEF Call, CurrentStep, CurrentProgress
<1>4. Current!EngineInv'
  BY <1>1, <1>3, CurrentStays DEF ComputationInv
<1>5. Committed!EngineInv'
  BY <1>1, CommittedStays DEF ComputationInv, memory
<1>6. run.pc = "idle" /\ UNCHANGED run
  BY <1>1 DEF ComputationInv, StorageInv, AsStored, memory
<1>7. StorageInv' /\ AskedInv'
  BY <1>1, <1>3, <1>6 DEF ComputationInv, StorageInv, AskedInv
<1>8. Frozen'
  BY <1>1 DEF ComputationInv, Frozen, memory
<1> QED
  BY <1>2, <1>4, <1>5, <1>7, <1>8 DEF ComputationInv

LEMMA RevertPagePreserves ==
  ASSUME ComputationInv, RevertPage
  PROVE  ComputationInv'
<1>1. (Overflow \/ OutOfGas) /\ Restore /\ UNCHANGED stored /\ pc' = "idle"
  BY DEF RevertPage, Overflow, OutOfGas
<1>2. IteratorInv'
  BY <1>1, RevertPreserves DEF ComputationInv
<1>3. /\ UNCHANGED <<step, stepProgress>>
      /\ CurrentStep' = step /\ CurrentProgress' = stepProgress
  BY <1>1 DEF Overflow, OutOfGas, CurrentStep, CurrentProgress
<1>4. AsStored'
  BY <1>1, <1>3 DEF AsStored, Restore, ComputationInv, StorageInv
<1>5. Committed!EngineInv'
  BY <1>1, CommittedStays DEF ComputationInv, Restore
<1>6. (AsStored => (Committed!EngineInv <=> Current!EngineInv))'
  BY SameEngineInv, PTL
<1>7. Current!EngineInv'
  BY <1>4, <1>5, <1>6
<1>8. StorageInv' /\ AskedInv' /\ Frozen'
  BY <1>1, <1>3, <1>4 DEF ComputationInv, StorageInv, AskedInv, Frozen, AsStored
<1> QED
  BY <1>2, <1>5, <1>7, <1>8 DEF ComputationInv

LEMMA StopPagePreserves ==
  ASSUME ComputationInv, StopPage
  PROVE  ComputationInv'
<1>1. NoFheGasLeft /\ UNCHANGED <<memory, stored>> /\ pc # "idle" /\ pc' # "idle"
      /\ ~Asking
  BY DEF StopPage, NoFheGasLeft, AtStep, InLoop, Asking
<1>2. IteratorInv'
  BY <1>1, NoFheGasLeftPreserves DEF ComputationInv
<1>3. UNCHANGED <<CurrentStep, CurrentProgress, step, stepProgress>>
  BY <1>1 DEF NoFheGasLeft, CurrentStep, CurrentProgress, ComputationInv, IteratorInv,
              IteratorTypeOK, CallType
<1>4. Current!EngineInv'
  BY <1>1, <1>3, CurrentStays DEF ComputationInv
<1>5. Committed!EngineInv'
  BY <1>1, CommittedStays DEF ComputationInv, memory
<1>6. run.pc = "idle" /\ UNCHANGED run
  BY <1>1 DEF ComputationInv, AskedInv, memory
<1>7. StorageInv' /\ AskedInv'
  BY <1>1, <1>3, <1>6 DEF ComputationInv, StorageInv, AskedInv
<1>8. Frozen'
  BY <1>1 DEF ComputationInv, Frozen, memory
<1> QED
  BY <1>2, <1>4, <1>5, <1>7, <1>8 DEF ComputationInv

LEMMA ReturnPagePreserves ==
  ASSUME ComputationInv, ReturnPage
  PROVE  ComputationInv'
<1>1. Return /\ UNCHANGED memory /\ stored' = Snapshot' /\ pc' = "idle"
  BY DEF ReturnPage, Return
<1>2. IteratorInv'
  BY <1>1, ReturnPreserves DEF ComputationInv
<1>3. ~Asking /\ pc # "idle"
  BY <1>1 DEF Return, Asking, AtStep, InLoop
<1>4. /\ UNCHANGED <<CurrentStep, CurrentProgress>>
      /\ CurrentStep' = step' /\ CurrentProgress' = stepProgress'
  BY <1>1, <1>3 DEF Return, CurrentStep, CurrentProgress
<1>5. Current!EngineInv'
  BY <1>1, <1>4, CurrentStays DEF ComputationInv
<1>6. AsStored'
  BY <1>1 DEF AsStored, Snapshot
<1>7. (AsStored => (Committed!EngineInv <=> Current!EngineInv))'
  BY SameEngineInv, PTL
<1>8. Committed!EngineInv'
  BY <1>5, <1>6, <1>7
<1>9. run.pc = "idle" /\ UNCHANGED run
  BY <1>1, <1>3 DEF ComputationInv, AskedInv, memory
<1>10. StorageInv' /\ AskedInv' /\ Frozen'
  BY <1>4, <1>6, <1>9 DEF StorageInv, AskedInv, Frozen, AsStored
<1> QED
  BY <1>2, <1>5, <1>8, <1>10 DEF ComputationInv

\* The engine changes neither the rule nor a balance.
LEMMA BookStays == ASSUME Current!EngineNext PROVE UNCHANGED <<rule, balance>>
BY DEF Current!EngineNext, Current!RefuseCall, Current!BeginCall,
       Current!ContinueCall, Current!BeginValidation, Current!BeginRanking,
       Current!BeginAward, Current!BeginInversion, Current!EndValidation,
       Current!EndInversion, Current!ValidateBid, Current!BeginPass, Current!Compare,
       Current!EndPass, Current!EndRanking, Current!AwardRank, Current!EndAward,
       Current!LookUp, Current!bookVars

\* A step of the engine in a page.
LEMMA WorkKeepsStorage ==
  ASSUME ComputationInv, EngineWorks, UNCHANGED <<stored, step, stepProgress>>,
         pc' # "idle"
  PROVE  /\ Current!EngineInv' /\ Committed!EngineInv' /\ StorageInv' /\ Frozen'
<1>1. Current!EngineNext /\ Current!EngineInv'
  BY WorkPreserves DEF ComputationInv
<1>2. UNCHANGED <<rule, balance>>
  BY <1>1, BookStays
<1>3. Committed!EngineInv'
  BY <1>2, CommittedStays DEF ComputationInv
<1>4. StorageInv'
  BY DEF ComputationInv, StorageInv
<1>5. /\ wonQuantitiesByRankReady =>
              UNCHANGED <<rankedBids, rankedWonQuantities, uniformPrice,
                          wonQuantitiesByRankReady>>
      /\ wonQuantitiesByIdReady => UNCHANGED <<wonQuantities, wonQuantitiesByIdReady>>
  BY <1>1, ComputationAssumption, BooksFit, Current!FinalKept DEF ComputationInv
<1>6. Frozen'
  BY <1>5 DEF ComputationInv, Frozen
<1> QED
  BY <1>1, <1>3, <1>4, <1>6

LEMMA WorkOnPreserves ==
  ASSUME ComputationInv, WorkOn
  PROVE  ComputationInv'
<1>1. /\ Asking /\ UNCHANGED <<iteratorVars, stored>>
      /\ EngineWorks /\ run'.pc # "idle"
  BY DEF WorkOn
<1>2. pc' = pc /\ pc # "idle" /\ UNCHANGED <<step, stepProgress, call>>
  BY <1>1 DEF iteratorVars, Asking, AtStep, InLoop
<1>3. IteratorInv'
  BY <1>1, IteratorPreserved DEF ComputationInv
<1>4. Current!EngineInv' /\ Committed!EngineInv' /\ StorageInv' /\ Frozen'
  BY <1>1, <1>2, WorkKeepsStorage
<1>5. Asking' /\ Units' = Units
  BY <1>1, <1>2 DEF Asking, AtStep, InLoop, Remaining, Wanted, Units
<1>6. run'.iter = Units
  <2>1. Current!BeginCall(Units) \/ Current!ContinueCall
    BY <1>1, SameWork, ComputationAssumption, BooksFit, Current!CallGoesOn
       DEF ComputationInv
  <2>2. /\ Current!BeginCall(Units) => run'.iter = Units
        /\ Current!ContinueCall => run.pc # "idle" /\ run'.iter = run.iter
    BY <1>1, ComputationAssumption, BooksFit, Current!CallGoesOn DEF ComputationInv
  <2> QED
    BY <2>1, <2>2 DEF ComputationInv, AskedInv
<1>7. AskedInv'
  BY <1>5, <1>6 DEF AskedInv
<1> QED
  BY <1>3, <1>4, <1>7 DEF ComputationInv

\* Iterator and engine agree on how much a step is.
LEMMA SizesOfBids ==
  ASSUME PagesOfBids, NEW s \in StepIds
  PROVE  Size[s] = Current!StepSize(s)
<1>1. /\ BidCount = N /\ OnlyAward = FALSE /\ Size[s] = EngineSize[s]
      /\ N \in Nat \ {0}
      /\ s \in {0, 1, 2, 3}
  BY ComputationAssumption DEF PagesOfBids, StepIds
<1> QED
  BY <1>1 DEF EngineSize, StepIds, Current!StepSize

\* The answer of the engine is one that the iterator allows for.
LEMMA AnswerAllowed ==
  ASSUME PagesOfBids, ComputationInv, Asking, EngineWorks, run'.pc = "idle",
         NEW j \in Nat, NEW code \in Codes, run'.count = j, run'.code = code
  PROVE  j \in 0..Units /\ Reply(Units, j, code)
<1>1. /\ CurrentStep = call.s /\ CurrentProgress = call.p /\ AtStep /\ pc # "idle"
  BY DEF Asking, AtStep, InLoop, CurrentStep, CurrentProgress
<1>2. /\ call.s \in StepIds /\ call.p \in Nat /\ call.p < Size[call.s] /\ Units \in Nat
      /\ Size[call.s] \in Nat
  BY <1>1, UnitsInRange, SizeAssumption
     DEF ComputationInv, IteratorInv, IteratorTypeOK, CallType
<1>3. Size[call.s] = Current!StepSize(call.s)
  BY <1>2, SizesOfBids
<1>4. /\ S_FINISHED = Current!S_FINISHED /\ S_NOT_FINISHED = Current!S_NOT_FINISHED
      /\ E_NOT_ENOUGH_GAS = Current!E_NOT_ENOUGH_GAS
      /\ S_FINISHED # E_NOT_ENOUGH_GAS /\ S_NOT_FINISHED # E_NOT_ENOUGH_GAS
      /\ S_FINISHED # S_NOT_FINISHED
  BY DEF S_FINISHED, S_NOT_FINISHED, E_NOT_ENOUGH_GAS, Current!S_FINISHED,
         Current!S_NOT_FINISHED, Current!E_NOT_ENOUGH_GAS
<1>5. Current!EngineInv /\ Current!EngineNext
  BY WorkPreserves DEF ComputationInv
<1>6. CASE Current!RefuseCall
  <2>1. j = 0 /\ code = E_NOT_ENOUGH_GAS
    <3>1. Current!Answer(Current!E_NOT_ENOUGH_GAS, 0)
      BY <1>6 DEF Current!RefuseCall
    <3> QED
      BY <3>1, <1>4 DEF Current!Answer, Current!NoRun
  <2> QED
    BY <2>1, <1>2, <1>4 DEF Reply
<1>7. CASE Current!BeginCall(Units)
  <2>1. j = Units /\ code = S_FINISHED /\ call.p + Units = Current!StepSize(call.s)
    BY <1>1, <1>4, <1>5, <1>7, ComputationAssumption, BooksFit, Current!AnswerAtOnce
  <2> QED
    BY <2>1, <1>2, <1>3, <1>4 DEF Reply
<1>8. CASE Current!ContinueCall
  <2>1. run.pc # "idle"
    BY <1>8
       DEF Current!ContinueCall, Current!EndValidation, Current!EndInversion,
           Current!ValidateBid, Current!BeginPass, Current!Compare, Current!EndPass,
           Current!EndRanking, Current!AwardRank, Current!EndAward, Current!LookUp
  <2>2. run.iter = Units
    BY <2>1 DEF ComputationInv, AskedInv
  <2>3. /\ j <= Units
        /\ (code = S_FINISHED) = (call.p + j = Current!StepSize(call.s))
        /\ code = S_NOT_FINISHED => j = Units
    BY <1>1, <1>4, <1>5, <2>1, <2>2, ComputationAssumption, BooksFit,
       Current!AnswerKept
  <2> QED
    BY <2>3, <1>2, <1>3 DEF Reply
<1> QED
  BY <1>6, <1>7, <1>8, SameWork

\* So filing the answer is a step of FourStepsIterator.
LEMMA TakeAnswerRuns ==
  ASSUME PagesOfBids, ComputationInv, TakeAnswer
  PROVE  \E j \in 0..Units, code \in Codes : RunStep(j, code)
<1>1. PICK j \in 0..Size[call.s], code \in Codes :
        /\ Work(j, code) /\ EngineWorks
        /\ run'.pc = "idle" /\ run'.count = j /\ run'.code = code
  BY DEF TakeAnswer
<1>2. Asking /\ j \in Nat
  BY DEF TakeAnswer
<1>3. j \in 0..Units /\ Reply(Units, j, code)
  BY <1>1, <1>2, AnswerAllowed
<1>4. RunStep(j, code)
  BY <1>1, <1>2, <1>3 DEF RunStep
<1> QED
  BY <1>3, <1>4

LEMMA TakeAnswerPreserves ==
  ASSUME PagesOfBids, ComputationInv, TakeAnswer
  PROVE  ComputationInv'
<1>1. PICK j \in 0..Units, code \in Codes : RunStep(j, code)
  BY TakeAnswerRuns
<1>2. /\ EngineWorks /\ run'.pc = "idle" /\ UNCHANGED stored
  BY DEF TakeAnswer
<1>3. /\ UNCHANGED <<step, stepProgress>> /\ pc' # "idle"
  BY <1>1 DEF RunStep, Work
<1>4. IteratorInv'
  <2>1. j \in Nat
    BY DEF TakeAnswer
  <2> QED
    BY <1>1, <2>1, RunStepPreserves DEF ComputationInv
<1>5. Current!EngineInv' /\ Committed!EngineInv' /\ StorageInv' /\ Frozen'
  BY <1>2, <1>3, WorkKeepsStorage
<1>6. AskedInv'
  BY <1>2 DEF AskedInv
<1> QED
  BY <1>4, <1>5, <1>6 DEF ComputationInv

LEMMA ComputationStutters ==
  ASSUME ComputationInv, UNCHANGED computationVars
  PROVE  ComputationInv'
<1>1. UNCHANGED <<iteratorVars, memory, stored>>
  BY DEF computationVars
<1>2. IteratorInv'
  BY <1>1, IteratorPreserved DEF ComputationInv
<1>3. UNCHANGED <<CurrentStep, CurrentProgress, step, stepProgress, pc, call>>
  BY <1>1 DEF iteratorVars, CurrentStep, CurrentProgress
<1>4. Current!EngineInv' /\ Committed!EngineInv'
  BY <1>1, <1>3, CurrentStays, CommittedStays DEF ComputationInv, memory
<1>5. UNCHANGED <<Asking, Units, AsStored>>
  BY <1>1, <1>3 DEF memory, Asking, AtStep, InLoop, Remaining, Wanted, Units, AsStored
<1>6. StorageInv' /\ AskedInv' /\ Frozen'
  BY <1>1, <1>3, <1>5 DEF ComputationInv, StorageInv, AskedInv, Frozen, memory
<1> QED
  BY <1>2, <1>4, <1>6 DEF ComputationInv

LEMMA ComputationPreserved ==
  PagesOfBids /\ ComputationInv /\ [ComputationNext]_computationVars
    => ComputationInv'
BY BeginPagePreserves, RevertPagePreserves, StopPagePreserves, ReturnPagePreserves,
   WorkOnPreserves, TakeAnswerPreserves, ComputationStutters DEF ComputationNext

\* The inductive invariant of computeAuctionIterations() in pages holds: the bookkeeping
\* of _next(), the storage of the engine in the transaction and as it was stored, and
\* that results announced in storage are not touched by the transaction.
THEOREM ComputationInvariant ==
  ASSUME PagesOfBids PROVE ComputationSpec => []ComputationInv
<1>1. ComputationInv /\ [ComputationNext]_computationVars => ComputationInv'
  BY ComputationPreserved
<1> QED
  BY <1>1, InitIsSound, PTL DEF ComputationSpec

-----------------------------------------------------------------------------
(* Pages of bids are pages of FourStepsIterator *)

LEMMA StepsArePages ==
  ASSUME PagesOfBids, ComputationInv, [ComputationNext]_computationVars
  PROVE  [IteratorNext]_iteratorVars
<1>1. ASSUME NEW n \in Iters, NEW stop \in LastSteps, BeginPage(n, stop)
      PROVE  IteratorNext
  BY <1>1 DEF BeginPage, IteratorNext, LastSteps, StepIds
<1>2. CASE RevertPage \/ StopPage \/ ReturnPage
  BY <1>2 DEF RevertPage, StopPage, ReturnPage, IteratorNext
<1>3. CASE WorkOn
  BY <1>3 DEF WorkOn
<1>4. CASE TakeAnswer
  <2>1. PICK j \in 0..Units, code \in Codes : RunStep(j, code)
    BY <1>4, TakeAnswerRuns
  <2>2. RunSomeStep
    BY <2>1 DEF RunSomeStep, RunStep, Asking
  <2> QED
    BY <2>2 DEF IteratorNext
<1>5. CASE UNCHANGED computationVars
  BY <1>5 DEF computationVars
<1> QED
  BY <1>1, <1>2, <1>3, <1>4, <1>5 DEF ComputationNext

\* computeAuctionIterations() with runStep1 to runStep4 behind it implements _next():
\* the engine answers what the iterator takes for granted, so that no require() marked
\* Panic fails, for any number of bids and however the pages are cut or reverted.
THEOREM PagesImplementIterator ==
  ASSUME PagesOfBids PROVE ComputationSpec => ImplementsIterator
<1>1. ComputationInit => IteratorInit
  BY DEF ComputationInit
<1>2. ComputationInv /\ [ComputationNext]_computationVars
        => [IteratorNext]_iteratorVars
  BY StepsArePages
<1>3. ComputationSpec => []ComputationInv
  BY ComputationInvariant
<1> QED
  BY <1>1, <1>2, <1>3, PTL DEF ComputationSpec, ImplementsIterator, IteratorSpec
-----------------------------------------------------------------------------
(* Results and promises *)

\* The results, in the transaction and as stored.
ResultsInv == Current!ResultInv /\ Committed!ResultInv

LEMMA CommittedResultsStay ==
  ASSUME Committed!ResultInv, UNCHANGED <<stored, rule, balance>>
  PROVE  Committed!ResultInv'
BY ComputationAssumption, BooksFit, Committed!ResultsStutter
   DEF Committed!engineVars, Committed!bookVars, Committed!rankVars,
       Committed!awardVars, Committed!invertVars

LEMMA CurrentResultsStay ==
  ASSUME Current!ResultInv, UNCHANGED <<memory, CurrentStep, CurrentProgress>>
  PROVE  Current!ResultInv'
BY ComputationAssumption, BooksFit, Current!ResultsStutter
   DEF Current!engineVars, Current!bookVars, Current!rankVars, Current!awardVars,
       Current!invertVars, memory

LEMMA ResultsInvPreserved ==
  ASSUME Current!TotalFits, PagesOfBids, ComputationInv, ResultsInv,
         [ComputationNext]_computationVars
  PROVE  ResultsInv'
<1>1. ASSUME EngineWorks, UNCHANGED stored
      PROVE  ResultsInv'
  <2>1. Current!EngineNext
    BY <1>1, WorkPreserves DEF ComputationInv
  <2>2. Current!ResultInv'
    BY <2>1, ComputationAssumption, BooksFit, Current!ResultsPreserved
       DEF ComputationInv, ResultsInv
  <2>3. UNCHANGED <<rule, balance>>
    BY <2>1, BookStays
  <2> QED
    BY <1>1, <2>2, <2>3, CommittedResultsStay DEF ResultsInv
<1>2. ASSUME UNCHANGED <<memory, CurrentStep, CurrentProgress, stored>>
      PROVE  ResultsInv'
  BY <1>2, CurrentResultsStay, CommittedResultsStay DEF ResultsInv, memory
<1>3. (AsStored => (Committed!ResultInv <=> Current!ResultInv))'
  BY SameResults, PTL
<1>4. ASSUME NEW n \in Iters, NEW stop \in LastSteps, BeginPage(n, stop)
      PROVE  ResultsInv'
  BY <1>2, <1>4 DEF BeginPage, Call, CurrentStep, CurrentProgress
<1>5. CASE RevertPage
  <2>1. AsStored' /\ UNCHANGED <<stored, rule, balance>>
    <3>1. ComputationInv' /\ pc' = "idle"
      BY <1>5, RevertPagePreserves DEF RevertPage, Overflow, OutOfGas
    <3> QED
      BY <1>5, <3>1 DEF ComputationInv, StorageInv, RevertPage, Restore
  <2> QED
    BY <1>3, <2>1, CommittedResultsStay DEF ResultsInv
<1>6. CASE StopPage
  <2>1. UNCHANGED <<CurrentStep, CurrentProgress>>
    BY <1>6
       DEF StopPage, NoFheGasLeft, AtStep, InLoop, CurrentStep, CurrentProgress,
           ComputationInv, IteratorInv, IteratorTypeOK, CallType
  <2> QED
    BY <1>2, <1>6, <2>1 DEF StopPage
<1>7. CASE ReturnPage
  <2>1. AsStored' /\ UNCHANGED <<memory, CurrentStep, CurrentProgress>>
    <3>1. ComputationInv' /\ pc' = "idle" /\ pc # "idle"
      BY <1>7, ReturnPagePreserves DEF ReturnPage, Return, InLoop
    <3> QED
      BY <1>7, <3>1
         DEF ComputationInv, StorageInv, ReturnPage, Return, CurrentStep,
             CurrentProgress
  <2> QED
    BY <1>3, <2>1, CurrentResultsStay DEF ResultsInv
<1>8. CASE WorkOn
  BY <1>1, <1>8 DEF WorkOn
<1>9. CASE TakeAnswer
  BY <1>1, <1>9 DEF TakeAnswer
<1>10. CASE UNCHANGED computationVars
  BY <1>2, <1>10 DEF computationVars, iteratorVars, CurrentStep, CurrentProgress
<1> QED
  BY <1>4, <1>5, <1>6, <1>7, <1>8, <1>9, <1>10 DEF ComputationNext

LEMMA ResultsBeginRight == ComputationInit => ResultsInv
<1> SUFFICES ASSUME ComputationInit PROVE ResultsInv
  OBVIOUS
<1>1. Current!EngineInit /\ AsStored
  BY InitIsSame
<1>2. Current!ResultInv
  BY <1>1, ComputationAssumption, BooksFit, Current!ResultsBegin
<1> QED
  BY <1>1, <1>2, SameResults DEF ResultsInv

\* The properties are stated of a third instance, which says the same as Committed.
LEMMA SameProperties ==
  /\ Committed!AwardsAreRight => Storage!AwardsAreRight
  /\ Committed!WinnersCanPay => Storage!WinnersCanPay
<1>1. \A f, S : Storage!SumFunctionOnSet(f, S) = Committed!SumFunctionOnSet(f, S)
  BY DEF Committed!SumFunctionOnSet, Storage!SumFunctionOnSet,
         Committed!FoldFunctionOnSet, Storage!FoldFunctionOnSet,
         Committed!MapThenFoldSet, Storage!MapThenFoldSet
<1>2. \A r, a, b : Storage!Beats(r, a, b) = Committed!Beats(r, a, b)
  BY DEF Committed!Beats, Storage!Beats, Committed!BeatsByPriceId,
         Storage!BeatsByPriceId, Committed!BeatsByPriceQuantityId,
         Storage!BeatsByPriceQuantityId, Committed!BeatsByPriceRandom,
         Storage!BeatsByPriceRandom
<1>3. \A a, b : Storage!Lesser(a, b) = Committed!Lesser(a, b)
  BY DEF Storage!Lesser, Committed!Lesser
<1>4. \A r, b, q, i : Storage!Won(r, b, q, i) = Committed!Won(r, b, q, i)
  BY <1>1, <1>2, <1>3 DEF Storage!Won, Committed!Won, Storage!Ahead, Committed!Ahead
<1>5. \A r, b, q : Storage!Winners(r, b, q) = Committed!Winners(r, b, q)
  BY <1>4 DEF Storage!Winners, Committed!Winners
<1>6. \A r, b, q : Storage!SinglePrice(r, b, q) = Committed!SinglePrice(r, b, q)
  <2>1. \A S : Storage!Min(S) = Committed!Min(S)
    BY DEF Storage!Min, Committed!Min
  <2> QED
    BY <1>5, <2>1 DEF Storage!SinglePrice, Committed!SinglePrice
<1>7. Storage!Ranks = Committed!Ranks /\ Storage!Indices = Committed!Indices
  BY DEF Storage!Ranks, Committed!Ranks, Storage!Indices, Committed!Indices
<1>8. \A id : Storage!IndexOfId(id) = Committed!IndexOfId(id)
  BY <1>7 DEF Storage!IndexOfId, Committed!IndexOfId
<1>9. Committed!AwardsAreRight => Storage!AwardsAreRight
  BY <1>4, <1>6, <1>7, <1>8
     DEF Storage!AwardsAreRight, Committed!AwardsAreRight,
         Storage!AwardsByRankAreRight, Committed!AwardsByRankAreRight,
         Storage!AwardsByIdAreRight, Committed!AwardsByIdAreRight
<1>10. Committed!WinnersCanPay => Storage!WinnersCanPay
  BY <1>1, <1>3, <1>7 DEF Storage!WinnersCanPay, Committed!WinnersCanPay
<1> QED
  BY <1>9, <1>10

\* What the engine's storage announces between two transactions is the result that the
\* definition of the auction gives, and every winner can pay it: pages that revert
\* after they computed or announced more leave nothing behind.  Quantities must add
\* up in 256 bits, as for AnnouncedAwardsAreRight.
THEOREM StoredResultsAlwaysRight ==
  ASSUME PagesOfBids, N * TotalQuantity <= UInt256Max
  PROVE  ComputationSpec => []StoredResultsAreRight
<1>1. Current!TotalFits
  BY DEF Current!TotalFits
<1>2. PagesOfBids
  OBVIOUS
<1>3. ComputationInv /\ ResultsInv /\ [ComputationNext]_computationVars => ResultsInv'
  BY <1>1, <1>2, ResultsInvPreserved
<1>4. ComputationInv /\ ResultsInv => StoredResultsAreRight
  <2> SUFFICES ASSUME ComputationInv, ResultsInv PROVE StoredResultsAreRight
    OBVIOUS
  <2>1. Committed!AwardsAreRight /\ Committed!WinnersCanPay
    BY ComputationAssumption, BooksFit, Committed!AwardsRight, Committed!WinsCovered
       DEF ComputationInv, ResultsInv
  <2> QED
    BY <2>1, SameProperties DEF StoredResultsAreRight
<1>5. ComputationSpec => []ComputationInv
  BY ComputationInvariant
<1> QED
  BY <1>3, <1>4, <1>5, ResultsBeginRight, PTL DEF ComputationSpec

\* _next() never asks runStep1 to runStep4 for more than is left of the step, which
\* the engine takes for granted.
THEOREM PagesKeepContract ==
  ASSUME PagesOfBids PROVE ComputationSpec => []CallsKeepContract
<1>1. PagesOfBids
  OBVIOUS
<1>2. ComputationInv => CallsKeepContract
  <2> SUFFICES ASSUME ComputationInv, Asking
               PROVE  Units <= Engine!StepSize(CurrentStep) - CurrentProgress
    BY DEF CallsKeepContract
  <2>1. CurrentStep = call.s /\ CurrentProgress = call.p /\ AtStep
    BY DEF Asking, AtStep, InLoop, CurrentStep, CurrentProgress
  <2>2. call.s \in StepIds /\ Units <= Remaining
    BY <2>1, UnitsInRange DEF ComputationInv, IteratorInv
  <2>3. Size[call.s] = Engine!StepSize(call.s)
    BY <1>1, <2>2, SizesOfBids, SameOperators
  <2> QED
    BY <2>1, <2>2, <2>3 DEF Remaining
<1> QED
  BY <1>2, ComputationInvariant, PTL

\* minIterationsForPrizeAward() and iterProgressMax() are reached by iterProgress()
\* exactly when the engine has announced the results by rank and by id.
THEOREM ThresholdsAlwaysAnnounce ==
  ASSUME PagesOfBids PROVE ComputationSpec => []ThresholdsAnnounceResults
<1>1. PagesOfBids
  OBVIOUS
<1>2. ComputationInv => ThresholdsAnnounceResults
  <2> SUFFICES ASSUME ComputationInv PROVE ThresholdsAnnounceResults
    OBVIOUS
  <2>1. /\ stored.wonQuantitiesByRankReady <=> step > 2
        /\ stored.wonQuantitiesByIdReady <=> step > 3
    <3>1. /\ stored.wonQuantitiesByRankReady = (stored.step > 2)
          /\ stored.wonQuantitiesByIdReady = (stored.step > 3)
          /\ stored.step = step
      BY Zenon DEF ComputationInv, StorageInv, Committed!EngineInv, Committed!ReadyInv
    <3> QED
      BY <3>1, Zenon
  <2>2. Size[2] > 0 /\ Size[3] > 0 /\ 2 \in StepIds /\ 3 \in StepIds
    <3>1. N \in Nat /\ N > 0 /\ N * N > 0
      <4>1. \A m \in Nat \ {0} : m * m > 0
        OBVIOUS
      <4> QED
        BY <4>1, ComputationAssumption
    <3>2. /\ 2 \in StepIds /\ 3 \in StepIds
          /\ BidCount = N /\ OnlyAward = FALSE /\ Size = EngineSize
      BY <1>1 DEF PagesOfBids, StepIds
    <3> QED
      BY <3>1, <3>2 DEF EngineSize
  <2>3. /\ step > 2 <=> iterProgress >= Cumulative(2)
        /\ step > 3 <=> iterProgress >= Cumulative(3)
    BY <2>2, StepsBehind DEF ComputationInv
  <2> QED
    BY <2>1, <2>3 DEF ThresholdsAnnounceResults, IterProgressMax
<1> QED
  BY <1>2, ComputationInvariant, PTL

\* Stored results that are announced never change again, whatever pages are mined or
\* reverted later.
THEOREM StoredResultsAlwaysFinal ==
  ASSUME PagesOfBids PROVE ComputationSpec => StoredResultsAreFinal
<1> DEFINE Final ==
      /\ stored.wonQuantitiesByRankReady =>
           UNCHANGED <<stored.rankedBids, stored.rankedWonQuantities, stored.uniformPrice,
                       stored.wonQuantitiesByRankReady>>
      /\ stored.wonQuantitiesByIdReady =>
           UNCHANGED <<stored.wonQuantities, stored.wonQuantitiesByIdReady>>
<1>1. ComputationInv /\ [ComputationNext]_computationVars => Final
  <2> SUFFICES ASSUME ComputationInv, [ComputationNext]_computationVars PROVE Final
    OBVIOUS
  <2>1. CASE ReturnPage
    BY <2>1 DEF ReturnPage, memory, Snapshot, ComputationInv, Frozen
  <2>2. CASE ~ReturnPage
    <3>1. UNCHANGED stored
      BY <2>2
         DEF ComputationNext, BeginPage, RevertPage, StopPage, WorkOn, TakeAnswer,
             computationVars
    <3> QED
      BY <3>1
  <2> QED
    BY <2>1, <2>2
<1>2. [][Final]_(Storage!engineVars) => StoredResultsAreFinal
  BY DEF StoredResultsAreFinal, Storage!ReadyResultsAreFinal
<1> HIDE DEF Final
<1>3. ComputationSpec => []ComputationInv
  BY ComputationInvariant
<1> QED
  BY <1>1, <1>2, <1>3, PTL DEF ComputationSpec
=============================================================================
