--------------------------- MODULE AuctionEngine ---------------------------
(***************************************************************************)
(* The computation of contracts/engines/FHEAuctionEngine.sol on a closed   *)
(* book of N bids: _runStep1 to _runStep4.  The iterator calls them with   *)
(* the units already done and the units wanted (its side of the contract   *)
(* is proved in ComputationProofs.tla); each call is one transaction       *)
(* that may stop early when the native gas runs short.                     *)
(*                                                                         *)
(* `run' holds the local variables of the call in progress; they are lost  *)
(* when it returns, and what the next call needs must have been saved.     *)
(* Ciphertexts are cleartext numbers modulo UInt256Max + 1; a bid keeps    *)
(* the index it has in _indexPlusOneToId.                                  *)
(***************************************************************************)
EXTENDS TieBreaking

CONSTANTS
  N,               \* _bidCount
  TotalQuantity,   \* _totalQuantity
  UInt256Max,      \* the largest uint256
  Books            \* the books of bids to compute, with the balances

ASSUME NAssumption == N \in Nat \ {0}
ASSUME QuantityAssumption ==
  TotalQuantity \in Nat \ {0} /\ UInt256Max \in Nat /\ TotalQuantity <= UInt256Max

Ranks == 0..(N - 1)
Indices == 1..N
Amounts == 0..UInt256Max
Bid == [price : Amounts, quantity : Amounts, id : Nat, rand : Nat]

\* What addBid() stores, as BidRegistryProofs.tla proves of it: prices that fit, no
\* more than is for sale, an id of its own; and no two random numbers are equal.
IsBook(b) ==
  /\ b.bids \in [Indices -> Bid] /\ b.balance \in [Indices -> Amounts]
  /\ \A i \in Indices :
       /\ b.bids[i].price * b.bids[i].quantity <= UInt256Max
       /\ b.bids[i].quantity <= TotalQuantity
       /\ b.bids[i].price = 0 <=> b.bids[i].quantity = 0
  /\ \A i, j \in Indices : i # j =>
       b.bids[i].id # b.bids[j].id /\ b.bids[i].rand # b.bids[j].rand

ASSUME BooksAssumption == \A b \in Books : IsBook(b)

S_NOT_FINISHED == 0
S_FINISHED == 1
E_NOT_ENOUGH_GAS == 2

VARIABLES
  rule,                    \* _tieBreakingRule
  balance,                 \* auction.balanceOf of the bidder at an index
  bids,                    \* _idToBid of the id at an index
  rankedBids,              \* _rankedBids
  rankedBidCount,          \* _rankedBidCount
  cursorRB,                \* _cursorRB
  resumeIdxRB,             \* _resumeIdxRB
  rankedWonQuantities,     \* _rankedWonQuantities
  cumulativeQuantity,      \* _cumulativeQuantity
  uniformPrice,            \* _uniformPrice
  wonQuantitiesByRankReady,
  wonQuantities,           \* _wonQuantities
  idxWQ,                   \* _idxWQ
  resumeIdxWQ,             \* _resumeIdxWQ
  quantityWQ,              \* _quantityWQ
  wonQuantitiesByIdReady,
  step,                    \* _step of the iterator
  progress,                \* _stepProgress of the iterator
  run                      \* the call in progress

bookVars == <<rule, balance, bids>>
rankVars == <<rankedBids, rankedBidCount, cursorRB, resumeIdxRB>>
awardVars == <<rankedWonQuantities, cumulativeQuantity, uniformPrice,
               wonQuantitiesByRankReady>>
invertVars == <<wonQuantities, idxWQ, resumeIdxWQ, quantityWQ,
                wonQuantitiesByIdReady>>
engineVars == <<bookVars, rankVars, awardVars, invertVars, step, progress, run>>

Wrap(n) == n % (UInt256Max + 1)

\* The handles 0xdeadbeef that stand in arrays before they are computed.
Dummy == [price |-> 0, quantity |-> 0, id |-> 0, rand |-> 0]

NoRun == [pc |-> "idle", iter |-> 0, count |-> 0, ranked |-> 0, resume |-> 0,
          cursor |-> Dummy, idx |-> 0, toIdx |-> 0, cumulative |-> 0,
          uniform |-> 0, quantity |-> 0, code |-> S_NOT_FINISHED]

\* The sizes given to the iterator by initializeFourSteps().
StepSize(s) == CASE s = 0 -> N
                 [] s = 1 -> IF N < 3 THEN 1 ELSE (N * (N - 1)) \div 2
                 [] s = 2 -> N
                 [] s = 3 -> N * N
                 [] OTHER -> 0

EngineInit ==
  /\ rule \in Rules
  /\ \E b \in Books : bids = b.bids /\ balance = b.balance
  /\ rankedBids = [k \in Ranks |-> Dummy]
  /\ rankedBidCount = 0
  /\ cursorRB = Dummy
  /\ resumeIdxRB = 0
  /\ rankedWonQuantities = [k \in Ranks |-> 0]
  /\ cumulativeQuantity = 0
  /\ uniformPrice = 0
  /\ wonQuantitiesByRankReady = FALSE
  /\ wonQuantities = [k \in Ranks |-> 0]
  /\ idxWQ = 0
  /\ resumeIdxWQ = 0
  /\ quantityWQ = 0
  /\ wonQuantitiesByIdReady = FALSE
  /\ step = 0
  /\ progress = 0
  /\ run = NoRun

\* The iterator calls runStep(s + 1) for `iter' units of the current step.
Called(s, iter) ==
  /\ run.pc = "idle"
  /\ step = s
  /\ iter \in 1..(StepSize(s) - progress)

\* The call returns (code, count) and the iterator files it.
Answer(code, count) ==
  /\ run' = [NoRun EXCEPT !.code = code, !.count = count]
  /\ IF code = S_FINISHED
     THEN step' = step + 1 /\ progress' = 0
     ELSE step' = step /\ progress' = progress + count

\* Mutant of CodeFor: a shortage of gas hides that the step is complete.
CodeForGasFirst(count, shortOfGas) ==
  IF shortOfGas THEN E_NOT_ENOUGH_GAS
  ELSE IF progress + count = StepSize(step) THEN S_FINISHED
  ELSE S_NOT_FINISHED

\* The code of a call that did `count' units, short of gas or not.
CodeFor(count, shortOfGas) ==
  IF progress + count = StepSize(step) THEN S_FINISHED
  ELSE IF shortOfGas THEN E_NOT_ENOUGH_GAS
  ELSE S_NOT_FINISHED

\* Every runStep begins by refusing the call when the native gas is already short:
\* nothing is written.
RefuseCall ==
  /\ run.pc = "idle"
  /\ step < 4
  /\ Answer(E_NOT_ENOUGH_GAS, 0)
  /\ UNCHANGED <<bookVars, rankVars, awardVars, invertVars>>

-----------------------------------------------------------------------------
(* Step 1: bids that the bidder's balance does not cover become zero. *)

BeginValidation(iter) ==
  /\ Called(0, iter)
  /\ run' = [NoRun EXCEPT !.pc = "validate", !.iter = iter]
  /\ UNCHANGED <<bookVars, rankVars, awardVars, invertVars, step, progress>>

\* Mutant of ValidateBid: the price is compared with the balance.
ValidateBidByPrice ==
  LET i == progress + run.count + 1
  IN  /\ run.pc = "validate"
      /\ run.count < run.iter
      /\ bids' = [bids EXCEPT ![i] = IF @.price <= balance[i] THEN @
                                     ELSE [@ EXCEPT !.price = 0, !.quantity = 0]]
      /\ run' = [run EXCEPT !.count = @ + 1]
      /\ UNCHANGED <<rule, balance, rankVars, awardVars, invertVars, step,
                     progress>>

ValidateBid ==
  LET i      == progress + run.count + 1
      covers == Wrap(bids[i].price * bids[i].quantity) <= balance[i]
  IN  /\ run.pc = "validate"
      /\ run.count < run.iter
      /\ bids' = [bids EXCEPT ![i] =
                    IF covers THEN @ ELSE [@ EXCEPT !.price = 0, !.quantity = 0]]
      /\ run' = [run EXCEPT !.count = @ + 1]
      /\ UNCHANGED <<rule, balance, rankVars, awardVars, invertVars, step,
                     progress>>

EndValidation(shortOfGas) ==
  /\ run.pc = "validate"
  /\ run.count = run.iter \/ shortOfGas
  /\ Answer(CodeFor(run.count, shortOfGas), run.count)
  /\ UNCHANGED <<bookVars, rankVars, awardVars, invertVars>>

-----------------------------------------------------------------------------
(* Step 2: insertion sort with a cursor that survives between two calls. *)

\* The first call ranks the first bid and takes the second one as cursor; a later
\* call resumes from what was saved.
BeginRanking(iter) ==
  /\ Called(1, iter)
  /\ UNCHANGED <<bookVars, awardVars, invertVars>>
  /\ \/ /\ rankedBidCount = 0
        /\ rankedBids' = [rankedBids EXCEPT ![0] = bids[1]]
        /\ UNCHANGED <<cursorRB, resumeIdxRB>>
        /\ IF N = 1
           THEN rankedBidCount' = 1 /\ Answer(S_FINISHED, 1)
           ELSE /\ run' = [NoRun EXCEPT !.pc = "rank", !.iter = iter, !.ranked = 1,
                                        !.cursor = bids[2]]
                /\ UNCHANGED <<rankedBidCount, step, progress>>
     \/ /\ rankedBidCount # 0
        /\ run' = [NoRun EXCEPT !.pc = "rank", !.iter = iter,
                                !.ranked = rankedBidCount,
                                !.resume = resumeIdxRB, !.cursor = cursorRB]
        /\ UNCHANGED <<rankVars, step, progress>>

\* The cursor is compared with the ranks from resume up to toIdx.
BeginPass ==
  /\ run.pc = "rank"
  /\ run.count < run.iter
  /\ run' = [run EXCEPT !.pc = "compare", !.idx = run.resume,
                        !.toIdx = Lesser(run.resume + run.iter - run.count,
                                         run.ranked)]
  /\ UNCHANGED <<bookVars, rankVars, awardVars, invertVars, step, progress>>

\* One comparison: the better bid stays at the rank, the other one is the cursor.
Compare ==
  LET ahead == Beats(rule, rankedBids[run.idx], run.cursor)
  IN  /\ run.pc = "compare"
      /\ run.idx < run.toIdx
      /\ rankedBids' = IF ahead THEN rankedBids
                       ELSE [rankedBids EXCEPT ![run.idx] = run.cursor]
      /\ run' = [run EXCEPT !.idx = @ + 1,
                            !.cursor = IF ahead THEN @ ELSE rankedBids[run.idx]]
      /\ UNCHANGED <<bookVars, rankedBidCount, cursorRB, resumeIdxRB, awardVars,
                     invertVars, step, progress>>

\* The cursor went through the whole ranked list: it is appended, and the next
\* bid becomes the cursor unless all bids are ranked.
EndPass ==
  LET count == run.count + run.toIdx - run.resume
  IN  /\ run.pc = "compare"
      /\ run.idx = run.toIdx
      /\ UNCHANGED <<bookVars, cursorRB, resumeIdxRB, awardVars, invertVars>>
      /\ \/ /\ run.toIdx < run.ranked
            /\ run' = [run EXCEPT !.pc = "rank", !.count = count,
                                  !.resume = run.toIdx]
            /\ UNCHANGED <<rankedBids, rankedBidCount, step, progress>>
         \/ /\ run.toIdx = run.ranked
            /\ rankedBids' = [rankedBids EXCEPT ![run.ranked] = run.cursor]
            /\ IF run.ranked + 1 = N
               THEN rankedBidCount' = N /\ Answer(S_FINISHED, count)
               ELSE /\ run' = [run EXCEPT !.pc = "rank", !.count = count,
                                          !.resume = 0, !.ranked = @ + 1,
                                          !.cursor = bids[run.ranked + 2]]
                    /\ UNCHANGED <<rankedBidCount, step, progress>>

\* Mutant of EndRanking: the cursor is not saved.
EndRankingWithoutCursor ==
  /\ run.pc = "rank"
  /\ resumeIdxRB' = run.resume
  /\ rankedBidCount' = run.ranked
  /\ Answer(IF run.count = run.iter THEN S_NOT_FINISHED ELSE E_NOT_ENOUGH_GAS,
            run.count)
  /\ UNCHANGED <<bookVars, rankedBids, cursorRB, awardVars, invertVars>>

\* The call ends in the middle of the sort: cursor and position are saved.
EndRanking ==
  /\ run.pc = "rank"
  /\ cursorRB' = run.cursor
  /\ resumeIdxRB' = run.resume
  /\ rankedBidCount' = run.ranked
  /\ Answer(IF run.count = run.iter THEN S_NOT_FINISHED ELSE E_NOT_ENOUGH_GAS,
            run.count)
  /\ UNCHANGED <<bookVars, rankedBids, awardVars, invertVars>>

-----------------------------------------------------------------------------
(* Step 3: won quantities by rank, and the uniform price. *)

\* The first rank needs no comparison with what was sold before it.
BeginAward(iter) ==
  /\ Called(2, iter)
  /\ UNCHANGED <<bookVars, rankVars, cumulativeQuantity, uniformPrice,
                 wonQuantitiesByRankReady, invertVars, step, progress>>
  /\ \/ /\ progress = 0
        /\ rankedWonQuantities' =
             [rankedWonQuantities EXCEPT
                ![0] = Lesser(rankedBids[0].quantity, TotalQuantity)]
        /\ run' = [NoRun EXCEPT !.pc = "award", !.iter = iter, !.count = 1,
                                !.cumulative = rankedBids[0].quantity,
                                !.uniform = rankedBids[0].price]
     \/ /\ progress # 0
        /\ run' = [NoRun EXCEPT !.pc = "award", !.iter = iter,
                                !.cumulative = cumulativeQuantity,
                                !.uniform = uniformPrice]
        /\ UNCHANGED rankedWonQuantities

AwardRank ==
  LET k         == progress + run.count
      bid       == rankedBids[k]
      isValid   == run.cumulative < TotalQuantity /\ bid.price > 0
      remaining == Wrap(TotalQuantity - run.cumulative)
  IN  /\ run.pc = "award"
      /\ run.count < run.iter
      /\ rankedWonQuantities' =
           [rankedWonQuantities EXCEPT
              ![k] = IF isValid THEN Lesser(remaining, bid.quantity) ELSE 0]
      /\ run' = [run EXCEPT !.count = @ + 1,
                            !.cumulative = Wrap(@ + bid.quantity),
                            !.uniform = IF isValid THEN bid.price ELSE @]
      /\ UNCHANGED <<bookVars, rankVars, cumulativeQuantity, uniformPrice,
                     wonQuantitiesByRankReady, invertVars, step, progress>>

\* Mutant of EndAward: the results are announced after every call.
EndAwardReadyTooEarly ==
  /\ run.pc = "award"
  /\ cumulativeQuantity' = run.cumulative
  /\ uniformPrice' = run.uniform
  /\ wonQuantitiesByRankReady' = TRUE
  /\ Answer(CodeFor(run.count, run.count < run.iter), run.count)
  /\ UNCHANGED <<bookVars, rankVars, rankedWonQuantities, invertVars>>

EndAward ==
  LET code == CodeFor(run.count, run.count < run.iter)
  IN  /\ run.pc = "award"
      /\ cumulativeQuantity' = run.cumulative
      /\ uniformPrice' = run.uniform
      /\ wonQuantitiesByRankReady' = (wonQuantitiesByRankReady \/ code = S_FINISHED)
      /\ Answer(code, run.count)
      /\ UNCHANGED <<bookVars, rankVars, rankedWonQuantities, invertVars>>

-----------------------------------------------------------------------------
(* Step 4: won quantities by index: every index looks its id up in the ranking. *)

BeginInversion(iter) ==
  /\ Called(3, iter)
  /\ run' = [NoRun EXCEPT !.pc = "invert", !.iter = iter, !.idx = idxWQ,
                          !.resume = resumeIdxWQ, !.quantity = quantityWQ]
  /\ UNCHANGED <<bookVars, rankVars, awardVars, invertVars, step, progress>>

LookUp ==
  LET found    == rankedBids[run.resume].id = bids[run.idx + 1].id
      quantity == IF found THEN rankedWonQuantities[run.resume] ELSE run.quantity
      endOfRow == run.resume + 1 = N
  IN  /\ run.pc = "invert"
      /\ run.count < run.iter
      /\ wonQuantities' = IF endOfRow
                          THEN [wonQuantities EXCEPT ![run.idx] = quantity]
                          ELSE wonQuantities
      /\ run' = [run EXCEPT !.count = @ + 1,
                            !.idx = IF endOfRow THEN @ + 1 ELSE @,
                            !.resume = IF endOfRow THEN 0 ELSE @ + 1,
                            !.quantity = IF endOfRow THEN 0 ELSE quantity]
      /\ UNCHANGED <<bookVars, rankVars, awardVars, idxWQ, resumeIdxWQ,
                     quantityWQ, wonQuantitiesByIdReady, step, progress>>

\* Mutants of EndInversion: the next row is saved as the current one; the position
\* in the row is not saved; the quantity found in the row is not saved.
EndInversionSaving(shortOfGas, idx, resume, quantity) ==
  LET code == CodeFor(run.count, shortOfGas)
  IN  /\ run.pc = "invert"
      /\ run.count = run.iter \/ shortOfGas
      /\ idxWQ' = idx
      /\ resumeIdxWQ' = resume
      /\ quantityWQ' = quantity
      /\ wonQuantitiesByIdReady' = (code = S_FINISHED)
      /\ Answer(code, run.count)
      /\ UNCHANGED <<bookVars, rankVars, awardVars, wonQuantities>>

EndInversionSkippingRow(shortOfGas) ==
  EndInversionSaving(shortOfGas, run.idx + 1, run.resume, run.quantity)

EndInversionWithoutPosition(shortOfGas) ==
  EndInversionSaving(shortOfGas, run.idx, resumeIdxWQ, run.quantity)

EndInversionWithoutQuantity(shortOfGas) ==
  EndInversionSaving(shortOfGas, run.idx, run.resume, quantityWQ)

EndInversion(shortOfGas) ==
  LET code == CodeFor(run.count, shortOfGas)
  IN  /\ run.pc = "invert"
      /\ run.count = run.iter \/ shortOfGas
      /\ idxWQ' = run.idx
      /\ IF code = S_FINISHED
         THEN wonQuantitiesByIdReady' = TRUE /\ UNCHANGED <<resumeIdxWQ, quantityWQ>>
         ELSE /\ resumeIdxWQ' = run.resume
              /\ quantityWQ' = run.quantity
              /\ UNCHANGED wonQuantitiesByIdReady
      /\ Answer(code, run.count)
      /\ UNCHANGED <<bookVars, rankVars, awardVars, wonQuantities>>

-----------------------------------------------------------------------------
\* A call begins with `iter' units to do, or is refused; then it goes on alone.
BeginCall(iter) ==
  \/ BeginValidation(iter)
  \/ BeginRanking(iter)
  \/ BeginAward(iter)
  \/ BeginInversion(iter)

ContinueCall ==
  \/ \E short \in BOOLEAN : EndValidation(short) \/ EndInversion(short)
  \/ ValidateBid
  \/ BeginPass \/ Compare \/ EndPass \/ EndRanking
  \/ AwardRank \/ EndAward
  \/ LookUp

EngineNext ==
  \/ RefuseCall
  \/ \E iter \in 1..(StepSize(step) - progress) : BeginCall(iter)
  \/ ContinueCall

EngineSpec == EngineInit /\ [][EngineNext]_engineVars

-----------------------------------------------------------------------------
(* Properties. *)

RunType ==
  [pc : {"idle", "validate", "rank", "compare", "award", "invert"},
   iter : 0..(N * N), count : 0..(N * N), ranked : 0..N, resume : 0..N,
   cursor : Bid, idx : 0..N, toIdx : 0..N, cumulative : Amounts,
   uniform : Amounts, quantity : Amounts,
   code : {S_NOT_FINISHED, S_FINISHED, E_NOT_ENOUGH_GAS}]

\* Every variable has the type its declaration in FHEAuctionEngine gives it, and
\* the indices of the engine stay within the arrays.
EngineTypeOK ==
  /\ rule \in Rules
  /\ balance \in [Indices -> Amounts]
  /\ bids \in [Indices -> Bid]
  /\ rankedBids \in [Ranks -> Bid]
  /\ rankedBidCount \in 0..N
  /\ cursorRB \in Bid
  /\ resumeIdxRB \in Ranks
  /\ rankedWonQuantities \in [Ranks -> Amounts]
  /\ cumulativeQuantity \in Amounts
  /\ uniformPrice \in Amounts
  /\ wonQuantitiesByRankReady \in BOOLEAN
  /\ wonQuantities \in [Ranks -> Amounts]
  /\ idxWQ \in 0..N
  /\ resumeIdxWQ \in Ranks
  /\ quantityWQ \in Amounts
  /\ wonQuantitiesByIdReady \in BOOLEAN
  /\ step \in 0..4
  /\ progress \in 0..(N * N)
  /\ run \in RunType

\* DebugEngineError(8) to (10), in _runStep2: the pass that ranks the last bid is
\* the one that completes the N(N-1)/2 comparisons the iterator counts.
SortingErrorsUnreachable ==
  /\ run.pc = "compare" /\ run.idx = run.toIdx =>
       LET count == run.count + run.toIdx - run.resume
       IN  IF run.toIdx = run.ranked
           THEN run.ranked + 1 = N => progress + count = StepSize(1)
           ELSE count = run.iter
  /\ run.pc = "rank" => progress + run.count < StepSize(1)

\* DebugEngineError(11) and (13) to (19), in _runStep3 and _runStep4: the position
\* saved by an earlier call is the one the iterator's progress stands for.
AwardErrorsUnreachable ==
  /\ step = 2 => rankedBidCount = N
  /\ run.pc = "award" => progress + run.count <= N
  /\ step = 3 /\ run.pc = "idle" =>
       /\ idxWQ < N /\ resumeIdxWQ < N
       /\ progress = idxWQ * N + resumeIdxWQ
  /\ run.pc = "invert" =>
       (progress + run.count = N * N) = (run.idx = N /\ run.resume = 0)

\* No debug error of runStep1 to runStep4 can be met.
ErrorsUnreachable == SortingErrorsUnreachable /\ AwardErrorsUnreachable

\* What the sort has reached, in the call in progress or as saved by the last one.
InCall == run.pc \in {"rank", "compare"}
Sorting == step = 1 /\ (InCall \/ rankedBidCount > 0)
SortedCount == IF InCall THEN run.ranked ELSE rankedBidCount
Cursor == IF InCall THEN run.cursor ELSE cursorRB
CursorRank == CASE run.pc = "compare" -> run.idx
                [] run.pc = "rank"    -> run.resume
                [] OTHER              -> resumeIdxRB

\* However the comparisons are cut into calls, the ranked bids stay in strict
\* order, the cursor belongs behind the ranks it has passed, and no bid is lost or
\* ranked twice: ranked bids and cursor are the first SortedCount + 1 bids.
SortIsResumable ==
  Sorting =>
    /\ \A i, j \in 0..(SortedCount - 1) :
         i < j => Beats(rule, rankedBids[i], rankedBids[j])
    /\ \A i \in 0..(CursorRank - 1) : Beats(rule, rankedBids[i], Cursor)
    /\ {rankedBids[i] : i \in 0..(SortedCount - 1)} \cup {Cursor}
         = {bids[i] : i \in 1..(SortedCount + 1)}

IndexOfId(id) == CHOOSE i \in Indices : bids[i].id = id

\* When the ranking is announced as ready, each rank holds what the bid at this
\* rank wins by the definition of the auction (doc/1), and the uniform price is
\* the price of the lowest winning bid, whatever the calls were.
AwardsByRankAreRight ==
  wonQuantitiesByRankReady =>
    /\ {rankedBids[k] : k \in Ranks} = {bids[i] : i \in Indices}
    /\ \A k \in Ranks : rankedWonQuantities[k]
                          = Won(rule, bids, TotalQuantity,
                                IndexOfId(rankedBids[k].id))
    /\ uniformPrice = SinglePrice(rule, bids, TotalQuantity)

\* When the quantities by id are announced, each bid finds its own one although
\* the search is cut at any comparison of any row.
AwardsByIdAreRight ==
  wonQuantitiesByIdReady =>
    \A i \in Indices : wonQuantities[i - 1] = Won(rule, bids, TotalQuantity, i)

\* What is announced is right, by rank and by id.
AwardsAreRight == AwardsByRankAreRight /\ AwardsByIdAreRight

\* The claims that follow can always be paid: a bidder owes the uniform price for
\* what it wins, and the deposit covers it; and the winners get, together, all
\* that is for sale or all that is asked for.
WinnersCanPay ==
  wonQuantitiesByIdReady =>
    /\ \A i \in Indices : wonQuantities[i - 1] * uniformPrice <= balance[i]
    /\ SumFunctionOnSet(wonQuantities, Ranks)
         = Lesser(TotalQuantity,
                  SumFunctionOnSet([i \in Indices |-> bids[i].quantity], Indices))

\* What the iterator requires of an answer of runStep1..4 (its "Panic" checks) and
\* what FourStepsIterator.tla assumes of it: S_FINISHED exactly when the step is
\* complete, S_NOT_FINISHED only when all that was asked for is done.
AnswersKeepContract ==
  [][run.pc # "idle" /\ run'.pc = "idle" =>
       /\ run'.count <= run.iter
       /\ progress + run'.count <= StepSize(step)
       /\ (run'.code = S_FINISHED) = (progress + run'.count = StepSize(step))
       /\ run'.code = S_NOT_FINISHED => run'.count = run.iter]_engineVars

\* What was announced is never computed again: once ready, the ranking, the
\* quantities and the price that claims are paid from stay what they are.
ReadyResultsAreFinal ==
  [][/\ wonQuantitiesByRankReady =>
          UNCHANGED <<rankedBids, rankedWonQuantities, uniformPrice,
                      wonQuantitiesByRankReady>>
     /\ wonQuantitiesByIdReady =>
          UNCHANGED <<wonQuantities, wonQuantitiesByIdReady>>]_engineVars
=============================================================================
