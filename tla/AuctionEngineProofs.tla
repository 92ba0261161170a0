------------------------ MODULE AuctionEngineProofs ------------------------
(***************************************************************************)
(* Proofs about AuctionEngine.tla, for any number of bids and any book     *)
(* that BidRegistry can hold: however the four steps are cut into calls,   *)
(* no debug error is met, no bid is lost, and the results are those of the *)
(* definition in TieBreaking.tla.                                          *)
(***************************************************************************)
EXTENDS AuctionEngine, SumProofs

-----------------------------------------------------------------------------
(* The inductive invariant of the computation up to the ranking, and of the  *)
(* positions of every step.                                                  *)

\* The units of the current step that are done, in earlier calls and in this one.
Done == IF run.pc = "idle" THEN progress ELSE progress + run.count

\* The bids stay a book: each fits, and they differ in id and random number.
\* Those that are validated are covered.
ValidatedCount == IF step = 0 THEN Done ELSE N

BookInv ==
  /\ \A i \in Indices :
       /\ bids[i].price * bids[i].quantity <= UInt256Max
       /\ bids[i].quantity <= TotalQuantity
       /\ bids[i].price = 0 <=> bids[i].quantity = 0
  /\ \A i, j \in Indices : i # j =>
       bids[i].id # bids[j].id /\ bids[i].rand # bids[j].rand
  /\ \A i \in 1..ValidatedCount : bids[i].price * bids[i].quantity <= balance[i]

StepOf(pc) == CASE pc = "validate"            -> 0
                [] pc \in {"rank", "compare"} -> 1
                [] pc = "award"               -> 2
                [] OTHER                      -> 3

\* A call works on the current step and stays within what it was asked for.
CallInv ==
  /\ step < 4 => progress < StepSize(step)
  /\ step = 4 => progress = 0
  /\ run.pc # "idle" =>
       /\ step = StepOf(run.pc)
       /\ run.iter > 0 /\ progress + run.iter <= StepSize(step)
       /\ run.count <= run.iter

\* Twice the comparisons that rank r bids and compare one more with p of them.
SortPosition(r, p) == r * (r - 1) + 2 * p

\* The position of the sort is the one that the comparisons done stand for.
SortInv ==
  /\ step = 0 => rankedBidCount = 0
  /\ step > 1 => rankedBidCount = N
  /\ step = 1 /\ ~InCall =>
       \/ rankedBidCount = 0 /\ progress = 0
       \/ /\ rankedBidCount \in 1..(N - 1) /\ resumeIdxRB < rankedBidCount
          /\ 2 * progress = SortPosition(rankedBidCount, resumeIdxRB)
  /\ InCall =>
       /\ run.ranked \in 1..(N - 1) /\ run.resume < run.ranked
       /\ 2 * (progress + run.count) = SortPosition(run.ranked, run.resume)
  /\ run.pc = "compare" =>
       /\ run.count < run.iter
       /\ run.toIdx = Lesser(run.resume + run.iter - run.count, run.ranked)
       /\ run.idx \in run.resume..run.toIdx

Ordered(n) ==
  \A i, j \in 0..(n - 1) : i < j => Beats(rule, rankedBids[i], rankedBids[j])

\* The cursor is not among the ranked bids; and the ranking stays what it is after
\* the sort.
OrderInv ==
  /\ SortIsResumable
  /\ Sorting => \A i \in 0..(SortedCount - 1) : rankedBids[i] # Cursor
  /\ step > 1 => /\ Ordered(N)
                 /\ {rankedBids[k] : k \in Ranks} = {bids[i] : i \in Indices}

\* The position of the search is the one that the comparisons done stand for.
SearchInv ==
  /\ step < 3 => idxWQ = 0 /\ resumeIdxWQ = 0 /\ quantityWQ = 0
  /\ step = 3 /\ run.pc = "idle" => progress = idxWQ * N + resumeIdxWQ
  /\ run.pc = "invert" =>
       progress + run.count = run.idx * N + run.resume /\ run.resume < N

\* The flags.
ReadyInv ==
  /\ wonQuantitiesByRankReady = (step > 2)
  /\ wonQuantitiesByIdReady = (step > 3)

EngineInv == /\ EngineTypeOK /\ BookInv /\ CallInv /\ SortInv /\ OrderInv
             /\ SearchInv /\ ReadyInv

-----------------------------------------------------------------------------
(* The inductive invariant of the results, as long as all bids together do not   *)
(* ask for more than 256 bits can count.                                       *)

TotalFits == N * TotalQuantity <= UInt256Max

Quantities == [i \in Indices |-> bids[i].quantity]

\* The bids at the ranks below k, and the quantity they ask for.
Below == [k \in 0..N |->
            {i \in Indices : \E m \in 0..(k - 1) : rankedBids[m] = bids[i]}]
Cumulated == [k \in 0..N |-> SumFunctionOnSet(Quantities, Below[k])]

\* What the bid at rank k wins.
WonAt == [k \in Ranks |->
            IF Cumulated[k] < TotalQuantity
            THEN Lesser(TotalQuantity - Cumulated[k], rankedBids[k].quantity)
            ELSE 0]

\* The lowest price of a winner below rank k, zero if there is none.
WinsBelow == [k \in 0..N |-> {m \in 0..(k - 1) : WonAt[m] > 0}]
LowestPrices ==
  [k \in 0..N |->
     {p \in Amounts :
        /\ \A m \in WinsBelow[k] : p <= rankedBids[m].price
        /\ IF WinsBelow[k] = {} THEN p = 0
           ELSE \E m \in WinsBelow[k] : p = rankedBids[m].price}]

Wins == [i \in Indices |-> Won(rule, bids, TotalQuantity, i)]

\* Step 3 knows the quantity asked for and the lowest price of the ranks done.
AwardedCount == IF step = 2 THEN Done ELSE IF step > 2 THEN N ELSE 0

AwardInv ==
  /\ \A k \in 0..(AwardedCount - 1) : rankedWonQuantities[k] = WonAt[k]
  /\ step > 1 =>
       /\ SumFunctionOnSet(Wins, Below[AwardedCount])
            = Lesser(TotalQuantity, Cumulated[AwardedCount])
       /\ Cumulated[AwardedCount] <= AwardedCount * TotalQuantity
  /\ step = 2 /\ run.pc = "idle" /\ progress > 0 =>
       /\ cumulativeQuantity = Cumulated[AwardedCount]
       /\ uniformPrice \in LowestPrices[AwardedCount]
  /\ run.pc = "award" =>
       /\ AwardedCount > 0 /\ run.cumulative = Cumulated[AwardedCount]
       /\ run.uniform \in LowestPrices[AwardedCount]
  /\ step > 2 => uniformPrice \in LowestPrices[N]

\* The ranks below k that hold the bid with index i + 1: step 4 has found its
\* quantity if there is one.
HeldBelow == [i \in Ranks |-> [k \in 0..N |->
                {m \in 0..(k - 1) : rankedBids[m].id = bids[i + 1].id}]]
FoundBelow == [i \in Ranks |-> [k \in 0..N |->
                 {q \in Amounts :
                    IF HeldBelow[i][k] = {} THEN q = 0
                    ELSE \E m \in HeldBelow[i][k] : q = rankedWonQuantities[m]}]]

InvertedRows == IF run.pc = "invert" THEN run.idx ELSE IF step = 4 THEN N ELSE idxWQ

InvertInv ==
  /\ \A i \in 0..(InvertedRows - 1) : wonQuantities[i] = Wins[i + 1]
  /\ step = 3 /\ run.pc = "idle" => quantityWQ \in FoundBelow[idxWQ][resumeIdxWQ]
  /\ run.pc = "invert" /\ run.idx < N =>
       run.quantity \in FoundBelow[run.idx][run.resume]

ResultInv == AwardInv /\ InvertInv

-----------------------------------------------------------------------------
(* Arithmetic *)

LEMMA ProductNat == ASSUME NEW a \in Nat, NEW b \in Nat PROVE a * b \in Nat
OBVIOUS

LEMMA ProductMonotone ==
  ASSUME NEW a \in Nat, NEW b \in Nat, NEW c \in Nat, a <= b
  PROVE  a * c <= b * c /\ c * a <= c * b
OBVIOUS

LEMMA Half ==
  ASSUME NEW a \in Nat \ {0}
  PROVE  (a * (a - 1)) \div 2 \in Nat /\ 2 * ((a * (a - 1)) \div 2) = a * (a - 1)
<1>1. PICK k \in Nat : a = 2 * k \/ a = 2 * k + 1
  <2>1. a \div 2 \in Nat /\ (a = 2 * (a \div 2) \/ a = 2 * (a \div 2) + 1)
    OBVIOUS
  <2> QED
    BY <2>1
<1>2. \E m \in Nat : a * (a - 1) = 2 * m
  <2>1. CASE a = 2 * k
    <3>1. a * (a - 1) = 2 * (k * (a - 1)) /\ k * (a - 1) \in Nat
      BY <2>1, <1>1
    <3> QED
      BY <3>1
  <2>2. CASE a = 2 * k + 1
    <3>1. a * (a - 1) = 2 * (a * k) /\ a * k \in Nat
      BY <2>2, <1>1
    <3> QED
      BY <3>1
  <2> QED
    BY <2>1, <2>2, <1>1
<1>3. PICK m \in Nat : a * (a - 1) = 2 * m
  BY <1>2
<1>4. (2 * m) \div 2 = m
  BY <1>3
<1> QED
  BY <1>3, <1>4

\* The sizes of the steps.
LEMMA StepSizes ==
  /\ StepSize(0) = N /\ StepSize(2) = N /\ StepSize(3) = N * N
  /\ N = 1 => StepSize(1) = 1
  /\ N > 1 => 2 * StepSize(1) = N * (N - 1)
  /\ \A s \in 0..3 : StepSize(s) \in 1..(N * N)
<1>1. N \in Nat \ {0} /\ N * N \in Nat /\ N <= N * N
  <2>1. N \in Nat \ {0} /\ 1 * N <= N * N
    BY NAssumption, ProductMonotone
  <2> QED
    BY <2>1
<1>2. StepSize(0) = N /\ StepSize(2) = N /\ StepSize(3) = N * N
  BY DEF StepSize
<1>3. N < 3 => StepSize(1) = 1
  BY DEF StepSize
<1>4. ~(N < 3) => StepSize(1) = (N * (N - 1)) \div 2
  BY DEF StepSize
<1>5. N > 1 => 2 * StepSize(1) = N * (N - 1)
  <2>1. CASE N = 2
    BY <2>1, <1>3
  <2>2. CASE N > 2
    <3>1. 2 * ((N * (N - 1)) \div 2) = N * (N - 1)
      BY <1>1, Half
    <3>2. StepSize(1) = (N * (N - 1)) \div 2
      BY <2>2, <1>1, <1>4
    <3> QED
      BY <3>1, <3>2
  <2> QED
    BY <2>1, <2>2, <1>1
<1>6. StepSize(1) \in 1..(N * N)
  <2>1. CASE N < 3
    BY <2>1, <1>1, <1>3
  <2>2. CASE ~(N < 3)
    <3>1. StepSize(1) \in Nat /\ 2 * StepSize(1) = N * (N - 1)
      BY <2>2, <1>1, <1>4, Half
    <3>2. N * (N - 1) <= N * N /\ 1 * (N - 1) <= N * (N - 1) /\ N * (N - 1) \in Nat
      BY <2>2, <1>1, ProductMonotone
    <3> QED
      BY <3>1, <3>2, <2>2, <1>1
  <2> QED
    BY <2>1, <2>2
<1> QED
  BY <1>1, <1>2, <1>3, <1>5, <1>6

\* A ranking in progress has not done all comparisons; with the last bid behind all
\* others it has.
LEMMA SortPositionInStep ==
  ASSUME NEW r \in 1..(N - 1), NEW p \in 0..(r - 1)
  PROVE  /\ SortPosition(r, p) \in Nat
         /\ SortPosition(r, p) + 2 <= N * (N - 1)
         /\ SortPosition(r, p) + 2 * (r - p) = SortPosition(r + 1, 0)
         /\ SortPosition(N, 0) = N * (N - 1)
         /\ SortPosition(1, 0) = 0
<1>1. N \in Nat \ {0} /\ r \in Nat \ {0} /\ p \in Nat /\ r + 1 <= N /\ p < r
  BY NAssumption
<1>2. (r + 1) * r <= N * r /\ N * r <= N * (N - 1) /\ N * (N - 1) \in Nat
  <2>1. r \in Nat /\ N - 1 \in Nat /\ r <= N - 1 /\ r + 1 \in Nat
    BY <1>1
  <2> QED
    BY <2>1, <1>1, ProductMonotone, ProductNat
<1>3. (r + 1) * r = r * (r - 1) + 2 * r /\ r * (r - 1) \in Nat
  BY <1>1
<1>4. SortPosition(r, p) = r * (r - 1) + 2 * p
  BY DEF SortPosition
<1>5. SortPosition(r + 1, 0) = (r + 1) * r
  BY <1>1 DEF SortPosition
<1>6. SortPosition(N, 0) = N * (N - 1) /\ SortPosition(1, 0) = 0
  BY <1>1 DEF SortPosition
<1> DEFINE a == r * (r - 1)
           b == (r + 1) * r
           c == N * (N - 1)
           d == N * r
<1>7. /\ a \in Nat /\ b = a + 2 * r /\ b <= d /\ d <= c /\ c \in Nat /\ d \in Nat
      /\ SortPosition(r, p) = a + 2 * p /\ SortPosition(r + 1, 0) = b
      /\ SortPosition(N, 0) = c
  BY <1>1, <1>2, <1>3, <1>4, <1>5, <1>6, ProductNat
<1> HIDE DEF a, b, c, d
<1>8. SortPosition(r, p) + 2 <= c
  BY <1>1, <1>7
<1> QED
  BY <1>1, <1>6, <1>7, <1>8 DEF c

-----------------------------------------------------------------------------
(* The order of the bids *)

LEMMA BeatsIsTransitive ==
  ASSUME NEW r \in Rules, NEW a \in Bid, NEW b \in Bid, NEW c \in Bid,
         Beats(r, a, b), Beats(r, b, c)
  PROVE  Beats(r, a, c)
<1>1. /\ a.price \in Nat /\ a.quantity \in Nat /\ a.id \in Nat /\ a.rand \in Nat
      /\ b.price \in Nat /\ b.quantity \in Nat /\ b.id \in Nat /\ b.rand \in Nat
      /\ c.price \in Nat /\ c.quantity \in Nat /\ c.id \in Nat /\ c.rand \in Nat
  BY QuantityAssumption DEF Bid, Amounts
<1> QED
  BY <1>1 DEF Beats, BeatsByPriceId, BeatsByPriceQuantityId, BeatsByPriceRandom, Rules

LEMMA BeatsIsStrict ==
  ASSUME NEW r \in Rules, NEW a \in Bid, Beats(r, a, a)
  PROVE  FALSE
<1>1. a.price \in Nat /\ a.quantity \in Nat /\ a.id \in Nat /\ a.rand \in Nat
  BY QuantityAssumption DEF Bid, Amounts
<1> QED
  BY <1>1 DEF Beats, BeatsByPriceId, BeatsByPriceQuantityId, BeatsByPriceRandom, Rules

LEMMA BeatsIsTotal ==
  ASSUME NEW r \in Rules, NEW a \in Bid, NEW b \in Bid, a.id # b.id, a.rand # b.rand
  PROVE  Beats(r, a, b) \/ Beats(r, b, a)
<1>1. /\ a.price \in Nat /\ a.quantity \in Nat /\ a.id \in Nat /\ a.rand \in Nat
      /\ b.price \in Nat /\ b.quantity \in Nat /\ b.id \in Nat /\ b.rand \in Nat
  BY QuantityAssumption DEF Bid, Amounts
<1> QED
  BY <1>1 DEF Beats, BeatsByPriceId, BeatsByPriceQuantityId, BeatsByPriceRandom, Rules

\* Bids of the book are ranked one way or the other.
LEMMA BookIsOrdered ==
  ASSUME EngineTypeOK, BookInv, NEW i \in Indices, NEW j \in Indices,
         bids[i] # bids[j]
  PROVE  Beats(rule, bids[i], bids[j]) \/ Beats(rule, bids[j], bids[i])
<1>1. i # j /\ bids[i] \in Bid /\ bids[j] \in Bid /\ rule \in Rules
  BY DEF EngineTypeOK
<1>2. bids[i].id # bids[j].id /\ bids[i].rand # bids[j].rand
  BY <1>1 DEF BookInv
<1> QED
  BY <1>1, <1>2, BeatsIsTotal

-----------------------------------------------------------------------------
(* Types *)

Codes == {S_NOT_FINISHED, S_FINISHED, E_NOT_ENOUGH_GAS}

LEMMA NoRunType == NoRun \in RunType /\ Dummy \in Bid
<1>1. N \in Nat \ {0} /\ N * N \in Nat /\ UInt256Max \in Nat
  BY NAssumption, QuantityAssumption
<1>2. Dummy \in Bid
  BY <1>1 DEF Dummy, Bid, Amounts
<1> QED
  BY <1>1, <1>2 DEF NoRun, RunType, Amounts

\* An answer that keeps the contract leaves the iterator at the position it stands
\* for.
LEMMA AnswerKeepsCall ==
  ASSUME EngineTypeOK, CallInv, step \in 0..3,
         NEW code \in Codes, NEW count \in Nat, progress + count <= StepSize(step),
         (code = S_FINISHED) = (progress + count = StepSize(step)),
         Answer(code, count)
  PROVE  /\ run'.pc = "idle" /\ run'.code = code /\ run'.count = count
         /\ run' \in RunType /\ step' \in 0..4 /\ progress' \in 0..(N * N)
         /\ CallInv'
<1>1. /\ progress \in Nat /\ N * N \in Nat
      /\ \A s \in 0..3 : StepSize(s) \in 1..(N * N)
      /\ \A s \in 0..3 : StepSize(s)' = StepSize(s)
  BY StepSizes, NAssumption DEF EngineTypeOK, StepSize
<1>2. count \in 0..(N * N)
  BY <1>1
<1>3. run' = [NoRun EXCEPT !.code = code, !.count = count]
  BY DEF Answer
<1>4. /\ run'.pc = "idle" /\ run'.code = code /\ run'.count = count
      /\ run' \in RunType
  BY <1>2, <1>3, NoRunType DEF RunType, NoRun, Codes
<1>5. CASE code = S_FINISHED
  <2>1. step' = step + 1 /\ progress' = 0
    BY <1>5 DEF Answer
  <2>2. step' < 4 => StepSize(step') > 0
    BY <2>1, <1>1
  <2>3. step' < 4 => progress' < StepSize(step)'
    BY <2>1, <2>2 DEF StepSize
  <2> QED
    BY <1>1, <1>4, <2>1, <2>3 DEF CallInv
<1>6. CASE code # S_FINISHED
  <2>1. step' = step /\ progress' = progress + count
    BY <1>6 DEF Answer
  <2>2. progress' < StepSize(step) /\ StepSize(step)' = StepSize(step)
    BY <1>1, <1>6, <2>1 DEF StepSize
  <2> QED
    BY <1>1, <1>4, <2>1, <2>2 DEF CallInv
<1> QED
  BY <1>5, <1>6

\* CodeFor gives such an answer.
LEMMA CodeForFits ==
  ASSUME NEW count, NEW short \in BOOLEAN
  PROVE  /\ CodeFor(count, short) \in Codes
         /\ (CodeFor(count, short) = S_FINISHED) = (progress + count = StepSize(step))
BY DEF CodeFor, Codes, S_FINISHED, S_NOT_FINISHED, E_NOT_ENOUGH_GAS

\* Types and positions within the step, action by action.
TypesAndCalls == EngineTypeOK /\ CallInv

LEMMA RefuseCallTypes ==
  ASSUME EngineInv, RefuseCall PROVE TypesAndCalls'
<1>1. /\ step \in 0..3 /\ progress < StepSize(step) /\ progress \in Nat
      /\ StepSize(step) \in Nat
  BY StepSizes DEF EngineInv, EngineTypeOK, CallInv, RefuseCall
<1>2. /\ progress + 0 <= StepSize(step)
      /\ (E_NOT_ENOUGH_GAS = S_FINISHED) = (progress + 0 = StepSize(step))
      /\ E_NOT_ENOUGH_GAS \in Codes /\ 0 \in Nat
  BY <1>1 DEF E_NOT_ENOUGH_GAS, S_FINISHED, Codes
<1>3. /\ run' \in RunType /\ step' \in 0..4 /\ progress' \in 0..(N * N) /\ CallInv'
  BY <1>1, <1>2, AnswerKeepsCall DEF EngineInv, RefuseCall
<1> QED
  BY <1>3 DEF EngineInv, EngineTypeOK, RefuseCall, TypesAndCalls, bookVars, rankVars,
              awardVars, invertVars

\* What a call begins with.
LEMMA CallBegins ==
  ASSUME EngineInv, NEW s \in 0..3, NEW iter, Called(s, iter),
         step' = step, progress' = progress, run'.iter = iter,
         run'.count \in 0..1, run'.pc # "idle", StepOf(run'.pc) = s
  PROVE  CallInv' /\ iter \in 1..(N * N)
<1>1. /\ step = s /\ progress \in Nat /\ StepSize(s) \in 1..(N * N) /\ N * N \in Nat
      /\ StepSize(step)' = StepSize(step)
  BY StepSizes, NAssumption DEF EngineInv, EngineTypeOK, Called, StepSize
<1>2. iter \in 1..(StepSize(s) - progress)
  BY DEF Called
<1>3. iter \in 1..(N * N) /\ progress + iter <= StepSize(s)
  BY <1>1, <1>2
<1> QED
  BY <1>1, <1>3 DEF EngineInv, CallInv

LEMMA BeginValidationTypes ==
  ASSUME EngineInv, NEW iter, BeginValidation(iter) PROVE TypesAndCalls'
<1>1. /\ run' = [NoRun EXCEPT !.pc = "validate", !.iter = iter]
      /\ Called(0, iter) /\ step' = step /\ progress' = progress
  BY DEF BeginValidation
<1>2. run'.iter = iter /\ run'.count = 0 /\ run'.pc = "validate"
  BY <1>1 DEF NoRun
<1>3. StepOf(run'.pc) = 0
  BY <1>2 DEF StepOf
<1>4. CallInv' /\ iter \in 1..(N * N)
  BY <1>1, <1>2, <1>3, CallBegins
<1>5. run' \in RunType
  <2>1. iter \in 0..(N * N)
    BY <1>4
  <2> QED
    BY <1>1, <2>1, NoRunType DEF RunType, NoRun
<1> QED
  BY <1>4, <1>5 DEF EngineInv, EngineTypeOK, BeginValidation, TypesAndCalls, bookVars,
                    rankVars, awardVars, invertVars

LEMMA RefusedBid ==
  ASSUME NEW b \in Bid
  PROVE  /\ [b EXCEPT !.price = 0, !.quantity = 0] \in Bid
         /\ [b EXCEPT !.price = 0, !.quantity = 0].price = 0
         /\ [b EXCEPT !.price = 0, !.quantity = 0].quantity = 0
         /\ [b EXCEPT !.price = 0, !.quantity = 0].id = b.id
         /\ [b EXCEPT !.price = 0, !.quantity = 0].rand = b.rand
<1>1. 0 \in Amounts
  BY QuantityAssumption DEF Amounts
<1> QED
  BY <1>1 DEF Bid

LEMMA ValidateBidTypes ==
  ASSUME EngineInv, ValidateBid PROVE TypesAndCalls'
<1> DEFINE i == progress + run.count + 1
<1>1. /\ step = 0 /\ progress \in Nat /\ run.count \in Nat /\ run.iter \in 0..(N * N)
      /\ progress + run.iter <= N /\ run.count < run.iter /\ run.pc = "validate"
  BY StepSizes DEF EngineInv, EngineTypeOK, RunType, CallInv, StepOf, ValidateBid
<1>2. i \in Indices /\ bids[i] \in Bid
  BY <1>1, NAssumption DEF EngineInv, EngineTypeOK, Indices
<1>3. \E b \in Bid : bids' = [bids EXCEPT ![i] = b]
  <2>1. [bids[i] EXCEPT !.price = 0, !.quantity = 0] \in Bid
    BY <1>2, RefusedBid
  <2>2. \/ bids' = [bids EXCEPT ![i] = bids[i]]
        \/ bids' = [bids EXCEPT ![i] = [bids[i] EXCEPT !.price = 0, !.quantity = 0]]
    BY DEF ValidateBid
  <2> QED
    BY <2>1, <2>2, <1>2
<1>4. bids' \in [Indices -> Bid]
  BY <1>3 DEF EngineInv, EngineTypeOK
<1>5. run' = [run EXCEPT !.count = run.count + 1]
  BY DEF ValidateBid
<1>6. run.count + 1 \in 0..(N * N)
  BY <1>1, NAssumption, ProductNat
<1>7. /\ run' \in RunType /\ run'.pc = run.pc /\ run'.iter = run.iter
      /\ run'.count = run.count + 1
  BY <1>5, <1>6 DEF EngineInv, EngineTypeOK, RunType
<1>8. EngineTypeOK'
  BY <1>4, <1>7 DEF EngineInv, EngineTypeOK, ValidateBid, rankVars, awardVars,
                    invertVars
<1>9. step' = step /\ progress' = progress /\ StepSize(step)' = StepSize(step)
  BY DEF ValidateBid, StepSize
<1>10. CallInv'
  BY <1>1, <1>7, <1>9 DEF EngineInv, CallInv, StepOf
<1> QED
  BY <1>8, <1>10 DEF TypesAndCalls

\* A call of step 1, 3 or 4 that ends.
LEMMA CallEnds ==
  ASSUME EngineInv, run.pc # "idle", NEW short \in BOOLEAN,
         Answer(CodeFor(run.count, short), run.count)
  PROVE  /\ run'.pc = "idle" /\ run' \in RunType /\ step' \in 0..4
         /\ progress' \in 0..(N * N) /\ CallInv'
         /\ run'.code = CodeFor(run.count, short) /\ run'.count = run.count
<1>1. /\ step \in 0..3 /\ progress \in Nat /\ run.count \in Nat /\ run.iter \in Nat
      /\ progress + run.iter <= StepSize(step) /\ run.count <= run.iter
  BY NAssumption DEF EngineInv, EngineTypeOK, RunType, CallInv, StepOf
<1>2. StepSize(step) \in Nat /\ progress + run.count <= StepSize(step)
  BY <1>1, StepSizes
<1> QED
  BY <1>1, <1>2, CodeForFits, AnswerKeepsCall DEF EngineInv

LEMMA EndValidationTypes ==
  ASSUME EngineInv, NEW short \in BOOLEAN, EndValidation(short) PROVE TypesAndCalls'
<1>1. /\ run' \in RunType /\ step' \in 0..4 /\ progress' \in 0..(N * N) /\ CallInv'
  BY CallEnds DEF EndValidation
<1> QED
  BY <1>1 DEF EngineInv, EngineTypeOK, EndValidation, TypesAndCalls, bookVars, rankVars,
              awardVars, invertVars

LEMMA BeginRankingTypes ==
  ASSUME EngineInv, NEW iter, BeginRanking(iter) PROVE TypesAndCalls'
<1>1. /\ Called(1, iter) /\ N \in Nat \ {0} /\ 1 \in Indices /\ 0 \in Ranks
      /\ step = 1 /\ progress \in Nat /\ bids[1] \in Bid
      /\ rankedBidCount \in 0..N
      /\ UNCHANGED <<bookVars, awardVars, invertVars>>
  <2>1. N \in Nat \ {0} /\ 1 \in Indices /\ 0 \in Ranks
    BY NAssumption DEF Indices, Ranks
  <2>2. bids[1] \in Bid /\ progress \in Nat /\ rankedBidCount \in 0..N
    BY <2>1 DEF EngineInv, EngineTypeOK
  <2>3. Called(1, iter) /\ UNCHANGED <<bookVars, awardVars, invertVars>>
    BY DEF BeginRanking
  <2> QED
    BY <2>1, <2>2, <2>3 DEF Called
<1>2. CASE rankedBidCount = 0 /\ N = 1
  <2>1. /\ rankedBids' = [rankedBids EXCEPT ![0] = bids[1]]
        /\ UNCHANGED <<cursorRB, resumeIdxRB>>
        /\ rankedBidCount' = 1 /\ Answer(S_FINISHED, 1)
    BY <1>2 DEF BeginRanking
  <2>2. progress = 0
    BY <1>1, <1>2 DEF EngineInv, SortInv, InCall, Called
  <2>3. StepSize(1) = 1 /\ S_FINISHED \in Codes
    BY <1>2, StepSizes DEF Codes
  <2>4. /\ run' \in RunType /\ step' \in 0..4 /\ progress' \in 0..(N * N) /\ CallInv'
    BY <1>1, <2>1, <2>2, <2>3, AnswerKeepsCall DEF EngineInv
  <2>5. rankedBids' \in [Ranks -> Bid]
    BY <1>1, <2>1 DEF EngineInv, EngineTypeOK
  <2> QED
    BY <1>1, <1>2, <2>1, <2>4, <2>5
       DEF EngineInv, EngineTypeOK, TypesAndCalls, bookVars, awardVars, invertVars
<1>3. CASE rankedBidCount = 0 /\ N # 1
  <2>1. /\ rankedBids' = [rankedBids EXCEPT ![0] = bids[1]]
        /\ UNCHANGED <<cursorRB, resumeIdxRB, rankedBidCount, step, progress>>
        /\ run' = [NoRun EXCEPT !.pc = "rank", !.iter = iter, !.ranked = 1,
                                !.cursor = bids[2]]
    BY <1>3 DEF BeginRanking
  <2>2. run'.pc = "rank" /\ run'.iter = iter /\ run'.count = 0
    BY <2>1 DEF NoRun
  <2>3. StepOf(run'.pc) = 1
    BY <2>2 DEF StepOf
  <2>4. CallInv' /\ iter \in 1..(N * N)
    BY <1>1, <2>1, <2>2, <2>3, CallBegins
  <2>5. bids[2] \in Bid
    BY <1>1, <1>3 DEF EngineInv, EngineTypeOK, Indices
  <2>6. run' \in RunType
    <3>1. iter \in 0..(N * N) /\ 1 \in 0..N
      BY <2>4, <1>1
    <3> QED
      BY <2>1, <2>5, <3>1, NoRunType DEF RunType, NoRun
  <2>7. rankedBids' \in [Ranks -> Bid]
    BY <1>1, <2>1 DEF EngineInv, EngineTypeOK
  <2> QED
    BY <1>1, <2>1, <2>4, <2>6, <2>7
       DEF EngineInv, EngineTypeOK, TypesAndCalls, bookVars, awardVars, invertVars
<1>4. CASE rankedBidCount # 0
  <2>1. /\ UNCHANGED <<rankVars, step, progress>>
        /\ run' = [NoRun EXCEPT !.pc = "rank", !.iter = iter,
                                !.ranked = rankedBidCount,
                                !.resume = resumeIdxRB, !.cursor = cursorRB]
    BY <1>4 DEF BeginRanking
  <2>2. run'.pc = "rank" /\ run'.iter = iter /\ run'.count = 0
    BY <2>1 DEF NoRun
  <2>3. StepOf(run'.pc) = 1
    BY <2>2 DEF StepOf
  <2>4. CallInv' /\ iter \in 1..(N * N)
    BY <1>1, <2>1, <2>2, <2>3, CallBegins
  <2>5. run' \in RunType
    <3>1. /\ iter \in 0..(N * N) /\ rankedBidCount \in 0..N /\ resumeIdxRB \in 0..N
          /\ cursorRB \in Bid
      BY <2>4, <1>1 DEF EngineInv, EngineTypeOK, Ranks
    <3> QED
      BY <2>1, <3>1, NoRunType DEF RunType, NoRun
  <2> QED
    BY <1>1, <2>1, <2>4, <2>5
       DEF EngineInv, EngineTypeOK, TypesAndCalls, bookVars, awardVars, invertVars,
           rankVars
<1> QED
  BY <1>2, <1>3, <1>4

\* The numbers of a ranking in progress.
LEMMA RankingNumbers ==
  ASSUME EngineInv, InCall
  PROVE  /\ step = 1 /\ N \in Nat /\ N > 1 /\ progress \in Nat /\ rule \in Rules
         /\ run.ranked \in 1..(N - 1) /\ run.resume \in 0..(run.ranked - 1)
         /\ run.count \in 0..run.iter /\ run.iter \in Nat \ {0}
         /\ progress + run.iter <= StepSize(1) /\ run.cursor \in Bid
         /\ run.iter \in 0..(N * N) /\ N * N \in Nat
         /\ 2 * (progress + run.count) = SortPosition(run.ranked, run.resume)
         /\ run.pc = "compare" =>
              /\ run.count < run.iter
              /\ run.toIdx = Lesser(run.resume + run.iter - run.count, run.ranked)
              /\ run.idx \in run.resume..run.toIdx
              /\ run.toIdx \in 0..run.ranked /\ run.resume < run.toIdx
<1>1. /\ N \in Nat \ {0} /\ progress \in Nat /\ rule \in Rules /\ run \in RunType
      /\ run.pc # "idle" /\ N * N \in Nat
  BY NAssumption DEF EngineInv, EngineTypeOK, InCall
<1>2. run.iter \in 0..(N * N) /\ run.count \in Nat /\ run.resume \in Nat
      /\ run.cursor \in Bid
  BY <1>1 DEF RunType
<1>3. step = 1 /\ run.iter > 0 /\ progress + run.iter <= StepSize(1)
      /\ run.count <= run.iter
  BY <1>1 DEF EngineInv, CallInv, InCall, StepOf
<1>4. /\ run.ranked \in 1..(N - 1) /\ run.resume < run.ranked
      /\ 2 * (progress + run.count) = SortPosition(run.ranked, run.resume)
      /\ run.pc = "compare" =>
           /\ run.count < run.iter
           /\ run.toIdx = Lesser(run.resume + run.iter - run.count, run.ranked)
           /\ run.idx \in run.resume..run.toIdx
  BY DEF EngineInv, SortInv
<1>5. run.pc = "compare" => run.toIdx \in 0..run.ranked /\ run.resume < run.toIdx
  BY <1>1, <1>2, <1>4 DEF Lesser
<1> QED
  BY <1>1, <1>2, <1>3, <1>4, <1>5

LEMMA BeginPassTypes ==
  ASSUME EngineInv, BeginPass PROVE TypesAndCalls'
<1>1. /\ InCall /\ run.pc = "rank" /\ run.count < run.iter
      /\ run' = [run EXCEPT !.pc = "compare", !.idx = run.resume,
                            !.toIdx = Lesser(run.resume + run.iter - run.count,
                                             run.ranked)]
  BY DEF BeginPass, InCall
<1>2. /\ run.resume \in 0..N /\ Lesser(run.resume + run.iter - run.count, run.ranked) \in 0..N
  BY <1>1, RankingNumbers DEF Lesser
<1>3. /\ run' \in RunType /\ run'.pc = "compare" /\ run'.iter = run.iter
      /\ run'.count = run.count
  BY <1>1, <1>2 DEF EngineInv, EngineTypeOK, RunType
<1>4. EngineTypeOK'
  BY <1>3 DEF EngineInv, EngineTypeOK, BeginPass, bookVars, rankVars, awardVars,
              invertVars
<1>5. step' = step /\ progress' = progress /\ StepSize(step)' = StepSize(step)
  BY DEF BeginPass, StepSize
<1>6. CallInv'
  BY <1>1, <1>3, <1>5 DEF EngineInv, CallInv, StepOf
<1> QED
  BY <1>4, <1>6 DEF TypesAndCalls

LEMMA CompareTypes ==
  ASSUME EngineInv, Compare PROVE TypesAndCalls'
<1> DEFINE ahead == Beats(rule, rankedBids[run.idx], run.cursor)
<1>1. /\ InCall /\ run.pc = "compare" /\ run.idx < run.toIdx
      /\ rankedBids' = IF ahead THEN rankedBids
                       ELSE [rankedBids EXCEPT ![run.idx] = run.cursor]
      /\ run' = [run EXCEPT !.idx = @ + 1,
                            !.cursor = IF ahead THEN @ ELSE rankedBids[run.idx]]
  BY DEF Compare, InCall
<1> HIDE DEF ahead
<1>2. run.idx \in Ranks /\ run.idx + 1 \in 0..N /\ run.cursor \in Bid
  BY <1>1, RankingNumbers DEF Ranks
<1>3. rankedBids[run.idx] \in Bid
  BY <1>2 DEF EngineInv, EngineTypeOK
<1>4. rankedBids' \in [Ranks -> Bid]
  BY <1>1, <1>2 DEF EngineInv, EngineTypeOK
<1>5. /\ run' \in RunType /\ run'.pc = "compare" /\ run'.iter = run.iter
      /\ run'.count = run.count
  BY <1>1, <1>2, <1>3 DEF EngineInv, EngineTypeOK, RunType
<1>6. EngineTypeOK'
  BY <1>4, <1>5 DEF EngineInv, EngineTypeOK, Compare, bookVars, awardVars, invertVars
<1>7. step' = step /\ progress' = progress /\ StepSize(step)' = StepSize(step)
  BY DEF Compare, StepSize
<1>8. CallInv'
  BY <1>1, <1>5, <1>7 DEF EngineInv, CallInv, StepOf
<1> QED
  BY <1>6, <1>8 DEF TypesAndCalls

\* What a pass has done when it ends.
LEMMA PassNumbers ==
  ASSUME EngineInv, run.pc = "compare", run.idx = run.toIdx,
         NEW count, count = run.count + run.toIdx - run.resume
  PROVE  /\ count \in 1..run.iter
         /\ run.toIdx < run.ranked =>
              /\ count = run.iter /\ progress + count < StepSize(1)
              /\ 2 * (progress + count) = SortPosition(run.ranked, run.toIdx)
         /\ run.toIdx = run.ranked /\ run.ranked + 1 # N =>
              /\ progress + count < StepSize(1) /\ run.ranked + 1 \in 1..(N - 1)
              /\ 2 * (progress + count) = SortPosition(run.ranked + 1, 0)
         /\ run.toIdx = run.ranked /\ run.ranked + 1 = N =>
              progress + count = StepSize(1)
<1> DEFINE r == run.ranked
           p == run.resume
           t == run.toIdx
<1>1. InCall
  BY DEF InCall
<1>2. /\ progress \in Nat /\ run.count \in 0..run.iter /\ run.iter \in Nat \ {0}
      /\ run.count < run.iter
      /\ 2 * (progress + run.count) = SortPosition(r, p)
      /\ t = Lesser(p + run.iter - run.count, r)
  BY <1>1, RankingNumbers
<1>3. N \in Nat /\ N > 1 /\ r \in 1..(N - 1) /\ p \in 0..(r - 1) /\ t \in 0..r /\ p < t
  BY <1>1, RankingNumbers
<1> HIDE DEF r, p, t
<1> DEFINE total == N * (N - 1)
           here == SortPosition(r, p)
           there == SortPosition(r, t)
           next == SortPosition(r + 1, 0)
<1>4. here \in Nat /\ here + 2 * (r - p) = next /\ SortPosition(N, 0) = total
  BY <1>3, SortPositionInStep
<1>5. 2 * StepSize(1) = total /\ StepSize(1) \in Nat
  <2>1. StepSize(1) \in 1..(N * N) /\ 2 * StepSize(1) = total
    BY <1>3, StepSizes
  <2> QED
    BY <2>1
<1>6. t < r => there + 2 <= total
  BY <1>3, SortPositionInStep
<1>7. r + 1 # N => next + 2 <= total
  <2> SUFFICES ASSUME r + 1 # N PROVE next + 2 <= total
    OBVIOUS
  <2>1. r + 1 \in 1..(N - 1) /\ 0 \in 0..((r + 1) - 1)
    BY <1>3
  <2> QED
    BY <2>1, SortPositionInStep
<1>8. there = here + 2 * (t - p)
  <2> DEFINE a == r * (r - 1)
  <2>1. a \in Int /\ there = a + 2 * t /\ here = a + 2 * p
    BY <1>3 DEF SortPosition
  <2> HIDE DEF a, here, there
  <2> QED
    BY <2>1, <1>3
<1>9. count = run.count + t - p /\ count \in 1..run.iter
  BY <1>2, <1>3 DEF Lesser, t, p
<1>10. t < r => count = run.iter
  BY <1>2, <1>3, <1>9 DEF Lesser
<1>11. r + 1 = N => next = total
  BY <1>4
<1>12. 2 * (progress + run.count) = here
  BY <1>2
<1> HIDE DEF total, here, there, next
<1>13. 2 * (progress + count) = there
  BY <1>2, <1>3, <1>4, <1>8, <1>9, <1>12
<1>14. t = r => 2 * (progress + count) = next
  BY <1>2, <1>3, <1>4, <1>9, <1>12
<1>15. t < r => progress + count < StepSize(1)
  BY <1>2, <1>5, <1>6, <1>9, <1>13
<1>16. t = r /\ r + 1 # N => progress + count < StepSize(1)
  BY <1>2, <1>5, <1>7, <1>9, <1>14
<1>17. t = r /\ r + 1 = N => progress + count = StepSize(1)
  BY <1>2, <1>5, <1>11, <1>9, <1>14
<1> QED
  BY <1>3, <1>9, <1>10, <1>13, <1>14, <1>15, <1>16, <1>17
     DEF there, next, r, t

LEMMA EndPassTypes ==
  ASSUME EngineInv, EndPass PROVE TypesAndCalls'
<1> DEFINE count == run.count + run.toIdx - run.resume
<1>1. /\ InCall /\ run.pc = "compare" /\ run.idx = run.toIdx
      /\ UNCHANGED <<bookVars, cursorRB, resumeIdxRB, awardVars, invertVars>>
  BY DEF EndPass, InCall
<1>2. /\ step = 1 /\ N \in Nat /\ N > 1 /\ progress \in Nat /\ run.ranked \in 1..(N - 1)
      /\ run.iter \in 0..(N * N) /\ N * N \in Nat /\ run.toIdx \in 0..run.ranked
      /\ run.cursor \in Bid /\ run.iter \in Nat /\ progress + run.iter <= StepSize(1)
  BY <1>1, RankingNumbers
<1>3. /\ count \in 1..run.iter
      /\ run.toIdx < run.ranked => progress + count < StepSize(1)
      /\ run.toIdx = run.ranked /\ run.ranked + 1 # N => progress + count < StepSize(1)
      /\ run.toIdx = run.ranked /\ run.ranked + 1 = N => progress + count = StepSize(1)
  BY <1>1, PassNumbers
<1>4. count \in 0..(N * N) /\ count \in Nat
  BY <1>2, <1>3
<1>5. StepSize(step)' = StepSize(step')
  BY DEF StepSize
<1>6. CASE run.toIdx < run.ranked
  <2>1. /\ run' = [run EXCEPT !.pc = "rank", !.count = count, !.resume = run.toIdx]
        /\ UNCHANGED <<rankedBids, rankedBidCount, step, progress>>
    BY <1>6, <1>2 DEF EndPass
  <2> HIDE DEF count
  <2>2. run.toIdx \in 0..N
    BY <1>2
  <2>3. /\ run' \in RunType /\ run'.pc = "rank" /\ run'.iter = run.iter
        /\ run'.count = count
    BY <2>1, <2>2, <1>4 DEF EngineInv, EngineTypeOK, RunType
  <2>4. EngineTypeOK'
    BY <1>1, <2>1, <2>3 DEF EngineInv, EngineTypeOK, bookVars, awardVars, invertVars
  <2>5. CallInv'
    BY <1>1, <1>2, <1>3, <1>5, <2>1, <2>3 DEF EngineInv, CallInv, StepOf
  <2> QED
    BY <2>4, <2>5 DEF TypesAndCalls
<1>7. CASE run.toIdx = run.ranked
  <2>1. rankedBids' = [rankedBids EXCEPT ![run.ranked] = run.cursor]
    BY <1>7, <1>2 DEF EndPass
  <2>2. rankedBids' \in [Ranks -> Bid]
    BY <2>1, <1>2 DEF EngineInv, EngineTypeOK, Ranks
  <2>3. CASE run.ranked + 1 = N
    <3>1. rankedBidCount' = N /\ Answer(S_FINISHED, count)
      BY <1>7, <1>2, <2>3 DEF EndPass
    <3>2. progress + count = StepSize(step) /\ S_FINISHED \in Codes
          /\ progress + count <= StepSize(step) /\ step \in 0..3
      BY <1>2, <1>3, <1>4, <1>7, <2>3 DEF Codes
    <3> HIDE DEF count
    <3>3. /\ run' \in RunType /\ step' \in 0..4 /\ progress' \in 0..(N * N)
          /\ CallInv'
      BY <1>4, <3>1, <3>2, AnswerKeepsCall DEF EngineInv
    <3>4. N \in 0..N
      BY <1>2
    <3> QED
      BY <1>1, <2>2, <3>1, <3>3, <3>4
         DEF EngineInv, EngineTypeOK, TypesAndCalls, bookVars, awardVars, invertVars
  <2>4. CASE run.ranked + 1 # N
    <3>1. /\ run' = [run EXCEPT !.pc = "rank", !.count = count, !.resume = 0,
                                !.ranked = run.ranked + 1,
                                !.cursor = bids[run.ranked + 2]]
          /\ UNCHANGED <<rankedBidCount, step, progress>>
      BY <1>7, <1>2, <2>4 DEF EndPass
    <3> HIDE DEF count
    <3>2. run.ranked + 2 \in Indices /\ run.ranked + 1 \in 0..N /\ 0 \in 0..N
      BY <1>2, <2>4 DEF Indices
    <3>3. bids[run.ranked + 2] \in Bid
      BY <3>2 DEF EngineInv, EngineTypeOK
    <3>4. /\ run' \in RunType /\ run'.pc = "rank" /\ run'.iter = run.iter
          /\ run'.count = count
      BY <3>1, <3>2, <3>3, <1>4 DEF EngineInv, EngineTypeOK, RunType
    <3>5. EngineTypeOK'
      BY <1>1, <2>2, <3>1, <3>4
         DEF EngineInv, EngineTypeOK, bookVars, awardVars, invertVars
    <3>6. CallInv'
      BY <1>1, <1>2, <1>3, <1>5, <3>1, <3>4 DEF EngineInv, CallInv, StepOf
    <3> QED
      BY <3>5, <3>6 DEF TypesAndCalls
  <2> QED
    BY <2>3, <2>4
<1> QED
  BY <1>2, <1>6, <1>7

LEMMA RankNumbers ==
  ASSUME EngineInv, run.pc = "rank"
  PROVE  progress + run.count < StepSize(1)
<1>1. InCall
  BY DEF InCall
<1>2. /\ N \in Nat /\ N > 1 /\ progress \in Nat /\ run.ranked \in 1..(N - 1)
      /\ run.resume \in 0..(run.ranked - 1) /\ run.count \in Nat
      /\ 2 * (progress + run.count) = SortPosition(run.ranked, run.resume)
  BY <1>1, RankingNumbers
<1>3. /\ SortPosition(run.ranked, run.resume) \in Nat
      /\ SortPosition(run.ranked, run.resume) + 2 <= N * (N - 1)
      /\ 2 * StepSize(1) = N * (N - 1) /\ StepSize(1) \in Nat
  <2>1. StepSize(1) \in 1..(N * N) /\ 2 * StepSize(1) = N * (N - 1)
    BY <1>2, StepSizes
  <2> DEFINE r == run.ranked
             p == run.resume
  <2>2. r \in 1..(N - 1) /\ p \in 0..(r - 1)
    BY <1>2
  <2> HIDE DEF r, p
  <2>3. SortPosition(r, p) \in Nat /\ SortPosition(r, p) + 2 <= N * (N - 1)
    BY <2>2, SortPositionInStep
  <2> QED
    BY <2>1, <2>3 DEF r, p
<1> DEFINE total == N * (N - 1)
           here == SortPosition(run.ranked, run.resume)
<1>4. /\ 2 * (progress + run.count) = here /\ here + 2 <= total
      /\ total = 2 * StepSize(1) /\ here \in Nat
  BY <1>2, <1>3
<1> HIDE DEF total, here
<1> QED
  BY <1>2, <1>3, <1>4

LEMMA EndRankingTypes ==
  ASSUME EngineInv, EndRanking PROVE TypesAndCalls'
<1> DEFINE code == IF run.count = run.iter THEN S_NOT_FINISHED ELSE E_NOT_ENOUGH_GAS
<1>1. /\ InCall /\ run.pc = "rank" /\ cursorRB' = run.cursor /\ resumeIdxRB' = run.resume
      /\ rankedBidCount' = run.ranked /\ Answer(code, run.count)
  BY DEF EndRanking, InCall
<1>2. /\ step = 1 /\ progress \in Nat /\ run.count \in Nat /\ N \in Nat
      /\ run.ranked \in 0..N /\ run.resume \in Ranks /\ run.cursor \in Bid
  BY <1>1, RankingNumbers DEF Ranks
<1>3. /\ code \in Codes /\ progress + run.count < StepSize(step) /\ code # S_FINISHED
      /\ StepSize(step) \in Nat
  BY <1>1, <1>2, RankNumbers, StepSizes
     DEF Codes, S_FINISHED, S_NOT_FINISHED, E_NOT_ENOUGH_GAS
<1>4. /\ progress + run.count <= StepSize(step) /\ step \in 0..3
      /\ (code = S_FINISHED) = (progress + run.count = StepSize(step))
  BY <1>2, <1>3
<1> HIDE DEF code
<1>5. /\ run' \in RunType /\ step' \in 0..4 /\ progress' \in 0..(N * N) /\ CallInv'
  BY <1>1, <1>2, <1>3, <1>4, AnswerKeepsCall DEF EngineInv
<1> QED
  BY <1>1, <1>2, <1>5 DEF EngineInv, EngineTypeOK, EndRanking, TypesAndCalls, bookVars,
                          awardVars, invertVars

LEMMA AmountFacts ==
  /\ \A n \in Nat : Wrap(n) \in Amounts /\ (n <= UInt256Max => Wrap(n) = n)
  /\ 0 \in Amounts /\ TotalQuantity \in Amounts
  /\ \A a, b \in Amounts : Lesser(a, b) \in Amounts /\ a + b \in Nat /\ a \in Nat
<1>1. UInt256Max \in Nat /\ TotalQuantity \in Nat /\ TotalQuantity <= UInt256Max
  BY QuantityAssumption
<1>2. ASSUME NEW n \in Nat
      PROVE  Wrap(n) \in Amounts /\ (n <= UInt256Max => Wrap(n) = n)
  <2>1. \A m \in Nat, d \in Nat \ {0} : m % d \in 0..(d - 1) /\ (m < d => m % d = m)
    OBVIOUS
  <2>2. UInt256Max + 1 \in Nat \ {0} /\ (UInt256Max + 1) - 1 = UInt256Max
    BY <1>1
  <2>3. n % (UInt256Max + 1) \in 0..UInt256Max
    BY <2>1, <2>2
  <2>4. n <= UInt256Max => n % (UInt256Max + 1) = n
    <3> SUFFICES ASSUME n <= UInt256Max PROVE n % (UInt256Max + 1) = n
      OBVIOUS
    <3> DEFINE d == UInt256Max + 1
    <3>1. d \in Nat \ {0} /\ n < d
      BY <1>1
    <3> HIDE DEF d
    <3>2. n % d = n
      BY <2>1, <3>1
    <3> QED
      BY <3>2 DEF d
  <2> QED
    BY <2>3, <2>4 DEF Wrap, Amounts
<1> QED
  BY <1>1, <1>2 DEF Amounts, Lesser

LEMMA BeginAwardTypes ==
  ASSUME EngineInv, NEW iter, BeginAward(iter) PROVE TypesAndCalls'
<1>1. /\ Called(2, iter)
      /\ UNCHANGED <<bookVars, rankVars, cumulativeQuantity, uniformPrice,
                     wonQuantitiesByRankReady, invertVars, step, progress>>
  BY DEF BeginAward
<1>2. 0 \in Ranks /\ N * N \in Nat /\ N \in Nat \ {0}
  BY NAssumption DEF Ranks
<1>3. rankedBids[0] \in Bid
  BY <1>2 DEF EngineInv, EngineTypeOK
<1>4. /\ run'.pc = "award" /\ run'.iter = iter /\ run'.count \in 0..1
  <2>1. CASE progress = 0
    <3>1. run' = [NoRun EXCEPT !.pc = "award", !.iter = iter, !.count = 1,
                               !.cumulative = rankedBids[0].quantity,
                               !.uniform = rankedBids[0].price]
      BY <2>1 DEF BeginAward
    <3> QED
      BY <3>1 DEF NoRun
  <2>2. CASE progress # 0
    <3>1. run' = [NoRun EXCEPT !.pc = "award", !.iter = iter,
                               !.cumulative = cumulativeQuantity,
                               !.uniform = uniformPrice]
      BY <2>2 DEF BeginAward
    <3> QED
      BY <3>1 DEF NoRun
  <2> QED
    BY <2>1, <2>2
<1>5. StepOf(run'.pc) = 2
  BY <1>4 DEF StepOf
<1>6. CallInv' /\ iter \in 1..(N * N)
  BY <1>1, <1>4, <1>5, CallBegins
<1>7. iter \in 0..(N * N) /\ 1 \in 0..(N * N)
  BY <1>2, <1>6
<1>8. run' \in RunType /\ rankedWonQuantities' \in [Ranks -> Amounts]
  <2>1. CASE progress = 0
    <3>1. /\ rankedWonQuantities' =
               [rankedWonQuantities EXCEPT
                  ![0] = Lesser(rankedBids[0].quantity, TotalQuantity)]
          /\ run' = [NoRun EXCEPT !.pc = "award", !.iter = iter, !.count = 1,
                                  !.cumulative = rankedBids[0].quantity,
                                  !.uniform = rankedBids[0].price]
      BY <2>1 DEF BeginAward
    <3>2. rankedBids[0].quantity \in Amounts /\ rankedBids[0].price \in Amounts
      BY <1>3 DEF Bid
    <3>3. Lesser(rankedBids[0].quantity, TotalQuantity) \in Amounts
      BY <3>2, AmountFacts
    <3>4. run' \in RunType
      BY <3>1, <3>2, <1>7, NoRunType DEF RunType, NoRun
    <3> QED
      BY <3>1, <3>3, <3>4 DEF EngineInv, EngineTypeOK
  <2>2. CASE progress # 0
    <3>1. /\ run' = [NoRun EXCEPT !.pc = "award", !.iter = iter,
                                  !.cumulative = cumulativeQuantity,
                                  !.uniform = uniformPrice]
          /\ rankedWonQuantities' = rankedWonQuantities
      BY <2>2 DEF BeginAward
    <3>2. cumulativeQuantity \in Amounts /\ uniformPrice \in Amounts
      BY DEF EngineInv, EngineTypeOK
    <3> QED
      BY <3>1, <3>2, <1>7, NoRunType DEF RunType, NoRun, EngineInv, EngineTypeOK
  <2> QED
    BY <2>1, <2>2
<1> QED
  BY <1>1, <1>6, <1>8 DEF EngineInv, EngineTypeOK, TypesAndCalls, bookVars, rankVars,
                          invertVars

\* The numbers of step 3.
LEMMA AwardNumbers ==
  ASSUME EngineInv, run.pc = "award"
  PROVE  /\ step = 2 /\ N \in Nat /\ N * N \in Nat /\ progress \in Nat
         /\ run.count \in Nat /\ run.iter \in 1..(N * N) /\ run.count <= run.iter
         /\ progress + run.iter <= N /\ run.cumulative \in Amounts
         /\ run.uniform \in Amounts
         /\ run.count < run.iter => progress + run.count \in Ranks
<1>1. /\ N \in Nat /\ N * N \in Nat /\ progress \in Nat /\ run \in RunType
      /\ StepSize(2) = N
  BY NAssumption, StepSizes DEF EngineInv, EngineTypeOK
<1>2. /\ run.count \in Nat /\ run.iter \in 0..(N * N) /\ run.cumulative \in Amounts
      /\ run.uniform \in Amounts
  BY <1>1 DEF RunType
<1>3. step = 2 /\ run.iter > 0 /\ progress + run.iter <= N /\ run.count <= run.iter
  BY <1>1 DEF EngineInv, CallInv, StepOf
<1> QED
  BY <1>1, <1>2, <1>3 DEF Ranks

LEMMA AwardRankTypes ==
  ASSUME EngineInv, AwardRank PROVE TypesAndCalls'
<1> DEFINE k == progress + run.count
           bid == rankedBids[k]
           isValid == run.cumulative < TotalQuantity /\ bid.price > 0
           won == IF isValid
                  THEN Lesser(Wrap(TotalQuantity - run.cumulative), bid.quantity)
                  ELSE 0
           uniform == IF isValid THEN bid.price ELSE run.uniform
<1>1. /\ run.pc = "award" /\ run.count < run.iter
      /\ rankedWonQuantities' = [rankedWonQuantities EXCEPT ![k] = won]
      /\ run' = [run EXCEPT !.count = run.count + 1,
                            !.cumulative = Wrap(run.cumulative + bid.quantity),
                            !.uniform = uniform]
  BY DEF AwardRank
<1>2. /\ step = 2 /\ N \in Nat /\ N * N \in Nat /\ progress \in Nat
      /\ run.count \in Nat /\ run.iter \in 1..(N * N) /\ run.cumulative \in Amounts
      /\ run.uniform \in Amounts /\ k \in Ranks
  BY <1>1, AwardNumbers
<1>3. bid \in Bid /\ bid.quantity \in Amounts /\ bid.price \in Amounts
  BY <1>2 DEF EngineInv, EngineTypeOK, Bid
<1>4. won \in Amounts /\ uniform \in Amounts
  <2>1. CASE isValid
    <3>1. TotalQuantity - run.cumulative \in Nat
      BY <2>1, <1>2, QuantityAssumption DEF Amounts
    <3> QED
      BY <2>1, <3>1, <1>2, <1>3, AmountFacts
  <2>2. CASE ~isValid
    BY <2>2, <1>2, AmountFacts
  <2> QED
    BY <2>1, <2>2
<1>5. Wrap(run.cumulative + bid.quantity) \in Amounts
  BY <1>2, <1>3, AmountFacts
<1>6. run.count + 1 \in 0..(N * N)
  BY <1>1, <1>2
<1> HIDE DEF won, uniform, bid, k
<1>7. /\ run' \in RunType /\ run'.pc = "award" /\ run'.iter = run.iter
      /\ run'.count = run.count + 1
  BY <1>1, <1>4, <1>5, <1>6 DEF EngineInv, EngineTypeOK, RunType
<1>8. EngineTypeOK'
  <2>1. rankedWonQuantities' \in [Ranks -> Amounts]
    BY <1>1, <1>4 DEF EngineInv, EngineTypeOK
  <2>2. run' \in RunType
    BY <1>7
  <2> QED
    BY <2>1, <2>2 DEF EngineInv, EngineTypeOK, AwardRank, bookVars, rankVars, invertVars
<1>9. step' = step /\ progress' = progress /\ StepSize(step)' = StepSize(step)
  BY DEF AwardRank, StepSize
<1>10. CallInv'
  BY <1>1, <1>2, <1>7, <1>9 DEF EngineInv, CallInv, StepOf
<1> QED
  BY <1>8, <1>10 DEF TypesAndCalls

LEMMA EndAwardTypes ==
  ASSUME EngineInv, EndAward PROVE TypesAndCalls'
<1>1. /\ run.pc = "award" /\ cumulativeQuantity' = run.cumulative
      /\ uniformPrice' = run.uniform
      /\ Answer(CodeFor(run.count, run.count < run.iter), run.count)
      /\ wonQuantitiesByRankReady' \in BOOLEAN
  BY DEF EndAward, EngineInv, EngineTypeOK
<1>2. run.cumulative \in Amounts /\ run.uniform \in Amounts
  BY <1>1, AwardNumbers
<1>3. (run.count < run.iter) \in BOOLEAN
  OBVIOUS
<1>4. /\ run' \in RunType /\ step' \in 0..4 /\ progress' \in 0..(N * N) /\ CallInv'
  BY <1>1, <1>3, CallEnds
<1> QED
  BY <1>1, <1>2, <1>4 DEF EngineInv, EngineTypeOK, EndAward, TypesAndCalls, bookVars,
                          rankVars, invertVars

LEMMA BeginInversionTypes ==
  ASSUME EngineInv, NEW iter, BeginInversion(iter) PROVE TypesAndCalls'
<1>1. /\ run' = [NoRun EXCEPT !.pc = "invert", !.iter = iter, !.idx = idxWQ,
                              !.resume = resumeIdxWQ, !.quantity = quantityWQ]
      /\ Called(3, iter) /\ step' = step /\ progress' = progress
  BY DEF BeginInversion
<1>2. run'.iter = iter /\ run'.count = 0 /\ run'.pc = "invert"
  BY <1>1 DEF NoRun
<1>3. StepOf(run'.pc) = 3
  BY <1>2 DEF StepOf
<1>4. CallInv' /\ iter \in 1..(N * N)
  BY <1>1, <1>2, <1>3, CallBegins
<1>5. iter \in 0..(N * N) /\ idxWQ \in 0..N /\ resumeIdxWQ \in 0..N
      /\ quantityWQ \in Amounts
  BY <1>4, NAssumption DEF EngineInv, EngineTypeOK, Ranks
<1>6. run' \in RunType
  BY <1>1, <1>5, NoRunType DEF RunType, NoRun
<1> QED
  BY <1>4, <1>6 DEF EngineInv, EngineTypeOK, BeginInversion, TypesAndCalls, bookVars,
                    rankVars, awardVars, invertVars

\* The numbers of step 4.
LEMMA SearchNumbers ==
  ASSUME EngineInv, run.pc = "invert"
  PROVE  /\ step = 3 /\ N \in Nat \ {0} /\ N * N \in Nat /\ progress \in Nat
         /\ run.count \in Nat /\ run.iter \in 1..(N * N) /\ run.count <= run.iter
         /\ progress + run.iter <= N * N
         /\ progress + run.count = run.idx * N + run.resume
         /\ run.resume \in 0..(N - 1) /\ run.idx \in 0..N /\ run.quantity \in Amounts
         /\ progress + run.count = N * N => run.idx = N /\ run.resume = 0
         /\ progress + run.count # N * N => run.idx \in 0..(N - 1)
<1>1. /\ N \in Nat \ {0} /\ N * N \in Nat /\ progress \in Nat /\ run \in RunType
      /\ StepSize(3) = N * N
  BY NAssumption, StepSizes DEF EngineInv, EngineTypeOK
<1>2. /\ run.count \in Nat /\ run.iter \in 0..(N * N) /\ run.quantity \in Amounts
      /\ run.idx \in 0..N /\ run.resume \in Nat
  BY <1>1 DEF RunType
<1>3. step = 3 /\ run.iter > 0 /\ progress + run.iter <= N * N /\ run.count <= run.iter
  BY <1>1 DEF EngineInv, CallInv, StepOf
<1>4. progress + run.count = run.idx * N + run.resume /\ run.resume < N
  BY DEF EngineInv, SearchInv
<1>5. run.idx < N => run.idx * N + N <= N * N
  <2> SUFFICES ASSUME run.idx < N PROVE run.idx * N + N <= N * N
    OBVIOUS
  <2>1. run.idx + 1 \in Nat /\ run.idx + 1 <= N /\ run.idx \in Nat
    BY <1>1, <1>2
  <2>2. (run.idx + 1) * N <= N * N
    BY <2>1, <1>1, ProductMonotone
  <2>3. (run.idx + 1) * N = run.idx * N + N
    BY <2>1, <1>1
  <2> QED
    BY <2>2, <2>3
<1>6. run.idx * N \in Nat
  BY <1>1, <1>2, ProductNat
<1> DEFINE square == N * N
           rows == run.idx * N
<1>7. /\ square \in Nat /\ rows \in Nat /\ progress + run.count = rows + run.resume
      /\ run.idx = N => rows = square
      /\ run.idx < N => rows + N <= square
      /\ progress + run.iter <= square
  BY <1>1, <1>3, <1>4, <1>5, <1>6
<1> HIDE DEF square, rows
<1>8. progress + run.count = square => run.idx = N /\ run.resume = 0
  BY <1>1, <1>2, <1>4, <1>7
<1>9. progress + run.count # square => run.idx \in 0..(N - 1)
  BY <1>1, <1>2, <1>3, <1>4, <1>7
<1> QED
  BY <1>1, <1>2, <1>3, <1>4, <1>8, <1>9 DEF square

LEMMA LookUpTypes ==
  ASSUME EngineInv, LookUp PROVE TypesAndCalls'
<1> DEFINE found == rankedBids[run.resume].id = bids[run.idx + 1].id
           quantity == IF found THEN rankedWonQuantities[run.resume] ELSE run.quantity
           endOfRow == run.resume + 1 = N
<1>1. /\ run.pc = "invert" /\ run.count < run.iter
      /\ wonQuantities' = IF endOfRow
                          THEN [wonQuantities EXCEPT ![run.idx] = quantity]
                          ELSE wonQuantities
      /\ run' = [run EXCEPT !.count = run.count + 1,
                            !.idx = IF endOfRow THEN run.idx + 1 ELSE run.idx,
                            !.resume = IF endOfRow THEN 0 ELSE run.resume + 1,
                            !.quantity = IF endOfRow THEN 0 ELSE quantity]
  BY DEF LookUp
<1>2. /\ step = 3 /\ N \in Nat \ {0} /\ N * N \in Nat /\ progress \in Nat
      /\ run.count \in Nat /\ run.iter \in 1..(N * N) /\ progress + run.iter <= N * N
      /\ run.resume \in 0..(N - 1) /\ run.quantity \in Amounts
      /\ progress + run.count # N * N
  BY <1>1, SearchNumbers
<1>3. run.idx \in 0..(N - 1)
  BY <1>1, <1>2, SearchNumbers
<1>4. quantity \in Amounts
  BY <1>2 DEF EngineInv, EngineTypeOK, Ranks
<1>5. wonQuantities' \in [Ranks -> Amounts]
  <2> HIDE DEF quantity, endOfRow
  <2> QED
    BY <1>1, <1>3, <1>4 DEF EngineInv, EngineTypeOK, Ranks
<1>6. /\ (IF endOfRow THEN run.idx + 1 ELSE run.idx) \in 0..N
      /\ (IF endOfRow THEN 0 ELSE run.resume + 1) \in 0..N
      /\ (IF endOfRow THEN 0 ELSE quantity) \in Amounts
      /\ run.count + 1 \in 0..(N * N)
  <2>1. run.count + 1 \in 0..(N * N)
    BY <1>1, <1>2
  <2> HIDE DEF quantity
  <2> QED
    BY <2>1, <1>2, <1>3, <1>4, AmountFacts
<1> HIDE DEF quantity, endOfRow
<1>7. /\ run' \in RunType /\ run'.pc = "invert" /\ run'.iter = run.iter
      /\ run'.count = run.count + 1
  BY <1>1, <1>6 DEF EngineInv, EngineTypeOK, RunType
<1>8. EngineTypeOK'
  BY <1>5, <1>7 DEF EngineInv, EngineTypeOK, LookUp, bookVars, rankVars, awardVars
<1>9. step' = step /\ progress' = progress /\ StepSize(step)' = StepSize(step)
  BY DEF LookUp, StepSize
<1>10. CallInv'
  BY <1>1, <1>2, <1>7, <1>9 DEF EngineInv, CallInv, StepOf
<1> QED
  BY <1>8, <1>10 DEF TypesAndCalls

LEMMA EndInversionTypes ==
  ASSUME EngineInv, NEW short \in BOOLEAN, EndInversion(short) PROVE TypesAndCalls'
<1>1. /\ run.pc = "invert" /\ Answer(CodeFor(run.count, short), run.count)
      /\ idxWQ' = run.idx
      /\ resumeIdxWQ' \in {resumeIdxWQ, run.resume}
      /\ quantityWQ' \in {quantityWQ, run.quantity}
      /\ wonQuantitiesByIdReady' \in BOOLEAN
  BY DEF EndInversion, EngineInv, EngineTypeOK
<1>2. run.idx \in 0..N /\ run.resume \in Ranks /\ run.quantity \in Amounts
  BY <1>1, SearchNumbers DEF Ranks
<1>3. /\ run' \in RunType /\ step' \in 0..4 /\ progress' \in 0..(N * N) /\ CallInv'
  BY <1>1, CallEnds
<1> QED
  BY <1>1, <1>2, <1>3 DEF EngineInv, EngineTypeOK, EndInversion, TypesAndCalls, bookVars,
                          rankVars, awardVars

-----------------------------------------------------------------------------
(* The position of the sort *)

LEMMA AnswerIs ==
  ASSUME NEW code, NEW count, Answer(code, count)
  PROVE  /\ run'.pc = "idle" /\ run'.code = code /\ run'.count = count /\ ~InCall'
         /\ code = S_FINISHED => step' = step + 1 /\ progress' = 0
         /\ code # S_FINISHED => step' = step /\ progress' = progress + count
BY DEF Answer, NoRun, InCall

\* Steps 1, 3 and 4 leave it alone.
LEMMA OtherStepsKeepSort ==
  ASSUME EngineInv, UNCHANGED rankVars, ~InCall, ~InCall', step \in 0..4,
         \/ step' = step /\ (step = 1 => progress' = progress)
         \/ step' = step + 1 /\ progress' = 0 /\ step # 1
  PROVE  SortInv'
<1>1. SortInv /\ rankedBidCount' = rankedBidCount /\ resumeIdxRB' = resumeIdxRB
  BY DEF EngineInv, rankVars
<1>2. run'.pc # "compare"
  BY DEF InCall
<1>3. step' = 0 => rankedBidCount' = 0
  BY <1>1 DEF SortInv
<1>4. step' > 1 => rankedBidCount' = N
  BY <1>1 DEF SortInv
<1>5. step' = 1 =>
       \/ rankedBidCount' = 0 /\ progress' = 0
       \/ /\ rankedBidCount' \in 1..(N - 1) /\ resumeIdxRB' < rankedBidCount'
          /\ 2 * progress' = SortPosition(rankedBidCount', resumeIdxRB')
  BY <1>1 DEF SortInv
<1> QED
  BY <1>2, <1>3, <1>4, <1>5 DEF SortInv, SortPosition

LEMMA BeginRankingSort ==
  ASSUME EngineInv, NEW iter, BeginRanking(iter) PROVE SortInv'
<1>1. /\ step = 1 /\ ~InCall /\ N \in Nat \ {0} /\ progress \in Nat
      /\ \/ rankedBidCount = 0 /\ progress = 0
         \/ /\ rankedBidCount \in 1..(N - 1) /\ resumeIdxRB < rankedBidCount
            /\ 2 * progress = SortPosition(rankedBidCount, resumeIdxRB)
  BY NAssumption
     DEF EngineInv, EngineTypeOK, SortInv, BeginRanking, Called, InCall
<1>2. CASE rankedBidCount = 0 /\ N = 1
  <2>1. rankedBidCount' = 1 /\ Answer(S_FINISHED, 1)
    BY <1>2 DEF BeginRanking
  <2>2. step' = 2 /\ run'.pc = "idle" /\ ~InCall'
    BY <1>1, <2>1, AnswerIs
  <2> QED
    BY <1>2, <2>1, <2>2 DEF SortInv
<1>3. CASE rankedBidCount = 0 /\ N # 1
  <2>1. /\ UNCHANGED <<rankedBidCount, step, progress>>
        /\ run' = [NoRun EXCEPT !.pc = "rank", !.iter = iter, !.ranked = 1,
                                !.cursor = bids[2]]
    BY <1>3 DEF BeginRanking
  <2>2. run'.pc = "rank" /\ run'.count = 0 /\ run'.ranked = 1 /\ run'.resume = 0
    BY <2>1 DEF NoRun
  <2>3. 1 \in 1..(N - 1) /\ progress = 0 /\ SortPosition(1, 0) = 0
    BY <1>1, <1>3 DEF SortPosition
  <2> QED
    BY <1>1, <2>1, <2>2, <2>3 DEF SortInv, InCall, SortPosition
<1>4. CASE rankedBidCount # 0
  <2>1. /\ UNCHANGED <<rankVars, step, progress>>
        /\ run' = [NoRun EXCEPT !.pc = "rank", !.iter = iter,
                                !.ranked = rankedBidCount,
                                !.resume = resumeIdxRB, !.cursor = cursorRB]
    BY <1>4 DEF BeginRanking
  <2>2. /\ run'.pc = "rank" /\ run'.count = 0 /\ run'.ranked = rankedBidCount
        /\ run'.resume = resumeIdxRB
    BY <2>1 DEF NoRun
  <2> QED
    BY <1>1, <1>4, <2>1, <2>2 DEF SortInv, InCall, SortPosition
<1> QED
  BY <1>2, <1>3, <1>4

LEMMA BeginPassSort ==
  ASSUME EngineInv, BeginPass PROVE SortInv'
<1>1. /\ InCall /\ run.pc = "rank" /\ run.count < run.iter
      /\ run' = [run EXCEPT !.pc = "compare", !.idx = run.resume,
                            !.toIdx = Lesser(run.resume + run.iter - run.count,
                                             run.ranked)]
      /\ UNCHANGED <<rankedBidCount, resumeIdxRB, step, progress>>
  BY DEF BeginPass, InCall, rankVars
<1>2. /\ step = 1 /\ N \in Nat /\ run.ranked \in 1..(N - 1)
      /\ run.resume \in 0..(run.ranked - 1)
      /\ run.count \in 0..run.iter /\ run.iter \in Nat \ {0}
      /\ 2 * (progress + run.count) = SortPosition(run.ranked, run.resume)
  BY <1>1, RankingNumbers
<1>3. /\ run'.pc = "compare" /\ run'.iter = run.iter /\ run'.count = run.count
      /\ run'.ranked = run.ranked /\ run'.resume = run.resume
      /\ run'.idx = run.resume
      /\ run'.toIdx = Lesser(run.resume + run.iter - run.count, run.ranked)
  BY <1>1 DEF EngineInv, EngineTypeOK, RunType
<1>4. run'.idx \in run'.resume..run'.toIdx
  BY <1>1, <1>2, <1>3 DEF Lesser
<1> QED
  BY <1>1, <1>2, <1>3, <1>4 DEF SortInv, InCall, SortPosition, Lesser

LEMMA CompareSort ==
  ASSUME EngineInv, Compare PROVE SortInv'
<1> DEFINE cursor == IF Beats(rule, rankedBids[run.idx], run.cursor)
                     THEN run.cursor ELSE rankedBids[run.idx]
<1>1. /\ InCall /\ run.pc = "compare" /\ run.idx < run.toIdx
      /\ run' = [run EXCEPT !.idx = run.idx + 1, !.cursor = cursor]
      /\ UNCHANGED <<rankedBidCount, resumeIdxRB, step, progress>>
  BY DEF Compare, InCall
<1> HIDE DEF cursor
<1>2. /\ step = 1 /\ N \in Nat /\ run.ranked \in 1..(N - 1)
      /\ run.resume \in 0..(run.ranked - 1)
      /\ run.count \in 0..run.iter /\ run.iter \in Nat \ {0}
      /\ 2 * (progress + run.count) = SortPosition(run.ranked, run.resume)
      /\ run.count < run.iter
      /\ run.toIdx = Lesser(run.resume + run.iter - run.count, run.ranked)
      /\ run.idx \in run.resume..run.toIdx
      /\ run.toIdx \in 0..run.ranked
  BY <1>1, RankingNumbers
<1>3. /\ run'.pc = "compare" /\ run'.iter = run.iter /\ run'.count = run.count
      /\ run'.ranked = run.ranked /\ run'.resume = run.resume
      /\ run'.idx = run.idx + 1 /\ run'.toIdx = run.toIdx
  BY <1>1 DEF EngineInv, EngineTypeOK, RunType
<1>4. run'.idx \in run'.resume..run'.toIdx
  BY <1>1, <1>2, <1>3
<1> QED
  BY <1>1, <1>2, <1>3, <1>4 DEF SortInv, InCall, SortPosition, Lesser

LEMMA EndPassSort ==
  ASSUME EngineInv, EndPass PROVE SortInv'
<1> DEFINE count == run.count + run.toIdx - run.resume
<1>1. /\ InCall /\ run.pc = "compare" /\ run.idx = run.toIdx
      /\ UNCHANGED resumeIdxRB
  BY DEF EndPass, InCall
<1>2. /\ step = 1 /\ N \in Nat /\ N > 1 /\ progress \in Nat /\ run.ranked \in 1..(N - 1)
      /\ run.toIdx \in 0..run.ranked
  BY <1>1, RankingNumbers
<1>3. /\ run.toIdx < run.ranked =>
           2 * (progress + count) = SortPosition(run.ranked, run.toIdx)
      /\ run.toIdx = run.ranked /\ run.ranked + 1 # N =>
           /\ run.ranked + 1 \in 1..(N - 1)
           /\ 2 * (progress + count) = SortPosition(run.ranked + 1, 0)
  BY <1>1, PassNumbers
<1>4. CASE run.toIdx < run.ranked
  <2>1. /\ run' = [run EXCEPT !.pc = "rank", !.count = count, !.resume = run.toIdx]
        /\ UNCHANGED <<rankedBidCount, step, progress>>
    BY <1>4, <1>2 DEF EndPass
  <2> HIDE DEF count
  <2>2. /\ run'.pc = "rank" /\ run'.count = count /\ run'.resume = run.toIdx
        /\ run'.ranked = run.ranked
    BY <2>1 DEF EngineInv, EngineTypeOK, RunType
  <2> QED
    BY <1>2, <1>3, <1>4, <2>1, <2>2 DEF SortInv, InCall, SortPosition
<1>5. CASE run.toIdx = run.ranked /\ run.ranked + 1 = N
  <2>1. rankedBidCount' = N /\ Answer(S_FINISHED, count)
    BY <1>5, <1>2 DEF EndPass
  <2>2. step' = 2 /\ run'.pc = "idle" /\ ~InCall'
    BY <1>2, <2>1, AnswerIs
  <2> QED
    BY <2>1, <2>2 DEF SortInv
<1>6. CASE run.toIdx = run.ranked /\ run.ranked + 1 # N
  <2>1. /\ run' = [run EXCEPT !.pc = "rank", !.count = count, !.resume = 0,
                              !.ranked = run.ranked + 1,
                              !.cursor = bids[run.ranked + 2]]
        /\ UNCHANGED <<rankedBidCount, step, progress>>
    BY <1>6, <1>2 DEF EndPass
  <2> HIDE DEF count
  <2>2. /\ run'.pc = "rank" /\ run'.count = count /\ run'.resume = 0
        /\ run'.ranked = run.ranked + 1
    BY <2>1 DEF EngineInv, EngineTypeOK, RunType
  <2>3. 0 < run.ranked + 1
    BY <1>2
  <2> QED
    BY <1>2, <1>3, <1>6, <2>1, <2>2, <2>3 DEF SortInv, InCall, SortPosition
<1> QED
  BY <1>2, <1>4, <1>5, <1>6

LEMMA EndRankingSort ==
  ASSUME EngineInv, EndRanking PROVE SortInv'
<1> DEFINE code == IF run.count = run.iter THEN S_NOT_FINISHED ELSE E_NOT_ENOUGH_GAS
<1>1. /\ InCall /\ run.pc = "rank" /\ resumeIdxRB' = run.resume
      /\ rankedBidCount' = run.ranked /\ Answer(code, run.count)
  BY DEF EndRanking, InCall
<1>2. /\ step = 1 /\ N \in Nat /\ run.ranked \in 1..(N - 1)
      /\ run.resume \in 0..(run.ranked - 1)
      /\ 2 * (progress + run.count) = SortPosition(run.ranked, run.resume)
  BY <1>1, RankingNumbers
<1>3. code # S_FINISHED
  BY DEF S_FINISHED, S_NOT_FINISHED, E_NOT_ENOUGH_GAS
<1> HIDE DEF code
<1>4. /\ run'.pc = "idle" /\ ~InCall' /\ step' = 1
      /\ progress' = progress + run.count
  BY <1>1, <1>2, <1>3, AnswerIs
<1> QED
  BY <1>1, <1>2, <1>4 DEF SortInv, SortPosition

\* The numbers of step 1.
LEMMA ValidationNumbers ==
  ASSUME EngineInv, run.pc = "validate"
  PROVE  /\ step = 0 /\ progress \in Nat /\ run.count \in Nat /\ run.iter \in Nat
         /\ progress + run.iter <= N /\ run.count <= run.iter /\ N \in Nat
BY StepSizes, NAssumption DEF EngineInv, EngineTypeOK, RunType, CallInv, StepOf

LEMMA SortPreserved ==
  ASSUME EngineInv, EngineNext PROVE SortInv'
<1>1. step \in 0..4 /\ progress \in Nat
  BY DEF EngineInv, EngineTypeOK
<1>2. CASE RefuseCall
  <2>1. Answer(E_NOT_ENOUGH_GAS, 0) /\ ~InCall /\ UNCHANGED rankVars
    BY <1>2 DEF RefuseCall, InCall
  <2>2. E_NOT_ENOUGH_GAS # S_FINISHED
    BY DEF E_NOT_ENOUGH_GAS, S_FINISHED
  <2>3. ~InCall' /\ step' = step /\ progress' = progress
    BY <1>1, <2>1, <2>2, AnswerIs
  <2> QED
    BY <1>1, <2>1, <2>3, OtherStepsKeepSort
<1>3. ASSUME NEW iter, BeginValidation(iter) \/ BeginAward(iter) \/ BeginInversion(iter)
      PROVE  SortInv'
  <2>1. ~InCall /\ UNCHANGED rankVars /\ step' = step /\ progress' = progress
    BY <1>3 DEF BeginValidation, BeginAward, BeginInversion, Called, InCall
  <2>2. ~InCall'
    BY <1>3 DEF BeginValidation, BeginAward, BeginInversion, NoRun, InCall
  <2> QED
    BY <1>1, <2>1, <2>2, OtherStepsKeepSort
<1>4. ASSUME NEW iter, BeginRanking(iter) PROVE SortInv'
  BY <1>4, BeginRankingSort
<1>5. ASSUME NEW short \in BOOLEAN, EndValidation(short) \/ EndInversion(short)
      PROVE  SortInv'
  <2>1. /\ ~InCall /\ UNCHANGED rankVars /\ step \in {0, 3}
        /\ Answer(CodeFor(run.count, short), run.count)
    BY <1>5, ValidationNumbers, SearchNumbers DEF EndValidation, EndInversion, InCall
  <2>2. /\ ~InCall'
        /\ (step' = step + 1 /\ progress' = 0) \/ step' = step
    BY <2>1, AnswerIs
  <2> QED
    BY <1>1, <2>1, <2>2, OtherStepsKeepSort
<1>6. CASE ValidateBid \/ AwardRank \/ LookUp
  <2>1. ~InCall /\ UNCHANGED rankVars /\ step' = step /\ progress' = progress
    BY <1>6 DEF ValidateBid, AwardRank, LookUp, InCall
  <2>2. run'.pc = run.pc
    BY <1>6 DEF ValidateBid, AwardRank, LookUp, EngineInv, EngineTypeOK, RunType
  <2> QED
    BY <1>1, <2>1, <2>2, OtherStepsKeepSort DEF InCall
<1>7. CASE BeginPass
  BY <1>7, BeginPassSort
<1>8. CASE Compare
  BY <1>8, CompareSort
<1>9. CASE EndPass
  BY <1>9, EndPassSort
<1>10. CASE EndRanking
  BY <1>10, EndRankingSort
<1>11. CASE EndAward
  <2>1. /\ ~InCall /\ UNCHANGED rankVars /\ step = 2
        /\ Answer(CodeFor(run.count, run.count < run.iter), run.count)
    BY <1>11, AwardNumbers DEF EndAward, InCall
  <2>2. /\ ~InCall'
        /\ (step' = step + 1 /\ progress' = 0) \/ step' = step
    BY <2>1, AnswerIs
  <2> QED
    BY <1>1, <2>1, <2>2, OtherStepsKeepSort
<1> QED
  BY <1>2, <1>3, <1>4, <1>5, <1>6, <1>7, <1>8, <1>9, <1>10, <1>11
     DEF EngineNext, BeginCall, ContinueCall

-----------------------------------------------------------------------------
(* The ranking *)

\* The sort can be resumed: n bids are ranked, the cursor belongs behind k of them,
\* and together they are the first n + 1 bids.
Resumable(ranked, n, cursor, k) ==
  /\ \A i, j \in 0..(n - 1) : i < j => Beats(rule, ranked[i], ranked[j])
  /\ \A i \in 0..(k - 1) : Beats(rule, ranked[i], cursor)
  /\ {ranked[i] : i \in 0..(n - 1)} \cup {cursor} = {bids[i] : i \in 1..(n + 1)}
  /\ \A i \in 0..(n - 1) : ranked[i] # cursor

Ranked(ranked) ==
  /\ \A i, j \in 0..(N - 1) : i < j => Beats(rule, ranked[i], ranked[j])
  /\ {ranked[i] : i \in Ranks} = {bids[i] : i \in Indices}

LEMMA OrderIs ==
  /\ OrderInv <=>
       /\ Sorting => Resumable(rankedBids, SortedCount, Cursor, CursorRank)
       /\ step > 1 => Ranked(rankedBids)
BY DEF OrderInv, SortIsResumable, Resumable, Ranked, Ordered

LEMMA FirstRanked ==
  ASSUME EngineTypeOK, BookInv, NEW ranked \in [Ranks -> Bid], ranked[0] = bids[1]
  PROVE  /\ N = 1 => Ranked(ranked)
         /\ N # 1 => Resumable(ranked, 1, bids[2], 0)
<1>1. CASE N = 1
  <2>1. Ranks = {0} /\ Indices = {1}
    BY <1>1 DEF Ranks, Indices
  <2>2. {ranked[i] : i \in Ranks} = {bids[i] : i \in Indices}
    BY <2>1
  <2>3. \A i, j \in 0..(N - 1) : ~(i < j)
    BY <1>1
  <2>4. Ranked(ranked)
    BY <2>2, <2>3 DEF Ranked
  <2> QED
    BY <1>1, <2>4
<1>2. CASE N # 1
  <2>1. 1 \in Indices /\ 2 \in Indices
    BY <1>2, NAssumption DEF Indices
  <2>2. bids[1] # bids[2]
    BY <2>1 DEF BookInv
  <2>3. 0..(1 - 1) = {0} /\ 1..(1 + 1) = {1, 2} /\ 0..(0 - 1) = {}
    OBVIOUS
  <2>4. {ranked[i] : i \in {0}} \cup {bids[2]} = {bids[i] : i \in {1, 2}}
    OBVIOUS
  <2>5. \A i, j \in 0..(1 - 1) : ~(i < j)
    OBVIOUS
  <2>6. Resumable(ranked, 1, bids[2], 0)
    BY <2>2, <2>3, <2>4, <2>5 DEF Resumable
  <2> QED
    BY <1>2, <2>6
<1> QED
  BY <1>1, <1>2

\* The ranked bids and the cursor are bids of the book.
LEMMA RankedAreBids ==
  ASSUME NEW ranked, NEW n \in 1..(N - 1), NEW cursor, NEW k, N \in Nat,
         Resumable(ranked, n, cursor, k)
  PROVE  /\ \A i \in 0..(n - 1) : \E j \in 1..(n + 1) : ranked[i] = bids[j]
         /\ \E j \in 1..(n + 1) : cursor = bids[j]
         /\ 1..(n + 1) \subseteq Indices
<1>1. 1..(n + 1) \subseteq Indices
  BY DEF Indices
<1>2. /\ \A i \in 0..(n - 1) : ranked[i] \in {bids[j] : j \in 1..(n + 1)}
      /\ cursor \in {bids[j] : j \in 1..(n + 1)}
  BY DEF Resumable
<1> QED
  BY <1>1, <1>2

LEMMA PassedRank ==
  ASSUME NEW ranked, NEW n \in 1..(N - 1), NEW cursor, NEW k \in 0..(n - 1), N \in Nat,
         Resumable(ranked, n, cursor, k), Beats(rule, ranked[k], cursor)
  PROVE  Resumable(ranked, n, cursor, k + 1)
<1>1. \A i \in 0..((k + 1) - 1) : i = k \/ i \in 0..(k - 1)
  OBVIOUS
<1> QED
  BY <1>1 DEF Resumable

LEMMA TakenRank ==
  ASSUME EngineTypeOK, BookInv, NEW ranked \in [Ranks -> Bid], NEW n \in 1..(N - 1),
         NEW cursor \in Bid, NEW k \in 0..(n - 1), N \in Nat,
         Resumable(ranked, n, cursor, k), ~Beats(rule, ranked[k], cursor)
  PROVE  Resumable([ranked EXCEPT ![k] = cursor], n, ranked[k], k + 1)
<1> DEFINE new == [ranked EXCEPT ![k] = cursor]
<1>1. /\ k \in Ranks /\ 0..(n - 1) \subseteq Ranks /\ rule \in Rules
      /\ \A i \in 0..(n - 1) : ranked[i] \in Bid
  BY DEF Ranks, EngineTypeOK
<1>2. /\ new[k] = cursor
      /\ \A i \in Ranks : i # k => new[i] = ranked[i]
  BY <1>1
<1>3. Beats(rule, cursor, ranked[k])
  <2>1. PICK i \in Indices : cursor = bids[i]
    BY RankedAreBids
  <2>2. PICK j \in Indices : ranked[k] = bids[j]
    BY RankedAreBids
  <2>3. cursor # ranked[k]
    BY DEF Resumable
  <2> QED
    BY <2>1, <2>2, <2>3, BookIsOrdered
<1>4. /\ \A i, j \in 0..(n - 1) : i < j => Beats(rule, ranked[i], ranked[j])
      /\ \A i \in 0..(k - 1) : Beats(rule, ranked[i], cursor)
      /\ \A i \in 0..(n - 1) : ranked[i] # cursor
      /\ {ranked[i] : i \in 0..(n - 1)} \cup {cursor} = {bids[i] : i \in 1..(n + 1)}
  BY DEF Resumable
<1>5. ASSUME NEW i \in 0..(n - 1), NEW j \in 0..(n - 1), i < j
      PROVE  Beats(rule, new[i], new[j])
  <2>1. CASE i = k
    <3>1. Beats(rule, ranked[k], ranked[j]) /\ new[i] = cursor /\ new[j] = ranked[j]
      BY <2>1, <1>1, <1>2, <1>4, <1>5
    <3> QED
      BY <3>1, <1>1, <1>3, BeatsIsTransitive
  <2>2. CASE j = k
    BY <2>2, <1>1, <1>2, <1>4, <1>5
  <2>3. CASE i # k /\ j # k
    BY <2>3, <1>1, <1>2, <1>4, <1>5
  <2> QED
    BY <2>1, <2>2, <2>3
<1>6. ASSUME NEW i \in 0..((k + 1) - 1)
      PROVE  Beats(rule, new[i], ranked[k])
  <2>1. CASE i = k
    BY <2>1, <1>2, <1>3
  <2>2. CASE i # k
    <3>1. i \in 0..(n - 1) /\ i < k /\ new[i] = ranked[i]
      BY <2>2, <1>1, <1>2
    <3> QED
      BY <3>1, <1>4
  <2> QED
    BY <2>1, <2>2
<1>7. ASSUME NEW i \in 0..(n - 1)
      PROVE  new[i] # ranked[k]
  <2>1. CASE i = k
    BY <2>1, <1>2, <1>4
  <2>2. CASE i # k
    <3>1. new[i] = ranked[i] /\ (i < k \/ k < i)
      BY <2>2, <1>1, <1>2
    <3>2. Beats(rule, ranked[i], ranked[k]) \/ Beats(rule, ranked[k], ranked[i])
      BY <3>1, <1>4
    <3> QED
      BY <3>1, <3>2, <1>1, BeatsIsStrict
  <2> QED
    BY <2>1, <2>2
<1>8. {new[i] : i \in 0..(n - 1)} \cup {ranked[k]}
        = {ranked[i] : i \in 0..(n - 1)} \cup {cursor}
  <2> HIDE DEF new
  <2>1. ASSUME NEW i \in 0..(n - 1)
        PROVE  /\ new[i] \in {ranked[j] : j \in 0..(n - 1)} \cup {cursor}
               /\ ranked[i] \in {new[j] : j \in 0..(n - 1)} \cup {ranked[k]}
    BY <1>1, <1>2
  <2>2. cursor \in {new[j] : j \in 0..(n - 1)}
    BY <1>2
  <2>3. ranked[k] \in {ranked[j] : j \in 0..(n - 1)}
    OBVIOUS
  <2> QED
    BY <2>1, <2>2, <2>3
<1> HIDE DEF new
<1> QED
  BY <1>4, <1>5, <1>6, <1>7, <1>8 DEF Resumable, new

LEMMA AppendedCursor ==
  ASSUME EngineTypeOK, BookInv, NEW ranked \in [Ranks -> Bid], NEW n \in 1..(N - 1),
         NEW cursor \in Bid, N \in Nat, Resumable(ranked, n, cursor, n),
         NEW new, new = [ranked EXCEPT ![n] = cursor]
  PROVE  /\ n + 1 = N => Ranked(new)
         /\ n + 1 # N => Resumable(new, n + 1, bids[n + 2], 0)
<1>1. n \in Ranks /\ 0..(n - 1) \subseteq Ranks /\ (n + 1) - 1 = n
  BY DEF Ranks
<1>2. new[n] = cursor /\ \A i \in 0..(n - 1) : new[i] = ranked[i]
  BY <1>1
<1>3. \A i \in 0..n : i = n \/ i \in 0..(n - 1)
  OBVIOUS
<1>4. /\ \A i, j \in 0..(n - 1) : i < j => Beats(rule, ranked[i], ranked[j])
      /\ \A i \in 0..(n - 1) : Beats(rule, ranked[i], cursor)
      /\ {ranked[i] : i \in 0..(n - 1)} \cup {cursor} = {bids[i] : i \in 1..(n + 1)}
  BY DEF Resumable
<1>5. ASSUME NEW i \in 0..n, NEW j \in 0..n, i < j
      PROVE  Beats(rule, new[i], new[j])
  <2>1. i \in 0..(n - 1) /\ new[i] = ranked[i]
    BY <1>2, <1>5
  <2>2. CASE j = n
    BY <2>1, <2>2, <1>2, <1>4
  <2>3. CASE j \in 0..(n - 1)
    BY <2>1, <2>3, <1>2, <1>4, <1>5
  <2> QED
    BY <2>2, <2>3, <1>3
<1>6. {new[i] : i \in 0..n} = {bids[i] : i \in 1..(n + 1)}
  <2>1. \A i \in 0..n : new[i] \in {ranked[j] : j \in 0..(n - 1)} \cup {cursor}
    BY <1>2, <1>3
  <2>2. \A i \in 0..(n - 1) : ranked[i] \in {new[j] : j \in 0..n}
    <3>1. \A i \in 0..(n - 1) : i \in 0..n
      OBVIOUS
    <3> QED
      BY <1>2, <3>1
  <2>3. cursor \in {new[j] : j \in 0..n}
    <3>1. n \in 0..n
      OBVIOUS
    <3> QED
      BY <1>2, <3>1
  <2>4. {new[i] : i \in 0..n} = {ranked[i] : i \in 0..(n - 1)} \cup {cursor}
    BY <2>1, <2>2, <2>3
  <2> QED
    BY <2>4, <1>4
<1>7. CASE n + 1 = N
  <2>1. 0..(N - 1) = 0..n /\ Ranks = 0..n /\ Indices = 1..(n + 1)
    BY <1>7 DEF Ranks, Indices
  <2> QED
    BY <1>7, <2>1, <1>5, <1>6 DEF Ranked
<1>8. CASE n + 1 # N
  <2>1. n + 2 \in Indices /\ 1..(n + 1) \subseteq Indices
    BY <1>8 DEF Indices
  <2>2. \A j \in 1..(n + 1) : bids[j] # bids[n + 2]
    <3>1. \A j \in 1..(n + 1) : j # n + 2 /\ j \in Indices
      BY <2>1
    <3> QED
      BY <2>1, <3>1 DEF BookInv
  <2>3. \A i \in 0..n : new[i] # bids[n + 2]
    <3>1. \A i \in 0..n : new[i] \in {bids[j] : j \in 1..(n + 1)}
      BY <1>6
    <3> QED
      BY <3>1, <2>2
  <2>4. 1..((n + 1) + 1) = 1..(n + 1) \cup {n + 2}
    OBVIOUS
  <2>5. {new[i] : i \in 0..n} \cup {bids[n + 2]} = {bids[i] : i \in 1..((n + 1) + 1)}
    BY <1>6, <2>4
  <2>6. 0..(0 - 1) = {}
    OBVIOUS
  <2> QED
    BY <1>1, <1>5, <1>8, <2>3, <2>5, <2>6 DEF Resumable
<1> QED
  BY <1>7, <1>8

LEMMA OrderNext ==
  ASSUME UNCHANGED <<rule, bids>>,
         Sorting' => Resumable(rankedBids', SortedCount', Cursor', CursorRank'),
         step' > 1 => Ranked(rankedBids')
  PROVE  OrderInv'
<1>1. rule' = rule /\ bids' = bids
  OBVIOUS
<1>2. CASE ~Sorting'
  BY <1>1, <1>2 DEF OrderInv, SortIsResumable, Ranked, Ordered
<1>3. CASE Sorting'
  BY <1>1, <1>3 DEF OrderInv, SortIsResumable, Resumable, Ranked, Ordered
<1> QED
  BY <1>2, <1>3

LEMMA OtherStepsKeepOrder ==
  ASSUME EngineInv, UNCHANGED <<rule, bids>>, UNCHANGED rankVars, ~InCall, ~InCall',
         step \in 0..4, step' = step \/ (step' = step + 1 /\ step # 1)
  PROVE  OrderInv'
<1>1. /\ rankedBids' = rankedBids /\ rankedBidCount' = rankedBidCount
      /\ cursorRB' = cursorRB /\ resumeIdxRB' = resumeIdxRB
  BY DEF rankVars
<1>2. /\ Sorting => Resumable(rankedBids, SortedCount, Cursor, CursorRank)
      /\ step > 1 => Ranked(rankedBids)
  BY OrderIs DEF EngineInv
<1>3. step' > 1 => Ranked(rankedBids')
  BY <1>1, <1>2
<1>4. Sorting' => Sorting
  <2>1. step = 0 => rankedBidCount = 0
    BY DEF EngineInv, SortInv
  <2> QED
    BY <1>1, <2>1 DEF Sorting
<1>5. /\ SortedCount' = SortedCount /\ Cursor' = Cursor
      /\ CursorRank' = CursorRank
  BY <1>1 DEF SortedCount, Cursor, CursorRank, InCall
<1>6. Sorting' => Resumable(rankedBids', SortedCount', Cursor', CursorRank')
  BY <1>1, <1>2, <1>4, <1>5
<1> QED
  BY <1>3, <1>6, OrderNext

LEMMA ValidateBidOrder ==
  ASSUME EngineInv, ValidateBid PROVE OrderInv'
<1>1. step = 0 /\ step' = step
  BY ValidationNumbers DEF ValidateBid
<1> QED
  BY <1>1 DEF OrderInv, SortIsResumable, Sorting

\* What a ranking in progress has reached, before and after a step.
LEMMA InRanking ==
  ASSUME EngineInv, InCall
  PROVE  /\ Resumable(rankedBids, run.ranked, run.cursor,
                      IF run.pc = "compare" THEN run.idx ELSE run.resume)
         /\ rankedBids \in [Ranks -> Bid]
<1>1. Sorting /\ SortedCount = run.ranked /\ Cursor = run.cursor
  BY RankingNumbers DEF Sorting, SortedCount, Cursor
<1>2. CursorRank = IF run.pc = "compare" THEN run.idx ELSE run.resume
  BY DEF CursorRank, InCall
<1> QED
  BY <1>1, <1>2, OrderIs DEF EngineInv, EngineTypeOK

LEMMA StillRanking ==
  ASSUME UNCHANGED <<rule, bids>>, InCall', step' = 1,
         Resumable(rankedBids', run'.ranked, run'.cursor,
                   IF run'.pc = "compare" THEN run'.idx ELSE run'.resume)
  PROVE  OrderInv'
<1>1. SortedCount' = run'.ranked /\ Cursor' = run'.cursor
  BY DEF SortedCount, Cursor
<1>2. CursorRank' = IF run'.pc = "compare" THEN run'.idx ELSE run'.resume
  BY DEF CursorRank, InCall
<1> QED
  BY <1>1, <1>2, OrderNext

LEMMA BeginRankingOrder ==
  ASSUME EngineInv, NEW iter, BeginRanking(iter) PROVE OrderInv'
<1>1. /\ step = 1 /\ ~InCall /\ N \in Nat \ {0} /\ UNCHANGED <<rule, bids>>
      /\ rankedBids \in [Ranks -> Bid] /\ 0 \in Ranks /\ 1 \in Indices
  BY NAssumption
     DEF EngineInv, EngineTypeOK, BeginRanking, Called, InCall, bookVars, Ranks, Indices
<1>2. CASE rankedBidCount = 0
  <2>1. rankedBids' = [rankedBids EXCEPT ![0] = bids[1]]
    BY <1>2 DEF BeginRanking
  <2>2. bids[1] \in Bid
    BY <1>1 DEF EngineInv, EngineTypeOK
  <2>3. rankedBids' \in [Ranks -> Bid] /\ rankedBids'[0] = bids[1]
    BY <1>1, <2>1, <2>2
  <2>4. /\ N = 1 => Ranked(rankedBids')
        /\ N # 1 => Resumable(rankedBids', 1, bids[2], 0)
    BY <2>3, FirstRanked DEF EngineInv
  <2>5. CASE N = 1
    <3>1. Answer(S_FINISHED, 1)
      BY <1>2, <2>5 DEF BeginRanking
    <3>2. step' = 2 /\ ~InCall'
      BY <1>1, <3>1, AnswerIs
    <3>3. ~Sorting'
      BY <3>2 DEF Sorting
    <3> QED
      BY <1>1, <2>4, <2>5, <3>3, OrderNext
  <2>6. CASE N # 1
    <3>1. /\ step' = step
          /\ run' = [NoRun EXCEPT !.pc = "rank", !.iter = iter, !.ranked = 1,
                                  !.cursor = bids[2]]
      BY <1>2, <2>6 DEF BeginRanking
    <3>2. /\ run'.pc = "rank" /\ run'.ranked = 1 /\ run'.cursor = bids[2]
          /\ run'.resume = 0
      BY <3>1 DEF NoRun
    <3>3. InCall'
      BY <3>2 DEF InCall
    <3> QED
      BY <1>1, <2>4, <2>6, <3>1, <3>2, <3>3, StillRanking
  <2> QED
    BY <2>5, <2>6
<1>3. CASE rankedBidCount # 0
  <2>1. /\ rankedBids' = rankedBids /\ step' = step
        /\ run' = [NoRun EXCEPT !.pc = "rank", !.iter = iter,
                                !.ranked = rankedBidCount,
                                !.resume = resumeIdxRB, !.cursor = cursorRB]
    BY <1>3 DEF BeginRanking, rankVars
  <2>2. /\ run'.pc = "rank" /\ run'.ranked = rankedBidCount /\ run'.cursor = cursorRB
        /\ run'.resume = resumeIdxRB
    BY <2>1 DEF NoRun
  <2>3. /\ Sorting /\ SortedCount = rankedBidCount /\ Cursor = cursorRB
        /\ CursorRank = resumeIdxRB
    <3>1. rankedBidCount > 0
      BY <1>3, <1>1 DEF EngineInv, EngineTypeOK
    <3> QED
      BY <1>1, <3>1 DEF Sorting, SortedCount, Cursor, CursorRank, InCall
  <2>4. Resumable(rankedBids, rankedBidCount, cursorRB, resumeIdxRB)
    BY <2>3, OrderIs DEF EngineInv
  <2>5. InCall'
    BY <2>2 DEF InCall
  <2> QED
    BY <1>1, <2>1, <2>2, <2>4, <2>5, StillRanking
<1> QED
  BY <1>2, <1>3

LEMMA BeginPassOrder ==
  ASSUME EngineInv, BeginPass PROVE OrderInv'
<1>1. /\ InCall /\ run.pc = "rank" /\ UNCHANGED <<rule, bids>>
      /\ rankedBids' = rankedBids /\ step' = step
      /\ run' = [run EXCEPT !.pc = "compare", !.idx = run.resume,
                            !.toIdx = Lesser(run.resume + run.iter - run.count,
                                             run.ranked)]
  BY DEF BeginPass, InCall, rankVars, bookVars
<1>2. /\ run'.pc = "compare" /\ run'.ranked = run.ranked /\ run'.cursor = run.cursor
      /\ run'.idx = run.resume
  BY <1>1 DEF EngineInv, EngineTypeOK, RunType
<1>3. InCall' /\ step = 1
  BY <1>1, <1>2, RankingNumbers DEF InCall
<1> QED
  BY <1>1, <1>2, <1>3, InRanking, StillRanking

LEMMA CompareOrder ==
  ASSUME EngineInv, Compare PROVE OrderInv'
<1> DEFINE ahead == Beats(rule, rankedBids[run.idx], run.cursor)
           cursor == IF ahead THEN run.cursor ELSE rankedBids[run.idx]
<1>1. /\ InCall /\ run.pc = "compare" /\ run.idx < run.toIdx /\ UNCHANGED <<rule, bids>>
      /\ rankedBids' = IF ahead THEN rankedBids
                       ELSE [rankedBids EXCEPT ![run.idx] = run.cursor]
      /\ run' = [run EXCEPT !.idx = run.idx + 1, !.cursor = cursor]
      /\ step' = step
  BY DEF Compare, InCall, bookVars
<1>2. /\ step = 1 /\ N \in Nat /\ run.ranked \in 1..(N - 1) /\ run.cursor \in Bid
      /\ run.idx \in 0..(run.ranked - 1)
  BY <1>1, RankingNumbers
<1>3. /\ Resumable(rankedBids, run.ranked, run.cursor, run.idx)
      /\ rankedBids \in [Ranks -> Bid]
  BY <1>1, InRanking
<1>4. Resumable(rankedBids', run.ranked, cursor, run.idx + 1)
  <2>1. CASE ahead
    <3>1. rankedBids' = rankedBids /\ cursor = run.cursor
      BY <1>1, <2>1
    <3> QED
      BY <3>1, <1>2, <1>3, <2>1, PassedRank
  <2>2. CASE ~ahead
    <3>1. /\ rankedBids' = [rankedBids EXCEPT ![run.idx] = run.cursor]
          /\ cursor = rankedBids[run.idx]
      BY <1>1, <2>2
    <3> QED
      BY <3>1, <1>2, <1>3, <2>2, TakenRank DEF EngineInv
  <2> QED
    BY <2>1, <2>2
<1> HIDE DEF ahead, cursor
<1>5. /\ run'.pc = "compare" /\ run'.ranked = run.ranked /\ run'.cursor = cursor
      /\ run'.idx = run.idx + 1
  BY <1>1 DEF EngineInv, EngineTypeOK, RunType
<1>6. InCall'
  BY <1>5 DEF InCall
<1> QED
  BY <1>1, <1>2, <1>4, <1>5, <1>6, StillRanking

LEMMA EndPassOrder ==
  ASSUME EngineInv, EndPass PROVE OrderInv'
<1> DEFINE count == run.count + run.toIdx - run.resume
<1>1. /\ InCall /\ run.pc = "compare" /\ run.idx = run.toIdx /\ UNCHANGED <<rule, bids>>
  BY DEF EndPass, InCall, bookVars
<1>2. /\ step = 1 /\ N \in Nat /\ run.ranked \in 1..(N - 1) /\ run.cursor \in Bid
      /\ run.toIdx \in 0..run.ranked
  BY <1>1, RankingNumbers
<1>3. /\ Resumable(rankedBids, run.ranked, run.cursor, run.toIdx)
      /\ rankedBids \in [Ranks -> Bid]
  BY <1>1, InRanking
<1>4. CASE run.toIdx < run.ranked
  <2>1. /\ run' = [run EXCEPT !.pc = "rank", !.count = count, !.resume = run.toIdx]
        /\ rankedBids' = rankedBids /\ step' = step
    BY <1>4, <1>2 DEF EndPass
  <2> HIDE DEF count
  <2>2. /\ run'.pc = "rank" /\ run'.resume = run.toIdx /\ run'.ranked = run.ranked
        /\ run'.cursor = run.cursor
    BY <2>1 DEF EngineInv, EngineTypeOK, RunType
  <2>3. InCall'
    BY <2>2 DEF InCall
  <2> QED
    BY <1>1, <1>2, <1>3, <2>1, <2>2, <2>3, StillRanking
<1>5. CASE run.toIdx = run.ranked
  <2>1. rankedBids' = [rankedBids EXCEPT ![run.ranked] = run.cursor]
    BY <1>5, <1>2 DEF EndPass
  <2>2. Resumable(rankedBids, run.ranked, run.cursor, run.ranked)
    BY <1>3, <1>5
  <2>3. /\ run.ranked + 1 = N => Ranked(rankedBids')
        /\ run.ranked + 1 # N =>
             Resumable(rankedBids', run.ranked + 1, bids[run.ranked + 2], 0)
    BY <1>2, <1>3, <2>1, <2>2, AppendedCursor DEF EngineInv
  <2>4. CASE run.ranked + 1 = N
    <3>1. Answer(S_FINISHED, count)
      BY <1>5, <1>2, <2>4 DEF EndPass
    <3> HIDE DEF count
    <3>2. step' = 2 /\ ~InCall'
      BY <1>2, <3>1, AnswerIs
    <3>3. ~Sorting'
      BY <3>2 DEF Sorting
    <3> QED
      BY <1>1, <2>3, <2>4, <3>3, OrderNext
  <2>5. CASE run.ranked + 1 # N
    <3>1. /\ run' = [run EXCEPT !.pc = "rank", !.count = count, !.resume = 0,
                                !.ranked = run.ranked + 1,
                                !.cursor = bids[run.ranked + 2]]
          /\ step' = step
      BY <1>5, <1>2, <2>5 DEF EndPass
    <3> HIDE DEF count
    <3>2. /\ run'.pc = "rank" /\ run'.resume = 0 /\ run'.ranked = run.ranked + 1
          /\ run'.cursor = bids[run.ranked + 2]
      BY <3>1 DEF EngineInv, EngineTypeOK, RunType
    <3>3. InCall'
      BY <3>2 DEF InCall
    <3> QED
      BY <1>1, <1>2, <2>3, <2>5, <3>1, <3>2, <3>3, StillRanking
  <2> QED
    BY <2>4, <2>5
<1> QED
  BY <1>2, <1>4, <1>5

LEMMA EndRankingOrder ==
  ASSUME EngineInv, EndRanking PROVE OrderInv'
<1> DEFINE code == IF run.count = run.iter THEN S_NOT_FINISHED ELSE E_NOT_ENOUGH_GAS
<1>1. /\ InCall /\ run.pc = "rank" /\ resumeIdxRB' = run.resume
      /\ rankedBidCount' = run.ranked /\ cursorRB' = run.cursor
      /\ rankedBids' = rankedBids /\ UNCHANGED <<rule, bids>>
      /\ Answer(code, run.count)
  BY DEF EndRanking, InCall, bookVars
<1>2. step = 1
  BY <1>1, RankingNumbers
<1>3. code # S_FINISHED
  BY DEF S_FINISHED, S_NOT_FINISHED, E_NOT_ENOUGH_GAS
<1> HIDE DEF code
<1>4. ~InCall' /\ step' = 1
  BY <1>1, <1>2, <1>3, AnswerIs
<1>5. /\ SortedCount' = run.ranked /\ Cursor' = run.cursor
      /\ CursorRank' = run.resume
  BY <1>1, <1>4 DEF SortedCount, Cursor, CursorRank, InCall
<1>6. Resumable(rankedBids, run.ranked, run.cursor, run.resume)
  BY <1>1, InRanking
<1> QED
  BY <1>1, <1>4, <1>5, <1>6, OrderNext

LEMMA OrderPreserved ==
  ASSUME EngineInv, EngineNext PROVE OrderInv'
<1>1. step \in 0..4
  BY DEF EngineInv, EngineTypeOK
<1>2. CASE RefuseCall
  <2>1. /\ Answer(E_NOT_ENOUGH_GAS, 0) /\ ~InCall /\ UNCHANGED rankVars
        /\ UNCHANGED <<rule, bids>>
    BY <1>2 DEF RefuseCall, InCall, bookVars
  <2>2. E_NOT_ENOUGH_GAS # S_FINISHED
    BY DEF E_NOT_ENOUGH_GAS, S_FINISHED
  <2>3. ~InCall' /\ step' = step
    BY <2>1, <2>2, AnswerIs
  <2> QED
    BY <1>1, <2>1, <2>3, OtherStepsKeepOrder
<1>3. ASSUME NEW iter, BeginValidation(iter) \/ BeginAward(iter) \/ BeginInversion(iter)
      PROVE  OrderInv'
  <2>1. ~InCall /\ UNCHANGED rankVars /\ step' = step /\ UNCHANGED <<rule, bids>>
    BY <1>3 DEF BeginValidation, BeginAward, BeginInversion, Called, InCall, bookVars
  <2>2. ~InCall'
    BY <1>3 DEF BeginValidation, BeginAward, BeginInversion, NoRun, InCall
  <2> QED
    BY <1>1, <2>1, <2>2, OtherStepsKeepOrder
<1>4. ASSUME NEW iter, BeginRanking(iter) PROVE OrderInv'
  BY <1>4, BeginRankingOrder
<1>5. ASSUME NEW short \in BOOLEAN, EndValidation(short) \/ EndInversion(short)
      PROVE  OrderInv'
  <2>1. /\ ~InCall /\ UNCHANGED rankVars /\ step \in {0, 3} /\ UNCHANGED <<rule, bids>>
        /\ Answer(CodeFor(run.count, short), run.count)
    BY <1>5, ValidationNumbers, SearchNumbers
       DEF EndValidation, EndInversion, InCall, bookVars
  <2>2. ~InCall' /\ (step' = step + 1 \/ step' = step)
    BY <2>1, AnswerIs
  <2> QED
    BY <1>1, <2>1, <2>2, OtherStepsKeepOrder
<1>6. CASE AwardRank \/ LookUp
  <2>1. ~InCall /\ UNCHANGED rankVars /\ step' = step /\ UNCHANGED <<rule, bids>>
    BY <1>6 DEF AwardRank, LookUp, InCall, bookVars
  <2>2. run'.pc = run.pc
    BY <1>6 DEF AwardRank, LookUp, EngineInv, EngineTypeOK, RunType
  <2> QED
    BY <1>1, <2>1, <2>2, OtherStepsKeepOrder DEF InCall
<1>7. CASE EndAward
  <2>1. /\ ~InCall /\ UNCHANGED rankVars /\ step = 2 /\ UNCHANGED <<rule, bids>>
        /\ Answer(CodeFor(run.count, run.count < run.iter), run.count)
    BY <1>7, AwardNumbers DEF EndAward, InCall, bookVars
  <2>2. ~InCall' /\ (step' = step + 1 \/ step' = step)
    BY <2>1, AnswerIs
  <2> QED
    BY <1>1, <2>1, <2>2, OtherStepsKeepOrder
<1>8. CASE ValidateBid \/ BeginPass \/ Compare \/ EndPass \/ EndRanking
  BY <1>8, ValidateBidOrder, BeginPassOrder, CompareOrder, EndPassOrder,
     EndRankingOrder
<1> QED
  BY <1>2, <1>3, <1>4, <1>5, <1>6, <1>7, <1>8
     DEF EngineNext, BeginCall, ContinueCall

-----------------------------------------------------------------------------
(* The position of the search, the flags and the book *)

LEMMA OtherStepsKeepSearch ==
  ASSUME EngineInv, UNCHANGED <<idxWQ, resumeIdxWQ, quantityWQ>>,
         run.pc # "invert", run'.pc # "invert", step \in 0..4, N \in Nat,
         \/ step' = step /\ (step = 3 => run.pc = "idle" /\ progress' = progress)
         \/ step' = step + 1 /\ progress' = 0 /\ step # 3
  PROVE  SearchInv'
<1>1. /\ step < 3 => idxWQ' = 0 /\ resumeIdxWQ' = 0 /\ quantityWQ' = 0
      /\ step = 3 /\ run.pc = "idle" => progress = idxWQ' * N + resumeIdxWQ'
  BY DEF EngineInv, SearchInv
<1>2. step' < 3 => idxWQ' = 0 /\ resumeIdxWQ' = 0 /\ quantityWQ' = 0
  BY <1>1
<1>3. step' = 3 => progress' = idxWQ' * N + resumeIdxWQ'
  <2>1. CASE step' = step
    BY <1>1, <2>1
  <2>2. CASE step' = step + 1 /\ progress' = 0 /\ step # 3
    <3>1. step' = 3 => idxWQ' = 0 /\ resumeIdxWQ' = 0
      BY <1>1, <2>2
    <3>2. 0 * N + 0 = 0
      OBVIOUS
    <3> QED
      BY <2>2, <3>1, <3>2
  <2> QED
    BY <2>1, <2>2
<1> QED
  BY <1>2, <1>3 DEF SearchInv

LEMMA BeginInversionSearch ==
  ASSUME EngineInv, NEW iter, BeginInversion(iter) PROVE SearchInv'
<1>1. /\ run' = [NoRun EXCEPT !.pc = "invert", !.iter = iter, !.idx = idxWQ,
                              !.resume = resumeIdxWQ, !.quantity = quantityWQ]
      /\ step = 3 /\ step' = step /\ progress' = progress /\ run.pc = "idle"
  BY DEF BeginInversion, Called
<1>2. /\ run'.count = 0 /\ run'.pc = "invert" /\ run'.idx = idxWQ
      /\ run'.resume = resumeIdxWQ
  BY <1>1 DEF NoRun
<1>3. /\ progress = idxWQ * N + resumeIdxWQ /\ resumeIdxWQ < N /\ progress + 0 = progress
  BY <1>1, NAssumption DEF EngineInv, EngineTypeOK, SearchInv, Ranks
<1> QED
  BY <1>1, <1>2, <1>3 DEF SearchInv

LEMMA LookUpSearch ==
  ASSUME EngineInv, LookUp PROVE SearchInv'
<1> DEFINE endOfRow == run.resume + 1 = N
<1>1. /\ run.pc = "invert" /\ step' = step /\ progress' = progress
      /\ run'.count = run.count + 1 /\ run'.pc = "invert"
      /\ run'.idx = IF endOfRow THEN run.idx + 1 ELSE run.idx
      /\ run'.resume = IF endOfRow THEN 0 ELSE run.resume + 1
  BY DEF LookUp, EngineInv, EngineTypeOK, RunType
<1>2. /\ step = 3 /\ N \in Nat \ {0} /\ progress \in Nat /\ run.count \in Nat
      /\ run.resume \in 0..(N - 1) /\ run.idx \in Nat
      /\ progress + run.count = run.idx * N + run.resume
  BY <1>1, SearchNumbers
<1>3. (run.idx + 1) * N = run.idx * N + N /\ run.idx * N \in Nat
  BY <1>2
<1> DEFINE rows == run.idx * N
           more == (run.idx + 1) * N
<1>4. /\ rows \in Nat /\ more = rows + N /\ progress + run.count = rows + run.resume
      /\ run'.idx * N = IF endOfRow THEN more ELSE rows
  BY <1>1, <1>2, <1>3
<1> HIDE DEF rows, more
<1>5. /\ progress + (run.count + 1) = (IF endOfRow THEN more ELSE rows) + run'.resume
      /\ run'.resume < N
  BY <1>1, <1>2, <1>4
<1> QED
  BY <1>1, <1>2, <1>4, <1>5 DEF SearchInv

LEMMA EndInversionSearch ==
  ASSUME EngineInv, NEW short \in BOOLEAN, EndInversion(short) PROVE SearchInv'
<1> DEFINE code == CodeFor(run.count, short)
<1>1. /\ run.pc = "invert" /\ Answer(code, run.count) /\ idxWQ' = run.idx
      /\ code # S_FINISHED => resumeIdxWQ' = run.resume
  BY DEF EndInversion
<1>2. step = 3 /\ progress + run.count = run.idx * N + run.resume
  BY <1>1, SearchNumbers
<1> HIDE DEF code
<1>3. /\ run'.pc = "idle"
      /\ code = S_FINISHED => step' = 4
      /\ code # S_FINISHED => step' = 3 /\ progress' = progress + run.count
  BY <1>1, <1>2, AnswerIs
<1> QED
  BY <1>1, <1>2, <1>3 DEF SearchInv

LEMMA SearchPreserved ==
  ASSUME EngineInv, EngineNext PROVE SearchInv'
<1>1. step \in 0..4 /\ N \in Nat
  BY NAssumption DEF EngineInv, EngineTypeOK
<1>2. CASE RefuseCall
  <2>1. /\ Answer(E_NOT_ENOUGH_GAS, 0) /\ run.pc = "idle" /\ progress \in Nat
        /\ UNCHANGED <<idxWQ, resumeIdxWQ, quantityWQ>>
    BY <1>2 DEF RefuseCall, invertVars, EngineInv, EngineTypeOK
  <2>2. E_NOT_ENOUGH_GAS # S_FINISHED
    BY DEF E_NOT_ENOUGH_GAS, S_FINISHED
  <2>3. run'.pc = "idle" /\ step' = step /\ progress' = progress
    BY <2>1, <2>2, AnswerIs
  <2> QED
    BY <1>1, <2>1, <2>3, OtherStepsKeepSearch
<1>3. ASSUME NEW iter, BeginValidation(iter) \/ BeginAward(iter)
      PROVE  SearchInv'
  <2>1. /\ step # 3 /\ run.pc = "idle" /\ step' = step
        /\ UNCHANGED <<idxWQ, resumeIdxWQ, quantityWQ>>
    BY <1>3 DEF BeginValidation, BeginAward, Called, invertVars
  <2>2. run'.pc # "invert"
    BY <1>3 DEF BeginValidation, BeginAward, NoRun
  <2> QED
    BY <1>1, <2>1, <2>2, OtherStepsKeepSearch
<1>4. ASSUME NEW iter, BeginInversion(iter) PROVE SearchInv'
  BY <1>4, BeginInversionSearch
<1>5. ASSUME NEW short \in BOOLEAN, EndInversion(short) PROVE SearchInv'
  BY <1>5, EndInversionSearch
<1>6. CASE LookUp
  BY <1>6, LookUpSearch
<1>7. ASSUME NEW iter, BeginRanking(iter) PROVE SearchInv'
  <2>1. /\ step = 1 /\ run.pc = "idle" /\ UNCHANGED <<idxWQ, resumeIdxWQ, quantityWQ>>
        /\ \/ step' = step /\ run'.pc = "rank"
           \/ Answer(S_FINISHED, 1)
    BY <1>7 DEF BeginRanking, Called, invertVars, NoRun
  <2>2. /\ run'.pc # "invert"
        /\ step' = step \/ (step' = step + 1 /\ progress' = 0)
    BY <2>1, AnswerIs
  <2> QED
    BY <1>1, <2>1, <2>2, OtherStepsKeepSearch
<1>8. CASE BeginPass \/ Compare \/ EndPass \/ EndRanking
  <2>1. InCall /\ UNCHANGED <<idxWQ, resumeIdxWQ, quantityWQ>>
    BY <1>8 DEF BeginPass, Compare, EndPass, EndRanking, InCall, invertVars
  <2>2. step = 1 /\ run.pc # "invert"
    BY <2>1, RankingNumbers DEF InCall
  <2>3. \/ step' = step /\ run'.pc # "invert"
        \/ \E code, count : Answer(code, count)
    BY <1>8, <2>2
       DEF BeginPass, Compare, EndPass, EndRanking, EngineInv, EngineTypeOK, RunType
  <2>4. /\ run'.pc # "invert"
        /\ step' = step \/ (step' = step + 1 /\ progress' = 0)
    BY <2>3, AnswerIs
  <2> QED
    BY <1>1, <2>1, <2>2, <2>4, OtherStepsKeepSearch
<1>9. CASE ValidateBid \/ AwardRank
  <2>1. /\ step' = step /\ UNCHANGED <<idxWQ, resumeIdxWQ, quantityWQ>>
        /\ run.pc \in {"validate", "award"} /\ run'.pc = run.pc
    BY <1>9 DEF ValidateBid, AwardRank, invertVars, EngineInv, EngineTypeOK, RunType
  <2>2. step # 3
    BY <2>1, ValidationNumbers, AwardNumbers
  <2> QED
    BY <1>1, <2>1, <2>2, OtherStepsKeepSearch
<1>10. CASE EndAward \/ \E short \in BOOLEAN : EndValidation(short)
  <2>1. /\ UNCHANGED <<idxWQ, resumeIdxWQ, quantityWQ>>
        /\ run.pc \in {"validate", "award"} /\ \E code, count : Answer(code, count)
    BY <1>10 DEF EndValidation, EndAward, invertVars
  <2>2. step # 3
    BY <2>1, ValidationNumbers, AwardNumbers
  <2>3. /\ run'.pc # "invert"
        /\ step' = step \/ (step' = step + 1 /\ progress' = 0)
    BY <2>1, AnswerIs
  <2> QED
    BY <1>1, <2>1, <2>2, <2>3, OtherStepsKeepSearch
<1> QED
  BY <1>2, <1>3, <1>4, <1>5, <1>6, <1>7, <1>8, <1>9, <1>10
     DEF EngineNext, BeginCall, ContinueCall

LEMMA ReadyPreserved ==
  ASSUME EngineInv, EngineNext PROVE ReadyInv'
<1>1. /\ step \in 0..4 /\ wonQuantitiesByRankReady = (step > 2)
      /\ wonQuantitiesByIdReady = (step > 3)
  BY DEF EngineInv, EngineTypeOK, ReadyInv
<1>2. CASE EndAward
  <2> DEFINE code == CodeFor(run.count, run.count < run.iter)
  <2>1. /\ run.pc = "award" /\ Answer(code, run.count)
        /\ wonQuantitiesByRankReady' = (wonQuantitiesByRankReady \/ code = S_FINISHED)
        /\ wonQuantitiesByIdReady' = wonQuantitiesByIdReady
    BY <1>2 DEF EndAward, invertVars
  <2>2. step = 2
    BY <2>1, AwardNumbers
  <2> HIDE DEF code
  <2>3. CASE code = S_FINISHED
    <3>1. step' = 3
      BY <2>1, <2>2, <2>3, AnswerIs
    <3>2. (step > 2) = FALSE /\ (step' > 2) = TRUE /\ (step > 3) = FALSE /\ (step' > 3) = FALSE
      BY <2>2, <3>1
    <3>3. wonQuantitiesByRankReady' = TRUE /\ wonQuantitiesByIdReady' = FALSE
      BY <1>1, <2>1, <2>3, <3>2, Zenon
    <3> QED
      BY <3>2, <3>3, Zenon DEF ReadyInv
  <2>4. CASE code # S_FINISHED
    <3>1. step' = 2
      BY <2>1, <2>2, <2>4, AnswerIs
    <3>2. (step > 2) = FALSE /\ (step' > 2) = FALSE /\ (step > 3) = FALSE /\ (step' > 3) = FALSE
      BY <2>2, <3>1
    <3>3. wonQuantitiesByRankReady' = FALSE /\ wonQuantitiesByIdReady' = FALSE
      BY <1>1, <2>1, <2>4, <3>2, Zenon
    <3> QED
      BY <3>2, <3>3, Zenon DEF ReadyInv
  <2> QED
    BY <2>3, <2>4
<1>3. ASSUME NEW short \in BOOLEAN, EndInversion(short) PROVE ReadyInv'
  <2> DEFINE code == CodeFor(run.count, short)
  <2>1. /\ run.pc = "invert" /\ Answer(code, run.count)
        /\ code = S_FINISHED => wonQuantitiesByIdReady' = TRUE
        /\ code # S_FINISHED => wonQuantitiesByIdReady' = wonQuantitiesByIdReady
        /\ wonQuantitiesByRankReady' = wonQuantitiesByRankReady
    BY <1>3 DEF EndInversion, awardVars
  <2>2. step = 3
    BY <2>1, SearchNumbers
  <2> HIDE DEF code
  <2>3. CASE code = S_FINISHED
    <3>1. step' = 4
      BY <2>1, <2>2, <2>3, AnswerIs
    <3>2. (step > 2) = TRUE /\ (step' > 2) = TRUE /\ (step > 3) = FALSE /\ (step' > 3) = TRUE
      BY <2>2, <3>1
    <3>3. wonQuantitiesByRankReady' = TRUE /\ wonQuantitiesByIdReady' = TRUE
      BY <1>1, <2>1, <2>3, <3>2, Zenon
    <3> QED
      BY <3>2, <3>3, Zenon DEF ReadyInv
  <2>4. CASE code # S_FINISHED
    <3>1. step' = 3
      BY <2>1, <2>2, <2>4, AnswerIs
    <3>2. (step > 2) = TRUE /\ (step' > 2) = TRUE /\ (step > 3) = FALSE /\ (step' > 3) = FALSE
      BY <2>2, <3>1
    <3>3. wonQuantitiesByRankReady' = TRUE /\ wonQuantitiesByIdReady' = FALSE
      BY <1>1, <2>1, <2>4, <3>2, Zenon
    <3> QED
      BY <3>2, <3>3, Zenon DEF ReadyInv
  <2> QED
    BY <2>3, <2>4
<1>4. ASSUME UNCHANGED <<wonQuantitiesByRankReady, wonQuantitiesByIdReady>>,
             step' = step \/ (step \in {0, 1} /\ step' = step + 1)
      PROVE  ReadyInv'
  BY <1>1, <1>4 DEF ReadyInv
<1>5. CASE RefuseCall
  <2>1. E_NOT_ENOUGH_GAS # S_FINISHED
    BY DEF E_NOT_ENOUGH_GAS, S_FINISHED
  <2>2. step' = step
    BY <1>5, <2>1, AnswerIs DEF RefuseCall
  <2> QED
    BY <1>4, <1>5, <2>2 DEF RefuseCall, awardVars, invertVars
<1>6. ASSUME NEW iter,
             \/ BeginValidation(iter) \/ BeginAward(iter) \/ BeginInversion(iter)
      PROVE  ReadyInv'
  BY <1>4, <1>6 DEF BeginValidation, BeginAward, BeginInversion, awardVars, invertVars
<1>7. ASSUME NEW iter, BeginRanking(iter) PROVE ReadyInv'
  <2>1. /\ step = 1 /\ UNCHANGED <<wonQuantitiesByRankReady, wonQuantitiesByIdReady>>
        /\ step' = step \/ Answer(S_FINISHED, 1)
    BY <1>7 DEF BeginRanking, Called, awardVars, invertVars
  <2>2. step' = step \/ step' = step + 1
    BY <2>1, AnswerIs
  <2> QED
    BY <1>4, <2>1, <2>2
<1>8. CASE BeginPass \/ Compare \/ EndPass \/ EndRanking
  <2>1. InCall /\ UNCHANGED <<wonQuantitiesByRankReady, wonQuantitiesByIdReady>>
    BY <1>8 DEF BeginPass, Compare, EndPass, EndRanking, InCall, awardVars, invertVars
  <2>2. step = 1
    BY <2>1, RankingNumbers
  <2>3. step' = step \/ \E code, count : Answer(code, count)
    BY <1>8 DEF BeginPass, Compare, EndPass, EndRanking
  <2>4. step' = step \/ step' = step + 1
    BY <2>3, AnswerIs
  <2> QED
    BY <1>4, <2>1, <2>2, <2>4
<1>9. CASE ValidateBid \/ AwardRank \/ LookUp
  BY <1>4, <1>9 DEF ValidateBid, AwardRank, LookUp, awardVars, invertVars
<1>10. ASSUME NEW short \in BOOLEAN, EndValidation(short) PROVE ReadyInv'
  <2>1. /\ UNCHANGED <<wonQuantitiesByRankReady, wonQuantitiesByIdReady>>
        /\ step = 0 /\ \E code, count : Answer(code, count)
    BY <1>10, ValidationNumbers DEF EndValidation, awardVars, invertVars
  <2>2. step' = step \/ step' = step + 1
    BY <2>1, AnswerIs
  <2> QED
    BY <1>4, <2>1, <2>2
<1> QED
  BY <1>2, <1>3, <1>5, <1>6, <1>7, <1>8, <1>9, <1>10
     DEF EngineNext, BeginCall, ContinueCall

LEMMA ValidateBidBook ==
  ASSUME EngineInv, ValidateBid PROVE BookInv'
<1> DEFINE i == progress + run.count + 1
           refused == [bids[i] EXCEPT !.price = 0, !.quantity = 0]
           covers == Wrap(bids[i].price * bids[i].quantity) <= balance[i]
<1>1. /\ bids' = [bids EXCEPT ![i] = IF covers THEN bids[i] ELSE refused]
      /\ balance' = balance /\ step' = step /\ progress' = progress
      /\ run.pc = "validate" /\ run.count < run.iter
      /\ run'.count = run.count + 1 /\ run'.pc = "validate"
  BY DEF ValidateBid, EngineInv, EngineTypeOK, RunType
<1>2. /\ step = 0 /\ progress \in Nat /\ run.count \in Nat /\ run.iter \in Nat
      /\ progress + run.iter <= N /\ N \in Nat
  BY <1>1, ValidationNumbers
<1>3. i \in Indices
  BY <1>1, <1>2 DEF Indices
<1>4. /\ bids[i] \in Bid /\ balance[i] \in Nat /\ bids[i].price \in Nat
      /\ bids[i].quantity \in Nat /\ UInt256Max \in Nat /\ TotalQuantity \in Nat
      /\ bids \in [Indices -> Bid]
  BY <1>3, QuantityAssumption DEF EngineInv, EngineTypeOK, Bid, Amounts
<1>5. /\ bids[i].price * bids[i].quantity <= UInt256Max
      /\ bids[i].quantity <= TotalQuantity
      /\ bids[i].price = 0 <=> bids[i].quantity = 0
  BY <1>3 DEF EngineInv, BookInv
<1>6. covers = (bids[i].price * bids[i].quantity <= balance[i])
  <2>1. bids[i].price * bids[i].quantity \in Nat
    BY <1>4, ProductNat
  <2>2. Wrap(bids[i].price * bids[i].quantity) = bids[i].price * bids[i].quantity
    BY <2>1, <1>4, <1>5, AmountFacts
  <2> QED
    BY <2>2
<1>7. /\ refused.price = 0 /\ refused.quantity = 0 /\ refused.id = bids[i].id
      /\ refused.rand = bids[i].rand
  BY <1>4, RefusedBid
<1>8. /\ bids'[i] = IF covers THEN bids[i] ELSE refused
      /\ \A j \in Indices : j # i => bids'[j] = bids[j]
  BY <1>1, <1>3, <1>4
<1>9. ValidatedCount = progress + run.count /\ ValidatedCount' = i
  BY <1>1, <1>2 DEF ValidatedCount, Done
<1> HIDE DEF refused, covers
<1>10. /\ bids'[i].price * bids'[i].quantity <= UInt256Max
       /\ bids'[i].price * bids'[i].quantity <= balance[i]
       /\ bids'[i].quantity <= TotalQuantity
       /\ bids'[i].price = 0 <=> bids'[i].quantity = 0
       /\ bids'[i].id = bids[i].id /\ bids'[i].rand = bids[i].rand
  <2>1. CASE covers
    <3>1. bids'[i] = bids[i]
      BY <1>8, <2>1
    <3> QED
      BY <3>1, <1>5, <1>6, <2>1
  <2>2. CASE ~covers
    <3>1. bids'[i] = refused /\ 0 * 0 = 0
      BY <1>8, <2>2
    <3> QED
      BY <3>1, <1>4, <1>7
  <2> QED
    BY <2>1, <2>2
<1>11. ASSUME NEW j \in Indices
       PROVE  /\ bids'[j].price * bids'[j].quantity <= UInt256Max
              /\ bids'[j].quantity <= TotalQuantity
              /\ bids'[j].price = 0 <=> bids'[j].quantity = 0
              /\ bids'[j].id = bids[j].id /\ bids'[j].rand = bids[j].rand
  <2>1. CASE j = i
    BY <2>1, <1>10
  <2>2. CASE j # i
    BY <2>2, <1>8 DEF EngineInv, BookInv
  <2> QED
    BY <2>1, <2>2
<1>12. \A j, k \in Indices : j # k => bids'[j].id # bids'[k].id /\ bids'[j].rand # bids'[k].rand
  BY <1>11 DEF EngineInv, BookInv
<1>13. ASSUME NEW j \in 1..i
       PROVE  bids'[j].price * bids'[j].quantity <= balance[j]
  <2>1. CASE j = i
    BY <2>1, <1>10
  <2>2. CASE j # i
    <3>1. j \in 1..(progress + run.count) /\ j \in Indices
      BY <2>2, <1>2, <1>3 DEF Indices
    <3>2. bids'[j] = bids[j]
      BY <2>2, <3>1, <1>8
    <3> QED
      BY <3>1, <3>2, <1>9 DEF EngineInv, BookInv
  <2> QED
    BY <2>1, <2>2
<1> HIDE DEF i
<1> QED
  BY <1>1, <1>9, <1>11, <1>12, <1>13 DEF BookInv, Indices

LEMMA BookPreserved ==
  ASSUME EngineInv, EngineNext PROVE BookInv'
<1>1. /\ step \in 0..4 /\ progress \in Nat /\ N \in Nat
  BY NAssumption DEF EngineInv, EngineTypeOK
<1>2. ASSUME UNCHANGED <<bids, balance>>, ValidatedCount' = ValidatedCount
      PROVE  BookInv'
  BY <1>2 DEF EngineInv, BookInv, Indices
<1>3. ASSUME UNCHANGED <<bids, balance>>, step # 0, step' # 0
      PROVE  BookInv'
  <2>1. ValidatedCount' = ValidatedCount
    BY <1>3 DEF ValidatedCount
  <2> QED
    BY <2>1, <1>2, <1>3
<1>4. CASE RefuseCall
  <2>1. E_NOT_ENOUGH_GAS # S_FINISHED
    BY DEF E_NOT_ENOUGH_GAS, S_FINISHED
  <2>2. /\ step' = step /\ progress' = progress /\ run.pc = "idle" /\ run'.pc = "idle"
        /\ UNCHANGED <<bids, balance>>
    BY <1>1, <1>4, <2>1, AnswerIs DEF RefuseCall, bookVars
  <2>3. ValidatedCount' = ValidatedCount
    BY <2>2 DEF ValidatedCount, Done
  <2> QED
    BY <1>2, <2>2, <2>3
<1>5. ASSUME NEW iter, BeginValidation(iter) PROVE BookInv'
  <2>1. /\ step' = step /\ progress' = progress /\ run.pc = "idle"
        /\ run'.pc = "validate" /\ run'.count = 0 /\ UNCHANGED <<bids, balance>>
    BY <1>5 DEF BeginValidation, Called, bookVars, NoRun
  <2>2. ValidatedCount' = ValidatedCount
    BY <1>1, <2>1 DEF ValidatedCount, Done
  <2> QED
    BY <1>2, <2>1, <2>2
<1>6. ASSUME NEW short \in BOOLEAN, EndValidation(short) PROVE BookInv'
  <2>1. /\ run.pc = "validate" /\ UNCHANGED <<bids, balance>>
        /\ Answer(CodeFor(run.count, short), run.count)
    BY <1>6 DEF EndValidation, bookVars
  <2>2. step = 0 /\ StepSize(0) = N
    BY <2>1, ValidationNumbers, StepSizes
  <2>3. ValidatedCount = progress + run.count
    BY <2>1, <2>2 DEF ValidatedCount, Done
  <2>4. CASE progress + run.count = N
    <3>1. CodeFor(run.count, short) = S_FINISHED
      BY <2>2, <2>4 DEF CodeFor
    <3>2. step' = 1
      BY <2>1, <2>2, <3>1, AnswerIs
    <3>3. ValidatedCount' = ValidatedCount
      BY <2>3, <2>4, <3>2 DEF ValidatedCount
    <3> QED
      BY <1>2, <2>1, <3>3
  <2>5. CASE progress + run.count # N
    <3>1. CodeFor(run.count, short) # S_FINISHED
      BY <2>2, <2>5, CodeForFits
    <3>2. step' = 0 /\ progress' = progress + run.count /\ run'.pc = "idle"
      BY <2>1, <2>2, <3>1, AnswerIs
    <3>3. ValidatedCount' = ValidatedCount
      BY <2>3, <3>2 DEF ValidatedCount, Done
    <3> QED
      BY <1>2, <2>1, <3>3
  <2> QED
    BY <2>4, <2>5
<1>7. CASE ValidateBid
  BY <1>7, ValidateBidBook
<1>8. ASSUME NEW iter, BeginRanking(iter) \/ BeginAward(iter) \/ BeginInversion(iter)
      PROVE  BookInv'
  <2>1. /\ step \in 1..3 /\ UNCHANGED <<bids, balance>>
        /\ step' = step \/ \E code, count : Answer(code, count)
    BY <1>8 DEF BeginRanking, BeginAward, BeginInversion, Called, bookVars
  <2>2. step' = step \/ step' = step + 1
    BY <2>1, AnswerIs
  <2> QED
    BY <1>3, <2>1, <2>2
<1>9. CASE \/ BeginPass \/ Compare \/ EndPass \/ EndRanking \/ AwardRank \/ EndAward
           \/ LookUp \/ \E short \in BOOLEAN : EndInversion(short)
  <2>1. /\ InCall \/ run.pc \in {"award", "invert"}
        /\ UNCHANGED <<bids, balance>>
        /\ step' = step \/ \E code, count : Answer(code, count)
    BY <1>9 DEF BeginPass, Compare, EndPass, EndRanking, AwardRank, EndAward, LookUp,
                EndInversion, bookVars, InCall
  <2>2. step \in 1..3
    BY <2>1, RankingNumbers, AwardNumbers, SearchNumbers
  <2>3. step' = step \/ step' = step + 1
    BY <2>1, AnswerIs
  <2> QED
    BY <1>3, <2>1, <2>2, <2>3
<1> QED
  BY <1>4, <1>5, <1>6, <1>7, <1>8, <1>9 DEF EngineNext, BeginCall, ContinueCall

-----------------------------------------------------------------------------
(* The invariant *)

LEMMA TypesPreserved ==
  ASSUME EngineInv, EngineNext PROVE EngineTypeOK' /\ CallInv'
<1>1. TypesAndCalls'
  BY RefuseCallTypes, BeginValidationTypes, ValidateBidTypes, EndValidationTypes,
     BeginRankingTypes, BeginPassTypes, CompareTypes, EndPassTypes, EndRankingTypes,
     BeginAwardTypes, AwardRankTypes, EndAwardTypes, BeginInversionTypes, LookUpTypes,
     EndInversionTypes
     DEF EngineNext, BeginCall, ContinueCall
<1> QED
  BY <1>1 DEF TypesAndCalls

LEMMA EngineInitIsSound ==
  ASSUME EngineInit PROVE EngineInv
<1>1. PICK b \in Books : bids = b.bids /\ balance = b.balance
  BY DEF EngineInit
<1>2. /\ bids \in [Indices -> Bid] /\ balance \in [Indices -> Amounts]
      /\ \A i \in Indices :
           /\ bids[i].price * bids[i].quantity <= UInt256Max
           /\ bids[i].quantity <= TotalQuantity
           /\ bids[i].price = 0 <=> bids[i].quantity = 0
      /\ \A i, j \in Indices : i # j =>
           bids[i].id # bids[j].id /\ bids[i].rand # bids[j].rand
  BY <1>1, BooksAssumption DEF IsBook
<1>3. /\ N \in Nat \ {0} /\ N * N \in Nat /\ 0 \in Ranks /\ 0 \in Amounts
      /\ StepSize(0) \in Nat \ {0}
  BY NAssumption, AmountFacts, StepSizes DEF Ranks
<1>4. /\ step = 0 /\ progress = 0 /\ run.pc = "idle" /\ run \in RunType /\ ~InCall
      /\ ValidatedCount = 0
  BY NoRunType DEF EngineInit, NoRun, InCall, ValidatedCount, Done
<1>5. EngineTypeOK
  <2>1. /\ rankedBids \in [Ranks -> Bid] /\ cursorRB \in Bid
        /\ rankedWonQuantities \in [Ranks -> Amounts]
        /\ wonQuantities \in [Ranks -> Amounts]
    BY <1>3, NoRunType DEF EngineInit
  <2>2. /\ rankedBidCount \in 0..N /\ idxWQ \in 0..N /\ step \in 0..4
        /\ progress \in 0..(N * N)
    BY <1>3 DEF EngineInit
  <2>3. /\ wonQuantitiesByRankReady \in BOOLEAN /\ wonQuantitiesByIdReady \in BOOLEAN
        /\ rule \in Rules
    BY DEF EngineInit
  <2>4. /\ resumeIdxRB \in Ranks /\ resumeIdxWQ \in Ranks /\ quantityWQ \in Amounts
        /\ cumulativeQuantity \in Amounts /\ uniformPrice \in Amounts
    BY <1>3 DEF EngineInit
  <2> QED
    BY <1>2, <1>4, <2>1, <2>2, <2>3, <2>4 DEF EngineTypeOK
<1>6. BookInv
  BY <1>2, <1>4 DEF BookInv
<1>7. CallInv
  BY <1>3, <1>4 DEF CallInv
<1>8. SortInv
  BY <1>4 DEF EngineInit, SortInv
<1>9. OrderInv
  BY <1>4 DEF EngineInit, OrderInv, SortIsResumable, Sorting
<1>10. SearchInv /\ ReadyInv
  <2>1. SearchInv
    BY <1>4 DEF EngineInit, SearchInv
  <2>2. (step > 2) = FALSE /\ (step > 3) = FALSE
    BY <1>4
  <2>3. ReadyInv
    BY <2>2, Zenon DEF EngineInit, ReadyInv
  <2> QED
    BY <2>1, <2>3
<1> QED
  BY <1>5, <1>6, <1>7, <1>8, <1>9, <1>10 DEF EngineInv

LEMMA EngineStutters ==
  ASSUME EngineInv, UNCHANGED engineVars PROVE EngineInv'
<1> USE DEF engineVars, bookVars, rankVars, awardVars, invertVars
<1>1. EngineTypeOK' /\ ReadyInv'
  BY DEF EngineInv, EngineTypeOK, ReadyInv
<1>2. BookInv'
  BY DEF EngineInv, BookInv, ValidatedCount, Done
<1>3. CallInv'
  BY DEF EngineInv, CallInv, StepSize
<1>4. SortInv' /\ SearchInv'
  BY DEF EngineInv, SortInv, SearchInv, InCall
<1>5. /\ Sorting' = Sorting /\ SortedCount' = SortedCount /\ Cursor' = Cursor
      /\ CursorRank' = CursorRank
  BY DEF Sorting, SortedCount, Cursor, CursorRank, InCall
<1>6. OrderInv'
  <2>1. /\ Sorting => Resumable(rankedBids, SortedCount, Cursor, CursorRank)
        /\ step > 1 => Ranked(rankedBids)
    BY OrderIs DEF EngineInv
  <2>2. UNCHANGED <<rule, bids, rankedBids, step>>
    OBVIOUS
  <2> QED
    BY <1>5, <2>1, <2>2, OrderNext
<1> QED
  BY <1>1, <1>2, <1>3, <1>4, <1>6 DEF EngineInv

LEMMA EnginePreserved ==
  ASSUME EngineInv, EngineNext PROVE EngineInv'
BY TypesPreserved, BookPreserved, SortPreserved, OrderPreserved, SearchPreserved,
   ReadyPreserved DEF EngineInv

\* The inductive invariant of the computation.
THEOREM EngineInvariant == EngineSpec => []EngineInv
<1>1. EngineInit => EngineInv
  BY EngineInitIsSound
<1>2. EngineInv /\ [EngineNext]_engineVars => EngineInv'
  BY EnginePreserved, EngineStutters
<1> QED
  BY <1>1, <1>2, PTL DEF EngineSpec

-----------------------------------------------------------------------------
(* Theorems *)

\* The storage of the engine stays in its types and its indices within the arrays,
\* for any number of bids, through any sequence of calls.
THEOREM EngineTypesCorrect == EngineSpec => []EngineTypeOK
BY EngineInvariant, PTL DEF EngineInv

\* However the comparisons are cut into calls, the insertion sort goes on where it
\* stopped, with no bid lost or ranked twice.
THEOREM SortingResumes == EngineSpec => []SortIsResumable
BY EngineInvariant, PTL DEF EngineInv, OrderInv

\* No debug error of the four steps can be met.
THEOREM EngineErrorsUnreachable == EngineSpec => []ErrorsUnreachable
<1>1. EngineInv => SortingErrorsUnreachable
  <2> SUFFICES ASSUME EngineInv PROVE SortingErrorsUnreachable
    OBVIOUS
  <2>1. ASSUME run.pc = "compare", run.idx = run.toIdx
        PROVE  LET count == run.count + run.toIdx - run.resume
               IN  IF run.toIdx = run.ranked
                   THEN run.ranked + 1 = N => progress + count = StepSize(1)
                   ELSE count = run.iter
    <3>1. InCall
      BY <2>1 DEF InCall
    <3>2. /\ run.toIdx \in 0..run.ranked /\ run.ranked \in 1..(N - 1) /\ N \in Nat
      BY <2>1, <3>1, RankingNumbers
    <3>3. run.toIdx = run.ranked \/ run.toIdx < run.ranked
      BY <3>2
    <3> QED
      BY <2>1, <3>2, <3>3, PassNumbers
  <2> QED
    BY <2>1, RankNumbers DEF SortingErrorsUnreachable
<1>2. EngineInv => AwardErrorsUnreachable
  <2> SUFFICES ASSUME EngineInv PROVE AwardErrorsUnreachable
    OBVIOUS
  <2>1. step = 2 => rankedBidCount = N
    BY DEF EngineInv, SortInv
  <2>2. run.pc = "award" => progress + run.count <= N
    BY AwardNumbers
  <2>3. ASSUME step = 3, run.pc = "idle"
        PROVE  idxWQ < N /\ resumeIdxWQ < N /\ progress = idxWQ * N + resumeIdxWQ
    <3>1. /\ progress = idxWQ * N + resumeIdxWQ /\ progress \in Nat /\ N \in Nat \ {0}
          /\ resumeIdxWQ \in 0..(N - 1) /\ idxWQ \in 0..N /\ progress < N * N
      BY <2>3, StepSizes, NAssumption
         DEF EngineInv, EngineTypeOK, SearchInv, CallInv, Ranks
    <3>2. idxWQ # N
      <4>1. SUFFICES ASSUME idxWQ = N PROVE FALSE
        OBVIOUS
      <4>2. progress = N * N + resumeIdxWQ /\ N * N \in Nat
        BY <3>1, <4>1
      <4> QED
        BY <3>1, <4>2
    <3> QED
      BY <3>1, <3>2
  <2>4. ASSUME run.pc = "invert"
        PROVE  (progress + run.count = N * N) = (run.idx = N /\ run.resume = 0)
    <3>1. /\ progress + run.count = run.idx * N + run.resume /\ N \in Nat \ {0}
          /\ progress + run.count = N * N => run.idx = N /\ run.resume = 0
      BY <2>4, SearchNumbers
    <3>2. run.idx = N /\ run.resume = 0 => progress + run.count = N * N
      BY <3>1
    <3> QED
      BY <3>1, <3>2
  <2> QED
    BY <2>1, <2>2, <2>3, <2>4 DEF AwardErrorsUnreachable
<1>3. EngineInv => ErrorsUnreachable
  BY <1>1, <1>2 DEF ErrorsUnreachable
<1> QED
  BY <1>3, EngineInvariant, PTL

\* What a call answers that was in progress.
LEMMA AnswerKept ==
  ASSUME EngineInv, EngineNext, run.pc # "idle", run'.pc = "idle"
  PROVE  /\ run'.count <= run.iter
         /\ progress + run'.count <= StepSize(step)
         /\ (run'.code = S_FINISHED) = (progress + run'.count = StepSize(step))
         /\ run'.code = S_NOT_FINISHED => run'.count = run.iter
<1> DEFINE Kept ==
      run.pc # "idle" /\ run'.pc = "idle" =>
        /\ run'.count <= run.iter
        /\ progress + run'.count <= StepSize(step)
        /\ (run'.code = S_FINISHED) = (progress + run'.count = StepSize(step))
        /\ run'.code = S_NOT_FINISHED => run'.count = run.iter
<1>1. /\ step \in 0..3 /\ progress \in Nat /\ run.count \in Nat /\ run.iter \in Nat
      /\ progress + run.iter <= StepSize(step) /\ run.count <= run.iter
      /\ StepSize(step) \in Nat
  <2>1. /\ step \in 0..3 /\ progress \in Nat /\ run.count \in Nat /\ run.iter \in Nat
        /\ progress + run.iter <= StepSize(step) /\ run.count <= run.iter
    BY NAssumption DEF EngineInv, EngineTypeOK, RunType, CallInv, StepOf
  <2> QED
    BY <2>1, StepSizes
<1>2. ASSUME NEW short \in BOOLEAN, run.count = run.iter \/ short,
             Answer(CodeFor(run.count, short), run.count)
      PROVE  Kept
  <2>1. run'.code = CodeFor(run.count, short) /\ run'.count = run.count
    BY <1>2, AnswerIs
  <2>2. CodeFor(run.count, short) = S_NOT_FINISHED => run.count = run.iter
    BY <1>2 DEF CodeFor, S_FINISHED, S_NOT_FINISHED, E_NOT_ENOUGH_GAS
  <2> QED
    BY <1>1, <2>1, <2>2, CodeForFits
<1>3. ASSUME NEW short \in BOOLEAN, EndValidation(short) \/ EndInversion(short)
      PROVE  Kept
  BY <1>2, <1>3 DEF EndValidation, EndInversion
<1>4. CASE EndAward
  <2> DEFINE short == run.count < run.iter
  <2>1. Answer(CodeFor(run.count, short), run.count)
    BY <1>4 DEF EndAward
  <2>2. short \in BOOLEAN /\ (run.count = run.iter \/ short)
    BY <1>1
  <2> HIDE DEF short, Kept
  <2>3. Kept
    BY <1>2, <2>1, <2>2
  <2> QED
    BY <2>3 DEF Kept
<1>5. CASE EndRanking
  <2>1. /\ run.pc = "rank"
        /\ Answer(IF run.count = run.iter THEN S_NOT_FINISHED ELSE E_NOT_ENOUGH_GAS,
                  run.count)
    BY <1>5 DEF EndRanking
  <2>2. progress + run.count < StepSize(1) /\ step = 1
    BY <2>1, RankNumbers, RankingNumbers DEF InCall
  <2>3. /\ run'.count = run.count
        /\ run'.code = IF run.count = run.iter THEN S_NOT_FINISHED
                       ELSE E_NOT_ENOUGH_GAS
    BY <2>1, AnswerIs
  <2>4. run'.code # S_FINISHED /\ (run'.code = S_NOT_FINISHED => run.count = run.iter)
    BY <2>3 DEF S_FINISHED, S_NOT_FINISHED, E_NOT_ENOUGH_GAS
  <2> QED
    BY <1>1, <2>2, <2>3, <2>4
<1>6. CASE EndPass
  <2> DEFINE count == run.count + run.toIdx - run.resume
  <2>1. run.pc = "compare" /\ run.idx = run.toIdx
    BY <1>6 DEF EndPass
  <2>2. step = 1 /\ run \in RunType
    BY <2>1, RankingNumbers DEF InCall, EngineInv, EngineTypeOK
  <2>3. /\ run.toIdx = run.ranked /\ run.ranked + 1 = N /\ Answer(S_FINISHED, count)
    BY <1>6, <2>2 DEF EndPass, RunType
  <2>4. count \in 1..run.iter /\ progress + count = StepSize(1)
    BY <2>1, <2>3, PassNumbers
  <2>5. run'.count = count /\ run'.code = S_FINISHED
    BY <2>3, AnswerIs
  <2> HIDE DEF count
  <2>6. S_FINISHED # S_NOT_FINISHED
    BY DEF S_FINISHED, S_NOT_FINISHED
  <2> QED
    BY <1>1, <2>2, <2>4, <2>5, <2>6
<1>7. CASE ValidateBid \/ BeginPass \/ Compare \/ AwardRank \/ LookUp
  <2>1. run'.pc # "idle"
    BY <1>7 DEF EngineInv, EngineTypeOK, RunType, ValidateBid, BeginPass, Compare,
                      AwardRank, LookUp
  <2> QED
    BY <2>1
<1>8. ASSUME NEW iter,
             \/ BeginValidation(iter) \/ BeginRanking(iter) \/ BeginAward(iter)
             \/ BeginInversion(iter)
      PROVE  FALSE
  BY <1>8
     DEF BeginValidation, BeginRanking, BeginAward, BeginInversion, Called
<1>9. ~RefuseCall
  BY DEF RefuseCall
<1> QED
  BY <1>3, <1>4, <1>5, <1>6, <1>7, <1>8, <1>9
     DEF EngineNext, BeginCall, ContinueCall

\* A call that answers at once has ranked the only bid there is.
LEMMA AnswerAtOnce ==
  ASSUME EngineInv, NEW iter, BeginCall(iter), run'.pc = "idle"
  PROVE  /\ run'.count = iter /\ run'.code = S_FINISHED
         /\ progress + iter = StepSize(step)
<1>1. /\ BeginRanking(iter) /\ N = 1 /\ Answer(S_FINISHED, 1)
  BY DEF BeginCall, BeginValidation, BeginRanking, BeginAward, BeginInversion, NoRun
<1>2. /\ step = 1 /\ iter \in 1..(StepSize(1) - progress) /\ StepSize(1) = 1
      /\ progress \in Nat
  BY <1>1 DEF BeginRanking, Called, StepSize, EngineInv, EngineTypeOK
<1>3. run'.count = 1 /\ run'.code = S_FINISHED
  BY <1>1, AnswerIs
<1> QED
  BY <1>2, <1>3

\* A call in progress is the one that began.
LEMMA CallGoesOn ==
  ASSUME EngineInv, run'.pc # "idle"
  PROVE  /\ ~RefuseCall
         /\ \A iter : BeginCall(iter) => run'.iter = iter /\ run.pc = "idle"
         /\ ContinueCall => run.pc # "idle" /\ run'.iter = run.iter
<1>1. ~RefuseCall
  BY AnswerIs DEF RefuseCall
<1>2. ASSUME NEW iter, BeginCall(iter) PROVE run'.iter = iter /\ run.pc = "idle"
  BY <1>2, AnswerIs
     DEF BeginCall, BeginValidation, BeginRanking, BeginAward, BeginInversion, Called,
         NoRun
<1>3. ContinueCall => run.pc # "idle" /\ run'.iter = run.iter
  BY AnswerIs
     DEF ContinueCall, EndValidation, EndInversion, ValidateBid, BeginPass, Compare,
         EndPass, EndRanking, AwardRank, EndAward, LookUp, EngineInv, EngineTypeOK,
         RunType
<1> QED
  BY <1>1, <1>2, <1>3

\* Every answer keeps the contract that the iterator relies on.
THEOREM EngineKeepsContract == EngineSpec => AnswersKeepContract
<1> DEFINE Kept ==
      run.pc # "idle" /\ run'.pc = "idle" =>
        /\ run'.count <= run.iter
        /\ progress + run'.count <= StepSize(step)
        /\ (run'.code = S_FINISHED) = (progress + run'.count = StepSize(step))
        /\ run'.code = S_NOT_FINISHED => run'.count = run.iter
<1>1. EngineInv /\ [EngineNext]_engineVars => [Kept]_engineVars
  BY AnswerKept
<1>2. [][Kept]_engineVars => AnswersKeepContract
  BY DEF AnswersKeepContract
<1> HIDE DEF Kept
<1> QED
  BY <1>1, <1>2, EngineInvariant, PTL DEF EngineSpec

LEMMA FinalKept ==
  ASSUME EngineInv, EngineNext
  PROVE  /\ wonQuantitiesByRankReady =>
              UNCHANGED <<rankedBids, rankedWonQuantities, uniformPrice,
                          wonQuantitiesByRankReady>>
         /\ wonQuantitiesByIdReady => UNCHANGED <<wonQuantities, wonQuantitiesByIdReady>>
<1>1. /\ wonQuantitiesByRankReady => step > 2
      /\ wonQuantitiesByIdReady => step > 3 /\ step > 2
      /\ step \in 0..4
  <2>1. /\ wonQuantitiesByRankReady => step > 2
        /\ wonQuantitiesByIdReady => step > 3
    BY Zenon DEF EngineInv, ReadyInv
  <2>2. step \in 0..4
    BY DEF EngineInv, EngineTypeOK
  <2>3. step > 3 => step > 2
    BY <2>2
  <2> QED
    BY <2>1, <2>2, <2>3, Zenon
<1>2. step = 4 => run.pc = "idle"
  BY DEF EngineInv, CallInv, StepOf
<1>3. step = 3 => run.pc \in {"idle", "invert"}
  BY DEF EngineInv, CallInv, StepOf, EngineTypeOK, RunType
<1>4. CASE ~(step > 2)
  BY <1>1, <1>4
<1>5. CASE step > 2
  <2>1. step \in 3..4
    BY <1>1, <1>5
  <2>2. \/ RefuseCall
        \/ \E iter : BeginInversion(iter)
        \/ \E short \in BOOLEAN : EndInversion(short)
        \/ LookUp
    <3>1. run.pc \in {"idle", "invert"}
      BY <1>2, <1>3, <2>1
    <3>2. ASSUME NEW iter,
                 BeginValidation(iter) \/ BeginRanking(iter) \/ BeginAward(iter)
          PROVE  FALSE
      BY <2>1, <3>2 DEF BeginValidation, BeginRanking, BeginAward, Called
    <3>3. ASSUME NEW short, EndValidation(short) PROVE FALSE
      BY <3>1, <3>3 DEF EndValidation
    <3>4. /\ ~ValidateBid /\ ~BeginPass /\ ~Compare /\ ~EndPass /\ ~EndRanking
          /\ ~AwardRank /\ ~EndAward
      BY <3>1
         DEF ValidateBid, BeginPass, Compare, EndPass, EndRanking, AwardRank, EndAward
    <3> QED
      BY <3>2, <3>3, <3>4, Zenon DEF EngineNext, BeginCall, ContinueCall
  <2>3. UNCHANGED <<rankVars, awardVars>>
    BY <2>2 DEF RefuseCall, BeginInversion, EndInversion, LookUp
  <2>4. step = 4 => UNCHANGED <<wonQuantities, wonQuantitiesByIdReady>>
    BY <1>2, <2>2
       DEF RefuseCall, BeginInversion, Called, EndInversion, LookUp
  <2> QED
    BY <1>1, <2>1, <2>3, <2>4 DEF rankVars, awardVars
<1> QED
  BY <1>4, <1>5

\* Once announced, the results are never computed again.
THEOREM ResultsAreFinal == EngineSpec => ReadyResultsAreFinal
<1> DEFINE Final ==
      /\ wonQuantitiesByRankReady =>
           UNCHANGED <<rankedBids, rankedWonQuantities, uniformPrice,
                       wonQuantitiesByRankReady>>
      /\ wonQuantitiesByIdReady => UNCHANGED <<wonQuantities, wonQuantitiesByIdReady>>
<1>1. EngineInv /\ [EngineNext]_engineVars => [Final]_engineVars
  BY FinalKept
<1>2. [][Final]_engineVars => ReadyResultsAreFinal
  BY DEF ReadyResultsAreFinal
<1> HIDE DEF Final
<1> QED
  BY <1>1, <1>2, EngineInvariant, PTL DEF EngineSpec

-----------------------------------------------------------------------------
(* The results *)

LEMMA BookTypes ==
  ASSUME EngineInv
  PROVE  /\ N \in Nat \ {0} /\ rule \in Rules /\ TotalQuantity \in Nat \ {0}
         /\ UInt256Max \in Nat /\ IsFiniteSet(Indices) /\ IsFiniteSet(Ranks)
         /\ \A i \in Indices :
              /\ bids[i] \in Bid /\ bids[i].price \in Amounts
              /\ bids[i].quantity \in Amounts /\ bids[i].price \in Nat
              /\ bids[i].quantity \in Nat /\ Quantities[i] = bids[i].quantity
              /\ balance[i] \in Nat
         /\ \A k \in Ranks : rankedBids[k] \in Bid
<1>1. N \in Nat \ {0} /\ TotalQuantity \in Nat \ {0} /\ UInt256Max \in Nat
  BY NAssumption, QuantityAssumption
<1>2. IsFiniteSet(Indices) /\ IsFiniteSet(Ranks)
  BY <1>1, FS_Interval DEF Indices, Ranks
<1>3. \A i \in Indices : Quantities[i] = bids[i].quantity
  BY DEF Quantities
<1> QED
  BY <1>1, <1>2, <1>3 DEF EngineInv, EngineTypeOK, Bid, Amounts

\* No bid is ranked twice.
LEMMA RanksDiffer ==
  ASSUME EngineInv, step > 1, NEW k \in Ranks, NEW m \in Ranks,
         rankedBids[k] = rankedBids[m]
  PROVE  k = m
<1>1. \A i, j \in Ranks : i < j => Beats(rule, rankedBids[i], rankedBids[j])
  BY DEF EngineInv, OrderInv, Ordered, Ranks
<1>2. k < m \/ m < k \/ k = m
  BY BookTypes DEF Ranks
<1>3. ~(k < m)
  <2> SUFFICES ASSUME k < m PROVE FALSE
    OBVIOUS
  <2>1. Beats(rule, rankedBids[k], rankedBids[k])
    BY <1>1
  <2> QED
    BY <2>1, BookTypes, BeatsIsStrict
<1>4. ~(m < k)
  <2> SUFFICES ASSUME m < k PROVE FALSE
    OBVIOUS
  <2>1. Beats(rule, rankedBids[k], rankedBids[k])
    BY <1>1
  <2> QED
    BY <2>1, BookTypes, BeatsIsStrict
<1> QED
  BY <1>2, <1>3, <1>4

\* Every rank holds a bid, and every bid a rank.
LEMMA RankAndIndex ==
  ASSUME EngineInv, step > 1
  PROVE  /\ \A k \in Ranks : \E i \in Indices : rankedBids[k] = bids[i]
         /\ \A i \in Indices : \E k \in Ranks : rankedBids[k] = bids[i]
<1>1. {rankedBids[k] : k \in Ranks} = {bids[i] : i \in Indices}
  BY DEF EngineInv, OrderInv
<1>2. ASSUME NEW k \in Ranks PROVE \E i \in Indices : rankedBids[k] = bids[i]
  <2>1. rankedBids[k] \in {bids[i] : i \in Indices}
    BY <1>1
  <2> QED
    BY <2>1
<1>3. ASSUME NEW i \in Indices PROVE \E k \in Ranks : rankedBids[k] = bids[i]
  <2>1. bids[i] \in {rankedBids[k] : k \in Ranks}
    BY <1>1
  <2> QED
    BY <2>1
<1> QED
  BY <1>2, <1>3

LEMMA BelowIs ==
  ASSUME EngineInv
  PROVE  /\ Below[0] = {}
         /\ \A k \in 0..N : Below[k] \subseteq Indices /\ IsFiniteSet(Below[k])
         /\ step > 1 => Below[N] = Indices
<1>1. N \in Nat /\ 0 \in 0..N /\ N \in 0..N /\ 0..(0 - 1) = {} /\ 0..(N - 1) = Ranks
      /\ IsFiniteSet(Indices)
  BY BookTypes DEF Ranks
<1>2. Below[0] = {}
  BY <1>1 DEF Below
<1>3. \A k \in 0..N : Below[k] \subseteq Indices
  BY DEF Below
<1>4. step > 1 => Below[N] = Indices
  BY <1>1, RankAndIndex DEF Below
<1> QED
  BY <1>1, <1>2, <1>3, <1>4, FS_Subset

LEMMA CumulatedIs ==
  ASSUME EngineInv
  PROVE  /\ Cumulated[0] = 0
         /\ \A k \in 0..N : Cumulated[k] \in Nat
<1>1. \A k \in 0..N : Cumulated[k] = SumFunctionOnSet(Quantities, Below[k])
  BY DEF Cumulated
<1>2. 0 \in 0..N
  BY BookTypes
<1>3. Cumulated[0] = 0
  BY <1>1, <1>2, BelowIs, SumOfNothing
<1>4. ASSUME NEW k \in 0..N PROVE Cumulated[k] \in Nat
  <2>1. /\ IsFiniteSet(Below[k]) /\ \A i \in Below[k] : Quantities[i] \in Nat
    BY BelowIs, BookTypes
  <2> QED
    BY <2>1, <1>1, SumOfNaturals
<1> QED
  BY <1>3, <1>4

\* The bids below a rank are those that are served before the bid at that rank.
LEMMA BelowIsAhead ==
  ASSUME EngineInv, step > 1, NEW k \in Ranks, NEW i \in Indices,
         rankedBids[k] = bids[i]
  PROVE  Below[k] = {j \in Indices : Beats(rule, bids[j], bids[i])}
<1>1. /\ k \in 0..N /\ k \in Nat /\ N \in Nat
      /\ \A m \in 0..(k - 1) : m \in Ranks /\ m < k
  BY BookTypes DEF Ranks
<1>2. \A m, n \in Ranks : m < n => Beats(rule, rankedBids[m], rankedBids[n])
  BY DEF EngineInv, OrderInv, Ordered, Ranks
<1>3. ASSUME NEW j \in Indices, NEW m \in 0..(k - 1), rankedBids[m] = bids[j]
      PROVE  Beats(rule, bids[j], bids[i])
  BY <1>1, <1>2, <1>3
<1>4. ASSUME NEW j \in Indices, Beats(rule, bids[j], bids[i])
      PROVE  \E m \in 0..(k - 1) : rankedBids[m] = bids[j]
  <2>1. PICK m \in Ranks : rankedBids[m] = bids[j]
    BY RankAndIndex
  <2>2. m # k
    <3> SUFFICES ASSUME m = k PROVE FALSE
      OBVIOUS
    <3>1. Beats(rule, bids[i], bids[i])
      BY <2>1, <1>4
    <3> QED
      BY <3>1, BookTypes, BeatsIsStrict
  <2>3. ~(k < m)
    <3> SUFFICES ASSUME k < m PROVE FALSE
      OBVIOUS
    <3>1. Beats(rule, bids[i], bids[j])
      BY <2>1, <1>2
    <3>2. Beats(rule, bids[i], bids[i])
      BY <3>1, <1>4, BookTypes, BeatsIsTransitive
    <3> QED
      BY <3>2, BookTypes, BeatsIsStrict
  <2>4. m \in 0..(k - 1)
    BY <1>1, <2>2, <2>3 DEF Ranks
  <2> QED
    BY <2>1, <2>4
<1>5. Below[k] = {j \in Indices : \E m \in 0..(k - 1) : rankedBids[m] = bids[j]}
  BY <1>1 DEF Below
<1> QED
  BY <1>3, <1>4, <1>5

\* One rank further.
LEMMA NextBelow ==
  ASSUME EngineInv, step > 1, NEW k \in Ranks, NEW i \in Indices,
         rankedBids[k] = bids[i]
  PROVE  /\ k \in 0..N /\ k + 1 \in 0..N
         /\ i \notin Below[k] /\ Below[k + 1] = Below[k] \cup {i}
         /\ Cumulated[k + 1] = Cumulated[k] + bids[i].quantity
<1>1. /\ k \in 0..N /\ k + 1 \in 0..N /\ k \in Nat /\ (k + 1) - 1 = k
      /\ \A m \in 0..k : m = k \/ m \in 0..(k - 1)
      /\ k \in 0..k /\ \A m \in 0..(k - 1) : m \in 0..k /\ m \in Ranks /\ m # k
  BY BookTypes DEF Ranks
<1>2. /\ Below[k] = {j \in Indices : \E m \in 0..(k - 1) : rankedBids[m] = bids[j]}
      /\ Below[k + 1] = {j \in Indices : \E m \in 0..k : rankedBids[m] = bids[j]}
  BY <1>1 DEF Below
<1>3. i \notin Below[k]
  <2> SUFFICES ASSUME i \in Below[k] PROVE FALSE
    OBVIOUS
  <2>1. PICK m \in 0..(k - 1) : rankedBids[m] = bids[i]
    BY <1>2
  <2> QED
    BY <2>1, <1>1, RanksDiffer
<1>4. ASSUME NEW j \in Indices
      PROVE  (j \in Below[k + 1]) <=> (j \in Below[k] \/ j = i)
  <2>1. j \in Below[k + 1] => j \in Below[k] \/ j = i
    <3> SUFFICES ASSUME j \in Below[k + 1], j \notin Below[k] PROVE j = i
      OBVIOUS
    <3>1. PICK m \in 0..k : rankedBids[m] = bids[j]
      BY <1>2
    <3>2. m = k
      BY <1>1, <1>2, <3>1
    <3>3. bids[j] = bids[i]
      BY <3>1, <3>2
    <3> QED
      BY <3>3 DEF EngineInv, BookInv
  <2>2. j \in Below[k] \/ j = i => j \in Below[k + 1]
    BY <1>1, <1>2
  <2> QED
    BY <2>1, <2>2
<1>5. Below[k + 1] = Below[k] \cup {i}
  <2>1. Below[k] \subseteq Indices /\ Below[k + 1] \subseteq Indices
    BY <1>1, BelowIs
  <2> QED
    BY <2>1, <1>4
<1>6. /\ Cumulated[k] = SumFunctionOnSet(Quantities, Below[k])
      /\ Cumulated[k + 1] = SumFunctionOnSet(Quantities, Below[k + 1])
  BY <1>1 DEF Cumulated
<1>7. /\ IsFiniteSet(Below[k]) /\ \A j \in Below[k] : Quantities[j] \in Int
      /\ Quantities[i] \in Int /\ Quantities[i] = bids[i].quantity
  BY <1>1, BelowIs, BookTypes
<1> QED
  BY <1>1, <1>3, <1>5, <1>6, <1>7, SumWithElement

\* What a rank wins is what its bid wins.
LEMMA WonAtRank ==
  ASSUME EngineInv, step > 1, NEW k \in Ranks, NEW i \in Indices,
         rankedBids[k] = bids[i]
  PROVE  /\ WonAt[k] = Wins[i]
         /\ WonAt[k] = IF Cumulated[k] < TotalQuantity
                       THEN Lesser(TotalQuantity - Cumulated[k], bids[i].quantity)
                       ELSE 0
<1>1. DOMAIN bids = Indices /\ k \in 0..N
  BY BookTypes DEF EngineInv, EngineTypeOK, Ranks
<1>2. Ahead(rule, bids, i) = Cumulated[k]
  BY <1>1, BelowIsAhead DEF Ahead, Cumulated, Quantities
<1>3. WonAt[k] = IF Cumulated[k] < TotalQuantity
                 THEN Lesser(TotalQuantity - Cumulated[k], bids[i].quantity)
                 ELSE 0
  BY DEF WonAt
<1>4. Wins[i] = Won(rule, bids, TotalQuantity, i)
  BY DEF Wins
<1> QED
  BY <1>2, <1>3, <1>4 DEF Won

LEMMA WinsAreNaturals ==
  ASSUME EngineInv, step > 1
  PROVE  /\ \A i \in Indices : Wins[i] \in Nat /\ Wins[i] <= bids[i].quantity
         /\ \A k \in Ranks : WonAt[k] \in Nat
<1>1. ASSUME NEW k \in Ranks, NEW i \in Indices, rankedBids[k] = bids[i]
      PROVE  WonAt[k] = Wins[i] /\ WonAt[k] \in Nat /\ WonAt[k] <= bids[i].quantity
  <2>1. k \in 0..N /\ bids[i].quantity \in Nat /\ TotalQuantity \in Nat
    BY BookTypes DEF Ranks
  <2>2. Cumulated[k] \in Nat
    BY <2>1, CumulatedIs
  <2>3. /\ WonAt[k] = Wins[i]
        /\ WonAt[k] = IF Cumulated[k] < TotalQuantity
                      THEN Lesser(TotalQuantity - Cumulated[k], bids[i].quantity)
                      ELSE 0
    BY <1>1, WonAtRank
  <2> QED
    BY <2>1, <2>2, <2>3 DEF Lesser
<1> QED
  BY <1>1, RankAndIndex

LEMMA LowestOfNone ==
  ASSUME EngineInv PROVE 0 \in LowestPrices[0]
<1>1. 0 \in 0..N /\ 0 \in Amounts /\ 0..(0 - 1) = {}
  BY BookTypes, AmountFacts
<1>2. WinsBelow[0] = {}
  BY <1>1 DEF WinsBelow
<1> QED
  BY <1>1, <1>2 DEF LowestPrices

LEMMA BeatsByPrice ==
  ASSUME NEW r \in Rules, NEW a \in Bid, NEW b \in Bid, Beats(r, a, b)
  PROVE  b.price <= a.price
<1>1. a.price \in Nat /\ b.price \in Nat
  BY QuantityAssumption DEF Bid, Amounts
<1> QED
  BY <1>1 DEF Beats, BeatsByPriceId, BeatsByPriceQuantityId, BeatsByPriceRandom, Rules

\* The price goes down with the ranks.
LEMMA LowestOfNext ==
  ASSUME EngineInv, step > 1, NEW k \in Ranks, NEW u \in LowestPrices[k]
  PROVE  LET isValid == Cumulated[k] < TotalQuantity /\ rankedBids[k].price > 0
         IN  /\ WonAt[k] = IF isValid
                           THEN Lesser(TotalQuantity - Cumulated[k],
                                       rankedBids[k].quantity)
                           ELSE 0
             /\ (IF isValid THEN rankedBids[k].price ELSE u) \in LowestPrices[k + 1]
<1> DEFINE isValid == Cumulated[k] < TotalQuantity /\ rankedBids[k].price > 0
           price == rankedBids[k].price
<1>1. PICK i \in Indices : rankedBids[k] = bids[i]
  BY RankAndIndex
<1>2. /\ price \in Nat /\ rankedBids[k].quantity \in Nat /\ price \in Amounts
      /\ price = 0 <=> rankedBids[k].quantity = 0
      /\ TotalQuantity \in Nat
  <2>1. bids[i].price = 0 <=> bids[i].quantity = 0
    BY DEF EngineInv, BookInv
  <2> QED
    BY <1>1, <2>1, BookTypes
<1>3. /\ k \in 0..N /\ k + 1 \in 0..N /\ (k + 1) - 1 = k /\ k \in 0..k
      /\ \A m \in 0..(k - 1) : m \in 0..k /\ m \in Ranks /\ m < k
      /\ \A m \in 0..k : m = k \/ m \in 0..(k - 1)
  BY BookTypes DEF Ranks
<1>4. Cumulated[k] \in Nat
  BY <1>3, CumulatedIs
<1>5. WonAt[k] = IF Cumulated[k] < TotalQuantity
                 THEN Lesser(TotalQuantity - Cumulated[k], rankedBids[k].quantity)
                 ELSE 0
  BY DEF WonAt
<1>6. /\ WonAt[k] = IF isValid
                    THEN Lesser(TotalQuantity - Cumulated[k], rankedBids[k].quantity)
                    ELSE 0
      /\ isValid <=> WonAt[k] > 0
  BY <1>2, <1>4, <1>5 DEF Lesser
<1>7. ASSUME NEW m \in WinsBelow[k] PROVE price <= rankedBids[m].price
  <2>1. m \in 0..(k - 1)
    BY <1>3 DEF WinsBelow
  <2>2. Beats(rule, rankedBids[m], rankedBids[k])
    BY <1>3, <2>1 DEF EngineInv, OrderInv, Ordered, Ranks
  <2> QED
    BY <1>3, <2>1, <2>2, BookTypes, BeatsByPrice
<1>8. /\ u \in Amounts /\ \A m \in WinsBelow[k] : u <= rankedBids[m].price
      /\ IF WinsBelow[k] = {} THEN u = 0
         ELSE \E m \in WinsBelow[k] : u = rankedBids[m].price
  BY <1>3 DEF LowestPrices
<1>9. /\ WinsBelow[k] = {m \in 0..(k - 1) : WonAt[m] > 0}
      /\ WinsBelow[k + 1] = {m \in 0..k : WonAt[m] > 0}
      /\ LowestPrices[k + 1] =
           {p \in Amounts :
              /\ \A m \in WinsBelow[k + 1] : p <= rankedBids[m].price
              /\ IF WinsBelow[k + 1] = {} THEN p = 0
                 ELSE \E m \in WinsBelow[k + 1] : p = rankedBids[m].price}
  BY <1>3 DEF WinsBelow, LowestPrices
<1> HIDE DEF isValid
<1>10. CASE isValid
  <2>1. /\ k \in WinsBelow[k + 1]
        /\ \A m \in WinsBelow[k + 1] : m = k \/ m \in WinsBelow[k]
    BY <1>3, <1>6, <1>9, <1>10
  <2>2. \A m \in WinsBelow[k + 1] : price <= rankedBids[m].price
    BY <1>2, <1>7, <2>1
  <2>3. price \in LowestPrices[k + 1]
    BY <1>2, <1>9, <2>1, <2>2
  <2> QED
    BY <1>6, <1>10, <2>3 DEF isValid
<1>11. CASE ~isValid
  <2>1. WinsBelow[k + 1] = WinsBelow[k]
    BY <1>3, <1>6, <1>9, <1>11
  <2>2. u \in LowestPrices[k + 1]
    BY <1>8, <1>9, <2>1
  <2> QED
    BY <1>6, <1>11, <2>2 DEF isValid
<1> QED
  BY <1>10, <1>11

\* What is won up to a rank is what is asked for, as far as there is something left.
LEMMA SumOfNext ==
  ASSUME EngineInv, step > 1, NEW k \in Ranks,
         SumFunctionOnSet(Wins, Below[k]) = Lesser(TotalQuantity, Cumulated[k]),
         Cumulated[k] <= k * TotalQuantity
  PROVE  /\ SumFunctionOnSet(Wins, Below[k + 1])
              = Lesser(TotalQuantity, Cumulated[k + 1])
         /\ Cumulated[k + 1] <= (k + 1) * TotalQuantity
         /\ Cumulated[k + 1] = Cumulated[k] + rankedBids[k].quantity
<1>1. PICK i \in Indices : rankedBids[k] = bids[i]
  BY RankAndIndex
<1>2. /\ k \in 0..N /\ k + 1 \in 0..N /\ i \notin Below[k]
      /\ Below[k + 1] = Below[k] \cup {i}
      /\ Cumulated[k + 1] = Cumulated[k] + bids[i].quantity
  BY <1>1, NextBelow
<1>3. /\ Cumulated[k] \in Nat /\ bids[i].quantity \in Nat /\ k \in Nat
      /\ TotalQuantity \in Nat /\ bids[i].quantity <= TotalQuantity
  BY <1>2, CumulatedIs, BookTypes DEF EngineInv, BookInv
<1>4. SumFunctionOnSet(Wins, Below[k + 1])
        = SumFunctionOnSet(Wins, Below[k]) + Wins[i]
  <2>1. /\ IsFiniteSet(Below[k]) /\ \A j \in Below[k] : Wins[j] \in Int
        /\ Wins[i] \in Int
    BY <1>2, BelowIs, WinsAreNaturals
  <2> QED
    BY <1>2, <2>1, SumWithElement
<1>5. Wins[i] = IF Cumulated[k] < TotalQuantity
                THEN Lesser(TotalQuantity - Cumulated[k], bids[i].quantity)
                ELSE 0
  BY <1>1, WonAtRank
<1>6. SumFunctionOnSet(Wins, Below[k + 1]) = Lesser(TotalQuantity, Cumulated[k + 1])
  BY <1>2, <1>3, <1>4, <1>5 DEF Lesser
<1>7. (k + 1) * TotalQuantity = k * TotalQuantity + TotalQuantity
      /\ k * TotalQuantity \in Nat
  BY <1>3
<1>8. Cumulated[k + 1] <= (k + 1) * TotalQuantity
  BY <1>2, <1>3, <1>7
<1> QED
  BY <1>1, <1>2, <1>6, <1>8

\* These change with the book and the ranking only.
LEMMA ResultsFollowRanking ==
  ASSUME UNCHANGED <<rule, bids, rankedBids>>
  PROVE  /\ Below' = Below /\ Cumulated' = Cumulated /\ WonAt' = WonAt
         /\ LowestPrices' = LowestPrices /\ Wins' = Wins
<1>1. Quantities' = Quantities
  BY DEF Quantities
<1>2. Below' = Below
  BY DEF Below
<1>3. Cumulated' = Cumulated
  BY <1>1, <1>2 DEF Cumulated
<1>4. WonAt' = WonAt
  BY <1>3 DEF WonAt
<1>5. WinsBelow' = WinsBelow
  BY <1>4 DEF WinsBelow
<1>6. LowestPrices' = LowestPrices
  BY <1>5 DEF LowestPrices
<1>7. Wins' = Wins
  BY DEF Wins
<1> QED
  BY <1>2, <1>3, <1>4, <1>6, <1>7

-----------------------------------------------------------------------------
(* The awards *)

LEMMA AwardNext ==
  ASSUME UNCHANGED <<rule, bids, rankedBids>>, NEW c, AwardedCount' = c,
         \A k \in 0..(c - 1) : rankedWonQuantities'[k] = WonAt[k],
         SumFunctionOnSet(Wins, Below[c]) = Lesser(TotalQuantity, Cumulated[c]),
         Cumulated[c] <= c * TotalQuantity,
         step' = 2 /\ run'.pc = "idle" /\ progress' > 0 =>
           cumulativeQuantity' = Cumulated[c] /\ uniformPrice' \in LowestPrices[c],
         run'.pc = "award" =>
           c > 0 /\ run'.cumulative = Cumulated[c] /\ run'.uniform \in LowestPrices[c],
         step' > 2 => uniformPrice' \in LowestPrices[N]
  PROVE  AwardInv'
<1>1. /\ Below' = Below /\ Cumulated' = Cumulated /\ WonAt' = WonAt
      /\ LowestPrices' = LowestPrices /\ Wins' = Wins
  BY ResultsFollowRanking
<1> QED
  BY <1>1 DEF AwardInv

\* Before step 3 nothing is awarded.
LEMMA NoAwardYet ==
  ASSUME step' < 2 \/ (step' = 2 /\ progress' = 0 /\ run'.pc = "idle"), step' \in 0..4,
         run'.pc # "award"
  PROVE  AwardInv'
<1>1. AwardedCount' = 0 /\ ~(step' > 2)
  BY DEF AwardedCount, Done
<1>2. 0 \in 0..N /\ 0..(0 - 1) = {} /\ TotalQuantity \in Nat \ {0}
  BY NAssumption, QuantityAssumption
<1>3. Below'[0] = {}
  BY <1>2 DEF Below
<1>4. Cumulated'[0] = 0 /\ SumFunctionOnSet(Wins', Below'[0]) = 0
  <2>1. Cumulated'[0] = SumFunctionOnSet(Quantities', Below'[0])
    BY <1>2 DEF Cumulated
  <2> QED
    BY <2>1, <1>3, SumOfNothing
<1>5. 0 = Lesser(TotalQuantity, 0) /\ 0 <= 0 * TotalQuantity
  BY <1>2 DEF Lesser
<1> QED
  BY <1>1, <1>2, <1>4, <1>5 DEF AwardInv

\* After step 3 nothing is awarded any more.
LEMMA NoAwardAnyMore ==
  ASSUME AwardInv, UNCHANGED <<rule, bids, rankedBids, rankedWonQuantities, uniformPrice>>,
         step > 2, step' > 2, step \in 0..4, step' \in 0..4, run'.pc # "award"
  PROVE  AwardInv'
<1>1. AwardedCount = N /\ AwardedCount' = N
  BY DEF AwardedCount
<1> QED
  BY <1>1, AwardNext DEF AwardInv

LEMMA BeginAwardResults ==
  ASSUME EngineInv, AwardInv, NEW iter, BeginAward(iter) PROVE AwardInv'
<1>1. /\ run.pc = "idle" /\ step = 2 /\ step' = step /\ progress' = progress
      /\ UNCHANGED <<rule, bids, rankedBids>> /\ progress \in Nat
      /\ 0 \in Ranks /\ progress + 0 = progress
  BY BookTypes
     DEF BeginAward, Called, bookVars, rankVars, EngineInv, EngineTypeOK, Ranks
<1>2. /\ AwardedCount = progress
      /\ \A k \in 0..(progress - 1) : rankedWonQuantities[k] = WonAt[k]
      /\ SumFunctionOnSet(Wins, Below[progress])
           = Lesser(TotalQuantity, Cumulated[progress])
      /\ Cumulated[progress] <= progress * TotalQuantity
  BY <1>1 DEF AwardedCount, Done, AwardInv
<1>3. CASE progress = 0
  <2> DEFINE bid == rankedBids[0]
  <2>1. /\ rankedWonQuantities' =
             [rankedWonQuantities EXCEPT ![0] = Lesser(bid.quantity, TotalQuantity)]
        /\ run' = [NoRun EXCEPT !.pc = "award", !.iter = iter, !.count = 1,
                                !.cumulative = bid.quantity, !.uniform = bid.price]
    BY <1>3 DEF BeginAward
  <2>2. /\ Cumulated[0] = 0 /\ bid.quantity \in Nat /\ bid.price \in Nat
        /\ TotalQuantity \in Nat \ {0} /\ (bid.price = 0 <=> bid.quantity = 0)
    <3>1. PICK i \in Indices : bid = bids[i]
      BY <1>1, RankAndIndex
    <3>2. bids[i].price = 0 <=> bids[i].quantity = 0
      BY DEF EngineInv, BookInv
    <3> QED
      BY <3>1, <3>2, BookTypes, CumulatedIs
  <2>3. LET isValid == Cumulated[0] < TotalQuantity /\ bid.price > 0
        IN  /\ WonAt[0] = IF isValid
                          THEN Lesser(TotalQuantity - Cumulated[0], bid.quantity)
                          ELSE 0
            /\ (IF isValid THEN bid.price ELSE 0) \in LowestPrices[0 + 1]
    BY <1>1, LowestOfNone, LowestOfNext
  <2>4. /\ SumFunctionOnSet(Wins, Below[0 + 1])
             = Lesser(TotalQuantity, Cumulated[0 + 1])
        /\ Cumulated[0 + 1] <= (0 + 1) * TotalQuantity
        /\ Cumulated[0 + 1] = Cumulated[0] + bid.quantity
    BY <1>1, <1>2, <1>3, SumOfNext
  <2>5. 0 + 1 = 1
    OBVIOUS
  <2> HIDE DEF bid
  <2>6. WonAt[0] = Lesser(bid.quantity, TotalQuantity) /\ bid.price \in LowestPrices[1]
    <3>1. CASE bid.price = 0
      BY <3>1, <2>2, <2>3, <2>5 DEF Lesser
    <3>2. CASE bid.price # 0
      <4>1. /\ WonAt[0] = Lesser(TotalQuantity - Cumulated[0], bid.quantity)
            /\ bid.price \in LowestPrices[1]
        BY <3>2, <2>2, <2>3, <2>5
      <4> QED
        BY <4>1, <2>2 DEF Lesser
    <3> QED
      BY <3>1, <3>2
  <2>7. /\ run'.pc = "award" /\ run'.count = 1 /\ run'.cumulative = bid.quantity
        /\ run'.uniform = bid.price
    BY <2>1 DEF NoRun
  <2>8. AwardedCount' = 1
    BY <1>1, <1>3, <2>7 DEF AwardedCount, Done
  <2>9. \A k \in 0..(1 - 1) : rankedWonQuantities'[k] = WonAt[k]
    BY <1>1, <2>1, <2>6 DEF EngineInv, EngineTypeOK
  <2>10. Cumulated[1] = bid.quantity
    BY <2>2, <2>4, <2>5
  <2>11. ~(step' > 2) /\ 1 > 0
    BY <1>1
  <2> QED
    BY <1>1, <2>4, <2>5, <2>6, <2>7, <2>8, <2>9, <2>10, <2>11, AwardNext
<1>4. CASE progress # 0
  <2>1. /\ rankedWonQuantities' = rankedWonQuantities
        /\ run' = [NoRun EXCEPT !.pc = "award", !.iter = iter,
                                !.cumulative = cumulativeQuantity,
                                !.uniform = uniformPrice]
    BY <1>4 DEF BeginAward
  <2>2. /\ run'.pc = "award" /\ run'.count = 0 /\ run'.cumulative = cumulativeQuantity
        /\ run'.uniform = uniformPrice
    BY <2>1 DEF NoRun
  <2>3. progress > 0 /\ ~(step' > 2)
    BY <1>1, <1>4
  <2>4. cumulativeQuantity = Cumulated[progress] /\ uniformPrice \in LowestPrices[progress]
    BY <1>1, <1>2, <2>3 DEF AwardInv
  <2>5. AwardedCount' = progress
    BY <1>1, <2>2 DEF AwardedCount, Done
  <2> QED
    BY <1>1, <1>2, <2>1, <2>2, <2>3, <2>4, <2>5, AwardNext
<1> QED
  BY <1>3, <1>4

LEMMA AwardRankResults ==
  ASSUME EngineInv, AwardInv, TotalFits, AwardRank PROVE AwardInv'
<1> DEFINE k == progress + run.count
           bid == rankedBids[k]
           isValid == run.cumulative < TotalQuantity /\ bid.price > 0
           won == IF isValid
                  THEN Lesser(Wrap(TotalQuantity - run.cumulative), bid.quantity)
                  ELSE 0
           uniform == IF isValid THEN bid.price ELSE run.uniform
<1>1. /\ run.pc = "award" /\ run.count < run.iter
      /\ rankedWonQuantities' = [rankedWonQuantities EXCEPT ![k] = won]
      /\ run' = [run EXCEPT !.count = run.count + 1,
                            !.cumulative = Wrap(run.cumulative + bid.quantity),
                            !.uniform = uniform]
      /\ step' = step /\ progress' = progress /\ UNCHANGED <<rule, bids, rankedBids>>
  BY DEF AwardRank, bookVars, rankVars
<1>2. /\ step = 2 /\ k \in Ranks /\ progress \in Nat /\ run.count \in Nat
      /\ run.cumulative \in Amounts
  BY <1>1, AwardNumbers
<1>3. /\ AwardedCount = k
      /\ \A m \in 0..(k - 1) : rankedWonQuantities[m] = WonAt[m]
      /\ SumFunctionOnSet(Wins, Below[k]) = Lesser(TotalQuantity, Cumulated[k])
      /\ Cumulated[k] <= k * TotalQuantity
      /\ run.cumulative = Cumulated[k] /\ run.uniform \in LowestPrices[k]
  BY <1>1, <1>2 DEF AwardedCount, Done, AwardInv
<1>4. /\ WonAt[k] = IF isValid THEN Lesser(TotalQuantity - run.cumulative, bid.quantity)
                    ELSE 0
      /\ uniform \in LowestPrices[k + 1]
  BY <1>2, <1>3, LowestOfNext
<1>5. /\ SumFunctionOnSet(Wins, Below[k + 1]) = Lesser(TotalQuantity, Cumulated[k + 1])
      /\ Cumulated[k + 1] <= (k + 1) * TotalQuantity
      /\ Cumulated[k + 1] = run.cumulative + bid.quantity
  BY <1>2, <1>3, SumOfNext
<1>6. /\ TotalQuantity \in Nat /\ TotalQuantity <= UInt256Max /\ UInt256Max \in Nat
      /\ N \in Nat /\ bid.quantity \in Nat /\ run.cumulative \in Nat /\ k \in Nat
      /\ k + 1 <= N
  <2>1. bid \in Bid
    BY <1>2, BookTypes
  <2> HIDE DEF bid, k
  <2> QED
    BY <2>1, <1>2, NAssumption, QuantityAssumption DEF Ranks, Amounts, Bid
<1>7. won = WonAt[k]
  <2>1. CASE isValid
    <3>1. TotalQuantity - run.cumulative \in Nat /\ TotalQuantity - run.cumulative <= UInt256Max
      BY <2>1, <1>6
    <3>2. Wrap(TotalQuantity - run.cumulative) = TotalQuantity - run.cumulative
      BY <3>1, AmountFacts
    <3> QED
      BY <1>4, <2>1, <3>2
  <2>2. CASE ~isValid
    BY <1>4, <2>2
  <2> QED
    BY <2>1, <2>2
<1> HIDE DEF won, uniform, isValid
<1>8. Wrap(run.cumulative + bid.quantity) = Cumulated[k + 1]
  <2>1. (k + 1) * TotalQuantity <= N * TotalQuantity
    BY <1>6, ProductMonotone
  <2>2. (k + 1) * TotalQuantity \in Nat /\ N * TotalQuantity \in Nat
        /\ N * TotalQuantity <= UInt256Max
    BY <1>6, ProductNat DEF TotalFits
  <2> DEFINE most == N * TotalQuantity
             more == (k + 1) * TotalQuantity
  <2>3. more <= most /\ more \in Nat /\ most \in Nat /\ most <= UInt256Max
        /\ run.cumulative + bid.quantity <= more
    BY <2>1, <2>2, <1>5
  <2> HIDE DEF most, more
  <2>4. /\ run.cumulative + bid.quantity \in Nat
        /\ run.cumulative + bid.quantity <= UInt256Max
    BY <2>3, <1>6
  <2> QED
    BY <2>4, <1>5, AmountFacts
<1> HIDE DEF bid
<1>9. /\ run'.pc = "award" /\ run'.count = run.count + 1
      /\ run'.cumulative = Cumulated[k + 1] /\ run'.uniform = uniform
  BY <1>1, <1>8 DEF EngineInv, EngineTypeOK, RunType
<1>10. AwardedCount' = k + 1
  BY <1>1, <1>2, <1>9 DEF AwardedCount, Done
<1>11. \A m \in 0..((k + 1) - 1) : rankedWonQuantities'[m] = WonAt[m]
  <2>1. \A m \in 0..((k + 1) - 1) : m \in Ranks /\ (m = k \/ m \in 0..(k - 1))
    BY <1>2, <1>6 DEF Ranks
  <2> HIDE DEF k
  <2> QED
    BY <2>1, <1>1, <1>2, <1>3, <1>7 DEF EngineInv, EngineTypeOK
<1>12. k + 1 > 0 /\ ~(step' > 2)
  BY <1>1, <1>2, <1>6
<1> HIDE DEF k
<1> QED
  BY <1>1, <1>4, <1>5, <1>9, <1>10, <1>11, <1>12, AwardNext

LEMMA EndAwardResults ==
  ASSUME EngineInv, AwardInv, EndAward PROVE AwardInv'
<1> DEFINE code == CodeFor(run.count, run.count < run.iter)
           k == progress + run.count
<1>1. /\ run.pc = "award" /\ uniformPrice' = run.uniform
      /\ cumulativeQuantity' = run.cumulative /\ Answer(code, run.count)
      /\ UNCHANGED <<rule, bids, rankedBids, rankedWonQuantities>>
  BY DEF EndAward, bookVars, rankVars
<1>2. /\ step = 2 /\ progress \in Nat /\ run.count \in Nat /\ StepSize(2) = N
  BY <1>1, AwardNumbers, StepSizes
<1>3. /\ AwardedCount = k
      /\ \A m \in 0..(k - 1) : rankedWonQuantities[m] = WonAt[m]
      /\ SumFunctionOnSet(Wins, Below[k]) = Lesser(TotalQuantity, Cumulated[k])
      /\ Cumulated[k] <= k * TotalQuantity
      /\ run.cumulative = Cumulated[k] /\ run.uniform \in LowestPrices[k]
  BY <1>1, <1>2 DEF AwardedCount, Done, AwardInv
<1>4. code = S_FINISHED <=> k = N
  BY <1>2 DEF CodeFor, S_FINISHED, S_NOT_FINISHED, E_NOT_ENOUGH_GAS
<1> HIDE DEF code
<1>5. CASE code = S_FINISHED
  <2>1. step' = 3 /\ run'.pc = "idle" /\ k = N
    BY <1>1, <1>2, <1>4, <1>5, AnswerIs
  <2>2. AwardedCount' = k
    BY <2>1 DEF AwardedCount
  <2> QED
    BY <1>1, <1>3, <2>1, <2>2, AwardNext
<1>6. CASE code # S_FINISHED
  <2>1. step' = 2 /\ run'.pc = "idle" /\ progress' = k
    BY <1>1, <1>2, <1>6, AnswerIs
  <2>2. AwardedCount' = k /\ ~(step' > 2)
    BY <2>1 DEF AwardedCount, Done
  <2> QED
    BY <1>1, <1>3, <2>1, <2>2, AwardNext
<1> QED
  BY <1>5, <1>6

LEMMA AwardPreserved ==
  ASSUME EngineInv, AwardInv, TotalFits, EngineNext PROVE AwardInv'
<1>1. /\ step \in 0..4 /\ step' \in 0..4 /\ progress \in Nat
      /\ run'.pc = "award" => step' = 2
      /\ step' < 2 => run'.pc # "award"
  <2>1. EngineTypeOK /\ EngineTypeOK' /\ CallInv'
    BY TypesPreserved DEF EngineInv
  <2>2. run'.pc = "award" => step' = 2
    BY <2>1 DEF CallInv, StepOf
  <2> QED
    BY <2>1, <2>2 DEF EngineTypeOK
<1>2. CASE step' < 2
  BY <1>1, <1>2, NoAwardYet
<1>3. CASE RefuseCall
  <2>1. /\ Answer(E_NOT_ENOUGH_GAS, 0) /\ run.pc = "idle"
        /\ UNCHANGED <<rule, bids, rankedBids, rankedWonQuantities, cumulativeQuantity,
                       uniformPrice>>
    BY <1>3 DEF RefuseCall, bookVars, rankVars, awardVars
  <2>2. E_NOT_ENOUGH_GAS # S_FINISHED
    BY DEF E_NOT_ENOUGH_GAS, S_FINISHED
  <2>3. run'.pc = "idle" /\ step' = step /\ progress' = progress
    BY <1>1, <2>1, <2>2, AnswerIs
  <2>4. AwardedCount' = AwardedCount
    BY <2>1, <2>3 DEF AwardedCount, Done
  <2>5. CASE step > 1
    BY <2>1, <2>3, <2>4, <2>5, AwardNext DEF AwardInv
  <2>6. CASE ~(step > 1)
    BY <1>1, <1>2, <2>3, <2>6
  <2> QED
    BY <2>5, <2>6
<1>4. ASSUME NEW iter, BeginAward(iter) PROVE AwardInv'
  BY <1>4, BeginAwardResults
<1>5. CASE AwardRank
  BY <1>5, AwardRankResults
<1>6. CASE EndAward
  BY <1>6, EndAwardResults
<1>7. ASSUME NEW iter, BeginInversion(iter) PROVE AwardInv'
  <2>1. /\ step = 3 /\ step' = step
        /\ UNCHANGED <<rule, bids, rankedBids, rankedWonQuantities, uniformPrice>>
    BY <1>7 DEF BeginInversion, Called, bookVars, rankVars, awardVars
  <2> QED
    BY <1>1, <2>1, NoAwardAnyMore
<1>8. CASE LookUp \/ \E short \in BOOLEAN : EndInversion(short)
  <2>1. /\ run.pc = "invert"
        /\ step' = step \/ \E code, count : Answer(code, count)
        /\ UNCHANGED <<rule, bids, rankedBids, rankedWonQuantities, uniformPrice>>
    BY <1>8 DEF LookUp, EndInversion, bookVars, rankVars, awardVars
  <2>2. step = 3 /\ (step' = step \/ step' = step + 1)
    BY <2>1, SearchNumbers, AnswerIs
  <2> QED
    BY <1>1, <2>1, <2>2, NoAwardAnyMore
<1>9. ASSUME step = 0 PROVE AwardInv'
  <2>1. step' = step \/ \E code, count : Answer(code, count)
    BY <1>9, <1>3

       DEF EngineNext, BeginCall, ContinueCall, RefuseCall, BeginValidation,
              BeginRanking, BeginAward,
           BeginInversion, EndValidation, EndInversion, ValidateBid, BeginPass, Compare,
           EndPass, EndRanking, AwardRank, EndAward, LookUp
  <2>2. step' = step \/ step' = step + 1
    BY <2>1, AnswerIs
  <2> QED
    BY <1>2, <1>9, <2>2
<1>10. ASSUME step = 1,
              \/ \E iter : BeginRanking(iter)
              \/ BeginPass \/ Compare \/ EndPass \/ EndRanking
       PROVE  AwardInv'
  <2>1. step' = step \/ \E code, count : Answer(code, count)
    BY <1>10 DEF BeginRanking, BeginPass, Compare, EndPass, EndRanking
  <2>2. \/ step' = step
        \/ step' = step + 1 /\ progress' = 0 /\ run'.pc = "idle"
    BY <2>1, AnswerIs
  <2>3. CASE step' = step
    BY <1>2, <1>10, <2>3
  <2>4. CASE step' = step + 1 /\ progress' = 0 /\ run'.pc = "idle"
    BY <1>1, <1>10, <2>4, NoAwardYet
  <2> QED
    BY <2>2, <2>3, <2>4
<1>11. ASSUME NEW iter, BeginRanking(iter) PROVE step = 1
  BY <1>11 DEF BeginRanking, Called
<1>12. CASE BeginPass \/ Compare \/ EndPass \/ EndRanking
  <2>1. InCall
    BY <1>12 DEF BeginPass, Compare, EndPass, EndRanking, InCall
  <2> QED
    BY <1>10, <1>12, <2>1, RankingNumbers
<1>13. CASE ValidateBid \/ \E short \in BOOLEAN : EndValidation(short)
  <2>1. step = 0
    BY <1>13, ValidationNumbers DEF ValidateBid, EndValidation
  <2> QED
    BY <1>9, <2>1
<1>14. ASSUME NEW iter, BeginValidation(iter) PROVE AwardInv'
  BY <1>9, <1>14 DEF BeginValidation, Called
<1> QED
  BY <1>3, <1>4, <1>5, <1>6, <1>7, <1>8, <1>10, <1>11, <1>12, <1>13, <1>14
     DEF EngineNext, BeginCall, ContinueCall

-----------------------------------------------------------------------------
(* The quantities by index *)

\* At the end of its row the search has found what the bid wins.
LEMMA RowIsFound ==
  ASSUME EngineInv, AwardInv, step > 2, NEW i \in Ranks, NEW q \in FoundBelow[i][N]
  PROVE  q = Wins[i + 1]
<1>1. /\ i + 1 \in Indices /\ N \in 0..N /\ 0..(N - 1) = Ranks
      /\ step > 1
  <2>1. i + 1 \in Indices /\ N \in 0..N /\ 0..(N - 1) = Ranks
    BY BookTypes DEF Ranks, Indices
  <2>2. step > 1
    BY DEF EngineInv, EngineTypeOK
  <2> QED
    BY <2>1, <2>2
<1>2. AwardedCount = N /\ \A k \in Ranks : rankedWonQuantities[k] = WonAt[k]
  BY <1>1 DEF AwardedCount, AwardInv
<1>3. PICK k \in Ranks : rankedBids[k] = bids[i + 1]
  BY <1>1, RankAndIndex
<1>4. HeldBelow[i][N] = {m \in Ranks : rankedBids[m].id = bids[i + 1].id}
  BY <1>1 DEF HeldBelow
<1>5. k \in HeldBelow[i][N]
  BY <1>3, <1>4
<1>6. PICK m \in HeldBelow[i][N] : q = rankedWonQuantities[m]
  BY <1>1, <1>5 DEF FoundBelow
<1>7. m \in Ranks /\ rankedBids[m] = bids[i + 1]
  <2>1. m \in Ranks /\ rankedBids[m].id = bids[i + 1].id
    BY <1>4
  <2>2. PICK j \in Indices : rankedBids[m] = bids[j]
    BY <1>1, <2>1, RankAndIndex
  <2>3. j = i + 1
    BY <1>1, <2>1, <2>2 DEF EngineInv, BookInv
  <2> QED
    BY <2>1, <2>2, <2>3
<1>8. WonAt[m] = Wins[i + 1]
  BY <1>1, <1>7, WonAtRank
<1> QED
  BY <1>2, <1>6, <1>7, <1>8

\* One comparison of a row.
LEMMA FoundNext ==
  ASSUME EngineInv, NEW i \in Ranks, NEW k \in Ranks, NEW q \in FoundBelow[i][k]
  PROVE  (IF rankedBids[k].id = bids[i + 1].id THEN rankedWonQuantities[k] ELSE q)
           \in FoundBelow[i][k + 1]
<1>1. /\ k \in 0..N /\ k + 1 \in 0..N /\ (k + 1) - 1 = k /\ k \in 0..k
      /\ \A m \in 0..k : m = k \/ m \in 0..(k - 1)
      /\ \A m \in 0..(k - 1) : m \in 0..k
      /\ rankedWonQuantities[k] \in Amounts
  <2>1. /\ k \in 0..N /\ k + 1 \in 0..N /\ (k + 1) - 1 = k /\ k \in 0..k
        /\ \A m \in 0..k : m = k \/ m \in 0..(k - 1)
        /\ \A m \in 0..(k - 1) : m \in 0..k
    BY BookTypes DEF Ranks
  <2>2. rankedWonQuantities[k] \in Amounts
    BY DEF EngineInv, EngineTypeOK
  <2> QED
    BY <2>1, <2>2
<1>2. /\ HeldBelow[i][k] = {m \in 0..(k - 1) : rankedBids[m].id = bids[i + 1].id}
      /\ HeldBelow[i][k + 1] = {m \in 0..k : rankedBids[m].id = bids[i + 1].id}
  BY <1>1 DEF HeldBelow
<1>3. /\ q \in Amounts
      /\ IF HeldBelow[i][k] = {} THEN q = 0
         ELSE \E m \in HeldBelow[i][k] : q = rankedWonQuantities[m]
  BY <1>1 DEF FoundBelow
<1>4. FoundBelow[i][k + 1] =
        {p \in Amounts : IF HeldBelow[i][k + 1] = {} THEN p = 0
                         ELSE \E m \in HeldBelow[i][k + 1] : p = rankedWonQuantities[m]}
  BY <1>1 DEF FoundBelow
<1>5. CASE rankedBids[k].id = bids[i + 1].id
  <2>1. k \in HeldBelow[i][k + 1]
    BY <1>1, <1>2, <1>5
  <2> QED
    BY <1>1, <1>4, <1>5, <2>1
<1>6. CASE rankedBids[k].id # bids[i + 1].id
  <2>1. HeldBelow[i][k + 1] = HeldBelow[i][k]
    BY <1>1, <1>2, <1>6
  <2> QED
    BY <1>3, <1>4, <1>6, <2>1
<1> QED
  BY <1>5, <1>6

\* A row begins with nothing found, now and in the next state.
LEMMA FoundOfNone ==
  ASSUME NEW i \in Ranks
  PROVE  0 \in FoundBelow[i][0] /\ 0 \in FoundBelow'[i][0]
<1>1. 0 \in 0..N /\ 0 \in Amounts /\ 0..(0 - 1) = {}
  BY NAssumption, AmountFacts
<1>2. HeldBelow[i][0] = {} /\ HeldBelow'[i][0] = {}
  BY <1>1 DEF HeldBelow
<1> QED
  BY <1>1, <1>2 DEF FoundBelow

LEMMA FoundFollowsRanking ==
  ASSUME UNCHANGED <<bids, rankedBids, rankedWonQuantities>>
  PROVE  FoundBelow' = FoundBelow
<1>1. HeldBelow' = HeldBelow
  BY DEF HeldBelow
<1> QED
  BY <1>1 DEF FoundBelow

LEMMA InvertNext ==
  ASSUME UNCHANGED <<rule, bids, rankedBids, rankedWonQuantities>>,
         NEW rows, InvertedRows' = rows,
         \A i \in 0..(rows - 1) : wonQuantities'[i] = Wins[i + 1],
         step' = 3 /\ run'.pc = "idle" => quantityWQ' \in FoundBelow[idxWQ'][resumeIdxWQ'],
         run'.pc = "invert" /\ run'.idx < N =>
           run'.quantity \in FoundBelow[run'.idx][run'.resume]
  PROVE  InvertInv'
<1>1. Wins' = Wins /\ FoundBelow' = FoundBelow
  BY ResultsFollowRanking, FoundFollowsRanking
<1> QED
  BY <1>1 DEF InvertInv

\* Before step 4 nothing is searched.
LEMMA NoSearchYet ==
  ASSUME idxWQ' = 0, run'.pc # "invert", step' \in 0..3,
         step' = 3 => quantityWQ' = 0 /\ resumeIdxWQ' = 0
  PROVE  InvertInv'
<1>1. InvertedRows' = 0 /\ 0 \in Ranks /\ 0..(0 - 1) = {}
  BY NAssumption DEF InvertedRows, Ranks
<1> QED
  BY <1>1, FoundOfNone DEF InvertInv

LEMMA LookUpResults ==
  ASSUME EngineInv, AwardInv, InvertInv, LookUp PROVE InvertInv'
<1> DEFINE found == rankedBids[run.resume].id = bids[run.idx + 1].id
           quantity == IF found THEN rankedWonQuantities[run.resume] ELSE run.quantity
           endOfRow == run.resume + 1 = N
<1>1. /\ run.pc = "invert" /\ run.count < run.iter
      /\ wonQuantities' = IF endOfRow
                          THEN [wonQuantities EXCEPT ![run.idx] = quantity]
                          ELSE wonQuantities
      /\ run' = [run EXCEPT !.count = run.count + 1,
                            !.idx = IF endOfRow THEN run.idx + 1 ELSE run.idx,
                            !.resume = IF endOfRow THEN 0 ELSE run.resume + 1,
                            !.quantity = IF endOfRow THEN 0 ELSE quantity]
      /\ UNCHANGED <<rule, bids, rankedBids, rankedWonQuantities>>
  BY DEF LookUp, bookVars, rankVars, awardVars
<1>2. /\ step = 3 /\ N \in Nat \ {0} /\ run.resume \in Ranks /\ run.idx \in Ranks
      /\ run.idx < N /\ step > 2
  <2>1. /\ step = 3 /\ N \in Nat \ {0} /\ N * N \in Nat /\ progress \in Nat
        /\ run.count \in Nat /\ run.iter \in 1..(N * N) /\ progress + run.iter <= N * N
        /\ run.resume \in 0..(N - 1)
    BY <1>1, SearchNumbers
  <2>2. run.idx \in 0..(N - 1)
    BY <1>1, <2>1, SearchNumbers
  <2> QED
    BY <2>1, <2>2 DEF Ranks
<1>3. /\ InvertedRows = run.idx
      /\ \A i \in 0..(run.idx - 1) : wonQuantities[i] = Wins[i + 1]
      /\ run.quantity \in FoundBelow[run.idx][run.resume]
  BY <1>1, <1>2 DEF InvertedRows, InvertInv
<1>4. quantity \in FoundBelow[run.idx][run.resume + 1]
  BY <1>2, <1>3, FoundNext
<1> HIDE DEF quantity, endOfRow
<1>5. /\ run'.pc = "invert"
      /\ run'.idx = IF endOfRow THEN run.idx + 1 ELSE run.idx
      /\ run'.resume = IF endOfRow THEN 0 ELSE run.resume + 1
      /\ run'.quantity = IF endOfRow THEN 0 ELSE quantity
  BY <1>1 DEF EngineInv, EngineTypeOK, RunType
<1>6. InvertedRows' = run'.idx
  BY <1>5 DEF InvertedRows
<1>7. CASE endOfRow
  <2>1. run.resume + 1 = N
    BY <1>7 DEF endOfRow
  <2>2. quantity = Wins[run.idx + 1]
    BY <1>2, <1>4, <2>1, RowIsFound
  <2>3. wonQuantities' = [wonQuantities EXCEPT ![run.idx] = quantity]
    BY <1>1, <1>7
  <2>4. \A i \in 0..((run.idx + 1) - 1) : wonQuantities'[i] = Wins[i + 1]
    <3>1. \A i \in 0..((run.idx + 1) - 1) :
            i \in Ranks /\ (i = run.idx \/ i \in 0..(run.idx - 1))
      BY <1>2 DEF Ranks
    <3> QED
      BY <3>1, <1>2, <1>3, <2>2, <2>3 DEF EngineInv, EngineTypeOK
  <2>5. run.idx + 1 < N => 0 \in FoundBelow[run.idx + 1][0]
    <3>1. run.idx + 1 < N => run.idx + 1 \in Ranks
      BY <1>2 DEF Ranks
    <3> QED
      BY <3>1, FoundOfNone
  <2>6. /\ run'.idx = run.idx + 1 /\ run'.resume = 0 /\ run'.quantity = 0
    BY <1>5, <1>7
  <2> QED
    BY <1>1, <1>5, <1>6, <2>4, <2>5, <2>6, InvertNext
<1>8. CASE ~endOfRow
  <2>1. /\ run'.idx = run.idx /\ run'.resume = run.resume + 1
        /\ run'.quantity = quantity /\ wonQuantities' = wonQuantities
    BY <1>1, <1>5, <1>8
  <2> QED
    BY <1>1, <1>3, <1>4, <1>5, <1>6, <2>1, InvertNext
<1> QED
  BY <1>7, <1>8

LEMMA EndInversionResults ==
  ASSUME EngineInv, InvertInv, NEW short \in BOOLEAN, EndInversion(short)
  PROVE  InvertInv'
<1> DEFINE code == CodeFor(run.count, short)
<1>1. /\ run.pc = "invert" /\ Answer(code, run.count) /\ idxWQ' = run.idx
      /\ code # S_FINISHED => resumeIdxWQ' = run.resume /\ quantityWQ' = run.quantity
      /\ UNCHANGED <<rule, bids, rankedBids, rankedWonQuantities, wonQuantities>>
  BY DEF EndInversion, bookVars, rankVars, awardVars
<1>2. /\ step = 3 /\ StepSize(step) = N * N /\ N \in Nat
      /\ progress + run.count = N * N => run.idx = N
      /\ progress + run.count # N * N => run.idx < N
  BY <1>1, SearchNumbers, StepSizes
<1>3. /\ InvertedRows = run.idx
      /\ \A i \in 0..(run.idx - 1) : wonQuantities[i] = Wins[i + 1]
      /\ run.idx < N => run.quantity \in FoundBelow[run.idx][run.resume]
  BY <1>1 DEF InvertedRows, InvertInv
<1>4. code = S_FINISHED <=> progress + run.count = N * N
  BY <1>2 DEF CodeFor, S_FINISHED, S_NOT_FINISHED, E_NOT_ENOUGH_GAS
<1> HIDE DEF code
<1>5. CASE code = S_FINISHED
  <2>1. step' = 4 /\ run'.pc = "idle" /\ run.idx = N
    BY <1>1, <1>2, <1>4, <1>5, AnswerIs
  <2>2. InvertedRows' = run.idx
    BY <2>1 DEF InvertedRows
  <2> QED
    BY <1>1, <1>3, <2>1, <2>2, InvertNext
<1>6. CASE code # S_FINISHED
  <2>1. step' = 3 /\ run'.pc = "idle" /\ run.idx < N
    BY <1>1, <1>2, <1>4, <1>6, AnswerIs
  <2>2. InvertedRows' = run.idx
    BY <1>1, <2>1 DEF InvertedRows
  <2> QED
    BY <1>1, <1>3, <1>6, <2>1, <2>2, InvertNext
<1> QED
  BY <1>5, <1>6

LEMMA BeginInversionResults ==
  ASSUME EngineInv, InvertInv, NEW iter, BeginInversion(iter) PROVE InvertInv'
<1>1. /\ run' = [NoRun EXCEPT !.pc = "invert", !.iter = iter, !.idx = idxWQ,
                              !.resume = resumeIdxWQ, !.quantity = quantityWQ]
      /\ step = 3 /\ step' = step /\ run.pc = "idle"
      /\ UNCHANGED <<rule, bids, rankedBids, rankedWonQuantities, wonQuantities>>
  BY DEF BeginInversion, Called, bookVars, rankVars, awardVars, invertVars
<1>2. /\ run'.pc = "invert" /\ run'.idx = idxWQ /\ run'.resume = resumeIdxWQ
      /\ run'.quantity = quantityWQ
  BY <1>1 DEF NoRun
<1>3. InvertedRows = idxWQ /\ InvertedRows' = idxWQ
  BY <1>1, <1>2 DEF InvertedRows
<1> QED
  BY <1>1, <1>2, <1>3, InvertNext DEF InvertInv

LEMMA InvertPreserved ==
  ASSUME EngineInv, AwardInv, InvertInv, EngineNext PROVE InvertInv'
<1>1. /\ step \in 0..4 /\ step' \in 0..4 /\ progress \in Nat
      /\ run'.pc = "invert" => step' = 3
      /\ step' < 3 => idxWQ' = 0
  <2>1. EngineTypeOK /\ EngineTypeOK' /\ CallInv' /\ SearchInv'
    BY TypesPreserved, SearchPreserved DEF EngineInv
  <2>2. run'.pc = "invert" => step' = 3
    BY <2>1 DEF CallInv, StepOf
  <2> QED
    BY <2>1, <2>2 DEF EngineTypeOK, SearchInv
<1>2. CASE step' < 3
  <2>1. step' \in 0..3 /\ run'.pc # "invert" /\ idxWQ' = 0 /\ step' # 3
    BY <1>1, <1>2
  <2> QED
    BY <2>1, NoSearchYet
<1>3. ASSUME step' = step \/ (step' = step + 1 /\ step < 2), step < 3 PROVE InvertInv'
  BY <1>1, <1>2, <1>3
<1>4. CASE RefuseCall
  <2>1. /\ Answer(E_NOT_ENOUGH_GAS, 0) /\ run.pc = "idle" /\ step < 4
        /\ UNCHANGED <<rule, bids, rankedBids, rankedWonQuantities, wonQuantities, idxWQ,
                       resumeIdxWQ, quantityWQ>>
    BY <1>4 DEF RefuseCall, bookVars, rankVars, awardVars, invertVars
  <2>2. E_NOT_ENOUGH_GAS # S_FINISHED
    BY DEF E_NOT_ENOUGH_GAS, S_FINISHED
  <2>3. run'.pc = "idle" /\ step' = step
    BY <1>1, <2>1, <2>2, AnswerIs
  <2>4. InvertedRows' = InvertedRows
    BY <2>1, <2>3 DEF InvertedRows
  <2> QED
    BY <2>1, <2>3, <2>4, InvertNext DEF InvertInv
<1>5. ASSUME NEW iter, BeginInversion(iter) PROVE InvertInv'
  BY <1>5, BeginInversionResults
<1>6. CASE LookUp
  BY <1>6, LookUpResults
<1>7. ASSUME NEW short \in BOOLEAN, EndInversion(short) PROVE InvertInv'
  BY <1>7, EndInversionResults
<1>8. CASE EndAward
  <2>1. /\ run.pc = "award" /\ \E code, count : Answer(code, count)
        /\ UNCHANGED <<idxWQ, resumeIdxWQ, quantityWQ>>
    BY <1>8 DEF EndAward, invertVars
  <2>2. /\ step = 2 /\ (step' = step \/ step' = step + 1) /\ run'.pc = "idle"
    BY <2>1, AwardNumbers, AnswerIs
  <2>3. idxWQ' = 0 /\ quantityWQ' = 0 /\ resumeIdxWQ' = 0
    BY <2>1, <2>2 DEF EngineInv, SearchInv
  <2> QED
    BY <1>1, <2>2, <2>3, NoSearchYet
<1>9. ASSUME NEW iter, BeginValidation(iter) \/ BeginRanking(iter) \/ BeginAward(iter)
      PROVE  InvertInv'
  <2>1. /\ step \in 0..2 /\ (step = 2 => step' = step)
        /\ step' = step \/ \E code, count : Answer(code, count)
    BY <1>9 DEF BeginValidation, BeginRanking, BeginAward, Called
  <2>2. step' = step \/ step' = step + 1
    BY <2>1, AnswerIs
  <2> QED
    BY <1>3, <2>1, <2>2
<1>10. CASE BeginPass \/ Compare \/ EndPass \/ EndRanking
  <2>1. InCall /\ (step' = step \/ \E code, count : Answer(code, count))
    BY <1>10 DEF BeginPass, Compare, EndPass, EndRanking, InCall
  <2>2. step = 1 /\ (step' = step \/ step' = step + 1)
    BY <2>1, RankingNumbers, AnswerIs
  <2> QED
    BY <1>3, <2>2
<1>11. CASE ValidateBid \/ AwardRank
  <2>1. step \in {0, 2} /\ step' = step
    BY <1>11, ValidationNumbers, AwardNumbers DEF ValidateBid, AwardRank
  <2> QED
    BY <1>3, <2>1
<1>12. ASSUME NEW short \in BOOLEAN, EndValidation(short) PROVE InvertInv'
  <2>1. step = 0 /\ \E code, count : Answer(code, count)
    BY <1>12, ValidationNumbers DEF EndValidation
  <2>2. step' = step \/ step' = step + 1
    BY <2>1, AnswerIs
  <2> QED
    BY <1>3, <2>1, <2>2
<1> QED
  BY <1>4, <1>5, <1>6, <1>7, <1>8, <1>9, <1>10, <1>11, <1>12
     DEF EngineNext, BeginCall, ContinueCall

-----------------------------------------------------------------------------
(* The results are right *)

LEMMA ResultsBegin ==
  ASSUME EngineInit PROVE ResultInv
<1>1. /\ step = 0 /\ idxWQ = 0 /\ quantityWQ = 0 /\ resumeIdxWQ = 0 /\ run.pc = "idle"
      /\ progress = 0
  BY DEF EngineInit, NoRun
<1>2. AwardInv
  <2>1. AwardedCount = 0 /\ 0..(0 - 1) = {}
    BY <1>1 DEF AwardedCount
  <2> QED
    BY <1>1, <2>1 DEF AwardInv
<1>3. InvertInv
  <2>1. InvertedRows = 0 /\ 0..(0 - 1) = {}
    BY <1>1 DEF InvertedRows
  <2> QED
    BY <1>1, <2>1 DEF InvertInv
<1> QED
  BY <1>2, <1>3 DEF ResultInv

LEMMA ResultsStutter ==
  ASSUME ResultInv, UNCHANGED engineVars PROVE ResultInv'
<1> USE DEF engineVars, bookVars, rankVars, awardVars, invertVars
<1>1. /\ Below' = Below /\ Cumulated' = Cumulated /\ WonAt' = WonAt
      /\ LowestPrices' = LowestPrices /\ Wins' = Wins
  BY ResultsFollowRanking
<1>2. FoundBelow' = FoundBelow
  BY FoundFollowsRanking
<1>3. AwardedCount' = AwardedCount /\ InvertedRows' = InvertedRows
  BY DEF AwardedCount, InvertedRows, Done
<1>4. AwardInv'
  BY <1>1, <1>3 DEF ResultInv, AwardInv
<1>5. InvertInv'
  BY <1>1, <1>2, <1>3 DEF ResultInv, InvertInv
<1> QED
  BY <1>4, <1>5 DEF ResultInv

LEMMA ResultsPreserved ==
  ASSUME TotalFits, EngineInv, ResultInv, EngineNext PROVE ResultInv'
BY AwardPreserved, InvertPreserved DEF ResultInv

\* The inductive invariant of the results.
THEOREM ResultInvariant ==
  ASSUME TotalFits PROVE EngineSpec => []ResultInv
<1>1. EngineInit => ResultInv
  BY ResultsBegin
<1>2. TotalFits
  OBVIOUS
<1>3. EngineInv /\ ResultInv /\ [EngineNext]_engineVars => ResultInv'
  BY <1>2, ResultsPreserved, ResultsStutter
<1> QED
  BY <1>1, <1>3, EngineInvariant, PTL DEF EngineSpec

LEMMA IndexOfOwnId ==
  ASSUME EngineInv, NEW i \in Indices PROVE IndexOfId(bids[i].id) = i
BY DEF IndexOfId, EngineInv, BookInv

\* The price of the last winner is the lowest one that wins.
LEMMA PriceIsSingle ==
  ASSUME EngineInv, AwardInv, step > 2, step > 1
  PROVE  uniformPrice = SinglePrice(rule, bids, TotalQuantity)
<1> DEFINE prices == {bids[i].price : i \in Winners(rule, bids, TotalQuantity)}
<1>1. /\ N \in 0..N /\ 0..(N - 1) = Ranks /\ DOMAIN bids = Indices
  BY BookTypes DEF Ranks, EngineInv, EngineTypeOK
<1>2. /\ uniformPrice \in Amounts
      /\ \A m \in WinsBelow[N] : uniformPrice <= rankedBids[m].price
      /\ IF WinsBelow[N] = {} THEN uniformPrice = 0
         ELSE \E m \in WinsBelow[N] : uniformPrice = rankedBids[m].price
      /\ WinsBelow[N] = {m \in Ranks : WonAt[m] > 0}
  BY <1>1 DEF AwardInv, LowestPrices, WinsBelow
<1>3. Winners(rule, bids, TotalQuantity) = {i \in Indices : Wins[i] > 0}
  BY <1>1 DEF Winners, Wins
<1>4. prices = {rankedBids[m].price : m \in WinsBelow[N]}
  <2>1. ASSUME NEW m \in WinsBelow[N] PROVE rankedBids[m].price \in prices
    <3>1. m \in Ranks /\ WonAt[m] > 0
      BY <1>2
    <3>2. PICK i \in Indices : rankedBids[m] = bids[i]
      BY <3>1, RankAndIndex
    <3>3. Wins[i] > 0
      BY <3>1, <3>2, WonAtRank
    <3> QED
      BY <1>3, <3>2, <3>3
  <2>2. ASSUME NEW i \in Winners(rule, bids, TotalQuantity)
        PROVE  \E m \in WinsBelow[N] : bids[i].price = rankedBids[m].price
    <3>1. i \in Indices /\ Wins[i] > 0
      BY <1>3
    <3>2. PICK m \in Ranks : rankedBids[m] = bids[i]
      BY <3>1, RankAndIndex
    <3>3. m \in WinsBelow[N]
      BY <1>2, <3>1, <3>2, WonAtRank
    <3> QED
      BY <3>2, <3>3
  <2> QED
    BY <2>1, <2>2
<1>5. CASE WinsBelow[N] = {}
  <2>1. prices = {}
    BY <1>4, <1>5
  <2>2. SinglePrice(rule, bids, TotalQuantity) = 0
    BY <2>1 DEF SinglePrice
  <2> QED
    BY <1>2, <1>5, <2>2
<1>6. CASE WinsBelow[N] # {}
  <2>1. /\ uniformPrice \in prices /\ \A p \in prices : uniformPrice <= p
        /\ \A p \in prices : p \in Nat
    <3>1. \A m \in WinsBelow[N] : rankedBids[m].price \in Nat
      BY <1>2, BookTypes, QuantityAssumption DEF Bid, Amounts
    <3> QED
      BY <1>2, <1>4, <1>6, <3>1
  <2> HIDE DEF prices
  <2>2. Min(prices) = uniformPrice
    BY <2>1 DEF Min
  <2>3. prices # {}
    BY <2>1
  <2>4. SinglePrice(rule, bids, TotalQuantity) = Min(prices)
    BY <2>3 DEF SinglePrice, prices
  <2> QED
    BY <2>2, <2>4
<1> QED
  BY <1>5, <1>6

LEMMA AwardsRight ==
  ASSUME EngineInv, ResultInv PROVE AwardsAreRight
<1>1. AwardsByRankAreRight
  <2> SUFFICES ASSUME wonQuantitiesByRankReady
               PROVE  /\ {rankedBids[k] : k \in Ranks} = {bids[i] : i \in Indices}
                      /\ \A k \in Ranks :
                           rankedWonQuantities[k]
                             = Won(rule, bids, TotalQuantity,
                                   IndexOfId(rankedBids[k].id))
                      /\ uniformPrice = SinglePrice(rule, bids, TotalQuantity)
    BY DEF AwardsByRankAreRight
  <2>1. step > 2 /\ step > 1 /\ AwardInv
    <3>1. step > 2
      BY Zenon DEF EngineInv, ReadyInv
    <3> QED
      BY <3>1 DEF EngineInv, EngineTypeOK, ResultInv
  <2>2. {rankedBids[k] : k \in Ranks} = {bids[i] : i \in Indices}
    BY <2>1 DEF EngineInv, OrderInv
  <2>3. ASSUME NEW k \in Ranks
        PROVE  rankedWonQuantities[k]
                 = Won(rule, bids, TotalQuantity, IndexOfId(rankedBids[k].id))
    <3>1. PICK i \in Indices : rankedBids[k] = bids[i]
      BY <2>1, RankAndIndex
    <3>2. IndexOfId(rankedBids[k].id) = i
      BY <3>1, IndexOfOwnId
    <3>3. Won(rule, bids, TotalQuantity, i) = WonAt[k]
      BY <2>1, <3>1, WonAtRank DEF Wins
    <3>4. AwardedCount = N /\ k \in 0..(N - 1)
      BY <2>1 DEF AwardedCount, Ranks, EngineInv, EngineTypeOK
    <3>5. rankedWonQuantities[k] = WonAt[k]
      BY <2>1, <3>4 DEF AwardInv
    <3> QED
      BY <3>2, <3>3, <3>5
  <2> QED
    BY <2>1, <2>2, <2>3, PriceIsSingle
<1>2. AwardsByIdAreRight
  <2> SUFFICES ASSUME wonQuantitiesByIdReady, NEW i \in Indices
               PROVE  wonQuantities[i - 1] = Won(rule, bids, TotalQuantity, i)
    BY DEF AwardsByIdAreRight
  <2>1. step = 4 /\ run.pc # "invert"
    <3>1. step > 3
      BY Zenon DEF EngineInv, ReadyInv
    <3>2. step = 4
      BY <3>1 DEF EngineInv, EngineTypeOK
    <3> QED
      BY <3>2, SearchNumbers
  <2>2. InvertedRows = N /\ i - 1 \in 0..(N - 1) /\ (i - 1) + 1 = i
    BY <2>1, BookTypes DEF InvertedRows, Indices
  <2>3. wonQuantities[i - 1] = Wins[(i - 1) + 1]
    BY <2>2 DEF ResultInv, InvertInv
  <2> QED
    BY <2>2, <2>3 DEF Wins
<1> QED
  BY <1>1, <1>2 DEF AwardsAreRight

\* When they are announced, the ranking, the quantities and the price are what the
\* definition of the single-price auction says, for any book of any size, any
\* tie-breaking rule, and however the gas cuts the four steps into calls.
THEOREM AnnouncedAwardsAreRight ==
  ASSUME TotalFits PROVE EngineSpec => []AwardsAreRight
<1>1. EngineInv /\ ResultInv => AwardsAreRight
  BY AwardsRight
<1>2. EngineSpec => []ResultInv
  BY ResultInvariant
<1> QED
  BY <1>1, <1>2, EngineInvariant, PTL

LEMMA WinsCovered ==
  ASSUME EngineInv, ResultInv PROVE WinnersCanPay
<1> SUFFICES ASSUME wonQuantitiesByIdReady
             PROVE  /\ \A i \in Indices :
                         wonQuantities[i - 1] * uniformPrice <= balance[i]
                    /\ SumFunctionOnSet(wonQuantities, Ranks)
                         = Lesser(TotalQuantity,
                                  SumFunctionOnSet([i \in Indices |-> bids[i].quantity],
                                                   Indices))
  BY DEF WinnersCanPay
<1>1. step = 4 /\ step > 2 /\ step > 1 /\ run.pc # "invert"
  <2>1. step > 3
    BY Zenon DEF EngineInv, ReadyInv
  <2>2. step = 4
    BY <2>1 DEF EngineInv, EngineTypeOK
  <2> QED
    BY <2>2, SearchNumbers
<1>2. InvertedRows = N /\ AwardedCount = N /\ N \in 0..N /\ 0..(N - 1) = Ranks
  BY <1>1, BookTypes DEF InvertedRows, AwardedCount, Ranks
<1>3. \A k \in Ranks : wonQuantities[k] = Wins[k + 1] /\ k + 1 \in Indices
  <2>1. \A k \in Ranks : k + 1 \in Indices
    BY BookTypes DEF Ranks, Indices
  <2> QED
    BY <1>2, <2>1 DEF ResultInv, InvertInv
<1>4. ASSUME NEW i \in Indices
      PROVE  wonQuantities[i - 1] * uniformPrice <= balance[i]
  <2>1. wonQuantities[i - 1] = Wins[i]
    <3>1. i - 1 \in Ranks /\ (i - 1) + 1 = i
      BY BookTypes DEF Ranks, Indices
    <3> QED
      BY <1>3, <3>1
  <2>2. /\ Wins[i] \in Nat /\ Wins[i] <= bids[i].quantity
        /\ bids[i].quantity \in Nat /\ bids[i].price \in Nat /\ balance[i] \in Nat
        /\ uniformPrice \in Nat
    BY <1>1, WinsAreNaturals, BookTypes DEF EngineInv, EngineTypeOK, Amounts
  <2>3. bids[i].price * bids[i].quantity <= balance[i]
    <3>1. ValidatedCount = N /\ i \in 1..N
      BY <1>1 DEF ValidatedCount, Indices
    <3> QED
      BY <3>1 DEF EngineInv, BookInv
  <2>4. CASE Wins[i] = 0
    <3>1. Wins[i] * uniformPrice = 0
      BY <2>2, <2>4
    <3> QED
      BY <2>1, <2>2, <3>1
  <2>5. CASE Wins[i] # 0
    <3>1. PICK k \in Ranks : rankedBids[k] = bids[i]
      BY <1>1, RankAndIndex
    <3>2. WonAt[k] = Wins[i]
      BY <1>1, <3>1, WonAtRank
    <3>3. k \in WinsBelow[N]
      BY <1>2, <2>2, <2>5, <3>2 DEF WinsBelow
    <3>4. uniformPrice <= bids[i].price
      BY <1>1, <1>2, <3>1, <3>3 DEF ResultInv, AwardInv, LowestPrices
    <3>5. /\ Wins[i] * uniformPrice <= bids[i].quantity * uniformPrice
          /\ bids[i].quantity * uniformPrice <= bids[i].quantity * bids[i].price
          /\ bids[i].quantity * bids[i].price = bids[i].price * bids[i].quantity
      BY <2>2, <3>4, ProductMonotone
    <3>6. /\ Wins[i] * uniformPrice \in Nat /\ bids[i].quantity * uniformPrice \in Nat
          /\ bids[i].price * bids[i].quantity \in Nat
      BY <2>2, ProductNat
    <3> DEFINE a == Wins[i] * uniformPrice
               b == bids[i].quantity * uniformPrice
               c == bids[i].price * bids[i].quantity
    <3>7. /\ a \in Nat /\ b \in Nat /\ c \in Nat /\ a <= b /\ b <= c /\ c <= balance[i]
          /\ wonQuantities[i - 1] * uniformPrice = a
      BY <2>1, <2>3, <3>5, <3>6
    <3> HIDE DEF a, b, c
    <3> QED
      BY <2>2, <3>7
  <2> QED
    BY <2>4, <2>5
<1>5. SumFunctionOnSet(Wins, Indices) = SumFunctionOnSet(wonQuantities, Ranks)
  <2>1. Indices = {k + 1 : k \in Ranks}
    <3>1. \A i \in Indices : i - 1 \in Ranks /\ (i - 1) + 1 = i
      BY BookTypes DEF Ranks, Indices
    <3> QED
      BY <1>3, <3>1
  <2>2. /\ IsFiniteSet(Ranks) /\ Ranks \subseteq Int
        /\ \A k \in Ranks : /\ wonQuantities[k] \in Int
                            /\ Wins[k + 1] = wonQuantities[k]
    BY <1>1, <1>3, BookTypes, WinsAreNaturals DEF Ranks
  <2> QED
    BY <2>1, <2>2, SumOfShifted
<1>6. SumFunctionOnSet(Wins, Indices)
        = Lesser(TotalQuantity, SumFunctionOnSet(Quantities, Indices))
  <2>1. Below[N] = Indices
    BY <1>1, BelowIs
  <2>2. Cumulated[N] = SumFunctionOnSet(Quantities, Indices)
    BY <1>2, <2>1 DEF Cumulated
  <2> QED
    BY <1>1, <1>2, <2>1, <2>2 DEF ResultInv, AwardInv
<1> QED
  BY <1>4, <1>5, <1>6 DEF Quantities

\* The claims that follow can be paid: each winner's deposit covers what it owes,
\* and the winners get all that is for sale or all that is asked for.
THEOREM EveryWinnerCanPay ==
  ASSUME TotalFits PROVE EngineSpec => []WinnersCanPay
<1>1. EngineInv /\ ResultInv => WinnersCanPay
  BY WinsCovered
<1>2. EngineSpec => []ResultInv
  BY ResultInvariant
<1> QED
  BY <1>1, <1>2, EngineInvariant, PTL
=============================================================================
