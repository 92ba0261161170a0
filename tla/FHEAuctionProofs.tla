-------------------------- MODULE FHEAuctionProofs --------------------------
(***************************************************************************)
(* Theorems about FHEAuction.tla and the lifecycle it inherits, for any    *)
(* number of bidders, any offers, deposits and clock: first TimedAuction   *)
(* alone, then the book, the marks of payment and the settlement, and last *)
(* the money, what the result of an auction takes and gives, and that      *)
(* everybody is paid what it is owed.                                      *)
(***************************************************************************)
EXTENDS FHEAuction, SumProofs, FiniteSetTheorems, TLAPS

-----------------------------------------------------------------------------
(* The lifecycle *)

LEMMA TimedInitIsTyped == TimedInit => TimedTypeOK
<1> SUFFICES ASSUME TimedInit PROVE TimedTypeOK
  OBVIOUS
<1>1. stoppable \in BOOLEAN
  BY DEF TimedInit
<1>2. flags = 0 /\ startTime = 0 /\ endTime = 0 /\ now \in 0..MaxTime
  BY DEF TimedInit, UNINITIALIZED
<1> QED
  BY <1>1, <1>2, MaxTimeAssumption
     DEF TimedTypeOK, StatusCodes, UNINITIALIZED, INITIALIZED_STARTED,
         INITIALIZED_STARTED_ENDED, INITIALIZED_STARTED_ENDED_TERMINATED

\* No function, and no block, takes the flags or the schedule out of their types.
LEMMA TimedStepsKeepTypes ==
  TimedTypeOK /\ [TimedNext]_timedVars => TimedTypeOK'
<1> SUFFICES ASSUME TimedTypeOK, [TimedNext]_timedVars
             PROVE  TimedTypeOK'
  OBVIOUS
<1> USE MaxTimeAssumption, DurationsAssumption
    DEF TimedTypeOK, StatusCodes, UNINITIALIZED, INITIALIZED,
        INITIALIZED_TERMINATED, INITIALIZED_STARTED,
        INITIALIZED_STARTED_ENDED, INITIALIZED_STARTED_ENDED_TERMINATED
<1>1. CASE TimedInitialize
  BY <1>1 DEF TimedInitialize
<1>2. ASSUME NEW d \in Durations, NEW b \in BOOLEAN, TimedStart(d, b)
      PROVE  TimedTypeOK'
  BY <1>2 DEF TimedStart, CanStart
<1>3. CASE TimedStop
  BY <1>3 DEF TimedStop, CanStop
<1>4. ASSUME NEW b \in BOOLEAN, TimedTerminate(b)
      PROVE  TimedTypeOK'
  BY <1>4 DEF TimedTerminate, CanTerminate
<1>5. CASE Tick
  BY <1>5 DEF Tick
<1>6. CASE UNCHANGED timedVars
  BY <1>6 DEF timedVars
<1> QED
  BY <1>1, <1>2, <1>3, <1>4, <1>5, <1>6 DEF TimedNext

\* Every reachable state is well typed and every started auction has a
\* non-empty window that began in the past (TimedAuction.sol _start, _stop,
\* _terminate).
THEOREM TimedTypeCorrect == TimedSpec => []TimedTypeOK
BY TimedInitIsTyped, TimedStepsKeepTypes, PTL DEF TimedSpec

\* The contract implements the state graph of its own comment: every step of
\* every function, and every new block, maps to an arrow of the graph or leaves
\* the status code alone.
THEOREM ImplementsStateGraph == TimedSpec => FollowsStateGraph
<1> USE DEF UNINITIALIZED, INITIALIZED, INITIALIZED_TERMINATED,
            INITIALIZED_STARTED, INITIALIZED_STARTED_ENDED,
            INITIALIZED_STARTED_ENDED_TERMINATED,
            Lifecycle!UNINITIALIZED, Lifecycle!INITIALIZED,
            Lifecycle!INITIALIZED_TERMINATED, Lifecycle!INITIALIZED_STARTED,
            Lifecycle!INITIALIZED_STARTED_ENDED,
            Lifecycle!INITIALIZED_STARTED_ENDED_TERMINATED
<1>1. TimedInit => Lifecycle!LifecycleInit
  BY DEF TimedInit, Lifecycle!LifecycleInit, State
<1>2. TimedTypeOK /\ [TimedNext]_timedVars => [Lifecycle!LifecycleNext]_State
  <2> SUFFICES ASSUME TimedTypeOK, [TimedNext]_timedVars
               PROVE  State' = State \/ State' \in Lifecycle!Successors(State)
    BY DEF Lifecycle!LifecycleNext
  <2> USE MaxTimeAssumption, DurationsAssumption
      DEF TimedTypeOK, StatusCodes, State, Lifecycle!Successors
  <2>1. CASE TimedInitialize
    BY <2>1 DEF TimedInitialize
  <2>2. ASSUME NEW d \in Durations, NEW b \in BOOLEAN, TimedStart(d, b)
        PROVE  State' \in Lifecycle!Successors(State)
    BY <2>2 DEF TimedStart, CanStart
  <2>3. CASE TimedStop
    BY <2>3 DEF TimedStop, CanStop
  <2>4. ASSUME NEW b \in BOOLEAN, TimedTerminate(b)
        PROVE  State' \in Lifecycle!Successors(State)
    BY <2>4 DEF TimedTerminate, CanTerminate
  <2>5. CASE Tick
    BY <2>5 DEF Tick
  <2>6. CASE UNCHANGED timedVars
    BY <2>6 DEF timedVars
  <2> QED
    BY <2>1, <2>2, <2>3, <2>4, <2>5, <2>6 DEF TimedNext
<1> QED
  BY <1>1, <1>2, TimedTypeCorrect, PTL
     DEF TimedSpec, FollowsStateGraph, Lifecycle!LifecycleSpec

-----------------------------------------------------------------------------
(* The auction follows the lifecycle *)

\* initialize(), start(), stop() and terminate() are steps of TimedAuction, and
\* nothing else touches the flags or the schedule.
LEMMA AuctionStepsAreTimedSteps ==
  [AuctionNext]_auctionVars => [TimedNext]_timedVars
<1> SUFFICES ASSUME [AuctionNext]_auctionVars
             PROVE  [TimedNext]_timedVars
  OBVIOUS
<1>1. CASE Initialize
  BY <1>1 DEF Initialize, TimedNext
<1>2. CASE \E d \in Durations, isStoppable \in BOOLEAN : Start(d, isStoppable)
  BY <1>2 DEF Start, TimedNext
<1>3. CASE Stop
  BY <1>3 DEF Stop, TimedNext
<1>4. CASE Terminate
  <2>1. TimedTerminate(CanTerminateAfterStart)
    BY <1>4 DEF Terminate
  <2>2. CanTerminateAfterStart \in BOOLEAN
    BY DEF CanTerminateAfterStart
  <2> QED
    BY <2>1, <2>2 DEF TimedNext
<1>5. CASE NextBlock
  BY <1>5 DEF NextBlock, TimedNext
<1>6. CASE \E b \in Bidders :
             \/ \E amount \in Deposits : Deposit(b, amount) \/ Withdraw(b, amount)
             \/ \E offer \in Offers, amount \in Deposits \cup {0} :
                  Bid(b, offer, amount)
             \/ CancelBid(b)
             \/ Claim(b)
             \/ BlindClaim(b)
  BY <1>6 DEF Deposit, Withdraw, Bid, CancelBid, Claim, BlindClaim
<1>7. CASE \/ \E stopIfReady \in BOOLEAN : ComputeAuction(stopIfReady)
           \/ DecryptUniformPrice
           \/ \E k \in Ranks : AwardPrizeAtRank(k)
  BY <1>7 DEF ComputeAuction, DecryptUniformPrice, AwardPrizeAtRank
<1>8. CASE \E r \in requests :
             \/ CallbackDecryptUniformPrice(r)
             \/ CallbackDecryptWonQuantity(r)
             \/ CallbackDecryptRankedWonQuantity(r)
             \/ RequestLost(r)
  BY <1>8 DEF CallbackDecryptUniformPrice, CallbackDecryptWonQuantity,
              CallbackDecryptRankedWonQuantity, RequestLost
<1>9. CASE UNCHANGED auctionVars
  BY <1>9 DEF auctionVars
<1> QED
  BY <1>1, <1>2, <1>3, <1>4, <1>5, <1>6, <1>7, <1>8, <1>9 DEF AuctionNext

\* The status of the auction contract follows the state graph, and its schedule is
\* what it is in TimedAuction.tla: what the owner calls, and nothing else, moves
\* the status, whoever bids, computes or is paid in between.
THEOREM AuctionFollowsStateGraph ==
  AuctionSpec => FollowsStateGraph /\ []TimedTypeOK
<1>1. AuctionInit => TimedInit
  BY DEF AuctionInit
<1>2. AuctionSpec => TimedSpec
  BY <1>1, AuctionStepsAreTimedSteps, PTL DEF AuctionSpec, TimedSpec
<1> QED
  BY <1>2, ImplementsStateGraph, TimedTypeCorrect, PTL

-----------------------------------------------------------------------------
(* The invariant: what the book, the phases of the auction, the requests and *)
(* the marks of payment say about one another.                               *)

\* The time for bids is over, although the auction may have been terminated since.
Over == State \in {INITIALIZED_STARTED_ENDED, INITIALIZED_STARTED_ENDED_TERMINATED}

BidRecords == [price : Nat, quantity : 0..AuctionQuantity, id : 0..MaxNextId, rand : {0}]

\* The book is well typed, with the count of bids that the iterator is given, and no
\* two bids in it have the same id.
BookInv ==
  /\ bidOf \in [Bidders -> BidRecords]
  /\ balance \in [Bidders -> Nat]
  /\ nextId \in 1..(MaxNextId + 1)
  /\ iteratorBidCount \in Nat
  /\ \A b \in Bidders : bidOf[b].id < nextId
  /\ \A b, c \in Registered : bidOf[b].id = bidOf[c].id => b = c

\* Nothing is computed before the time for bids is over, and nothing is asked,
\* paid or awarded before something is computed.
PhaseInv ==
  /\ ready \in {"nothing", "validated", "byRank", "byId"}
  /\ ready # "nothing" => Over
  /\ ready = "nothing" =>
       /\ requests = {}
       /\ claimCompleted = {}
       /\ prizeAtRankAwarded = {}
       /\ blindClaimRequestCount = 0

\* A request names a bidder in the book, directly or by its id and rank.
RequestInv ==
  \A r \in requests :
    /\ r.content.kind = "claim" => r.content.bidder \in Registered
    /\ r.content.kind = "award" =>
         \E b \in Registered : Rank(b) = r.content.rank /\ bidOf[b].id = r.content.id

\* The counters count the marks, and a marked rank is that of a paid bidder.
PaidInv ==
  /\ IsFiniteSet(claimCompleted) /\ claimCompleted \subseteq Registered
  /\ claimCompletedCount = Cardinality(claimCompleted)
  /\ IsFiniteSet(prizeAtRankAwarded)
  /\ prizeAtRankAwardedCount = Cardinality(prizeAtRankAwarded)
  /\ \A k \in prizeAtRankAwarded : \E b \in claimCompleted : Rank(b) = k

\* Blind ranks are given out in turn, and never more than there are bids.
BlindInv ==
  /\ blindRankPlusOne \in [Bidders -> Nat]
  /\ blindClaimRequestCount \in Nat
  /\ BlindRanksAreFair

\* Unpaid bidders have the minimum on deposit, and what their valid bids take.
CoverInv ==
  /\ \A b \in Registered \ claimCompleted : MinimumDeposit <= balance[b]
  /\ ValidBidsStayCovered

AuctionInv ==
  BookInv /\ PhaseInv /\ RequestInv /\ PaidInv /\ BlindInv /\ CoverInv

-----------------------------------------------------------------------------
(* Ranks *)

LEMMA BookIsFinite ==
  /\ IsFiniteSet(Registered) /\ BidCount \in Nat
  /\ \A b : IsFiniteSet({c \in Registered : Beats(Rule, bidOf[c], bidOf[b])})
  /\ \A b : Rank(b) \in Nat
<1>1. IsFiniteSet(Registered)
  BY AuctionAssumption, FS_Subset DEF Registered
<1>2. ASSUME NEW b
      PROVE  IsFiniteSet({c \in Registered : Beats(Rule, bidOf[c], bidOf[b])})
  BY <1>1, FS_Subset
<1> QED
  BY <1>1, <1>2, FS_CardinalityType DEF BidCount, Rank

\* The rules order bids with different ids strictly and totally.
LEMMA BeatsIsAnOrder ==
  ASSUME NEW a \in BidRecords, NEW b \in BidRecords, NEW c \in BidRecords
  PROVE  /\ ~Beats(Rule, a, a)
         /\ a.id # b.id => Beats(Rule, a, b) \/ Beats(Rule, b, a)
         /\ Beats(Rule, a, b) /\ Beats(Rule, b, c) => Beats(Rule, a, c)
<1>1. CASE Rule = "PriceId"
  BY <1>1 DEF Beats, BeatsByPriceId, BidRecords
<1>2. CASE Rule = "PriceQuantityId"
  <2>1. a.quantity \in Int /\ b.quantity \in Int /\ c.quantity \in Int
    BY AuctionAssumption DEF BidRecords
  <2>2. \A x, y : Beats(Rule, x, y) <=> BeatsByPriceQuantityId(x, y)
    BY <1>2 DEF Beats
  <2> QED
    BY <2>1, <2>2 DEF BeatsByPriceQuantityId, BidRecords
<1> QED
  BY <1>1, <1>2, AuctionAssumption

\* A bid that is ahead of another has a lower rank.
LEMMA RankIsMonotone ==
  ASSUME BookInv, NEW b \in Registered, NEW c \in Registered,
         Beats(Rule, bidOf[b], bidOf[c])
  PROVE  Rank(b) < Rank(c)
<1> DEFINE AheadOf(x) == {y \in Registered : Beats(Rule, bidOf[y], bidOf[x])}
<1>0. \A x \in Registered : bidOf[x] \in BidRecords
  BY DEF BookInv, Registered
<1>1. AheadOf(b) \cup {b} \subseteq AheadOf(c)
  BY <1>0, BeatsIsAnOrder
<1>2. b \notin AheadOf(b)
  BY <1>0, BeatsIsAnOrder
<1>3. IsFiniteSet(AheadOf(b)) /\ IsFiniteSet(AheadOf(c))
  BY BookIsFinite
<1>4. Cardinality(AheadOf(b) \cup {b}) = Cardinality(AheadOf(b)) + 1
  BY <1>2, <1>3, FS_AddElement
<1>5. Cardinality(AheadOf(b) \cup {b}) <= Cardinality(AheadOf(c))
  BY <1>1, <1>3, FS_Subset
<1>6. Cardinality(AheadOf(b)) \in Nat /\ Cardinality(AheadOf(c)) \in Nat
  BY <1>3, FS_CardinalityType
<1>7. Cardinality(AheadOf(b)) < Cardinality(AheadOf(c))
  <2> HIDE DEF AheadOf
  <2> QED BY <1>4, <1>5, <1>6
<1> QED
  BY <1>7 DEF Rank

\* Every bidder in the book has a rank of its own, below bidCount().
LEMMA RanksAreDistinct ==
  ASSUME BookInv
  PROVE  /\ \A b, c \in Registered : Rank(b) = Rank(c) => b = c
         /\ \A b \in Registered : Rank(b) \in 0..(BidCount - 1)
<1>0. \A x \in Registered : bidOf[x] \in BidRecords
  BY DEF BookInv, Registered
<1>1. ASSUME NEW b \in Registered, NEW c \in Registered, b # c
      PROVE  Rank(b) # Rank(c)
  <2>1. bidOf[b].id # bidOf[c].id
    BY <1>1 DEF BookInv
  <2>2. Beats(Rule, bidOf[b], bidOf[c]) \/ Beats(Rule, bidOf[c], bidOf[b])
    BY <1>0, <2>1, BeatsIsAnOrder
  <2>3. Rank(b) < Rank(c) \/ Rank(c) < Rank(b)
    BY <2>2, RankIsMonotone
  <2> QED
    BY <2>3, BookIsFinite
<1>2. ASSUME NEW b \in Registered
      PROVE  Rank(b) \in 0..(BidCount - 1)
  <2> DEFINE Ahead_b == {y \in Registered : Beats(Rule, bidOf[y], bidOf[b])}
  <2>1. Ahead_b \subseteq Registered /\ b \notin Ahead_b
    BY <1>0, BeatsIsAnOrder
  <2>2. Cardinality(Ahead_b) <= Cardinality(Registered)
    BY <2>1, BookIsFinite, FS_Subset
  <2>3. Cardinality(Registered) # Cardinality(Ahead_b)
    BY <2>1, BookIsFinite, FS_Subset
  <2>4. Cardinality(Ahead_b) \in Nat
    BY BookIsFinite, FS_CardinalityType
  <2>5. Cardinality(Ahead_b) < Cardinality(Registered) /\ Cardinality(Registered) \in Nat
    <3> HIDE DEF Ahead_b
    <3> QED BY <2>2, <2>3, <2>4, BookIsFinite DEF BidCount
  <2>6. Rank(b) = Cardinality(Ahead_b)
    BY DEF Rank
  <2> HIDE DEF Ahead_b
  <2> QED
    BY <2>4, <2>5, <2>6 DEF BidCount
<1> QED
  BY <1>1, <1>2

\* So the lookups by rank and by id find the bidder that is meant.
LEMMA LookupsFind ==
  ASSUME BookInv, NEW b \in Registered
  PROVE  BidderAtRank(Rank(b)) = b /\ BidderById(bidOf[b].id) = b
<1>1. \A c \in Registered : Rank(c) = Rank(b) => c = b
  BY RanksAreDistinct
<1>2. \A c \in Registered : bidOf[c].id = bidOf[b].id => c = b
  BY DEF BookInv
<1>3. BidderAtRank(Rank(b)) = b
  BY <1>1 DEF BidderAtRank
<1> QED
  BY <1>2, <1>3 DEF BidderById

\* Ranks are those of the book.
LEMMA SameBookSameRanks ==
  ASSUME bidOf' = bidOf
  PROVE  /\ Registered' = Registered /\ BidCount' = BidCount
         /\ \A b : Rank(b)' = Rank(b)
BY DEF Registered, BidCount, Rank

-----------------------------------------------------------------------------
(* Each kind of step keeps the invariant. *)

\* The time for bids is over once and for all.
LEMMA OverStays ==
  ASSUME TimedTypeOK, [TimedNext]_timedVars, Over
  PROVE  Over'
<1> USE DEF Over, State, TimedTypeOK, UNINITIALIZED, INITIALIZED, INITIALIZED_STARTED,
            INITIALIZED_STARTED_ENDED, INITIALIZED_STARTED_ENDED_TERMINATED
<1>1. CASE TimedInitialize
  BY <1>1 DEF TimedInitialize
<1>2. ASSUME NEW d \in Durations, NEW b \in BOOLEAN, TimedStart(d, b)
      PROVE  Over'
  BY <1>2 DEF TimedStart, CanStart
<1>3. CASE TimedStop
  BY <1>3 DEF TimedStop, CanStop
<1>4. ASSUME NEW b \in BOOLEAN, TimedTerminate(b)
      PROVE  Over'
  BY <1>4 DEF TimedTerminate, CanTerminate
<1>5. CASE Tick
  BY <1>5, MaxTimeAssumption DEF Tick
<1>6. CASE UNCHANGED timedVars
  BY <1>6 DEF timedVars
<1> QED
  BY <1>1, <1>2, <1>3, <1>4, <1>5, <1>6 DEF TimedNext

LEMMA OpenIsNotOver ==
  /\ Closed => Over
  /\ IsOpen => ~Over
  /\ WhenStarted => ~Over
BY DEF Closed, IsOpen, WhenStarted, Over, INITIALIZED_STARTED,
       INITIALIZED_STARTED_ENDED, INITIALIZED_STARTED_ENDED_TERMINATED

\* A step of the owner or of the clock.
LEMMA OwnerKeepsInv ==
  ASSUME TimedTypeOK, AuctionInv, [TimedNext]_timedVars,
         UNCHANGED <<ready, nextId, bidOf, balance, requests, claimVars, blindVars>>,
         iteratorBidCount' \in Nat
  PROVE  AuctionInv'
<1>1. Over => Over'
  BY OverStays
<1>2. /\ Registered' = Registered /\ BidCount' = BidCount
      /\ \A b : Rank(b)' = Rank(b)
  BY SameBookSameRanks
<1>3. BookInv' /\ PhaseInv'
  BY <1>1, <1>2 DEF AuctionInv, BookInv, PhaseInv, claimVars, blindVars
<1>4. RequestInv' /\ PaidInv'
  BY <1>2 DEF AuctionInv, RequestInv, PaidInv, claimVars
<1>5. BlindInv'
  BY <1>2 DEF AuctionInv, BlindInv, BlindRanksAreFair, blindVars
<1>6. CoverInv'
  BY <1>2 DEF AuctionInv, CoverInv, ValidBidsStayCovered, claimVars
<1> QED
  BY <1>3, <1>4, <1>5, <1>6 DEF AuctionInv

\* A step of a bidder while bids are taken: nothing depends on the book yet.
LEMMA BiddingKeepsInv ==
  ASSUME AuctionInv, ~Over, BookInv',
         UNCHANGED <<timedVars, ready, requests, claimVars, blindVars>>,
         \A b \in Registered' : MinimumDeposit <= balance'[b]
  PROVE  AuctionInv'
<1>1. ready = "nothing"
  BY DEF AuctionInv, PhaseInv
<1>2. /\ requests = {} /\ claimCompleted = {} /\ prizeAtRankAwarded = {}
      /\ blindClaimRequestCount = 0
  BY <1>1 DEF AuctionInv, PhaseInv
<1>3. PhaseInv' /\ RequestInv'
  BY <1>1, <1>2 DEF PhaseInv, RequestInv, claimVars, blindVars
<1>4. PaidInv'
  BY <1>2 DEF AuctionInv, PaidInv, claimVars
<1>5. BlindInv'
  <2>1. IsFiniteSet(Registered')
    BY AuctionAssumption, FS_Subset DEF Registered
  <2>2. BidCount' \in Nat
    BY <2>1, FS_CardinalityType DEF BidCount
  <2>3. blindClaimRequestCount' = 0 /\ blindClaimRequestCount' <= BidCount'
    BY <1>2, <2>2 DEF blindVars
  <2> QED
    BY <2>3 DEF AuctionInv, BlindInv, BlindRanksAreFair, blindVars
<1>6. CoverInv'
  BY <1>1, <1>2 DEF CoverInv, ValidBidsStayCovered, claimVars
<1> QED
  BY <1>3, <1>4, <1>5, <1>6 DEF AuctionInv

\* deposit(), bid(), cancelBid() and withdraw() keep the ids apart, the deposits
\* positive, and the minimum of those who have a bid.
LEMMA BidderKeepsInv ==
  ASSUME AuctionInv, NEW b \in Bidders,
         \/ \E amount \in Deposits : Deposit(b, amount) \/ Withdraw(b, amount)
         \/ \E offer \in Offers, amount \in Deposits \cup {0} : Bid(b, offer, amount)
         \/ CancelBid(b)
  PROVE  AuctionInv'
<1>1. ~Over
  BY OpenIsNotOver DEF Deposit, Withdraw, WithdrawAccepted, Bid, CancelBid
<1>2. /\ UNCHANGED <<timedVars, ready, requests, claimVars, blindVars>>
      /\ iteratorBidCount' \in Nat
  BY DEF Deposit, Withdraw, Bid, CancelBid, engineVars, AuctionInv, BookInv
<1>3. /\ bidOf \in [Bidders -> BidRecords] /\ balance \in [Bidders -> Nat]
      /\ nextId \in 1..(MaxNextId + 1)
      /\ \A c \in Bidders : bidOf[c].id < nextId
      /\ \A c, d \in Bidders :
           bidOf[c].id # 0 /\ bidOf[c].id = bidOf[d].id => c = d
  BY DEF AuctionInv, BookInv, Registered
<1>4. \A c \in Bidders : bidOf[c].id # 0 => MinimumDeposit <= balance[c]
  <2>1. claimCompleted = {}
    BY <1>1 DEF AuctionInv, PhaseInv
  <2> QED
    BY <2>1 DEF AuctionInv, CoverInv, Registered
<1> SUFFICES
      /\ bidOf' \in [Bidders -> BidRecords] /\ balance' \in [Bidders -> Nat]
      /\ nextId' \in 1..(MaxNextId + 1)
      /\ \A c \in Bidders : bidOf'[c].id < nextId'
      /\ \A c, d \in Bidders :
           bidOf'[c].id # 0 /\ bidOf'[c].id = bidOf'[d].id => c = d
      /\ \A c \in Bidders : bidOf'[c].id # 0 => MinimumDeposit <= balance'[c]
  BY <1>1, <1>2, BiddingKeepsInv DEF BookInv, Registered
<1>5. /\ MinimumDeposit \in Nat /\ Deposits \subseteq Nat /\ MaxNextId \in Nat
      /\ AuctionQuantity \in Nat
      /\ \A offer \in Offers : offer.price \in Nat /\ offer.quantity \in 0..AuctionQuantity
  BY AuctionAssumption
<1>6. ASSUME NEW amount \in Deposits, Deposit(b, amount)
      PROVE  /\ bidOf' = bidOf /\ nextId' = nextId
             /\ balance' = [balance EXCEPT ![b] = @ + amount]
  BY <1>6 DEF Deposit, Deposited, engineVars
<1>7. ASSUME NEW amount \in Deposits, Withdraw(b, amount)
      PROVE  /\ bidOf' = bidOf /\ nextId' = nextId
             /\ balance' = [balance EXCEPT ![b] = @ - Withdrawable(b, amount)]
             /\ Withdrawable(b, amount) \in 0..balance[b]
             /\ bidOf[b].id # 0 =>
                  MinimumDeposit <= balance[b] - Withdrawable(b, amount)
  <2>1. bidOf' = bidOf /\ nextId' = nextId
        /\ balance' = [balance EXCEPT ![b] = @ - Withdrawable(b, amount)]
    BY <1>7 DEF Withdraw, engineVars
  <2>2. amount \in Nat /\ balance[b] \in Nat
    BY <1>3, <1>5
  <2> QED
    BY <2>1, <2>2, <1>4, <1>5 DEF Withdrawable, Lesser, Registered
<1>8. ASSUME NEW offer \in Offers, NEW amount \in Deposits \cup {0},
             Bid(b, offer, amount)
      PROVE  /\ nextId <= MaxNextId /\ nextId' = nextId + 1 /\ nextId \in 0..MaxNextId
             /\ balance' = [balance EXCEPT ![b] = @ + amount]
             /\ amount \in Nat /\ MinimumDeposit <= balance[b] + amount
  <2>1. /\ nextId <= MaxNextId /\ nextId' = nextId + 1
        /\ balance' = [balance EXCEPT ![b] = @ + amount]
        /\ balance[b] + amount >= MinimumDeposit
    BY <1>8 DEF Bid, Deposited
  <2> QED
    BY <1>3, <1>5, <2>1
<1>9. CASE CancelBid(b)
  <2>1. /\ bidOf' = [bidOf EXCEPT ![b] = NoBid] /\ nextId' = nextId
        /\ balance' = [balance EXCEPT ![b] = 0]
    BY <1>9 DEF CancelBid
  <2>2. NoBid \in BidRecords /\ NoBid.id = 0
    BY <1>5 DEF NoBid, BidRecords
  <2> QED
    BY <1>3, <1>4, <1>5, <2>1, <2>2
<1>10. ASSUME NEW amount \in Deposits, Deposit(b, amount) \/ Withdraw(b, amount)
       PROVE  /\ bidOf' = bidOf /\ nextId' = nextId
              /\ balance' \in [Bidders -> Nat]
              /\ \A c \in Bidders : bidOf[c].id # 0 => MinimumDeposit <= balance'[c]
  BY <1>3, <1>4, <1>5, <1>6, <1>7, <1>10
<1>11. ASSUME NEW offer \in Offers, NEW amount \in Deposits \cup {0},
              Bid(b, offer, amount)
       PROVE  /\ bidOf' \in [Bidders -> BidRecords] /\ balance' \in [Bidders -> Nat]
              /\ nextId' \in 1..(MaxNextId + 1)
              /\ \A c \in Bidders : bidOf'[c].id < nextId'
              /\ \A c, d \in Bidders :
                   bidOf'[c].id # 0 /\ bidOf'[c].id = bidOf'[d].id => c = d
              /\ \A c \in Bidders : bidOf'[c].id # 0 => MinimumDeposit <= balance'[c]
  <2> DEFINE new == [price |-> offer.price, rand |-> 0, quantity |-> offer.quantity,
                     id |-> nextId]
  <2>0. /\ nextId <= MaxNextId /\ nextId' = nextId + 1 /\ nextId \in 0..MaxNextId
        /\ balance' = [balance EXCEPT ![b] = @ + amount]
        /\ amount \in Nat /\ MinimumDeposit <= balance[b] + amount
    BY <1>8, <1>11
  <2>1. new \in BidRecords /\ bidOf' = [bidOf EXCEPT ![b] = new] /\ new.id = nextId
    BY <1>5, <1>11, <2>0 DEF Bid, BidRecords
  <2> HIDE DEF new
  <2>2. \A c \in Bidders : bidOf'[c] = IF c = b THEN new ELSE bidOf[c]
    BY <1>3, <2>1
  <2>3. \A c \in Bidders : bidOf[c].id \in Nat
    BY <1>3, <1>5 DEF BidRecords
  <2>4. bidOf' \in [Bidders -> BidRecords]
    BY <1>3, <2>1
  <2>5. nextId' = nextId + 1 /\ nextId <= MaxNextId /\ nextId \in Nat
    BY <1>5, <2>0
  <2>6. \A c \in Bidders : bidOf'[c].id < nextId'
    BY <1>3, <2>1, <2>2, <2>3, <2>5
  <2>7. \A c, d \in Bidders :
           bidOf'[c].id # 0 /\ bidOf'[c].id = bidOf'[d].id => c = d
    BY <1>3, <2>1, <2>2, <2>3, <2>5
  <2>8. /\ balance' \in [Bidders -> Nat]
        /\ \A c \in Bidders : bidOf'[c].id # 0 => MinimumDeposit <= balance'[c]
    <3>1. \A c \in Bidders : balance'[c] = IF c = b THEN balance[b] + amount ELSE balance[c]
      BY <1>3, <2>0
    <3>2. balance' \in [Bidders -> Nat]
      BY <1>3, <2>0
    <3> QED
      BY <1>4, <2>0, <2>2, <3>1, <3>2
  <2> QED
    BY <1>3, <1>5, <2>4, <2>5, <2>6, <2>7, <2>8
<1> QED
  BY <1>3, <1>9, <1>10, <1>11

\* Validation makes every bid one that the deposit covers, and keeps its id.
LEMMA ValidatedIsCovered ==
  ASSUME AuctionInv, NEW b \in Bidders
  PROVE  /\ Validated(b) \in BidRecords
         /\ Validated(b).id = bidOf[b].id
         /\ Validated(b).price * Validated(b).quantity <= balance[b]
<1>1. bidOf[b] \in BidRecords /\ balance[b] \in Nat
  BY DEF AuctionInv, BookInv
<1>2. CASE bidOf[b].price * bidOf[b].quantity <= balance[b]
  BY <1>1, <1>2 DEF Validated
<1>3. CASE ~(bidOf[b].price * bidOf[b].quantity <= balance[b])
  <2>1. Validated(b) = [bidOf[b] EXCEPT !.price = 0, !.quantity = 0]
    BY <1>3 DEF Validated
  <2>2. Validated(b) = [price |-> 0, quantity |-> 0, id |-> bidOf[b].id,
                        rand |-> bidOf[b].rand]
    BY <1>1, <2>1 DEF BidRecords
  <2> QED
    BY AuctionAssumption, <1>1, <2>2 DEF BidRecords
<1> QED
  BY <1>2, <1>3

\* computeAuction() validates the bids once, and leaves a computed book alone.
LEMMA ComputeKeepsInv ==
  ASSUME AuctionInv, NEW stopIfReady \in BOOLEAN, ComputeAuction(stopIfReady)
  PROVE  AuctionInv' /\ Registered' = Registered
<1>1. /\ UNCHANGED <<timedVars, nextId, balance, requests, claimVars, blindVars>>
      /\ Over /\ Over' /\ iteratorBidCount' \in Nat
  <2>1. /\ UNCHANGED <<timedVars, nextId, balance, requests, claimVars, blindVars>>
        /\ Over /\ iteratorBidCount' \in Nat
    BY OpenIsNotOver, BookIsFinite DEF ComputeAuction, CloseEngine, AuctionInv, BookInv
  <2> QED
    BY <2>1 DEF Over, State, timedVars
<1>2. PICK i \in 1..4, j \in 1..4 :
        /\ Stages[i] = ready /\ i <= j /\ ready' = Stages[j]
        /\ bidOf' = IF i = 1 /\ j > 1
                    THEN [b \in Bidders |-> IF b \in Registered THEN Validated(b)
                                            ELSE bidOf[b]]
                    ELSE bidOf
  BY DEF ComputeAuction
<1>3. /\ ready \in {"nothing", "validated", "byRank", "byId"}
      /\ ready' \in {"nothing", "validated", "byRank", "byId"}
      /\ ready' = "nothing" => ready = "nothing"
  BY <1>2 DEF Stages
<1>4. CASE ~(i = 1 /\ j > 1)
  <2>0. bidOf' = bidOf /\ (ready' # "nothing" => ready # "nothing")
    BY <1>2, <1>4 DEF Stages
  <2>1. /\ Registered' = Registered /\ BidCount' = BidCount
        /\ \A b : Rank(b)' = Rank(b)
    BY <2>0, SameBookSameRanks
  <2>2. BookInv' /\ PhaseInv'
    BY <1>1, <1>3, <2>0, <2>1 DEF AuctionInv, BookInv, PhaseInv, claimVars, blindVars
  <2>3. RequestInv' /\ PaidInv'
    BY <1>1, <2>0, <2>1 DEF AuctionInv, RequestInv, PaidInv, claimVars
  <2>4. BlindInv'
    BY <1>1, <2>0, <2>1 DEF AuctionInv, BlindInv, BlindRanksAreFair, blindVars
  <2>5. CoverInv'
    BY <1>1, <2>0, <2>1 DEF AuctionInv, CoverInv, ValidBidsStayCovered, claimVars
  <2> QED
    BY <2>1, <2>2, <2>3, <2>4, <2>5 DEF AuctionInv
<1>5. CASE i = 1 /\ j > 1
  <2>1. /\ ready = "nothing" /\ ready' # "nothing"
        /\ bidOf' = [b \in Bidders |-> IF b \in Registered THEN Validated(b)
                                       ELSE bidOf[b]]
    BY <1>2, <1>5 DEF Stages
  <2>2. /\ requests = {} /\ claimCompleted = {} /\ prizeAtRankAwarded = {}
        /\ blindClaimRequestCount = 0
    BY <2>1 DEF AuctionInv, PhaseInv
  <2>3. bidOf \in [Bidders -> BidRecords] /\ balance \in [Bidders -> Nat]
        /\ AuctionQuantity \in Nat /\ MinimumDeposit \in Nat /\ PaymentPenalty \in Nat
        /\ PaymentPenalty <= MinimumDeposit
    BY AuctionAssumption DEF AuctionInv, BookInv
  <2>5. /\ \A b \in Bidders : bidOf'[b].id = bidOf[b].id
        /\ bidOf' \in [Bidders -> BidRecords]
        /\ \A b \in Registered :
             bidOf'[b].price * bidOf'[b].quantity <= balance[b]
    <3>1. \A b \in Bidders :
            bidOf'[b] = IF b \in Registered THEN Validated(b) ELSE bidOf[b]
      BY <2>1
    <3>2. \A b \in Bidders : bidOf'[b] \in BidRecords
      BY ValidatedIsCovered, <2>3, <3>1
    <3>3. bidOf' \in [Bidders -> BidRecords]
      BY <2>1, <3>1, <3>2
    <3>4. \A b \in Bidders : bidOf'[b].id = bidOf[b].id
      BY ValidatedIsCovered, <3>1
    <3>5. \A b \in Registered :
             bidOf'[b].price * bidOf'[b].quantity <= balance[b]
      <4>1. \A b \in Registered : b \in Bidders /\ bidOf'[b] = Validated(b)
        BY <3>1 DEF Registered
      <4> QED
        BY ValidatedIsCovered, <4>1
    <3> QED
      BY <3>3, <3>4, <3>5
  <2>6. Registered' = Registered
    BY <2>5 DEF Registered
  <2>7. BookInv'
    BY <1>1, <2>5, <2>6 DEF AuctionInv, BookInv, Registered
  <2>8. PhaseInv' /\ RequestInv' /\ PaidInv'
    BY <1>1, <1>3, <2>1, <2>2
       DEF AuctionInv, PhaseInv, RequestInv, PaidInv, claimVars, blindVars
  <2>9. BlindInv'
    BY <1>1, <2>6 DEF AuctionInv, BlindInv, BlindRanksAreFair, BidCount, blindVars
  <2>10. CoverInv'
    <3>1. \A b \in Registered : MinimumDeposit <= balance[b]
      BY <2>2 DEF AuctionInv, CoverInv
    <3>2. \A b \in Registered : PaymentPenalty <= balance[b]
      BY <2>3, <3>1 DEF Registered
    <3> QED
      BY <1>1, <2>5, <2>6, <3>1, <3>2 DEF CoverInv, ValidBidsStayCovered
  <2> QED
    BY <2>6, <2>7, <2>8, <2>9, <2>10 DEF AuctionInv
<1> QED
  BY <1>4, <1>5

\* A call that only asks for something, and what a blind claim stores beside it.
LEMMA AskingKeepsInv ==
  ASSUME AuctionInv, ready # "nothing", BlindInv',
         UNCHANGED <<timedVars, engineVars, balance, claimVars>>,
         \A r \in requests' \ requests :
           /\ r.content.kind = "claim" => r.content.bidder \in Registered
           /\ r.content.kind = "award" =>
                \E b \in Registered :
                  Rank(b) = r.content.rank /\ bidOf[b].id = r.content.id
  PROVE  AuctionInv'
<1>1. /\ Registered' = Registered /\ BidCount' = BidCount
      /\ \A b : Rank(b)' = Rank(b)
  BY SameBookSameRanks DEF engineVars
<1>2. Over' = Over
  BY DEF Over, State, timedVars
<1>3. BookInv' /\ PhaseInv'
  BY <1>1, <1>2 DEF AuctionInv, BookInv, PhaseInv, engineVars, claimVars
<1>4. RequestInv'
  BY <1>1 DEF AuctionInv, RequestInv, engineVars
<1>5. PaidInv'
  BY <1>1 DEF AuctionInv, PaidInv, claimVars
<1>6. CoverInv'
  BY <1>1 DEF AuctionInv, CoverInv, ValidBidsStayCovered, claimVars, engineVars
<1> QED
  BY <1>3, <1>4, <1>5, <1>6 DEF AuctionInv

\* What is asked of the gateway is added to what it was asked for before.
LEMMA RequestIsNew ==
  ASSUME NEW content, Request(content), NEW r \in requests' \ requests
  PROVE  r.content = content
BY DEF Request

LEMMA AwardRankNamesBidder ==
  ASSUME NEW k, AwardRank(k), NEW r \in requests' \ requests
  PROVE  /\ r.content.kind = "award"
         /\ \E b \in Registered : Rank(b) = r.content.rank /\ bidOf[b].id = r.content.id
<1>1. PICK b \in Registered :
        /\ Rank(b) = k
        /\ Request([kind |-> "award", rank |-> k, id |-> bidOf[b].id,
                    price |-> bidOf[b].price, quantity |-> WonBy(b)])
  BY DEF AwardRank
<1>2. r.content = [kind |-> "award", rank |-> k, id |-> bidOf[b].id,
                   price |-> bidOf[b].price, quantity |-> WonBy(b)]
  BY <1>1, RequestIsNew
<1> QED
  BY <1>1, <1>2

\* decryptUniformPrice(), claim() and awardPrizeAtRank() keep the invariant.
LEMMA RequestsKeepInv ==
  ASSUME AuctionInv,
         \/ DecryptUniformPrice
         \/ \E b \in Bidders : Claim(b)
         \/ \E k \in Ranks : AwardPrizeAtRank(k)
  PROVE  AuctionInv' /\ UNCHANGED <<timedVars, engineVars, claimVars>>
<1>1. UNCHANGED <<timedVars, engineVars, balance, claimVars, blindVars>>
      /\ ready # "nothing"
  BY DEF DecryptUniformPrice, Claim, AwardPrizeAtRank, AwardRank, ByRankReady, ByIdReady
<1>2. BlindInv'
  BY <1>1, SameBookSameRanks
     DEF AuctionInv, BlindInv, BlindRanksAreFair, engineVars, blindVars
<1>3. ASSUME NEW r \in requests' \ requests
      PROVE  /\ r.content.kind = "claim" => r.content.bidder \in Registered
             /\ r.content.kind = "award" =>
                  \E b \in Registered :
                    Rank(b) = r.content.rank /\ bidOf[b].id = r.content.id
  <2>1. CASE DecryptUniformPrice
    <3>1. r.content = [kind |-> "price", price |-> UniformPrice]
      BY <1>3, <2>1, RequestIsNew DEF DecryptUniformPrice
    <3> QED
      BY <3>1
  <2>2. ASSUME NEW b \in Bidders, Claim(b)
        PROVE  r.content.kind = "claim" /\ r.content.bidder \in Registered
    <3>1. r.content = [kind |-> "claim", bidder |-> b, price |-> bidOf[b].price,
                       quantity |-> WonBy(b)]
      BY <1>3, <2>2, RequestIsNew DEF Claim
    <3> QED
      BY <2>2, <3>1 DEF Claim
  <2>3. ASSUME NEW k \in Ranks, AwardPrizeAtRank(k)
        PROVE  /\ r.content.kind = "award"
               /\ \E b \in Registered :
                    Rank(b) = r.content.rank /\ bidOf[b].id = r.content.id
    BY <1>3, <2>3, AwardRankNamesBidder DEF AwardPrizeAtRank
  <2> QED
    BY <2>1, <2>2, <2>3
<1> QED
  BY <1>1, <1>2, <1>3, AskingKeepsInv

\* blindClaim() gives a bidder the next rank, of which there is one, or none.
LEMMA BlindClaimKeepsInv ==
  ASSUME AuctionInv, NEW b \in Bidders, BlindClaim(b)
  PROVE  AuctionInv' /\ UNCHANGED <<timedVars, engineVars, claimVars>>
<1> DEFINE rankPlusOne == IF blindRankPlusOne[b] # 0 THEN blindRankPlusOne[b]
                          ELSE blindClaimRequestCount + 1
<1>1. /\ blindRankPlusOne[b] = 0 => b \in Registered
      /\ blindRankPlusOne' = [blindRankPlusOne EXCEPT ![b] = rankPlusOne]
      /\ blindClaimRequestCount' = IF blindRankPlusOne[b] = 0 THEN rankPlusOne
                                   ELSE blindClaimRequestCount
      /\ \/ rankPlusOne - 1 \in prizeAtRankAwarded /\ UNCHANGED requests
         \/ AwardRank(rankPlusOne - 1)
      /\ UNCHANGED <<timedVars, engineVars, balance, claimVars>>
  BY DEF BlindClaim
<1>2. /\ blindRankPlusOne \in [Bidders -> Nat] /\ blindClaimRequestCount \in Nat
      /\ \A c, d \in Bidders :
           blindRankPlusOne[c] = blindRankPlusOne[d] /\ blindRankPlusOne[c] # 0 => c = d
      /\ \A c \in Bidders : blindRankPlusOne[c] # 0
                              => blindRankPlusOne[c] \in 1..blindClaimRequestCount
      /\ \A n \in 1..blindClaimRequestCount : \E c \in Bidders : blindRankPlusOne[c] = n
      /\ blindClaimRequestCount <= BidCount
  <2>1. /\ blindRankPlusOne \in [Bidders -> Nat] /\ blindClaimRequestCount \in Nat
        /\ BlindRanksAreFair
    BY DEF AuctionInv, BlindInv
  <2>2. {blindRankPlusOne[c] : c \in Bidders} \ {0} = 1..blindClaimRequestCount
    BY <2>1 DEF BlindRanksAreFair
  <2>3. \A c \in Bidders : blindRankPlusOne[c] # 0
                             => blindRankPlusOne[c] \in 1..blindClaimRequestCount
    BY <2>2
  <2>4. \A n \in 1..blindClaimRequestCount : \E c \in Bidders : blindRankPlusOne[c] = n
    BY <2>2
  <2> QED
    BY <2>1, <2>3, <2>4 DEF BlindRanksAreFair
<1>3. \E c \in Registered : Rank(c) = rankPlusOne - 1
  <2>1. CASE rankPlusOne - 1 \in prizeAtRankAwarded
    BY <2>1 DEF AuctionInv, PaidInv
  <2>2. CASE AwardRank(rankPlusOne - 1)
    BY <2>2 DEF AwardRank
  <2> QED
    BY <1>1, <2>1, <2>2
<1>4. ready # "nothing"
  <2>1. CASE rankPlusOne - 1 \in prizeAtRankAwarded
    BY <2>1 DEF AuctionInv, PhaseInv
  <2>2. CASE AwardRank(rankPlusOne - 1)
    BY <2>2 DEF AwardRank, ByRankReady
  <2> QED
    BY <1>1, <2>1, <2>2
<1>5. BidCount \in Nat /\ BidCount' = BidCount /\ Registered' = Registered
  BY <1>1, BookIsFinite, SameBookSameRanks DEF engineVars
<1>6. rankPlusOne - 1 \in 0..(BidCount - 1)
  <2> HIDE DEF rankPlusOne
  <2> QED BY <1>3, RanksAreDistinct DEF AuctionInv
<1>7. BlindInv'
  <2>1. CASE blindRankPlusOne[b] # 0
    <3>1. blindRankPlusOne' = blindRankPlusOne
          /\ blindClaimRequestCount' = blindClaimRequestCount
      BY <1>1, <1>2, <2>1
    <3> QED
      BY <1>5, <3>1 DEF AuctionInv, BlindInv, BlindRanksAreFair
  <2>2. CASE blindRankPlusOne[b] = 0
    <3>1. /\ rankPlusOne = blindClaimRequestCount + 1
          /\ blindClaimRequestCount' = blindClaimRequestCount + 1
          /\ blindClaimRequestCount + 1 <= BidCount
      BY <1>1, <1>2, <1>5, <1>6, <2>2
    <3>2. /\ \A c \in Bidders : blindRankPlusOne'[c] =
               IF c = b THEN blindClaimRequestCount + 1 ELSE blindRankPlusOne[c]
          /\ blindRankPlusOne' \in [Bidders -> Nat]
      BY <1>1, <1>2, <3>1
    <3>3. \A c, d \in Bidders :
            blindRankPlusOne'[c] = blindRankPlusOne'[d] /\ blindRankPlusOne'[c] # 0
              => c = d
      BY <1>2, <3>2
    <3>4. \A c \in Bidders : blindRankPlusOne'[c] # 0
            => blindRankPlusOne'[c] \in 1..(blindClaimRequestCount + 1)
      BY <1>2, <3>2
    <3>5. \A n \in 1..(blindClaimRequestCount + 1) :
            \E c \in Bidders : blindRankPlusOne'[c] = n
      <4> TAKE n \in 1..(blindClaimRequestCount + 1)
      <4>1. CASE n = blindClaimRequestCount + 1
        BY <3>2, <4>1
      <4>2. CASE n \in 1..blindClaimRequestCount
        <5>1. PICK c \in Bidders : blindRankPlusOne[c] = n
          BY <1>2, <4>2
        <5>2. c # b
          BY <2>2, <4>2, <5>1
        <5> QED
          BY <3>2, <5>1, <5>2
      <4> QED
        BY <1>2, <4>1, <4>2
    <3>6. {blindRankPlusOne'[c] : c \in Bidders} \ {0} = 1..(blindClaimRequestCount + 1)
      <4>1. {blindRankPlusOne'[c] : c \in Bidders} \ {0}
              \subseteq 1..(blindClaimRequestCount + 1)
        BY <3>4
      <4>2. 1..(blindClaimRequestCount + 1)
              \subseteq {blindRankPlusOne'[c] : c \in Bidders} \ {0}
        BY <1>2, <3>5
      <4> QED
        BY <4>1, <4>2
    <3> QED
      BY <1>2, <1>5, <3>1, <3>2, <3>3, <3>6 DEF BlindInv, BlindRanksAreFair
  <2> QED
    BY <2>1, <2>2
<1>8. ASSUME NEW r \in requests' \ requests
      PROVE  /\ r.content.kind = "claim" => r.content.bidder \in Registered
             /\ r.content.kind = "award" =>
                  \E c \in Registered :
                    Rank(c) = r.content.rank /\ bidOf[c].id = r.content.id
  BY <1>1, <1>8, AwardRankNamesBidder
<1> QED
  BY <1>1, <1>4, <1>7, <1>8, AskingKeepsInv

\* What an answer does to the marks: one bidder of the book that was not paid is
\* paid, and with an award its rank is marked, which was not.
PaysOneBidder ==
  \E b \in Registered \ claimCompleted :
    /\ claimCompleted' = claimCompleted \cup {b}
    /\ claimCompletedCount' = claimCompletedCount + 1
    /\ balance' = [balance EXCEPT ![b] = 0]
    /\ \/ UNCHANGED <<prizeAtRankAwarded, prizeAtRankAwardedCount>>
       \/ /\ Rank(b) \notin prizeAtRankAwarded
          /\ prizeAtRankAwarded' = prizeAtRankAwarded \cup {Rank(b)}
          /\ prizeAtRankAwardedCount' = prizeAtRankAwardedCount + 1

LEMMA AnswersPayOneBidder ==
  ASSUME AuctionInv, NEW r \in requests,
         CallbackDecryptWonQuantity(r) \/ CallbackDecryptRankedWonQuantity(r)
  PROVE  PaysOneBidder
<1>1. CASE CallbackDecryptWonQuantity(r)
  <2>1. r.content.bidder \in Registered
    BY <1>1 DEF AuctionInv, RequestInv, CallbackDecryptWonQuantity
  <2> QED
    BY <1>1, <2>1 DEF CallbackDecryptWonQuantity, PayBidder, PaysOneBidder
<1>2. CASE CallbackDecryptRankedWonQuantity(r)
  <2>1. PICK b \in Registered : Rank(b) = r.content.rank /\ bidOf[b].id = r.content.id
    BY <1>2 DEF AuctionInv, RequestInv, CallbackDecryptRankedWonQuantity
  <2>2. BidderById(r.content.id) = b
    BY <2>1, LookupsFind DEF AuctionInv
  <2> QED
    BY <1>2, <2>1, <2>2
       DEF CallbackDecryptRankedWonQuantity, PayBidder, PaysOneBidder
<1> QED
  BY <1>1, <1>2

\* A payment keeps the invariant.
LEMMA PaymentKeepsInv ==
  ASSUME AuctionInv, PaysOneBidder, ready # "nothing", requests' \subseteq requests,
         UNCHANGED <<timedVars, engineVars, blindVars>>
  PROVE  AuctionInv'
<1>1. PICK b \in Registered \ claimCompleted :
        /\ claimCompleted' = claimCompleted \cup {b}
        /\ claimCompletedCount' = claimCompletedCount + 1
        /\ balance' = [balance EXCEPT ![b] = 0]
        /\ \/ UNCHANGED <<prizeAtRankAwarded, prizeAtRankAwardedCount>>
           \/ /\ Rank(b) \notin prizeAtRankAwarded
              /\ prizeAtRankAwarded' = prizeAtRankAwarded \cup {Rank(b)}
              /\ prizeAtRankAwardedCount' = prizeAtRankAwardedCount + 1
  BY DEF PaysOneBidder
<1>2. /\ Registered' = Registered /\ BidCount' = BidCount
      /\ \A c : Rank(c)' = Rank(c)
      /\ Over' = Over /\ bidOf' = bidOf
  BY SameBookSameRanks DEF engineVars, Over, State, timedVars
<1>3. /\ balance \in [Bidders -> Nat] /\ balance' \in [Bidders -> Nat]
      /\ \A c \in Registered \ claimCompleted' : balance'[c] = balance[c]
      /\ \A c \in Registered \ claimCompleted' : c \in Registered \ claimCompleted
  BY <1>1 DEF AuctionInv, BookInv, Registered
<1>4. BookInv' /\ PhaseInv' /\ RequestInv'
  BY <1>2, <1>3 DEF AuctionInv, BookInv, PhaseInv, RequestInv, engineVars
<1>5. PaidInv'
  <2>1. /\ IsFiniteSet(claimCompleted') /\ claimCompleted' \subseteq Registered
        /\ claimCompletedCount' = Cardinality(claimCompleted')
    <3>1. IsFiniteSet(claimCompleted)
          /\ claimCompletedCount = Cardinality(claimCompleted)
          /\ claimCompleted \subseteq Registered
      BY DEF AuctionInv, PaidInv
    <3> QED
      BY <1>1, <3>1, FS_AddElement
  <2>2. /\ IsFiniteSet(prizeAtRankAwarded')
        /\ prizeAtRankAwardedCount' = Cardinality(prizeAtRankAwarded')
        /\ \A k \in prizeAtRankAwarded' : k \in prizeAtRankAwarded \/ k = Rank(b)
    <3>1. IsFiniteSet(prizeAtRankAwarded)
          /\ prizeAtRankAwardedCount = Cardinality(prizeAtRankAwarded)
      BY DEF AuctionInv, PaidInv
    <3> QED
      BY <1>1, <3>1, FS_AddElement
  <2>3. \A k \in prizeAtRankAwarded' : \E c \in claimCompleted' : Rank(c) = k
    BY <1>1, <2>2 DEF AuctionInv, PaidInv
  <2> QED
    BY <1>2, <2>1, <2>2, <2>3 DEF PaidInv
<1>6. BlindInv'
  BY <1>2 DEF AuctionInv, BlindInv, BlindRanksAreFair, blindVars
<1>7. CoverInv'
  BY <1>2, <1>3 DEF AuctionInv, CoverInv, ValidBidsStayCovered, engineVars
<1> QED
  BY <1>4, <1>5, <1>6, <1>7 DEF AuctionInv

\* The answer of the price, and an answer that is lost.
LEMMA OtherAnswersKeepInv ==
  ASSUME AuctionInv, NEW r \in requests,
         CallbackDecryptUniformPrice(r) \/ RequestLost(r)
  PROVE  AuctionInv' /\ UNCHANGED <<timedVars, engineVars, claimVars>>
<1>1. /\ UNCHANGED <<timedVars, engineVars, balance, claimVars, blindVars>>
      /\ requests' \subseteq requests
  BY DEF CallbackDecryptUniformPrice, RequestLost
<1>2. ready # "nothing"
  BY DEF AuctionInv, PhaseInv
<1>3. BlindInv'
  BY <1>1, SameBookSameRanks
     DEF AuctionInv, BlindInv, BlindRanksAreFair, engineVars, blindVars
<1> QED
  BY <1>1, <1>2, <1>3, AskingKeepsInv

LEMMA AnswersKeepInv ==
  ASSUME AuctionInv, NEW r \in requests,
         CallbackDecryptWonQuantity(r) \/ CallbackDecryptRankedWonQuantity(r)
  PROVE  AuctionInv' /\ UNCHANGED <<timedVars, engineVars>>
<1>1. /\ UNCHANGED <<timedVars, engineVars, blindVars>>
      /\ requests' \subseteq requests
  BY DEF CallbackDecryptWonQuantity, CallbackDecryptRankedWonQuantity
<1>2. ready # "nothing"
  BY DEF AuctionInv, PhaseInv
<1> QED
  BY <1>1, <1>2, AnswersPayOneBidder, PaymentKeepsInv

-----------------------------------------------------------------------------
(* The theorems *)

LEMMA InitHasInv == AuctionInit => AuctionInv
<1> SUFFICES ASSUME AuctionInit PROVE AuctionInv
  OBVIOUS
<1>1. /\ \A b \in Bidders : bidOf[b] = NoBid /\ balance[b] = 0 /\ blindRankPlusOne[b] = 0
      /\ Registered = {} /\ NoBid \in BidRecords
  BY AuctionAssumption DEF AuctionInit, Registered, NoBid, BidRecords
<1>2. BookInv
  BY <1>1, AuctionAssumption DEF AuctionInit, BookInv, NoBid
<1>3. PhaseInv /\ RequestInv
  BY DEF AuctionInit, PhaseInv, RequestInv
<1>4. PaidInv
  BY FS_EmptySet DEF AuctionInit, PaidInv
<1>5. BlindInv
  <2>1. BidCount = 0
    BY <1>1, FS_EmptySet DEF BidCount
  <2>2. {blindRankPlusOne[b] : b \in Bidders} \ {0} = {} /\ 1..0 = {}
    BY <1>1
  <2> QED
    BY <1>1, <2>1, <2>2 DEF AuctionInit, BlindInv, BlindRanksAreFair
<1>6. CoverInv
  BY <1>1 DEF AuctionInit, CoverInv, ValidBidsStayCovered
<1> QED
  BY <1>2, <1>3, <1>4, <1>5, <1>6 DEF AuctionInv

LEMMA StepKeepsInv ==
  TimedTypeOK /\ AuctionInv /\ [AuctionNext]_auctionVars => AuctionInv'
<1> SUFFICES ASSUME TimedTypeOK, AuctionInv, [AuctionNext]_auctionVars
             PROVE  AuctionInv'
  OBVIOUS
<1>0. [TimedNext]_timedVars
  BY AuctionStepsAreTimedSteps
<1>1. CASE \/ Initialize
           \/ \E d \in Durations, isStoppable \in BOOLEAN : Start(d, isStoppable)
           \/ Stop \/ Terminate \/ NextBlock \/ UNCHANGED auctionVars
  <2>1. UNCHANGED <<ready, nextId, bidOf, balance, requests, claimVars, blindVars>>
    BY <1>1 DEF Initialize, Start, Stop, Terminate, NextBlock, auctionVars, engineVars
  <2>2. iteratorBidCount' \in Nat
    BY <1>1, BookIsFinite DEF Initialize, Start, Stop, CloseEngine, Terminate, NextBlock,
                              auctionVars, engineVars, AuctionInv, BookInv
  <2> QED
    BY <1>0, <2>1, <2>2, OwnerKeepsInv
<1>2. ASSUME NEW b \in Bidders,
             \/ \E amount \in Deposits : Deposit(b, amount) \/ Withdraw(b, amount)
             \/ \E offer \in Offers, amount \in Deposits \cup {0} : Bid(b, offer, amount)
             \/ CancelBid(b)
      PROVE  AuctionInv'
  BY <1>2, BidderKeepsInv
<1>3. ASSUME NEW stopIfReady \in BOOLEAN, ComputeAuction(stopIfReady)
      PROVE  AuctionInv'
  BY <1>3, ComputeKeepsInv
<1>4. CASE \/ DecryptUniformPrice
           \/ \E b \in Bidders : Claim(b)
           \/ \E k \in Ranks : AwardPrizeAtRank(k)
  BY <1>4, RequestsKeepInv
<1>5. ASSUME NEW b \in Bidders, BlindClaim(b)
      PROVE  AuctionInv'
  BY <1>5, BlindClaimKeepsInv
<1>6. ASSUME NEW r \in requests,
             \/ CallbackDecryptUniformPrice(r) \/ CallbackDecryptWonQuantity(r)
             \/ CallbackDecryptRankedWonQuantity(r) \/ RequestLost(r)
      PROVE  AuctionInv'
  BY <1>6, AnswersKeepInv, OtherAnswersKeepInv
<1> QED
  BY <1>1, <1>2, <1>3, <1>4, <1>5, <1>6 DEF AuctionNext

\* The invariant holds in every state of an auction.
THEOREM AuctionInvariant == AuctionSpec => []AuctionInv
BY InitHasInv, StepKeepsInv, AuctionFollowsStateGraph, PTL DEF AuctionSpec

\* Between validation and payment no deposit falls below what its bid, or the
\* penalty for it, will take: withdraw() and cancelBid() end with the time for
\* bids, and a payment empties the deposit of the bidder it marks only.
THEOREM DepositsCoverBids == AuctionSpec => []ValidBidsStayCovered
<1>1. AuctionInv => ValidBidsStayCovered
  BY DEF AuctionInv, CoverInv
<1> QED
  BY <1>1, AuctionInvariant, PTL

\* Either counter that _canTerminateAfterStart() looks at is right, and a rank is
\* marked only with its bidder, however claims and awards race.
THEOREM CountersAlwaysAgree == AuctionSpec => []CountersAgree
<1>1. AuctionInv => CountersAgree
  <2> SUFFICES ASSUME AuctionInv PROVE CountersAgree
    OBVIOUS
  <2>1. ASSUME NEW k \in prizeAtRankAwarded
        PROVE  BidderAtRank(k) \in claimCompleted
    <3>1. PICK b \in claimCompleted : Rank(b) = k
      BY <2>1 DEF AuctionInv, PaidInv
    <3>2. BidderAtRank(k) = b
      BY <3>1, LookupsFind DEF AuctionInv, PaidInv
    <3> QED
      BY <3>1, <3>2
  <2> QED
    BY <2>1 DEF AuctionInv, PaidInv, CountersAgree
<1> QED
  BY <1>1, AuctionInvariant, PTL

\* Whatever awards and claims happen in between, blindClaim() gives every bidder
\* that asks a rank of its own, without gaps, and there is one for each.
THEOREM BlindRanksAlwaysFair == AuctionSpec => []BlindRanksAreFair
<1>1. AuctionInv => BlindRanksAreFair
  BY DEF AuctionInv, BlindInv
<1> QED
  BY <1>1, AuctionInvariant, PTL

-----------------------------------------------------------------------------
(* Settlement *)

\* There is no bid before the start, and a terminated auction has paid everybody.
SettledInv ==
  /\ flags \in {UNINITIALIZED, INITIALIZED, INITIALIZED_TERMINATED} => Registered = {}
  /\ Terminated => claimCompleted = Registered

\* The condition of terminate() is enough: either counter at bidCount() means that
\* everybody in the book is paid.
LEMMA TerminationIsSettled ==
  ASSUME AuctionInv, CanTerminateAfterStart
  PROVE  claimCompleted = Registered
<1>1. claimCompleted \subseteq Registered /\ IsFiniteSet(Registered)
  BY BookIsFinite DEF AuctionInv, PaidInv
<1>2. CASE claimCompletedCount = BidCount
  <2>1. Cardinality(Registered) = Cardinality(claimCompleted)
    BY <1>2 DEF AuctionInv, PaidInv, BidCount
  <2> QED
    BY <1>1, <2>1, FS_Subset
<1>3. CASE prizeAtRankAwardedCount = BidCount
  <2>1. prizeAtRankAwarded \subseteq 0..(BidCount - 1)
    BY RanksAreDistinct DEF AuctionInv, PaidInv
  <2>2. BidCount \in Nat
    BY BookIsFinite
  <2>3. IsFiniteSet(0..(BidCount - 1)) /\ Cardinality(0..(BidCount - 1)) = BidCount
    BY <2>2, FS_Interval
  <2>4. Cardinality(prizeAtRankAwarded) = BidCount
    BY <1>3 DEF AuctionInv, PaidInv
  <2>5. prizeAtRankAwarded = 0..(BidCount - 1)
    BY <2>1, <2>3, <2>4, FS_Subset
  <2>6. ASSUME NEW b \in Registered
        PROVE  b \in claimCompleted
    <3>1. Rank(b) \in prizeAtRankAwarded
      BY <2>5, RanksAreDistinct DEF AuctionInv
    <3>2. PICK c \in claimCompleted : Rank(c) = Rank(b)
      BY <3>1 DEF AuctionInv, PaidInv
    <3> QED
      BY <1>1, <3>2, RanksAreDistinct DEF AuctionInv
  <2> QED
    BY <1>1, <2>6
<1> QED
  BY <1>2, <1>3 DEF CanTerminateAfterStart

Stage == IF Terminated THEN "over" ELSE IF Closed THEN "settling" ELSE "bidding"

\* A step of Settlement, or a stutter, in terms of the auction.
SettlementStep ==
  \/ UNCHANGED <<Stage, Registered, claimCompleted>>
  \/ \E b \in Bidders :
       /\ Stage = "bidding" /\ b \notin Registered
       /\ Registered' = Registered \cup {b} /\ UNCHANGED <<Stage, claimCompleted>>
  \/ \E b \in Bidders :
       /\ Stage = "bidding" /\ b \in Registered
       /\ Registered' = Registered \ {b} /\ UNCHANGED <<Stage, claimCompleted>>
  \/ \E b \in Bidders :
       /\ Stage = "settling" /\ b \in Registered \ claimCompleted
       /\ claimCompleted' = claimCompleted \cup {b} /\ UNCHANGED <<Stage, Registered>>
  \/ Stage = "bidding" /\ Stage' = "settling" /\ UNCHANGED <<Registered, claimCompleted>>
  \/ /\ Stage # "over" /\ claimCompleted = Registered /\ Stage' = "over"
     /\ UNCHANGED <<Registered, claimCompleted>>

LEMMA SettlementStepsAreSteps ==
  SettlementStep => [Settled!SettlementNext]_(Settled!settlementVars)
BY DEF SettlementStep, Stage, Settled!SettlementNext, Settled!settlementVars,
       Settled!Enter, Settled!Leave, Settled!Pay, Settled!CloseBook, Settled!Finish

\* initialize(), start(), stop() and the clock end the time for bids or change
\* nothing; terminate() finds everybody paid.
LEMMA OwnerSettles ==
  ASSUME TimedTypeOK, AuctionInv, SettledInv, [TimedNext]_timedVars,
         UNCHANGED <<bidOf, claimCompleted>>,
         \/ TimedInitialize
         \/ \E d \in Durations, b \in BOOLEAN : TimedStart(d, b)
         \/ TimedStop
         \/ TimedTerminate(CanTerminateAfterStart)
         \/ Tick
         \/ UNCHANGED timedVars
  PROVE  SettledInv' /\ SettlementStep
<1>1. Registered' = Registered
  BY SameBookSameRanks
<1> USE DEF SettledInv, SettlementStep, Stage, Terminated, Closed, State, UNINITIALIZED,
            INITIALIZED, INITIALIZED_TERMINATED, INITIALIZED_STARTED,
            INITIALIZED_STARTED_ENDED, INITIALIZED_STARTED_ENDED_TERMINATED
<1>2. CASE TimedInitialize
  BY <1>1, <1>2 DEF TimedInitialize
<1>3. ASSUME NEW d \in Durations, NEW b \in BOOLEAN, TimedStart(d, b)
      PROVE  SettledInv' /\ SettlementStep
  <2>1. now \in Nat /\ d \in Nat /\ d # 0
    BY <1>3, DurationsAssumption, MaxTimeAssumption DEF TimedStart, TimedTypeOK
  <2> QED
    BY <1>1, <1>3, <2>1 DEF TimedStart, CanStart
<1>4. CASE TimedStop
  BY <1>1, <1>4 DEF TimedStop, CanStop
<1>5. CASE TimedTerminate(CanTerminateAfterStart)
  <2>1. CASE flags = INITIALIZED
    <3>1. ~Over
      BY <2>1 DEF Over
    <3>2. claimCompleted = {} /\ Registered = {}
      BY <2>1, <3>1 DEF AuctionInv, PhaseInv
    <3> QED
      BY <1>1, <1>5, <2>1, <3>2 DEF TimedTerminate, CanTerminate
  <2>2. CASE flags # INITIALIZED
    <3>1. CanTerminateAfterStart
      BY <1>5, <2>2 DEF TimedTerminate, CanTerminate
    <3>2. claimCompleted = Registered
      BY <3>1, TerminationIsSettled
    <3> QED
      BY <1>1, <1>5, <2>2, <3>2 DEF TimedTerminate, CanTerminate
  <2> QED
    BY <2>1, <2>2
<1>6. CASE Tick
  <2>1. now \in Nat /\ endTime \in Nat
    BY MaxTimeAssumption DEF TimedTypeOK
  <2> QED
    BY <1>1, <1>6, <2>1 DEF Tick
<1>7. CASE UNCHANGED timedVars
  BY <1>1, <1>7 DEF timedVars
<1> QED
  BY <1>2, <1>3, <1>4, <1>5, <1>6, <1>7

\* bid() enters the book and cancelBid() leaves it, while it is open.
LEMMA BidderSettles ==
  ASSUME AuctionInv, SettledInv, NEW b \in Bidders,
         \/ \E amount \in Deposits : Deposit(b, amount) \/ Withdraw(b, amount)
         \/ \E offer \in Offers, amount \in Deposits \cup {0} : Bid(b, offer, amount)
         \/ CancelBid(b)
  PROVE  SettledInv' /\ SettlementStep
<1>1. /\ UNCHANGED <<timedVars, claimCompleted>>
      /\ Stage' = Stage /\ Terminated' = Terminated
  <2>1. UNCHANGED <<timedVars, claimCompleted>>
    BY DEF Deposit, Withdraw, Bid, CancelBid, claimVars
  <2> QED
    BY <2>1 DEF Stage, Terminated, Closed, State, timedVars
<1>2. CASE \E amount \in Deposits : Deposit(b, amount) \/ Withdraw(b, amount)
  <2>1. bidOf' = bidOf
    BY <1>2 DEF Deposit, Withdraw, engineVars
  <2>2. Registered' = Registered
    BY <2>1, SameBookSameRanks
  <2> QED
    BY <1>1, <2>2 DEF SettledInv, SettlementStep, timedVars
<1>3. CASE \/ \E offer \in Offers, amount \in Deposits \cup {0} : Bid(b, offer, amount)
           \/ CancelBid(b)
  <2>1. IsOpen
    BY <1>3 DEF Bid, CancelBid
  <2>2. Stage = "bidding" /\ flags = INITIALIZED_STARTED
    BY <2>1 DEF IsOpen, Stage, Terminated, Closed, State, INITIALIZED_STARTED,
                INITIALIZED_STARTED_ENDED, INITIALIZED_STARTED_ENDED_TERMINATED,
                INITIALIZED_TERMINATED
  <2>3. SettledInv'
    BY <1>1, <2>2
       DEF SettledInv, timedVars, UNINITIALIZED, INITIALIZED, INITIALIZED_STARTED,
           INITIALIZED_TERMINATED, INITIALIZED_STARTED_ENDED_TERMINATED, Terminated
  <2>4. bidOf \in [Bidders -> BidRecords] /\ nextId # 0
    BY DEF AuctionInv, BookInv
  <2>5. ASSUME NEW offer \in Offers, NEW amount \in Deposits \cup {0},
               Bid(b, offer, amount)
        PROVE  b \notin Registered /\ Registered' = Registered \cup {b}
    <3> DEFINE new == [price |-> offer.price, rand |-> 0, quantity |-> offer.quantity,
                       id |-> nextId]
    <3>1. bidOf[b].id = 0 /\ bidOf' = [bidOf EXCEPT ![b] = new] /\ new.id # 0
      BY <2>4, <2>5 DEF Bid
    <3> HIDE DEF new
    <3> QED
      BY <2>4, <3>1 DEF Registered
  <2>6. ASSUME CancelBid(b)
        PROVE  b \in Registered /\ Registered' = Registered \ {b}
    <3>1. b \in Registered /\ bidOf' = [bidOf EXCEPT ![b] = NoBid] /\ NoBid.id = 0
      BY <2>6 DEF CancelBid, NoBid
    <3> QED
      BY <2>4, <3>1 DEF Registered
  <2> QED
    BY <1>1, <1>3, <2>2, <2>3, <2>5, <2>6 DEF SettlementStep
<1> QED
  BY <1>2, <1>3

\* An answer pays while the book is settled: a terminated auction owes nobody.
LEMMA AnswersSettle ==
  ASSUME AuctionInv, SettledInv, NEW r \in requests,
         CallbackDecryptWonQuantity(r) \/ CallbackDecryptRankedWonQuantity(r)
  PROVE  SettledInv' /\ SettlementStep
<1>1. PICK b \in Registered \ claimCompleted : claimCompleted' = claimCompleted \cup {b}
  BY AnswersPayOneBidder DEF PaysOneBidder
<1>2. UNCHANGED <<timedVars, engineVars>>
  BY AnswersKeepInv
<1>3. Registered' = Registered /\ Stage' = Stage /\ Terminated' = Terminated
  BY <1>2, SameBookSameRanks DEF engineVars, Stage, Terminated, Closed, State, timedVars
<1>4. ~Terminated
  BY <1>1 DEF SettledInv
<1>5. Over
  BY DEF AuctionInv, PhaseInv
<1>6. Stage = "settling"
  BY <1>4, <1>5 DEF Stage, Over, Closed, Terminated, State, INITIALIZED_STARTED,
                    INITIALIZED_STARTED_ENDED, INITIALIZED_STARTED_ENDED_TERMINATED
<1> QED
  BY <1>1, <1>2, <1>3, <1>4, <1>6 DEF SettledInv, SettlementStep, timedVars, Registered

\* Every other call is about the result or asks the gateway.
LEMMA OthersSettle ==
  ASSUME SettledInv, UNCHANGED <<timedVars, claimCompleted>>, Registered' = Registered
  PROVE  SettledInv' /\ SettlementStep
<1>1. Stage' = Stage /\ Terminated' = Terminated /\ flags' = flags
  BY DEF Stage, Terminated, Closed, State, timedVars
<1> QED
  BY <1>1 DEF SettledInv, SettlementStep

LEMMA StepSettles ==
  TimedTypeOK /\ AuctionInv /\ SettledInv /\ [AuctionNext]_auctionVars
    => SettledInv' /\ SettlementStep
<1> SUFFICES ASSUME TimedTypeOK, AuctionInv, SettledInv, [AuctionNext]_auctionVars
             PROVE  SettledInv' /\ SettlementStep
  OBVIOUS
<1>0. [TimedNext]_timedVars
  BY AuctionStepsAreTimedSteps
<1>1. CASE \/ Initialize
           \/ \E d \in Durations, isStoppable \in BOOLEAN : Start(d, isStoppable)
           \/ Stop \/ Terminate \/ NextBlock \/ UNCHANGED auctionVars
  <2>1. UNCHANGED <<bidOf, claimCompleted>>
    BY <1>1 DEF Initialize, Start, Stop, Terminate, NextBlock, auctionVars, engineVars,
                claimVars
  <2>2. \/ TimedInitialize
        \/ \E d \in Durations, b \in BOOLEAN : TimedStart(d, b)
        \/ TimedStop
        \/ TimedTerminate(CanTerminateAfterStart)
        \/ Tick
        \/ UNCHANGED timedVars
    BY <1>1 DEF Initialize, Start, Stop, Terminate, NextBlock, auctionVars
  <2> QED
    BY <1>0, <2>1, <2>2, OwnerSettles
<1>2. ASSUME NEW b \in Bidders,
             \/ \E amount \in Deposits : Deposit(b, amount) \/ Withdraw(b, amount)
             \/ \E offer \in Offers, amount \in Deposits \cup {0} : Bid(b, offer, amount)
             \/ CancelBid(b)
      PROVE  SettledInv' /\ SettlementStep
  BY <1>2, BidderSettles
<1>3. ASSUME NEW stopIfReady \in BOOLEAN, ComputeAuction(stopIfReady)
      PROVE  SettledInv' /\ SettlementStep
  <2>1. UNCHANGED <<timedVars, claimCompleted>>
    BY <1>3 DEF ComputeAuction, claimVars
  <2> QED
    BY <1>3, <2>1, ComputeKeepsInv, OthersSettle
<1>4. CASE \/ DecryptUniformPrice
           \/ \E b \in Bidders : Claim(b)
           \/ \E k \in Ranks : AwardPrizeAtRank(k)
  <2>1. UNCHANGED <<timedVars, engineVars, claimVars>>
    BY <1>4, RequestsKeepInv
  <2> QED
    BY <2>1, OthersSettle, SameBookSameRanks DEF engineVars, claimVars
<1>5. ASSUME NEW b \in Bidders, BlindClaim(b)
      PROVE  SettledInv' /\ SettlementStep
  <2>1. UNCHANGED <<timedVars, engineVars, claimVars>>
    BY <1>5, BlindClaimKeepsInv
  <2> QED
    BY <2>1, OthersSettle, SameBookSameRanks DEF engineVars, claimVars
<1>6. ASSUME NEW r \in requests,
             CallbackDecryptWonQuantity(r) \/ CallbackDecryptRankedWonQuantity(r)
      PROVE  SettledInv' /\ SettlementStep
  BY <1>6, AnswersSettle
<1>7. ASSUME NEW r \in requests, CallbackDecryptUniformPrice(r) \/ RequestLost(r)
      PROVE  SettledInv' /\ SettlementStep
  <2>1. UNCHANGED <<timedVars, engineVars, claimVars>>
    BY <1>7, OtherAnswersKeepInv
  <2> QED
    BY <2>1, OthersSettle, SameBookSameRanks DEF engineVars, claimVars
<1> QED
  BY <1>1, <1>2, <1>3, <1>4, <1>5, <1>6, <1>7 DEF AuctionNext

\* For any number of bidders, offers and deposits: the book changes while bids are
\* taken only, claims, awards and blind claims together pay every bidder in it at
\* most once, and terminate() succeeds only when all of them are paid.
THEOREM AuctionSettles == AuctionSpec => ImplementsSettlement
<1>1. AuctionInit => Settled!SettlementInit /\ SettledInv
  <2> SUFFICES ASSUME AuctionInit PROVE Settled!SettlementInit /\ SettledInv
    OBVIOUS
  <2>1. Registered = {} /\ claimCompleted = {} /\ flags = UNINITIALIZED
    BY DEF AuctionInit, TimedInit, Registered, NoBid
  <2> QED
    BY <2>1 DEF Settled!SettlementInit, SettledInv, Terminated, Closed, State,
                UNINITIALIZED, INITIALIZED_TERMINATED, INITIALIZED_STARTED,
                INITIALIZED_STARTED_ENDED, INITIALIZED_STARTED_ENDED_TERMINATED
<1>2. TimedTypeOK /\ AuctionInv /\ SettledInv /\ [AuctionNext]_auctionVars
        => SettledInv' /\ [Settled!SettlementNext]_(Settled!settlementVars)
  BY StepSettles, SettlementStepsAreSteps
<1> QED
  BY <1>1, <1>2, AuctionInvariant, AuctionFollowsStateGraph, PTL
     DEF AuctionSpec, ImplementsSettlement, Settled!SettlementSpec

-----------------------------------------------------------------------------
(* What a bidder wins *)

Quantities == [b \in Registered |-> bidOf[b].quantity]
Winnings == [b \in Registered |-> WonBy(b)]
AheadOf(b) == {c \in Registered : Beats(Rule, bidOf[c], bidOf[b])}

LEMMA BookIsTyped ==
  ASSUME BookInv
  PROVE  /\ \A b \in Registered :
              /\ b \in Bidders /\ bidOf[b] \in BidRecords
              /\ bidOf[b].price \in Nat /\ bidOf[b].quantity \in Nat
              /\ bidOf[b].quantity <= AuctionQuantity
              /\ bidOf[b].id \in 1..MaxNextId /\ Quantities[b] = bidOf[b].quantity
         /\ AuctionQuantity \in Nat \ {0}
<1>1. AuctionQuantity \in Nat \ {0} /\ MaxNextId \in Nat
  BY AuctionAssumption
<1>2. ASSUME NEW b \in Registered
      PROVE  b \in Bidders /\ bidOf[b] \in BidRecords /\ bidOf[b].id # 0
  BY DEF BookInv, Registered
<1>3. ASSUME NEW b \in Registered
      PROVE  /\ bidOf[b].price \in Nat /\ bidOf[b].quantity \in 0..AuctionQuantity
             /\ bidOf[b].id \in 0..MaxNextId
  BY <1>2 DEF BidRecords
<1> QED
  BY <1>1, <1>2, <1>3 DEF Quantities

\* What is left by the bids ahead, at most what was asked for.
LEMMA WonByBidder ==
  ASSUME BookInv, NEW b \in Registered
  PROVE  LET ahead == SumFunctionOnSet(Quantities, AheadOf(b))
         IN  /\ ahead \in Nat
             /\ WonBy(b) = IF ahead < AuctionQuantity
                           THEN Lesser(AuctionQuantity - ahead, bidOf[b].quantity)
                           ELSE 0
             /\ WonBy(b) \in Nat /\ WonBy(b) <= bidOf[b].quantity
<1> DEFINE ahead == SumFunctionOnSet(Quantities, AheadOf(b))
<1>1. /\ DOMAIN Book = Registered
      /\ \A c \in Registered : Book[c] = bidOf[c]
  BY DEF Book
<1>2. Ahead(Rule, Book, b) = ahead
  <2>1. [j \in DOMAIN Book |-> Book[j].quantity] = Quantities
    BY <1>1 DEF Quantities
  <2>2. {j \in DOMAIN Book : Beats(Rule, Book[j], Book[b])} = AheadOf(b)
    BY <1>1 DEF AheadOf
  <2> QED
    BY <2>1, <2>2 DEF Ahead
<1>3. ahead \in Nat
  <2>1. IsFiniteSet(AheadOf(b)) /\ \A c \in AheadOf(b) : Quantities[c] \in Nat
    BY BookIsFinite, BookIsTyped DEF AheadOf
  <2> QED
    BY <2>1, SumOfNaturals
<1>4. WonBy(b) = IF ahead < AuctionQuantity
                 THEN Lesser(AuctionQuantity - ahead, bidOf[b].quantity)
                 ELSE 0
  <2> HIDE DEF ahead
  <2> QED
    BY <1>1, <1>2 DEF WonBy, Won
<1> HIDE DEF ahead
<1>5. WonBy(b) \in Nat /\ WonBy(b) <= bidOf[b].quantity
  BY <1>3, <1>4, BookIsTyped DEF Lesser
<1> QED
  BY <1>3, <1>4, <1>5 DEF ahead

\* A set of bidders that is not empty has one that is served last.
LEMMA LastIsServed ==
  ASSUME BookInv, NEW U \in SUBSET Registered, U # {}
  PROVE  \E l \in U : \A c \in U : Rank(c) <= Rank(l)
<1> DEFINE S == {BidCount - Rank(c) : c \in U}
<1>1. BidCount \in Nat /\ \A c \in U : Rank(c) \in 0..(BidCount - 1)
  BY BookIsFinite, RanksAreDistinct
<1>2. S \subseteq 0..BidCount /\ S # {}
  BY <1>1
<1>3. IsFiniteSet(S) /\ S \subseteq Int
  <2>1. IsFiniteSet(0..BidCount)
    BY <1>1, FS_Interval
  <2>2. 0..BidCount \subseteq Int
    OBVIOUS
  <2> HIDE DEF S
  <2>3. IsFiniteSet(S)
    BY <1>2, <2>1, FS_Subset
  <2> QED BY <1>2, <2>2, <2>3
<1>4. PICK m \in S : \A y \in S : m <= y
  <2>1. Min(S) \in S /\ \A y \in S : Min(S) <= y
    <3> HIDE DEF S
    <3> QED BY <1>2, <1>3, MinExists
  <2> HIDE DEF S
  <2> QED BY <2>1
<1>5. PICK l \in U : m = BidCount - Rank(l)
  BY <1>4
<1>6. \A c \in U : BidCount - Rank(l) <= BidCount - Rank(c)
  BY <1>4, <1>5
<1> QED
  BY <1>1, <1>6

\* The bidders win no more than is for sale, together.
LEMMA WinningsFit ==
  ASSUME BookInv
  PROVE  SumFunctionOnSet(Winnings, Registered) <= AuctionQuantity
<1> DEFINE Closed_(U) == \A c \in U, d \in Registered :
                           Beats(Rule, bidOf[d], bidOf[c]) => d \in U
           T == {U \in SUBSET Registered : Closed_(U) =>
                   SumFunctionOnSet(Winnings, U)
                     = Lesser(AuctionQuantity, SumFunctionOnSet(Quantities, U))}
<1>0. /\ \A b \in Registered : Winnings[b] = WonBy(b) /\ Winnings[b] \in Int
      /\ \A b \in Registered : Quantities[b] \in Nat
      /\ AuctionQuantity \in Nat
  BY WonByBidder, BookIsTyped DEF Winnings
<1>1. ASSUME NEW U \in SUBSET Registered, \A V \in SUBSET U : V # U => V \in T
      PROVE  U \in T
  <2> SUFFICES ASSUME Closed_(U)
               PROVE  SumFunctionOnSet(Winnings, U)
                        = Lesser(AuctionQuantity, SumFunctionOnSet(Quantities, U))
    OBVIOUS
  <2>1. CASE U = {}
    BY <1>0, <2>1, SumOfNothing DEF Lesser
  <2>2. CASE U # {}
    <3>1. PICK l \in U : \A c \in U : Rank(c) <= Rank(l)
      BY <2>2, LastIsServed
    <3>2. \A c \in U : ~Beats(Rule, bidOf[l], bidOf[c])
      BY <3>1, RankIsMonotone, BookIsFinite
    <3> DEFINE V == U \ {l}
    <3>3. AheadOf(l) = V
      <4>1. ASSUME NEW c \in V
            PROVE  Beats(Rule, bidOf[c], bidOf[l])
        <5>1. bidOf[c].id # bidOf[l].id
          BY DEF BookInv
        <5> QED
          BY <3>2, <5>1, BeatsIsAnOrder, BookIsTyped
      <4>2. ASSUME NEW c \in Registered, Beats(Rule, bidOf[c], bidOf[l])
            PROVE  c \in V
        <5>1. ~Beats(Rule, bidOf[l], bidOf[l])
          BY BeatsIsAnOrder, BookIsTyped
        <5> QED
          BY <4>2, <5>1
      <4> QED
        BY <4>1, <4>2 DEF AheadOf
    <3>4. Closed_(V)
      BY <3>2
    <3>5. V \in T
      <4>1. V \in SUBSET U /\ V # U
        OBVIOUS
      <4> HIDE DEF T
      <4> QED BY <1>1, <4>1
    <3>6. SumFunctionOnSet(Winnings, V)
            = Lesser(AuctionQuantity, SumFunctionOnSet(Quantities, V))
      BY <3>4, <3>5
    <3>7. IsFiniteSet(U) /\ IsFiniteSet(V)
      BY BookIsFinite, FS_Subset
    <3>8. /\ SumFunctionOnSet(Winnings, U) = Winnings[l] + SumFunctionOnSet(Winnings, V)
          /\ SumFunctionOnSet(Quantities, U)
               = Quantities[l] + SumFunctionOnSet(Quantities, V)
      BY <1>0, <3>7, SumByElement
    <3>9. SumFunctionOnSet(Quantities, V) \in Nat
      BY <1>0, <3>7, SumOfNaturals
    <3>10. Winnings[l] = IF SumFunctionOnSet(Quantities, V) < AuctionQuantity
                         THEN Lesser(AuctionQuantity - SumFunctionOnSet(Quantities, V),
                                     Quantities[l])
                         ELSE 0
      BY <1>0, <3>3, WonByBidder, BookIsTyped
    <3>11. Quantities[l] \in Nat
      BY <1>0
    <3> HIDE DEF V
    <3> QED
      BY <1>0, <3>6, <3>8, <3>9, <3>10, <3>11 DEF Lesser
  <2> QED
    BY <2>1, <2>2
<1>2. \A U \in SUBSET Registered : U \in T
  <2> HIDE DEF T
  <2> QED BY <1>1, BookIsFinite, FiniteSubsetInduction
<1>3. SumFunctionOnSet(Winnings, Registered)
        = Lesser(AuctionQuantity, SumFunctionOnSet(Quantities, Registered))
  <2>1. Registered \in T /\ Closed_(Registered)
    BY <1>2
  <2> QED BY <2>1
<1>4. SumFunctionOnSet(Quantities, Registered) \in Nat
  BY <1>0, BookIsFinite, SumOfNaturals
<1> QED
  BY <1>0, <1>3, <1>4 DEF Lesser

\* The single price is a price that a winner offered, or zero, and nobody who wins
\* offered less.
LEMMA PriceIsLowest ==
  ASSUME BookInv
  PROVE  /\ UniformPrice \in Nat
         /\ \A b \in Registered : WonBy(b) > 0 => UniformPrice <= bidOf[b].price
<1> DEFINE W == Winners(Rule, Book, AuctionQuantity)
           prices == {Book[b].price : b \in W}
<1>1. /\ DOMAIN Book = Registered
      /\ \A b \in Registered : Book[b] = bidOf[b]
  BY DEF Book
<1>2. W = {b \in Registered : WonBy(b) > 0}
  BY <1>1 DEF Winners, WonBy
<1>3. UniformPrice = IF prices = {} THEN 0 ELSE Min(prices)
  BY DEF UniformPrice, SinglePrice
<1>4. prices \subseteq Nat
  BY <1>1, <1>2, BookIsTyped
<1>5. IsFiniteSet(prices)
  <2> DEFINE f == [b \in W |-> Book[b].price]
  <2>1. IsFiniteSet(W)
    BY <1>2, BookIsFinite, FS_Subset
  <2>2. f \in Surjection(W, prices)
    BY DEF Surjection
  <2> HIDE DEF f, W, prices
  <2> QED
    BY <2>1, <2>2, FS_Surjection
<1>6. CASE prices = {}
  <2>1. \A b \in Registered : ~(WonBy(b) > 0)
    BY <1>2, <1>6
  <2> QED
    BY <1>3, <1>6, <2>1
<1>7. CASE prices # {}
  <2>1. Min(prices) \in prices /\ \A y \in prices : Min(prices) <= y
    <3>1. prices \subseteq Int
      BY <1>4
    <3> HIDE DEF prices
    <3> QED BY <1>5, <1>7, <3>1, MinExists
  <2>2. \A b \in Registered : WonBy(b) > 0 => bidOf[b].price \in prices
    BY <1>1, <1>2
  <2> HIDE DEF prices
  <2> QED
    BY <1>3, <1>4, <1>7, <2>1, <2>2
<1> QED
  BY <1>6, <1>7

LEMMA ProductIsMonotone ==
  ASSUME NEW a \in Nat, NEW b \in Nat, NEW c \in Nat, NEW d \in Nat, a <= c, b <= d
  PROVE  a * b \in Nat /\ a * b <= c * d
<1>1. PICK e \in Nat : c = a + e
  <2>1. c - a \in Nat /\ c = a + (c - a)
    OBVIOUS
  <2> QED BY <2>1
<1>2. PICK g \in Nat : d = b + g
  <2>1. d - b \in Nat /\ d = b + (d - b)
    OBVIOUS
  <2> QED BY <2>1
<1>3. c * d = a * b + a * g + e * b + e * g
  BY <1>1, <1>2
<1>4. a * b \in Nat /\ a * g \in Nat /\ e * b \in Nat /\ e * g \in Nat
  OBVIOUS
<1> QED
  BY <1>3, <1>4

LEMMA DueIsNatural ==
  ASSUME BookInv, NEW b \in Registered
  PROVE  DueBy(b) \in Nat
<1>1. UniformPrice \in Nat /\ WonBy(b) \in Nat /\ PaymentPenalty \in Nat
  BY PriceIsLowest, WonByBidder, AuctionAssumption
<1>2. UniformPrice * WonBy(b) \in Nat
  BY <1>1
<1> QED
  BY <1>1, <1>2 DEF DueBy

\* The deposit of an unpaid bidder covers what it owes.
LEMMA DueIsCovered ==
  ASSUME AuctionInv, ready # "nothing", NEW b \in Registered \ claimCompleted
  PROVE  DueBy(b) <= balance[b]
<1>1. /\ BookInv /\ b \in Bidders /\ balance[b] \in Nat
      /\ bidOf[b].price \in Nat /\ bidOf[b].quantity \in Nat
  BY BookIsTyped DEF AuctionInv, BookInv
<1>2. /\ bidOf[b].price * bidOf[b].quantity <= balance[b]
      /\ bidOf[b].price = 0 => PaymentPenalty <= balance[b]
  BY DEF AuctionInv, CoverInv, ValidBidsStayCovered
<1>3. CASE WonBy(b) > 0
  <2>1. /\ UniformPrice \in Nat /\ UniformPrice <= bidOf[b].price
        /\ WonBy(b) \in Nat /\ WonBy(b) <= bidOf[b].quantity
    BY <1>1, <1>3, PriceIsLowest, WonByBidder
  <2>2. /\ UniformPrice * WonBy(b) \in Nat
        /\ UniformPrice * WonBy(b) <= bidOf[b].price * bidOf[b].quantity
    BY <1>1, <2>1, ProductIsMonotone
  <2>3. DueBy(b) = UniformPrice * WonBy(b)
    BY <1>3 DEF DueBy
  <2>4. bidOf[b].price * bidOf[b].quantity \in Nat
    BY <1>1
  <2> QED
    BY <1>1, <1>2, <2>2, <2>3, <2>4
<1>4. CASE ~(WonBy(b) > 0)
  BY <1>1, <1>2, <1>4 DEF DueBy
<1> QED
  BY <1>3, <1>4

\* Results are those of the book.
LEMMA SameBookSameResult ==
  ASSUME bidOf' = bidOf
  PROVE  /\ UniformPrice' = UniformPrice
         /\ \A b : WonBy(b)' = WonBy(b) /\ DueBy(b)' = DueBy(b)
<1>1. Registered' = Registered /\ Book' = Book
  BY DEF Registered, Book
<1>2. UniformPrice' = UniformPrice /\ \A b : WonBy(b)' = WonBy(b)
  BY <1>1 DEF UniformPrice, WonBy
<1> QED
  BY <1>2 DEF DueBy

-----------------------------------------------------------------------------
(* Accounts *)

LEMMA AccountsDiffer ==
  /\ This # Beneficiary /\ This \in Accounts /\ Beneficiary \in Accounts
  /\ \A b \in Bidders : b \in Accounts /\ b # This /\ b # Beneficiary
BY AccountsAssumption DEF Accounts, This, Beneficiary

-----------------------------------------------------------------------------
(* The invariant *)

PriceContent == [kind |-> "price", price |-> UniformPrice]
ClaimContent(b) == [kind |-> "claim", bidder |-> b, price |-> bidOf[b].price,
                    quantity |-> WonBy(b)]
AwardContent(b) == [kind |-> "award", rank |-> Rank(b), id |-> bidOf[b].id,
                    price |-> bidOf[b].price, quantity |-> WonBy(b)]

\* What is asked of the gateway is a result of the book; nothing but the price is
\* asked before the price is known, and the price that is known is the right one.
AnswerInv ==
  /\ clearUniformPrice # 0 => clearUniformPrice = UniformPrice /\ ready # "nothing"
  /\ \A r \in requests :
       \/ r.content = PriceContent
       \/ /\ clearUniformPrice # 0
          /\ \E b \in Registered : r.content \in {ClaimContent(b), AwardContent(b)}

\* Who has how much.
MoneyInv ==
  /\ paymentTokens \in [Accounts -> Nat] /\ auctionTokens \in [Accounts -> Nat]
  /\ PaidAsOwed
  /\ paymentTokens[This] = SumFunctionOnSet(balance, Bidders)
  /\ flags \in {UNINITIALIZED, INITIALIZED, INITIALIZED_TERMINATED} =>
       auctionTokens[This] = 0
  /\ flags \in {INITIALIZED_STARTED, INITIALIZED_STARTED_ENDED} =>
       auctionTokens[This]
         = AuctionQuantity - SumFunctionOnSet(Winnings, claimCompleted)

-----------------------------------------------------------------------------
(* Each kind of step keeps what is asked a result of the book. *)

LEMMA SameBookSameContents ==
  ASSUME bidOf' = bidOf
  PROVE  /\ PriceContent' = PriceContent
         /\ \A b : ClaimContent(b)' = ClaimContent(b) /\ AwardContent(b)' = AwardContent(b)
BY SameBookSameResult, SameBookSameRanks DEF PriceContent, ClaimContent, AwardContent

\* A step that asks for results of the book, or for nothing.
LEMMA AskingKeepsAnswers ==
  ASSUME AnswerInv, bidOf' = bidOf, clearUniformPrice' = clearUniformPrice,
         ready # "nothing" => ready' # "nothing",
         \A r \in requests' \ requests :
           \/ r.content = PriceContent
           \/ /\ clearUniformPrice # 0
              /\ \E b \in Registered : r.content \in {ClaimContent(b), AwardContent(b)}
  PROVE  AnswerInv'
<1>1. /\ UniformPrice' = UniformPrice /\ Registered' = Registered
      /\ PriceContent' = PriceContent
      /\ \A b : ClaimContent(b)' = ClaimContent(b) /\ AwardContent(b)' = AwardContent(b)
  BY SameBookSameResult, SameBookSameRanks, SameBookSameContents
<1>2. ASSUME NEW r \in requests'
      PROVE  \/ r.content = PriceContent
             \/ /\ clearUniformPrice # 0
                /\ \E b \in Registered : r.content \in {ClaimContent(b), AwardContent(b)}
  BY DEF AnswerInv
<1> QED
  BY <1>1, <1>2 DEF AnswerInv

\* A step before anything is computed, which may change the book.
LEMMA NothingAskedYet ==
  ASSUME AuctionInv, AnswerInv, ready = "nothing",
         UNCHANGED <<requests, clearUniformPrice>>
  PROVE  AnswerInv'
BY DEF AuctionInv, PhaseInv, AnswerInv

\* The requests of awards, of awardPrizeAtRank() and blindClaim().
LEMMA AwardAsksForResult ==
  ASSUME NEW k, AwardRank(k), NEW r \in requests' \ requests
  PROVE  /\ clearUniformPrice # 0
         /\ \E b \in Registered : r.content = AwardContent(b)
<1>1. PICK b \in Registered :
        /\ Rank(b) = k
        /\ Request([kind |-> "award", rank |-> k, id |-> bidOf[b].id,
                    price |-> bidOf[b].price, quantity |-> WonBy(b)])
  BY DEF AwardRank
<1>2. r.content = AwardContent(b)
  BY <1>1, RequestIsNew DEF AwardContent
<1> QED
  BY <1>2 DEF AwardRank, CanAward

\* The price that is answered is that of the book.
LEMMA PriceAnswerKeepsAnswers ==
  ASSUME AuctionInv, AnswerInv, NEW r \in requests, CallbackDecryptUniformPrice(r)
  PROVE  AnswerInv'
<1>1. r.content.kind = "price" /\ clearUniformPrice' = r.content.price
      /\ requests' \subseteq requests /\ UNCHANGED <<bidOf, ready>>
  BY DEF CallbackDecryptUniformPrice, engineVars
<1>2. ready # "nothing"
  BY DEF AuctionInv, PhaseInv
<1>3. r.content = PriceContent
  BY <1>1 DEF AnswerInv, ClaimContent, AwardContent
<1>4. clearUniformPrice' = UniformPrice
  BY <1>1, <1>3 DEF PriceContent
<1>5. /\ UniformPrice' = UniformPrice /\ Registered' = Registered
      /\ PriceContent' = PriceContent
      /\ \A b : ClaimContent(b)' = ClaimContent(b) /\ AwardContent(b)' = AwardContent(b)
  BY <1>1, SameBookSameResult, SameBookSameRanks, SameBookSameContents
<1>6. clearUniformPrice # 0 => clearUniformPrice' # 0
  BY <1>4 DEF AnswerInv
<1>7. ASSUME NEW q \in requests'
      PROVE  \/ q.content = PriceContent
             \/ /\ clearUniformPrice' # 0
                /\ \E b \in Registered : q.content \in {ClaimContent(b), AwardContent(b)}
  BY <1>1, <1>6 DEF AnswerInv
<1> QED
  BY <1>1, <1>2, <1>4, <1>5, <1>7 DEF AnswerInv

LEMMA StepKeepsAnswers ==
  AuctionInv /\ AnswerInv /\ [AuctionNext]_auctionVars => AnswerInv'
<1> SUFFICES ASSUME AuctionInv, AnswerInv, [AuctionNext]_auctionVars
             PROVE  AnswerInv'
  OBVIOUS
<1>1. CASE \/ Initialize
           \/ \E d \in Durations, isStoppable \in BOOLEAN : Start(d, isStoppable)
           \/ Stop \/ Terminate \/ NextBlock \/ UNCHANGED auctionVars
  <2>1. UNCHANGED <<bidOf, ready, clearUniformPrice, requests>>
    BY <1>1 DEF Initialize, Start, Stop, Terminate, NextBlock, auctionVars, engineVars
  <2> QED
    BY <2>1, AskingKeepsAnswers
<1>2. ASSUME NEW b \in Bidders,
             \/ \E amount \in Deposits : Deposit(b, amount) \/ Withdraw(b, amount)
             \/ \E offer \in Offers, amount \in Deposits \cup {0} : Bid(b, offer, amount)
             \/ CancelBid(b)
      PROVE  AnswerInv'
  <2>1. ~Over /\ UNCHANGED <<clearUniformPrice, requests>>
    BY <1>2, OpenIsNotOver DEF Deposit, Withdraw, WithdrawAccepted, Bid, CancelBid
  <2>2. ready = "nothing"
    BY <2>1 DEF AuctionInv, PhaseInv
  <2> QED
    BY <2>1, <2>2, NothingAskedYet
<1>3. ASSUME NEW stopIfReady \in BOOLEAN, ComputeAuction(stopIfReady)
      PROVE  AnswerInv'
  <2>1. UNCHANGED <<clearUniformPrice, requests>>
    BY <1>3 DEF ComputeAuction
  <2>2. CASE ready = "nothing"
    BY <2>1, <2>2, NothingAskedYet
  <2>3. CASE ready # "nothing"
    <3>1. bidOf' = bidOf /\ ready' # "nothing"
      BY <1>3, <2>3 DEF ComputeAuction, Stages
    <3> QED
      BY <2>1, <3>1, AskingKeepsAnswers
  <2> QED
    BY <2>2, <2>3
<1>4. CASE DecryptUniformPrice
  <2>1. UNCHANGED <<bidOf, ready, clearUniformPrice>> /\ Request(PriceContent)
    BY <1>4 DEF DecryptUniformPrice, engineVars, PriceContent
  <2>2. \A r \in requests' \ requests : r.content = PriceContent
    BY <2>1, RequestIsNew
  <2> QED
    BY <2>1, <2>2, AskingKeepsAnswers
<1>5. ASSUME NEW b \in Bidders, Claim(b)
      PROVE  AnswerInv'
  <2>1. /\ UNCHANGED <<bidOf, ready, clearUniformPrice>> /\ b \in Registered
        /\ clearUniformPrice # 0 /\ Request(ClaimContent(b))
    BY <1>5 DEF Claim, CanAward, engineVars, ClaimContent
  <2>2. \A r \in requests' \ requests : r.content = ClaimContent(b)
    BY <2>1, RequestIsNew
  <2> QED
    BY <2>1, <2>2, AskingKeepsAnswers
<1>6. ASSUME NEW k \in Ranks, AwardPrizeAtRank(k)
      PROVE  AnswerInv'
  <2>1. UNCHANGED <<bidOf, ready, clearUniformPrice>> /\ AwardRank(k)
    BY <1>6 DEF AwardPrizeAtRank, engineVars
  <2> QED
    BY <2>1, AwardAsksForResult, AskingKeepsAnswers
<1>7. ASSUME NEW b \in Bidders, BlindClaim(b)
      PROVE  AnswerInv'
  <2>1. /\ UNCHANGED <<bidOf, ready, clearUniformPrice>>
        /\ UNCHANGED requests \/ \E k : AwardRank(k)
    BY <1>7 DEF BlindClaim, engineVars
  <2> QED
    BY <2>1, AwardAsksForResult, AskingKeepsAnswers
<1>8. ASSUME NEW r \in requests, CallbackDecryptUniformPrice(r)
      PROVE  AnswerInv'
  BY <1>8, PriceAnswerKeepsAnswers
<1>9. ASSUME NEW r \in requests,
             \/ CallbackDecryptWonQuantity(r) \/ CallbackDecryptRankedWonQuantity(r)
             \/ RequestLost(r)
      PROVE  AnswerInv'
  <2>1. UNCHANGED <<bidOf, ready, clearUniformPrice>> /\ requests' \subseteq requests
    BY <1>9 DEF CallbackDecryptWonQuantity, CallbackDecryptRankedWonQuantity,
                RequestLost, engineVars
  <2> QED
    BY <2>1, AskingKeepsAnswers
<1> QED
  BY <1>1, <1>2, <1>3, <1>4, <1>5, <1>6, <1>7, <1>8, <1>9 DEF AuctionNext

-----------------------------------------------------------------------------
(* Each kind of step keeps the money where it belongs. *)

BeforeStart == {UNINITIALIZED, INITIALIZED, INITIALIZED_TERMINATED}
Selling == {INITIALIZED_STARTED, INITIALIZED_STARTED_ENDED}

LEMMA PhasesDiffer == BeforeStart \cap Selling = {}
BY DEF BeforeStart, Selling, UNINITIALIZED, INITIALIZED, INITIALIZED_TERMINATED,
       INITIALIZED_STARTED, INITIALIZED_STARTED_ENDED

LEMMA PaidOnlyWhenOver ==
  ASSUME AuctionInv, ~Over
  PROVE  ready = "nothing" /\ requests = {} /\ claimCompleted = {}
BY DEF AuctionInv, PhaseInv

\* A step that pays nobody, nor moves anything between the auction and anybody but
\* the owner: either the book is the same, or nobody was paid yet.
LEMMA StandingAccounts ==
  ASSUME AuctionInv, MoneyInv, UNCHANGED <<balance, claimCompleted, paymentTokens>>,
         bidOf' = bidOf \/ claimCompleted = {},
         auctionTokens' \in [Accounts -> Nat],
         \A b \in Bidders : auctionTokens'[b] = auctionTokens[b],
         flags' \in BeforeStart => auctionTokens'[This] = 0,
         flags' \in Selling =>
           auctionTokens'[This]
             = AuctionQuantity - SumFunctionOnSet(Winnings, claimCompleted)
  PROVE  MoneyInv'
<1>1. IsFiniteSet(claimCompleted) /\ claimCompleted \subseteq Registered
  BY DEF AuctionInv, PaidInv
<1>2. \A b \in claimCompleted : WonBy(b)' = WonBy(b) /\ DueBy(b)' = DueBy(b)
  BY SameBookSameResult
<1>3. [b \in claimCompleted |-> DueBy(b)]' = [b \in claimCompleted |-> DueBy(b)]
  BY <1>2
<1>4. SumFunctionOnSet(Winnings, claimCompleted)'
        = SumFunctionOnSet(Winnings, claimCompleted)
  <2>1. CASE bidOf' = bidOf
    <3>1. Winnings' = Winnings
      BY <2>1, SameBookSameResult, SameBookSameRanks DEF Winnings
    <3> QED
      BY <3>1
  <2>2. CASE claimCompleted = {}
    <3>1. claimCompleted' = {}
      BY <2>2
    <3> QED
      BY <2>2, <3>1, SumOfNothing
  <2> QED
    BY <2>1, <2>2
<1>5. PaidAsOwed'
  <2>1. \A b \in Bidders :
          IF b \in claimCompleted
          THEN /\ balance'[b] = 0
               /\ paymentTokens'[b] = Funds - DueBy(b)'
               /\ auctionTokens'[b] = WonBy(b)'
          ELSE /\ paymentTokens'[b] + balance'[b] = Funds
               /\ auctionTokens'[b] = 0
    BY <1>2 DEF MoneyInv, PaidAsOwed
  <2>2. paymentTokens'[Beneficiary] =
          SumFunctionOnSet([b \in claimCompleted |-> DueBy(b)], claimCompleted)
    BY DEF MoneyInv, PaidAsOwed
  <2>3. paymentTokens'[Beneficiary] =
          SumFunctionOnSet([b \in claimCompleted |-> DueBy(b)]', claimCompleted)
    BY <1>3, <2>2
  <2> QED
    BY <2>1, <2>3 DEF PaidAsOwed
<1> QED
  BY <1>4, <1>5 DEF MoneyInv, BeforeStart, Selling

\* deposit(), bid(), cancelBid() and withdraw() move an amount between the wallet of
\* a bidder and its deposit, one way or the other.
LEMMA MovesDeposit ==
  ASSUME AuctionInv, MoneyInv, claimCompleted = {}, NEW b \in Bidders, NEW moved \in Int,
         UNCHANGED <<flags, claimCompleted, auctionTokens>>,
         balance' \in [Bidders -> Nat],
         \A c \in Bidders :
           balance'[c] = IF c = b THEN balance[b] + moved ELSE balance[c],
         paymentTokens' \in [Accounts -> Int],
         \A a \in Accounts :
           paymentTokens'[a] = IF a = b THEN paymentTokens[b] - moved
                               ELSE IF a = This THEN paymentTokens[This] + moved
                               ELSE paymentTokens[a],
         paymentTokens[b] - moved >= 0
  PROVE  MoneyInv'
<1>1. /\ IsFiniteSet(Bidders) /\ balance \in [Bidders -> Nat]
      /\ paymentTokens \in [Accounts -> Nat] /\ auctionTokens \in [Accounts -> Nat]
      /\ \A a \in Accounts : paymentTokens[a] \in Nat
  BY AuctionAssumption DEF AuctionInv, BookInv, MoneyInv
<1>2. SumFunctionOnSet(balance', Bidders) = SumFunctionOnSet(balance, Bidders) + moved
  <2>1. /\ \A c \in Bidders : balance[c] \in Int
        /\ balance'[b] = balance[b] + moved /\ balance'[b] \in Int
        /\ \A c \in Bidders \ {b} : balance'[c] = balance[c]
    BY <1>1
  <2>2. SumFunctionOnSet(balance', Bidders)
          = SumFunctionOnSet(balance, Bidders) - balance[b] + balance'[b]
    BY <1>1, <2>1, SumAfterChange
  <2>3. SumFunctionOnSet(balance, Bidders) \in Int /\ balance[b] \in Int
    BY <1>1, <2>1, SumType
  <2> QED
    BY <2>1, <2>2, <2>3
<1>3. paymentTokens'[This] = SumFunctionOnSet(balance', Bidders)
  BY <1>1, <1>2, AccountsDiffer DEF MoneyInv
<1>4. SumFunctionOnSet(balance', Bidders) \in Nat
  BY <1>1, SumOfNaturals
<1>5. paymentTokens' \in [Accounts -> Nat]
  <2>1. \A a \in Accounts : paymentTokens'[a] \in Nat
    BY <1>1, <1>3, <1>4
  <2> QED
    BY <2>1
<1>6. PaidAsOwed'
  <2>1. \A c \in Bidders : paymentTokens[c] + balance[c] = Funds /\ auctionTokens[c] = 0
    BY DEF MoneyInv, PaidAsOwed
  <2>2. \A c \in Bidders : paymentTokens'[c] + balance'[c] = Funds /\ auctionTokens'[c] = 0
    <3> SUFFICES ASSUME NEW c \in Bidders
                 PROVE  paymentTokens'[c] + balance'[c] = Funds /\ auctionTokens'[c] = 0
      OBVIOUS
    <3>1. /\ c \in Accounts /\ c # This /\ balance[c] \in Nat /\ paymentTokens[c] \in Nat
          /\ balance[b] \in Nat /\ paymentTokens[b] \in Nat
      BY <1>1, AccountsDiffer
    <3> QED
      BY <2>1, <3>1
  <2>3. paymentTokens'[Beneficiary] = paymentTokens[Beneficiary]
    BY AccountsDiffer
  <2>4. paymentTokens[Beneficiary] = 0
    BY SumOfNothing DEF MoneyInv, PaidAsOwed
  <2>5. SumFunctionOnSet([c \in claimCompleted |-> DueBy(c)]', claimCompleted') = 0
    BY SumOfNothing
  <2> QED
    BY <2>2, <2>3, <2>4, <2>5 DEF PaidAsOwed
<1>7. SumFunctionOnSet(Winnings, claimCompleted)'
        = SumFunctionOnSet(Winnings, claimCompleted)
  <2>1. SumFunctionOnSet(Winnings, claimCompleted) = 0
    BY SumOfNothing
  <2>2. SumFunctionOnSet(Winnings', claimCompleted') = 0
    BY SumOfNothing
  <2> QED
    BY <2>1, <2>2
<1> QED
  BY <1>3, <1>5, <1>6, <1>7 DEF MoneyInv

DepositMoves(b, moved) ==
  /\ balance' = [balance EXCEPT ![b] = balance[b] + moved]
  /\ \/ /\ moved >= 0 /\ moved <= paymentTokens[b]
        /\ paymentTokens' = Transfer(paymentTokens, b, This, moved)
     \/ moved <= 0 /\ paymentTokens' = Transfer(paymentTokens, This, b, 0 - moved)

\* The calls of bidders while bids are taken.
LEMMA BidderKeepsMoney ==
  ASSUME AuctionInv, AuctionInv', MoneyInv, NEW b \in Bidders,
         \/ \E amount \in Deposits : Deposit(b, amount) \/ Withdraw(b, amount)
         \/ \E offer \in Offers, amount \in Deposits \cup {0} : Bid(b, offer, amount)
         \/ CancelBid(b)
  PROVE  MoneyInv'
<1>1. UNCHANGED <<flags, claimCompleted, auctionTokens>> /\ ~Over
  BY OpenIsNotOver
     DEF Deposit, Withdraw, WithdrawAccepted, Bid, CancelBid, claimVars, timedVars
<1>2. claimCompleted = {}
  BY <1>1, PaidOnlyWhenOver
<1>3. /\ balance \in [Bidders -> Nat] /\ balance' \in [Bidders -> Nat]
      /\ paymentTokens \in [Accounts -> Int] /\ paymentTokens[b] \in Nat
      /\ \A amount \in Deposits \cup {0} : amount \in Nat
      /\ balance[b] \in Nat /\ MinimumDeposit \in Nat
      /\ b \in Accounts /\ This \in Accounts /\ b # This
  BY AuctionAssumption, AccountsDiffer DEF AuctionInv, BookInv, MoneyInv
<1>4. \E moved \in Int : DepositMoves(b, moved)
  <2>1. ASSUME NEW amount \in Deposits \cup {0}, Deposited(b, amount)
        PROVE  \E moved \in Int : DepositMoves(b, moved)
    <3>1. /\ amount \in Nat /\ amount <= paymentTokens[b]
          /\ balance' = [balance EXCEPT ![b] = balance[b] + amount]
          /\ paymentTokens' = Transfer(paymentTokens, b, This, amount)
      BY <1>3, <2>1 DEF Deposited
    <3>2. amount \in Int /\ amount >= 0
      BY <3>1
    <3>3. DepositMoves(b, amount)
      BY <3>1, <3>2 DEF DepositMoves
    <3> QED
      BY <3>2, <3>3
  <2>2. ASSUME NEW amount \in Deposits, Withdraw(b, amount)
        PROVE  \E moved \in Int : DepositMoves(b, moved)
    <3> DEFINE paid == Withdrawable(b, amount)
    <3>1. paid \in Nat
      BY <1>3 DEF Withdrawable, Lesser
    <3>2. /\ balance' = [balance EXCEPT ![b] = balance[b] - paid]
          /\ paymentTokens' = Transfer(paymentTokens, This, b, paid)
      BY <2>2 DEF Withdraw
    <3> HIDE DEF paid
    <3>3. /\ 0 - paid \in Int /\ 0 - paid <= 0 /\ 0 - (0 - paid) = paid
          /\ balance[b] - paid = balance[b] + (0 - paid)
      BY <1>3, <3>1
    <3> QED
      BY <3>2, <3>3 DEF DepositMoves
  <2>3. ASSUME CancelBid(b)
        PROVE  \E moved \in Int : DepositMoves(b, moved)
    <3>1. /\ balance' = [balance EXCEPT ![b] = 0]
          /\ paymentTokens' = Transfer(paymentTokens, This, b, balance[b])
      BY <2>3 DEF CancelBid
    <3>2. /\ 0 - balance[b] \in Int /\ 0 - balance[b] <= 0
          /\ 0 - (0 - balance[b]) = balance[b] /\ balance[b] + (0 - balance[b]) = 0
      BY <1>3
    <3> QED
      BY <3>1, <3>2 DEF DepositMoves
  <2> QED
    BY <2>1, <2>2, <2>3 DEF Deposit, Bid
<1>5. PICK moved \in Int : DepositMoves(b, moved)
  BY <1>4
<1>6. \A c \in Bidders :
        balance'[c] = IF c = b THEN balance[b] + moved ELSE balance[c]
  BY <1>3, <1>5 DEF DepositMoves
<1>7. /\ paymentTokens' \in [Accounts -> Int]
      /\ \A a \in Accounts :
           paymentTokens'[a] = IF a = b THEN paymentTokens[b] - moved
                               ELSE IF a = This THEN paymentTokens[This] + moved
                               ELSE paymentTokens[a]
      /\ paymentTokens[b] - moved >= 0
  <2>0. \A a \in Accounts : paymentTokens[a] \in Int
    BY <1>3
  <2>1. CASE moved >= 0 /\ moved <= paymentTokens[b]
             /\ paymentTokens' = Transfer(paymentTokens, b, This, moved)
    <3> DEFINE after == Transfer(paymentTokens, b, This, moved)
    <3>1. /\ after \in [Accounts -> Int]
          /\ \A a \in Accounts : after[a] =
               IF a = b THEN paymentTokens[a] - moved
               ELSE IF a = This THEN paymentTokens[a] + moved
               ELSE paymentTokens[a]
      BY <1>3 DEF Transfer
    <3>2. paymentTokens' = after
      BY <2>1
    <3> HIDE DEF after
    <3> QED
      BY <1>3, <2>1, <3>1, <3>2
  <2>2. CASE moved <= 0 /\ paymentTokens' = Transfer(paymentTokens, This, b, 0 - moved)
    <3> DEFINE back == 0 - moved
               after == Transfer(paymentTokens, This, b, back)
    <3>1. back \in Int
      OBVIOUS
    <3>2. /\ after \in [Accounts -> Int]
          /\ \A a \in Accounts : after[a] =
               IF a = This THEN paymentTokens[a] - back
               ELSE IF a = b THEN paymentTokens[a] + back
               ELSE paymentTokens[a]
      <4> HIDE DEF back
      <4> QED BY <1>3, <3>1 DEF Transfer
    <3>3. paymentTokens' = after
      BY <2>2
    <3>4. \A n \in Int : n - back = n + moved /\ n + back = n - moved
      OBVIOUS
    <3> HIDE DEF after, back
    <3>5. \A a \in Accounts :
            paymentTokens'[a] = IF a = This THEN paymentTokens[a] + moved
                                ELSE IF a = b THEN paymentTokens[a] - moved
                                ELSE paymentTokens[a]
      BY <2>0, <3>2, <3>3, <3>4
    <3> QED
      BY <1>3, <2>2, <3>2, <3>3, <3>5
  <2> QED
    BY <1>5, <2>1, <2>2 DEF DepositMoves
<1> QED
  BY <1>1, <1>2, <1>3, <1>6, <1>7, MovesDeposit

\* start() and terminate() move the tokens for sale to the auction and back, and the
\* other steps of the owner and of the clock nothing.
LEMMA OwnerKeepsMoney ==
  ASSUME AuctionInv, MoneyInv,
         \/ Initialize
         \/ \E d \in Durations, isStoppable \in BOOLEAN : Start(d, isStoppable)
         \/ Stop \/ Terminate \/ NextBlock \/ UNCHANGED auctionVars
  PROVE  MoneyInv'
<1>1. /\ UNCHANGED <<bidOf, balance, claimCompleted, paymentTokens>>
  BY DEF Initialize, Start, Stop, Terminate, NextBlock, auctionVars, engineVars,
         claimVars, tokenVars
<1>2. /\ auctionTokens \in [Accounts -> Nat] /\ AuctionQuantity \in Nat
      /\ auctionTokens \in [Accounts -> Int] /\ AuctionQuantity \in Int
      /\ \A a \in Accounts : auctionTokens[a] \in Nat
  BY AuctionAssumption DEF MoneyInv
<1>3. CASE \/ Initialize \/ Stop \/ NextBlock \/ UNCHANGED auctionVars
  <2>1. auctionTokens' = auctionTokens
    BY <1>3 DEF Initialize, Stop, NextBlock, auctionVars, tokenVars
  <2>2. /\ flags' \in BeforeStart => flags \in BeforeStart
        /\ flags' \in Selling => flags \in Selling
    BY <1>3 DEF Initialize, Stop, NextBlock, auctionVars, timedVars, TimedInitialize,
                TimedStop, CanStop, Tick, BeforeStart, Selling, UNINITIALIZED,
                INITIALIZED, INITIALIZED_TERMINATED, INITIALIZED_STARTED,
                INITIALIZED_STARTED_ENDED
  <2> QED
    BY <1>1, <1>2, <2>1, <2>2, StandingAccounts DEF MoneyInv, BeforeStart, Selling
<1>4. ASSUME NEW d \in Durations, NEW isStoppable \in BOOLEAN, Start(d, isStoppable)
      PROVE  MoneyInv'
  <2>1. /\ flags = INITIALIZED /\ flags' = INITIALIZED_STARTED
        /\ auctionTokens[Beneficiary] >= AuctionQuantity
        /\ auctionTokens' = Transfer(auctionTokens, Beneficiary, This, AuctionQuantity)
    BY <1>4 DEF Start, TimedStart, CanStart
  <2>2. \A a \in Accounts : auctionTokens'[a] =
          IF a = Beneficiary THEN auctionTokens[a] - AuctionQuantity
          ELSE IF a = This THEN auctionTokens[a] + AuctionQuantity
          ELSE auctionTokens[a]
    BY <1>2, <2>1, AccountsDiffer DEF Transfer
  <2>3. auctionTokens' \in [Accounts -> Int]
    BY <1>2, <2>1, AccountsDiffer DEF Transfer
  <2>4. \A a \in Accounts : auctionTokens'[a] \in Nat
    BY <1>2, <2>1, <2>2, AccountsDiffer
  <2>5. auctionTokens' \in [Accounts -> Nat]
    BY <2>3, <2>4
  <2>6. flags \in BeforeStart /\ auctionTokens[This] = 0
    BY <2>1 DEF MoneyInv, BeforeStart
  <2>7. auctionTokens'[This] = AuctionQuantity
    BY <1>2, <2>2, <2>6, AccountsDiffer
  <2>8. SumFunctionOnSet(Winnings, claimCompleted) = 0
    <3>1. ~Over
      BY <2>1 DEF Over, State, INITIALIZED, INITIALIZED_STARTED,
                  INITIALIZED_STARTED_ENDED, INITIALIZED_STARTED_ENDED_TERMINATED
    <3>2. claimCompleted = {}
      BY <3>1, PaidOnlyWhenOver
    <3> QED
      BY <3>2, SumOfNothing
  <2>9. flags' \in Selling
    BY <2>1 DEF Selling
  <2>10. \A b \in Bidders : auctionTokens'[b] = auctionTokens[b]
    BY <2>2, AccountsDiffer
  <2> QED
    BY <1>1, <1>2, <2>5, <2>7, <2>8, <2>9, <2>10, PhasesDiffer, StandingAccounts
<1>5. CASE Terminate
  <2>1. auctionTokens' = Transfer(auctionTokens, This, Beneficiary, auctionTokens[This])
    BY <1>5 DEF Terminate
  <2>2. \A a \in Accounts : auctionTokens'[a] =
          IF a = This THEN auctionTokens[a] - auctionTokens[This]
          ELSE IF a = Beneficiary THEN auctionTokens[a] + auctionTokens[This]
          ELSE auctionTokens[a]
    BY <1>2, <2>1, AccountsDiffer DEF Transfer
  <2>3. auctionTokens' \in [Accounts -> Int]
    BY <1>2, <2>1, AccountsDiffer DEF Transfer
  <2>4. \A a \in Accounts : auctionTokens'[a] \in Nat
    BY <1>2, <2>2, AccountsDiffer
  <2>5. auctionTokens' \in [Accounts -> Nat] /\ auctionTokens'[This] = 0
    BY <1>2, <2>2, <2>3, <2>4, AccountsDiffer
  <2>6. flags' \notin Selling
    BY <1>5 DEF Terminate, TimedTerminate, Selling, INITIALIZED_TERMINATED,
                INITIALIZED_STARTED, INITIALIZED_STARTED_ENDED,
                INITIALIZED_STARTED_ENDED_TERMINATED
  <2>7. \A b \in Bidders : auctionTokens'[b] = auctionTokens[b]
    BY <2>2, AccountsDiffer
  <2> QED
    BY <1>1, <2>5, <2>6, <2>7, StandingAccounts
<1> QED
  BY <1>3, <1>4, <1>5

\* Calls about the result and to the gateway move nothing.
LEMMA NothingMoved ==
  ASSUME AuctionInv, MoneyInv,
         UNCHANGED <<timedVars, balance, claimCompleted, tokenVars>>,
         bidOf' = bidOf \/ claimCompleted = {}
  PROVE  MoneyInv'
<1>1. UNCHANGED <<flags, paymentTokens, auctionTokens>>
  BY DEF timedVars, tokenVars
<1> QED
  BY <1>1, StandingAccounts DEF MoneyInv, BeforeStart, Selling

\* The payment of a bidder: its whole deposit leaves the contract, what it owes goes
\* to the beneficiary and the rest to its wallet, with the tokens it won.
LEMMA PaymentKeepsMoney ==
  ASSUME AuctionInv, MoneyInv, ready # "nothing", NEW b \in Registered \ claimCompleted,
         PayBidder(b, bidOf[b].price, WonBy(b)), clearUniformPrice = UniformPrice,
         UNCHANGED <<flags, bidOf>>
  PROVE  MoneyInv'
<1> DEFINE due == DueBy(b)
           back == balance[b] - due
           won == WonBy(b)
<1>1. /\ claimCompleted' = claimCompleted \cup {b}
      /\ balance' = [balance EXCEPT ![b] = 0]
      /\ paymentTokens' = Transfer(Transfer(paymentTokens, This, Beneficiary, due),
                                   This, b, back)
      /\ auctionTokens' = Transfer(auctionTokens, This, b, won)
      /\ auctionTokens[This] >= won
  <2>1. AmountDue(bidOf[b].price, WonBy(b)) = due
    BY DEF AmountDue, DueBy
  <2> QED
    BY <2>1 DEF PayBidder
<1>2. /\ BookInv /\ b \in Bidders /\ b \in Registered /\ b \notin claimCompleted
      /\ balance \in [Bidders -> Nat] /\ IsFiniteSet(Bidders)
      /\ paymentTokens \in [Accounts -> Nat] /\ auctionTokens \in [Accounts -> Nat]
      /\ IsFiniteSet(claimCompleted) /\ claimCompleted \subseteq Registered
      /\ Funds \in Nat /\ AuctionQuantity \in Nat
  BY AuctionAssumption DEF AuctionInv, BookInv, PaidInv, MoneyInv, Registered
<1>3. /\ due \in Nat /\ won \in Nat /\ due <= balance[b] /\ back \in Nat
      /\ balance[b] \in Nat /\ back = balance[b] - due
  <2>1. due \in Nat /\ won \in Nat /\ due <= balance[b] /\ balance[b] \in Nat
    BY <1>2, DueIsNatural, WonByBidder, DueIsCovered
  <2> HIDE DEF due, won
  <2> QED BY <2>1
<1>4. /\ Registered' = Registered
      /\ \A c : WonBy(c)' = WonBy(c) /\ DueBy(c)' = DueBy(c)
  BY SameBookSameResult, SameBookSameRanks
<1>5. Winnings' = Winnings
  BY <1>4 DEF Winnings
<1>6. \A a \in Accounts : paymentTokens[a] \in Nat /\ auctionTokens[a] \in Nat
  BY <1>2
<1> HIDE DEF due, back, won
<1>7. /\ paymentTokens' \in [Accounts -> Int]
      /\ paymentTokens'[This] = paymentTokens[This] - balance[b]
      /\ paymentTokens'[Beneficiary] = paymentTokens[Beneficiary] + due
      /\ paymentTokens'[b] = paymentTokens[b] + back
      /\ \A a \in Accounts \ {This, Beneficiary, b} : paymentTokens'[a] = paymentTokens[a]
  <2> DEFINE first == Transfer(paymentTokens, This, Beneficiary, due)
  <2>1. /\ first \in [Accounts -> Int]
        /\ \A a \in Accounts : first[a] =
             IF a = This THEN paymentTokens[a] - due
             ELSE IF a = Beneficiary THEN paymentTokens[a] + due
             ELSE paymentTokens[a]
    BY <1>2, <1>3, <1>6, AccountsDiffer DEF Transfer
  <2>2. paymentTokens' = Transfer(first, This, b, back)
    BY <1>1
  <2> HIDE DEF first
  <2>3. /\ paymentTokens' \in [Accounts -> Int]
        /\ \A a \in Accounts : paymentTokens'[a] =
             IF a = This THEN first[a] - back
             ELSE IF a = b THEN first[a] + back
             ELSE first[a]
    BY <1>2, <1>3, <2>1, <2>2, AccountsDiffer DEF Transfer
  <2>4. paymentTokens'[This] = paymentTokens[This] - due - back
    BY <2>1, <2>3, AccountsDiffer
  <2>5. paymentTokens[This] - due - back = paymentTokens[This] - balance[b]
    BY <1>3, <1>6, AccountsDiffer
  <2> QED
    BY <1>2, <2>1, <2>3, <2>4, <2>5, AccountsDiffer
<1>8. /\ auctionTokens' \in [Accounts -> Int]
      /\ auctionTokens'[This] = auctionTokens[This] - won
      /\ auctionTokens'[b] = auctionTokens[b] + won
      /\ \A a \in Accounts \ {This, b} : auctionTokens'[a] = auctionTokens[a]
  BY <1>1, <1>2, <1>3, <1>6, AccountsDiffer DEF Transfer
<1>9. paymentTokens'[This] = SumFunctionOnSet(balance', Bidders)
  <2>1. /\ \A c \in Bidders : balance[c] \in Int
        /\ balance'[b] = 0 /\ balance'[b] \in Int
        /\ \A c \in Bidders \ {b} : balance'[c] = balance[c]
    BY <1>1, <1>2
  <2>2. SumFunctionOnSet(balance', Bidders)
          = SumFunctionOnSet(balance, Bidders) - balance[b] + balance'[b]
    BY <1>2, <2>1, SumAfterChange
  <2>3. SumFunctionOnSet(balance, Bidders) \in Int
    BY <1>2, <2>1, SumType
  <2> QED
    BY <1>3, <1>7, <2>1, <2>2, <2>3 DEF MoneyInv
<1>10. paymentTokens' \in [Accounts -> Nat] /\ auctionTokens' \in [Accounts -> Nat]
  <2>1. paymentTokens'[This] \in Nat
    <3>1. \A c \in Bidders : balance'[c] \in Nat
      BY <1>1, <1>2
    <3> QED
      BY <1>2, <1>9, <3>1, SumOfNaturals
  <2>2. \A a \in Accounts : paymentTokens'[a] \in Nat
    BY <1>3, <1>6, <1>7, <2>1
  <2>3. \A a \in Accounts : auctionTokens'[a] \in Nat
    BY <1>1, <1>3, <1>6, <1>8
  <2> QED
    BY <1>7, <1>8, <2>2, <2>3
<1>11. SumFunctionOnSet(Winnings, claimCompleted \cup {b})
         = SumFunctionOnSet(Winnings, claimCompleted) + won
  <2>1. /\ \A c \in claimCompleted : Winnings[c] \in Int
        /\ Winnings[b] = won /\ Winnings[b] \in Int
    BY <1>2, <1>3, WonByBidder DEF Winnings, won
  <2> QED
    BY <1>2, <2>1, SumWithElement
<1>12. /\ flags' \notin BeforeStart
       /\ flags' \in Selling =>
            auctionTokens'[This]
              = AuctionQuantity - SumFunctionOnSet(Winnings, claimCompleted)'
  <2>1. Over
    BY DEF AuctionInv, PhaseInv
  <2>2. flags' \notin BeforeStart
    BY <2>1 DEF Over, State, BeforeStart, UNINITIALIZED, INITIALIZED,
                INITIALIZED_TERMINATED, INITIALIZED_STARTED,
                INITIALIZED_STARTED_ENDED, INITIALIZED_STARTED_ENDED_TERMINATED
  <2>3. ASSUME flags' \in Selling
        PROVE  auctionTokens'[This]
                 = AuctionQuantity - SumFunctionOnSet(Winnings, claimCompleted)'
    <3>1. auctionTokens[This]
            = AuctionQuantity - SumFunctionOnSet(Winnings, claimCompleted)
      BY <2>3 DEF MoneyInv, Selling
    <3>2. SumFunctionOnSet(Winnings, claimCompleted) \in Int
      <4>1. \A c \in claimCompleted : Winnings[c] \in Int
        BY <1>2, WonByBidder DEF Winnings
      <4> QED
        BY <1>2, <4>1, SumType
    <3>3. SumFunctionOnSet(Winnings, claimCompleted)'
            = SumFunctionOnSet(Winnings, claimCompleted \cup {b})
      BY <1>1, <1>5
    <3> QED
      BY <1>2, <1>3, <1>8, <1>11, <3>1, <3>2, <3>3
  <2> QED
    BY <2>2, <2>3
<1>13. paymentTokens'[Beneficiary]
         = SumFunctionOnSet([c \in claimCompleted |-> DueBy(c)]', claimCompleted')
  <2> DEFINE old == [c \in claimCompleted |-> DueBy(c)]
             new == [c \in claimCompleted \cup {b} |-> DueBy(c)]
  <2>1. /\ \A c \in claimCompleted : old[c] = new[c] /\ old[c] \in Int /\ new[c] \in Int
        /\ new[b] = due /\ new[b] \in Int
    <3>1. \A c \in claimCompleted : DueBy(c) \in Nat
      BY <1>2, DueIsNatural
    <3> QED
      BY <1>3, <3>1 DEF due
  <2>2. [c \in claimCompleted |-> DueBy(c)]' = new
    BY <1>1, <1>4
  <2>3. paymentTokens[Beneficiary] = SumFunctionOnSet(old, claimCompleted)
    BY DEF MoneyInv, PaidAsOwed
  <2> HIDE DEF old, new
  <2>4. SumFunctionOnSet(old, claimCompleted) = SumFunctionOnSet(new, claimCompleted)
    BY <1>2, <2>1, SumOfSame
  <2>5. SumFunctionOnSet(new, claimCompleted \cup {b})
          = SumFunctionOnSet(new, claimCompleted) + new[b]
    BY <1>2, <2>1, SumWithElement
  <2>6. SumFunctionOnSet([c \in claimCompleted |-> DueBy(c)]', claimCompleted')
          = SumFunctionOnSet(new, claimCompleted \cup {b})
    BY <1>1, <2>2
  <2> QED
    BY <1>7, <2>1, <2>3, <2>4, <2>5, <2>6
<1>14. \A c \in Bidders :
         IF c \in claimCompleted'
         THEN /\ balance'[c] = 0
              /\ paymentTokens'[c] = Funds - DueBy(c)'
              /\ auctionTokens'[c] = WonBy(c)'
         ELSE /\ paymentTokens'[c] + balance'[c] = Funds
              /\ auctionTokens'[c] = 0
  <2> SUFFICES ASSUME NEW c \in Bidders
               PROVE  IF c \in claimCompleted'
                      THEN /\ balance'[c] = 0
                           /\ paymentTokens'[c] = Funds - DueBy(c)'
                           /\ auctionTokens'[c] = WonBy(c)'
                      ELSE /\ paymentTokens'[c] + balance'[c] = Funds
                           /\ auctionTokens'[c] = 0
    OBVIOUS
  <2>1. CASE c = b
    <3>1. /\ paymentTokens[b] + balance[b] = Funds /\ auctionTokens[b] = 0
      BY <1>2 DEF MoneyInv, PaidAsOwed
    <3>2. balance'[b] = 0 /\ b \in claimCompleted'
      BY <1>1, <1>2
    <3>3. paymentTokens[b] \in Nat /\ auctionTokens[b] \in Nat
      BY <1>2, <1>6, AccountsDiffer
    <3>4. paymentTokens'[b] = Funds - due /\ auctionTokens'[b] = won
      BY <1>3, <1>7, <1>8, <3>1, <3>3
    <3> QED
      BY <1>4, <2>1, <3>2, <3>4 DEF due, won
  <2>2. CASE c # b
    <3>1. /\ c \in claimCompleted' <=> c \in claimCompleted
          /\ balance'[c] = balance[c]
      BY <1>1, <1>2, <2>2
    <3>2. paymentTokens'[c] = paymentTokens[c] /\ auctionTokens'[c] = auctionTokens[c]
      BY <1>7, <1>8, <2>2, AccountsDiffer
    <3> QED
      BY <1>4, <3>1, <3>2 DEF MoneyInv, PaidAsOwed
  <2> QED
    BY <2>1, <2>2
<1>15. PaidAsOwed'
  BY <1>13, <1>14 DEF PaidAsOwed
<1> QED
  BY <1>9, <1>10, <1>12, <1>15 DEF MoneyInv, BeforeStart, Selling

\* Who a claim or an award that waits for its answer is for.
LEMMA RequestsAreResults ==
  ASSUME AuctionInv, AnswerInv, NEW r \in requests
  PROVE  /\ r.content.kind = "price" => r.content = PriceContent
         /\ r.content.kind # "price" =>
              clearUniformPrice = UniformPrice /\ clearUniformPrice # 0
         /\ r.content.kind = "claim" =>
              \E b \in Registered : r.content = ClaimContent(b)
         /\ r.content.kind # "price" /\ r.content.kind # "claim" =>
              \E b \in Registered : r.content = AwardContent(b)
BY DEF AnswerInv, PriceContent, ClaimContent, AwardContent

LEMMA AnswersKeepMoney ==
  ASSUME AuctionInv, AnswerInv, MoneyInv, NEW r \in requests,
         CallbackDecryptWonQuantity(r) \/ CallbackDecryptRankedWonQuantity(r)
  PROVE  MoneyInv'
<1>1. UNCHANGED <<flags, bidOf>> /\ ready # "nothing"
  BY DEF CallbackDecryptWonQuantity, CallbackDecryptRankedWonQuantity, timedVars,
         engineVars, AuctionInv, PhaseInv
<1>2. CASE CallbackDecryptWonQuantity(r)
  <2>1. /\ r.content.kind = "claim"
        /\ PayBidder(r.content.bidder, r.content.price, r.content.quantity)
    BY <1>2 DEF CallbackDecryptWonQuantity
  <2>2. PICK b \in Registered : r.content = ClaimContent(b)
    BY <2>1, RequestsAreResults
  <2>3. clearUniformPrice = UniformPrice
    BY <2>1, RequestsAreResults
  <2>4. /\ r.content.bidder = b /\ r.content.price = bidOf[b].price
        /\ r.content.quantity = WonBy(b)
    BY <2>2 DEF ClaimContent
  <2>5. PayBidder(b, bidOf[b].price, WonBy(b))
    BY <2>1, <2>4
  <2>6. b \notin claimCompleted
    BY <2>5 DEF PayBidder
  <2> QED
    BY <1>1, <2>3, <2>5, <2>6, PaymentKeepsMoney
<1>3. CASE CallbackDecryptRankedWonQuantity(r)
  <2>1. /\ r.content.kind = "award"
        /\ PayBidder(BidderById(r.content.id), r.content.price, r.content.quantity)
    BY <1>3 DEF CallbackDecryptRankedWonQuantity
  <2>2. PICK b \in Registered : r.content = AwardContent(b)
    BY <2>1, RequestsAreResults
  <2>3. clearUniformPrice = UniformPrice
    BY <2>1, RequestsAreResults
  <2>4. /\ r.content.id = bidOf[b].id /\ r.content.price = bidOf[b].price
        /\ r.content.quantity = WonBy(b)
    BY <2>2 DEF AwardContent
  <2>5. BidderById(r.content.id) = b
    BY <2>4, LookupsFind DEF AuctionInv
  <2>6. PayBidder(b, bidOf[b].price, WonBy(b))
    BY <2>1, <2>4, <2>5
  <2>7. b \notin claimCompleted
    BY <2>6 DEF PayBidder
  <2> QED
    BY <1>1, <2>3, <2>6, <2>7, PaymentKeepsMoney
<1> QED
  BY <1>2, <1>3

LEMMA StepKeepsMoney ==
  AuctionInv /\ AuctionInv' /\ AnswerInv /\ MoneyInv /\ [AuctionNext]_auctionVars
    => MoneyInv'
<1> SUFFICES ASSUME AuctionInv, AuctionInv', AnswerInv, MoneyInv,
                    [AuctionNext]_auctionVars
             PROVE  MoneyInv'
  OBVIOUS
<1>1. CASE \/ Initialize
           \/ \E d \in Durations, isStoppable \in BOOLEAN : Start(d, isStoppable)
           \/ Stop \/ Terminate \/ NextBlock \/ UNCHANGED auctionVars
  BY <1>1, OwnerKeepsMoney
<1>2. ASSUME NEW b \in Bidders,
             \/ \E amount \in Deposits : Deposit(b, amount) \/ Withdraw(b, amount)
             \/ \E offer \in Offers, amount \in Deposits \cup {0} : Bid(b, offer, amount)
             \/ CancelBid(b)
      PROVE  MoneyInv'
  BY <1>2, BidderKeepsMoney
<1>3. ASSUME NEW stopIfReady \in BOOLEAN, ComputeAuction(stopIfReady)
      PROVE  MoneyInv'
  <2>1. UNCHANGED <<timedVars, balance, claimCompleted, tokenVars>>
    BY <1>3 DEF ComputeAuction, claimVars
  <2>2. bidOf' = bidOf \/ claimCompleted = {}
    <3>1. CASE ready = "nothing"
      BY <3>1 DEF AuctionInv, PhaseInv
    <3>2. CASE ready # "nothing"
      BY <1>3, <3>2 DEF ComputeAuction, Stages
    <3> QED
      BY <3>1, <3>2
  <2> QED
    BY <2>1, <2>2, NothingMoved
<1>4. CASE \/ DecryptUniformPrice
           \/ \E b \in Bidders : Claim(b) \/ BlindClaim(b)
           \/ \E k \in Ranks : AwardPrizeAtRank(k)
           \/ \E r \in requests : CallbackDecryptUniformPrice(r) \/ RequestLost(r)
  <2>1. UNCHANGED <<timedVars, engineVars, balance, claimVars, tokenVars>>
    BY <1>4 DEF DecryptUniformPrice, Claim, BlindClaim, AwardPrizeAtRank,
                CallbackDecryptUniformPrice, RequestLost
  <2> QED
    BY <2>1, NothingMoved DEF engineVars, claimVars
<1>5. ASSUME NEW r \in requests,
             CallbackDecryptWonQuantity(r) \/ CallbackDecryptRankedWonQuantity(r)
      PROVE  MoneyInv'
  BY <1>5, AnswersKeepMoney
<1> QED
  BY <1>1, <1>2, <1>3, <1>4, <1>5 DEF AuctionNext

-----------------------------------------------------------------------------
(* The theorems *)

LEMMA InitHasMoney == AuctionInit => AnswerInv /\ MoneyInv
<1> SUFFICES ASSUME AuctionInit PROVE AnswerInv /\ MoneyInv
  OBVIOUS
<1>1. AnswerInv
  BY DEF AuctionInit, AnswerInv
<1>2. /\ flags = UNINITIALIZED /\ balance = [b \in Bidders |-> 0] /\ claimCompleted = {}
      /\ \A a \in Accounts : paymentTokens[a] = IF a \in Bidders THEN Funds ELSE 0
      /\ \A a \in Accounts :
           auctionTokens[a] = IF a = Beneficiary THEN AuctionQuantity ELSE 0
      /\ paymentTokens \in [Accounts -> Nat] /\ auctionTokens \in [Accounts -> Nat]
      /\ IsFiniteSet(Bidders) /\ Funds \in Nat
  BY AuctionAssumption DEF AuctionInit, TimedInit
<1>3. SumFunctionOnSet(balance, Bidders) = 0
  <2>1. \A b \in Bidders : balance[b] = 0 /\ balance[b] \in Nat
    BY <1>2
  <2>2. \A U \in SUBSET Bidders : SumFunctionOnSet(balance, U) = 0
    <3> DEFINE T == {U \in SUBSET Bidders : SumFunctionOnSet(balance, U) = 0}
    <3>1. ASSUME NEW U \in SUBSET Bidders, \A V \in SUBSET U : V # U => V \in T
          PROVE  U \in T
      <4>1. CASE U = {}
        BY <4>1, SumOfNothing
      <4>2. CASE U # {}
        <5>1. IsFiniteSet(U) /\ PickOf(U) \in U
          BY <1>2, <4>2, FS_Subset, PickIsElement
        <5>2. U \ {PickOf(U)} \in T
          BY <3>1, <5>1
        <5> QED
          BY <2>1, <4>2, <5>1, <5>2, SumByPick
      <4> QED
        BY <4>1, <4>2
    <3>2. \A U \in SUBSET Bidders : U \in T
      <4> HIDE DEF T
      <4> QED BY <1>2, <3>1, FiniteSubsetInduction
    <3> QED
      BY <3>2
  <2> QED
    BY <2>2
<1>4. PaidAsOwed
  <2>1. SumFunctionOnSet([b \in claimCompleted |-> DueBy(b)], claimCompleted) = 0
    BY <1>2, SumOfNothing
  <2>2. paymentTokens[Beneficiary] = 0
    BY <1>2, AccountsAssumption, AccountsDiffer
  <2>3. ASSUME NEW b \in Bidders
        PROVE  paymentTokens[b] + balance[b] = Funds /\ auctionTokens[b] = 0
    BY <1>2, AccountsDiffer
  <2> QED
    BY <1>2, <2>1, <2>2, <2>3 DEF PaidAsOwed
<1>5. paymentTokens[This] = 0 /\ auctionTokens[This] = 0
  BY <1>2, AccountsAssumption, AccountsDiffer
<1>6. flags \notin {INITIALIZED_STARTED, INITIALIZED_STARTED_ENDED}
  BY <1>2 DEF UNINITIALIZED, INITIALIZED_STARTED, INITIALIZED_STARTED_ENDED
<1> QED
  BY <1>1, <1>2, <1>3, <1>4, <1>5, <1>6 DEF MoneyInv

\* What is asked of the gateway is the result of the book, and the money is where
\* it belongs, in every state of an auction.
THEOREM MoneyInvariant == AuctionSpec => [](AnswerInv /\ MoneyInv)
BY InitHasMoney, StepKeepsAnswers, StepKeepsMoney, AuctionInvariant, PTL DEF AuctionSpec

\* Whatever the order in which answers of claims and awards come, repeat or get
\* lost: _callbackDecrypt() gives each bidder exactly what it won for exactly what
\* it owes, and nobody else's money moves.
THEOREM EverybodyPaidAsOwed == AuctionSpec => []PaidAsOwed
<1>1. MoneyInv => PaidAsOwed
  BY DEF MoneyInv
<1> QED
  BY <1>1, MoneyInvariant, PTL

\* What the unpaid bidders won, together, and what each of them won.
LEMMA RestOfWinnings ==
  ASSUME AuctionInv, MoneyInv, flags \in Selling
  PROVE  /\ auctionTokens[This] \in Nat
         /\ SumFunctionOnSet(Winnings, Registered \ claimCompleted) <= auctionTokens[This]
         /\ \A b \in Registered \ claimCompleted : WonBy(b) <= auctionTokens[This]
<1> DEFINE rest == SumFunctionOnSet(Winnings, Registered \ claimCompleted)
           given == SumFunctionOnSet(Winnings, claimCompleted)
<1>1. /\ BookInv /\ IsFiniteSet(Registered) /\ claimCompleted \in SUBSET Registered
      /\ IsFiniteSet(claimCompleted) /\ IsFiniteSet(Registered \ claimCompleted)
  BY BookIsFinite, FS_Subset DEF AuctionInv, PaidInv
<1>2. \A b \in Registered : Winnings[b] = WonBy(b) /\ Winnings[b] \in Nat
  BY <1>1, WonByBidder DEF Winnings
<1>3. SumFunctionOnSet(Winnings, Registered) = given + rest
  <2>1. \A b \in Registered : Winnings[b] \in Int
    BY <1>2
  <2> QED
    BY <1>1, <2>1, SumOfParts
<1>4. given \in Nat
  BY <1>1, <1>2, SumOfNaturals
<1>5. /\ rest \in Nat
      /\ \A b \in Registered \ claimCompleted : Winnings[b] <= rest
  BY <1>1, <1>2, SumOfNaturals
<1>6. SumFunctionOnSet(Winnings, Registered) <= AuctionQuantity
  BY <1>1, WinningsFit
<1>7. auctionTokens[This] = AuctionQuantity - given
  BY DEF MoneyInv, Selling
<1>8. AuctionQuantity \in Nat
  BY AuctionAssumption
<1> HIDE DEF rest, given
<1>9. auctionTokens[This] \in Nat /\ rest <= auctionTokens[This]
  BY <1>3, <1>4, <1>5, <1>6, <1>7, <1>8
<1>10. \A b \in Registered \ claimCompleted : WonBy(b) <= auctionTokens[This]
  <2> SUFFICES ASSUME NEW b \in Registered \ claimCompleted
               PROVE  WonBy(b) <= auctionTokens[This]
    OBVIOUS
  <2>1. WonBy(b) \in Nat /\ WonBy(b) <= rest
    BY <1>2, <1>5
  <2> QED
    BY <1>5, <1>9, <2>1
<1> QED
  BY <1>9, <1>10 DEF rest

\* The contract is solvent: it holds the deposits of all bidders, and from the
\* result on the tokens that the winners not yet paid have won, because no result
\* gives away more than was for sale.
THEOREM EscrowAlwaysCovers == AuctionSpec => []EscrowCoversDebts
<1>1. AuctionInv /\ MoneyInv => EscrowCoversDebts
  <2> SUFFICES ASSUME AuctionInv, MoneyInv PROVE EscrowCoversDebts
    OBVIOUS
  <2>1. ASSUME Closed
        PROVE  auctionTokens[This] >=
                 SumFunctionOnSet([b \in Registered |-> WonBy(b)],
                                  Registered \ claimCompleted)
    <3>1. flags \in Selling
      BY <2>1 DEF Closed, State, Selling
    <3>2. SumFunctionOnSet(Winnings, Registered \ claimCompleted) <= auctionTokens[This]
      BY <3>1, RestOfWinnings
    <3>3. /\ auctionTokens[This] \in Nat
          /\ SumFunctionOnSet(Winnings, Registered \ claimCompleted) \in Nat
      <4>1. IsFiniteSet(Registered \ claimCompleted)
        BY BookIsFinite, FS_Subset
      <4>2. \A b \in Registered \ claimCompleted : Winnings[b] \in Nat
        BY WonByBidder DEF AuctionInv, Winnings
      <4> QED
        BY <3>1, <4>1, <4>2, RestOfWinnings, SumOfNaturals
    <3> QED
      BY <3>2, <3>3 DEF Winnings
  <2> QED
    BY <2>1 DEF EscrowCoversDebts, MoneyInv
<1> QED
  BY <1>1, AuctionInvariant, MoneyInvariant, PTL

\* An answer that comes late, after others, or for the second time is still the
\* right one, and none of the checks marked "Panic" can fail for an unpaid bidder.
THEOREM PendingAnswersStayPayable == AuctionSpec => []PendingAnswersArePayable
<1>1. AuctionInv /\ SettledInv /\ AnswerInv /\ MoneyInv => PendingAnswersArePayable
  <2> SUFFICES ASSUME AuctionInv, SettledInv, AnswerInv, MoneyInv, NEW r \in requests
               PROVE  IF r.content.kind = "price" THEN r.content.price = UniformPrice
                      ELSE LET b == IF r.content.kind = "claim" THEN r.content.bidder
                                    ELSE BidderById(r.content.id)
                           IN  b \notin claimCompleted =>
                                 /\ NoPanic(b, r.content.price, r.content.quantity)
                                 /\ auctionTokens[This] >= r.content.quantity
    BY DEF PendingAnswersArePayable
  <2>1. CASE r.content.kind = "price"
    <3>1. r.content.price = UniformPrice
      BY <2>1, RequestsAreResults DEF PriceContent
    <3> QED
      BY <2>1, <3>1
  <2>2. CASE r.content.kind # "price"
    <3> DEFINE named == IF r.content.kind = "claim" THEN r.content.bidder
                        ELSE BidderById(r.content.id)
    <3>1. PICK b \in Registered :
            /\ named = b /\ r.content.price = bidOf[b].price
            /\ r.content.quantity = WonBy(b)
      <4>1. CASE r.content.kind = "claim"
        <5>1. PICK b \in Registered : r.content = ClaimContent(b)
          BY <4>1, RequestsAreResults
        <5>2. /\ r.content.bidder = b /\ r.content.price = bidOf[b].price
              /\ r.content.quantity = WonBy(b)
          BY <5>1 DEF ClaimContent
        <5> QED
          BY <4>1, <5>2
      <4>2. CASE r.content.kind # "claim"
        <5>1. PICK b \in Registered : r.content = AwardContent(b)
          BY <2>2, <4>2, RequestsAreResults
        <5>2. /\ r.content.id = bidOf[b].id /\ r.content.price = bidOf[b].price
              /\ r.content.quantity = WonBy(b)
          BY <5>1 DEF AwardContent
        <5>3. BidderById(bidOf[b].id) = b
          BY LookupsFind DEF AuctionInv
        <5> QED
          BY <4>2, <5>2, <5>3
      <4> QED
        BY <4>1, <4>2
    <3>2. ASSUME b \notin claimCompleted
          PROVE  /\ NoPanic(b, bidOf[b].price, WonBy(b))
                 /\ auctionTokens[This] >= WonBy(b)
      <4>1. /\ BookInv /\ ready # "nothing" /\ clearUniformPrice = UniformPrice
            /\ clearUniformPrice # 0
        BY <2>2, RequestsAreResults DEF AuctionInv, PhaseInv
      <4>2. UniformPrice \in Nat /\ WonBy(b) \in Nat
            /\ (WonBy(b) > 0 => UniformPrice <= bidOf[b].price)
            /\ bidOf[b].price \in Nat
        BY <4>1, PriceIsLowest, WonByBidder, BookIsTyped
      <4>3. AmountDue(bidOf[b].price, WonBy(b)) = DueBy(b)
        BY <4>1 DEF AmountDue, DueBy
      <4>4. DueBy(b) <= balance[b] /\ DueBy(b) \in Nat /\ balance[b] \in Nat
        BY <3>2, <4>1, DueIsCovered, DueIsNatural DEF BookInv, Registered
      <4>5. NoPanic(b, bidOf[b].price, WonBy(b))
        BY <4>1, <4>2, <4>3, <4>4 DEF NoPanic
      <4>6. flags \in Selling
        <5>1. ~Terminated
          BY <3>2 DEF SettledInv
        <5>2. Over
          BY <4>1 DEF AuctionInv, PhaseInv
        <5> QED
          BY <5>1, <5>2 DEF Over, State, Terminated, Selling, INITIALIZED_STARTED,
                            INITIALIZED_STARTED_ENDED,
                            INITIALIZED_STARTED_ENDED_TERMINATED
      <4>7. WonBy(b) <= auctionTokens[This] /\ auctionTokens[This] \in Nat
        BY <3>2, <4>6, RestOfWinnings
      <4> QED
        BY <4>2, <4>5, <4>7
    <3> HIDE DEF named
    <3>3. named \notin claimCompleted =>
            /\ NoPanic(named, r.content.price, r.content.quantity)
            /\ auctionTokens[This] >= r.content.quantity
      BY <3>1, <3>2
    <3> QED
      BY <2>2, <3>3 DEF named
  <2> QED
    BY <2>1, <2>2
<1>2. AuctionSpec => []SettledInv
  <2>1. AuctionInit => SettledInv
    BY DEF AuctionInit, TimedInit, Registered, NoBid, SettledInv, Terminated,
           UNINITIALIZED, INITIALIZED_TERMINATED, INITIALIZED_STARTED_ENDED_TERMINATED
  <2> QED
    BY <2>1, StepSettles, AuctionInvariant, AuctionFollowsStateGraph, PTL DEF AuctionSpec
<1> QED
  BY <1>1, <1>2, AuctionInvariant, MoneyInvariant, PTL

-----------------------------------------------------------------------------
(* The closing of the engine *)

\* The engine is closed when the time for bids is over, by stop() at the latest when
\* it is called, for the book as it is from then on; and only bidders in the book
\* have been given ranks.
ClosingInv ==
  /\ engineClosed => Over
  /\ flags = INITIALIZED_STARTED_ENDED => engineClosed
  /\ engineClosed => iteratorBidCount = BidCount
  /\ \A b \in Bidders : blindRankPlusOne[b] # 0 => b \in Registered

LEMMA ClosingBegins == AuctionInit => ClosingInv
BY DEF AuctionInit, TimedInit, ClosingInv, UNINITIALIZED, INITIALIZED_STARTED_ENDED

LEMMA ClosingStays ==
  ASSUME AuctionInv, TimedTypeOK, ClosingInv, [AuctionNext]_auctionVars
  PROVE  ClosingInv'
<1>1. [TimedNext]_timedVars /\ (Over => Over')
  BY AuctionStepsAreTimedSteps, OverStays
<1>2. ASSUME UNCHANGED <<engineClosed, iteratorBidCount>>, Registered' = Registered,
             blindRankPlusOne' = blindRankPlusOne,
             flags' = INITIALIZED_STARTED_ENDED => flags = INITIALIZED_STARTED_ENDED
      PROVE  ClosingInv'
  BY <1>1, <1>2 DEF ClosingInv, BidCount
<1>3. CASE \/ Initialize
           \/ \E d \in Durations, isStoppable \in BOOLEAN : Start(d, isStoppable)
           \/ Terminate \/ NextBlock \/ UNCHANGED auctionVars
  <2>1. UNCHANGED <<engineClosed, iteratorBidCount, bidOf, blindRankPlusOne>>
    BY <1>3 DEF Initialize, Start, Terminate, NextBlock, auctionVars, engineVars, blindVars
  <2>2. flags' = INITIALIZED_STARTED_ENDED => flags = INITIALIZED_STARTED_ENDED
    BY <1>3 DEF Initialize, Start, Terminate, NextBlock, auctionVars, timedVars,
                TimedInitialize, TimedStart, TimedTerminate, Tick, INITIALIZED,
                INITIALIZED_TERMINATED, INITIALIZED_STARTED, INITIALIZED_STARTED_ENDED,
                INITIALIZED_STARTED_ENDED_TERMINATED
  <2> QED
    BY <1>2, <2>1, <2>2 DEF Registered
<1>4. CASE Stop
  <2>1. /\ UNCHANGED <<bidOf, blindRankPlusOne>> /\ flags' = INITIALIZED_STARTED_ENDED
        /\ engineClosed' = TRUE /\ iteratorBidCount' = BidCount
    BY <1>4 DEF Stop, CloseEngine, TimedStop, blindVars
  <2>2. Over'
    BY <2>1 DEF Over, State, INITIALIZED_STARTED, INITIALIZED_STARTED_ENDED
  <2>3. Registered' = Registered /\ BidCount' = BidCount
    BY <2>1 DEF Registered, BidCount
  <2> QED
    BY <2>1, <2>2, <2>3 DEF ClosingInv
<1>5. ASSUME NEW b \in Bidders,
             \/ \E amount \in Deposits : Deposit(b, amount) \/ Withdraw(b, amount)
             \/ \E offer \in Offers, amount \in Deposits \cup {0} : Bid(b, offer, amount)
             \/ CancelBid(b)
      PROVE  ClosingInv'
  <2>1. ~Over
    BY <1>5, OpenIsNotOver DEF Deposit, Withdraw, WithdrawAccepted, Bid, CancelBid
  <2>2. /\ engineClosed' = engineClosed /\ blindRankPlusOne' = blindRankPlusOne
        /\ flags' = flags
    BY <1>5 DEF Deposit, Withdraw, Bid, CancelBid, engineVars, blindVars, timedVars
  <2>3. blindClaimRequestCount = 0 /\ blindRankPlusOne \in [Bidders -> Nat]
    BY <2>1 DEF AuctionInv, PhaseInv, BlindInv
  <2>4. {blindRankPlusOne[c] : c \in Bidders} \ {0} = 1..0
    BY <2>3 DEF AuctionInv, BlindInv, BlindRanksAreFair
  <2>5. \A c \in Bidders : blindRankPlusOne[c] = 0
    BY <2>4
  <2> QED
    BY <2>1, <2>2, <2>5 DEF ClosingInv
<1>6. ASSUME NEW stopIfReady \in BOOLEAN, ComputeAuction(stopIfReady)
      PROVE  ClosingInv'
  <2>1. Registered' = Registered /\ BidCount' = BidCount
    BY <1>6, ComputeKeepsInv DEF BidCount
  <2>2. /\ Over /\ blindRankPlusOne' = blindRankPlusOne
        /\ engineClosed' /\ iteratorBidCount' = BidCount
    BY <1>6, OpenIsNotOver DEF ComputeAuction, CloseEngine, ClosingInv, blindVars
  <2> QED
    BY <1>1, <2>1, <2>2 DEF ClosingInv
<1>7. CASE \/ DecryptUniformPrice
           \/ \E b \in Bidders : Claim(b)
           \/ \E k \in Ranks : AwardPrizeAtRank(k)
  <2>1. UNCHANGED <<flags, engineClosed, iteratorBidCount, bidOf, blindRankPlusOne>>
    BY <1>7 DEF DecryptUniformPrice, Claim, AwardPrizeAtRank, engineVars, blindVars,
                timedVars
  <2> QED
    BY <1>2, <2>1 DEF Registered
<1>8. ASSUME NEW b \in Bidders, BlindClaim(b)
      PROVE  ClosingInv'
  <2>1. /\ UNCHANGED <<flags, engineClosed, iteratorBidCount, bidOf>>
        /\ (blindRankPlusOne[b] = 0 => b \in Registered)
    BY <1>8 DEF BlindClaim, engineVars, timedVars
  <2>2. \E rankPlusOne : blindRankPlusOne' = [blindRankPlusOne EXCEPT ![b] = rankPlusOne]
    BY <1>8 DEF BlindClaim
  <2>3. \A c \in Bidders \ {b} : blindRankPlusOne'[c] = blindRankPlusOne[c]
    BY <2>2 DEF AuctionInv, BlindInv
  <2>4. Registered' = Registered /\ BidCount' = BidCount /\ b \in Registered
    BY <2>1 DEF Registered, BidCount, ClosingInv
  <2> QED
    BY <1>1, <2>1, <2>3, <2>4 DEF ClosingInv
<1>9. ASSUME NEW r \in requests,
             \/ CallbackDecryptUniformPrice(r) \/ CallbackDecryptWonQuantity(r)
             \/ CallbackDecryptRankedWonQuantity(r) \/ RequestLost(r)
      PROVE  ClosingInv'
  <2>1. UNCHANGED <<flags, engineClosed, iteratorBidCount, bidOf, blindRankPlusOne>>
    BY <1>9 DEF CallbackDecryptUniformPrice, CallbackDecryptWonQuantity, RequestLost,
                CallbackDecryptRankedWonQuantity, engineVars, blindVars, timedVars
  <2> QED
    BY <1>2, <2>1 DEF Registered
<1> QED
  BY <1>3, <1>4, <1>5, <1>6, <1>7, <1>8, <1>9 DEF AuctionNext

\* While bids are taken the engine is not closed, stop() has closed it, and its
\* iterator was given the number of bids that are in the book (ClosingsAgree of the
\* runs), whichever of stop() and computeAuction() came first and although the end
\* of an auction by the clock is written nowhere: no bid enters or leaves the book
\* of a computation that was set up without it.
THEOREM ClosingsAlwaysAgree == AuctionSpec => []ClosingsAgree
<1>1. ClosingInv => ClosingsAgree
  BY OpenIsNotOver DEF ClosingInv, ClosingsAgree
<1> QED
  BY <1>1, ClosingBegins, ClosingStays, AuctionInvariant, AuctionFollowsStateGraph, PTL
     DEF AuctionSpec

-----------------------------------------------------------------------------
(* Types *)

\* What no invariant above speaks of.
RestTyped ==
  /\ engineClosed \in BOOLEAN
  /\ \A r \in requests : r.copy \in 1..MaxCopies

LEMMA RequestsAreNumbered ==
  ASSUME RestTyped, NEW content, Request(content)
  PROVE  \A r \in requests' : r.copy \in 1..MaxCopies
BY DEF RestTyped, Request

LEMMA StepKeepsRestTyped ==
  RestTyped /\ [AuctionNext]_auctionVars => RestTyped'
<1> SUFFICES ASSUME RestTyped, [AuctionNext]_auctionVars
             PROVE  RestTyped'
  OBVIOUS
<1>1. CASE \/ Initialize
           \/ \E d \in Durations, isStoppable \in BOOLEAN : Start(d, isStoppable)
           \/ Stop \/ Terminate \/ NextBlock \/ UNCHANGED auctionVars
  BY <1>1 DEF Initialize, Start, Stop, CloseEngine, Terminate, NextBlock, auctionVars,
              engineVars, RestTyped
<1>2. ASSUME NEW b \in Bidders,
             \/ \E amount \in Deposits : Deposit(b, amount) \/ Withdraw(b, amount)
             \/ \E offer \in Offers, amount \in Deposits \cup {0} : Bid(b, offer, amount)
             \/ CancelBid(b)
      PROVE  RestTyped'
  BY <1>2 DEF Deposit, Withdraw, Bid, CancelBid, engineVars, RestTyped
<1>3. ASSUME NEW stopIfReady \in BOOLEAN, ComputeAuction(stopIfReady)
      PROVE  RestTyped'
  BY <1>3 DEF ComputeAuction, CloseEngine, RestTyped
<1>4. CASE \/ DecryptUniformPrice
           \/ \E b \in Bidders : Claim(b) \/ BlindClaim(b)
           \/ \E k \in Ranks : AwardPrizeAtRank(k)
  <2>1. /\ engineClosed' = engineClosed
        /\ requests' = requests \/ \E content : Request(content)
    BY <1>4 DEF DecryptUniformPrice, Claim, BlindClaim, AwardPrizeAtRank, AwardRank,
                engineVars
  <2> QED
    BY <2>1, RequestsAreNumbered DEF RestTyped
<1>5. ASSUME NEW r \in requests,
             \/ CallbackDecryptUniformPrice(r) \/ CallbackDecryptWonQuantity(r)
             \/ CallbackDecryptRankedWonQuantity(r) \/ RequestLost(r)
      PROVE  RestTyped'
  BY <1>5 DEF CallbackDecryptUniformPrice, CallbackDecryptWonQuantity,
              CallbackDecryptRankedWonQuantity, RequestLost, engineVars, RestTyped
<1> QED
  BY <1>1, <1>2, <1>3, <1>4, <1>5 DEF AuctionNext

\* Requests have the contents their callbacks take apart.
LEMMA ContentsAreTyped ==
  ASSUME AuctionInv, AnswerInv, NEW r \in requests
  PROVE  r.content \in Contents
<1>1. BookInv /\ UniformPrice \in Nat
  BY PriceIsLowest DEF AuctionInv
<1>2. ASSUME NEW b \in Registered
      PROVE  /\ b \in Bidders /\ bidOf[b].price \in Nat /\ bidOf[b].id \in 1..MaxNextId
             /\ WonBy(b) \in 0..AuctionQuantity /\ Rank(b) \in Ranks
  <2>1. /\ b \in Bidders /\ bidOf[b].price \in Nat /\ bidOf[b].id \in 1..MaxNextId
        /\ bidOf[b].quantity \in Nat /\ bidOf[b].quantity <= AuctionQuantity
        /\ AuctionQuantity \in Nat
    BY <1>1, BookIsTyped
  <2>2. WonBy(b) \in 0..AuctionQuantity
    BY <1>1, <2>1, WonByBidder
  <2>3. Rank(b) \in 0..(BidCount - 1) /\ BidCount \in Nat
    BY <1>1, RanksAreDistinct, BookIsFinite
  <2>4. BidCount <= Cardinality(Bidders) /\ Cardinality(Bidders) \in Nat
    BY AuctionAssumption, FS_Subset, FS_CardinalityType DEF BidCount, Registered
  <2> QED
    BY <2>1, <2>2, <2>3, <2>4 DEF Ranks
<1>3. \/ r.content = PriceContent
      \/ \E b \in Registered : r.content \in {ClaimContent(b), AwardContent(b)}
  BY DEF AnswerInv
<1>4. CASE r.content = PriceContent
  BY <1>1, <1>4 DEF Contents, PriceContent
<1>5. ASSUME NEW b \in Registered, r.content \in {ClaimContent(b), AwardContent(b)}
      PROVE  r.content \in Contents
  <2>1. ClaimContent(b) \in [kind : {"claim"}, bidder : Bidders, price : Nat,
                             quantity : 0..AuctionQuantity]
    BY <1>2 DEF ClaimContent
  <2>2. AwardContent(b) \in [kind : {"award"}, rank : Ranks, id : 1..MaxNextId,
                             price : Nat, quantity : 0..AuctionQuantity]
    BY <1>2 DEF AwardContent
  <2> QED
    BY <1>5, <2>1, <2>2 DEF Contents
<1> QED
  BY <1>3, <1>4, <1>5

\* Every variable of the auction contract keeps its type; in particular no balance
\* and no deposit is ever negative, so that no subtraction of the code wraps.
THEOREM AuctionTypeCorrect == AuctionSpec => []AuctionTypeOK
<1>1. TimedTypeOK /\ AuctionInv /\ AnswerInv /\ MoneyInv /\ RestTyped => AuctionTypeOK
  <2> SUFFICES ASSUME TimedTypeOK, AuctionInv, AnswerInv, MoneyInv, RestTyped
               PROVE  AuctionTypeOK
    OBVIOUS
  <2>1. /\ engineClosed \in BOOLEAN /\ iteratorBidCount \in Nat
        /\ ready \in {"nothing", "validated", "byRank", "byId"}
        /\ nextId \in 1..(MaxNextId + 1)
        /\ balance \in [Bidders -> Nat]
        /\ blindRankPlusOne \in [Bidders -> Nat] /\ blindClaimRequestCount \in Nat
        /\ paymentTokens \in [Accounts -> Nat] /\ auctionTokens \in [Accounts -> Nat]
    BY DEF RestTyped, AuctionInv, PhaseInv, BookInv, BlindInv, MoneyInv
  <2>2. bidOf \in [Bidders -> [price : Nat, quantity : 0..AuctionQuantity,
                               id : 0..MaxNextId, rand : {0}]]
    BY DEF AuctionInv, BookInv, BidRecords
  <2>3. clearUniformPrice \in Nat
    BY PriceIsLowest DEF AuctionInv, AnswerInv
  <2>4. \A r \in requests : r.content \in Contents /\ r.copy \in 1..MaxCopies
    BY ContentsAreTyped DEF RestTyped
  <2>5. claimCompleted \subseteq Bidders
    BY DEF AuctionInv, PaidInv, Registered
  <2>6. claimCompletedCount \in Nat /\ prizeAtRankAwardedCount \in Nat
    BY FS_CardinalityType DEF AuctionInv, PaidInv
  <2>7. prizeAtRankAwarded \subseteq Ranks
    <3>1. BidCount <= Cardinality(Bidders) /\ Cardinality(Bidders) \in Nat /\ BidCount \in Nat
      BY AuctionAssumption, BookIsFinite, FS_Subset, FS_CardinalityType
         DEF BidCount, Registered
    <3>2. \A b \in claimCompleted : Rank(b) \in 0..(BidCount - 1)
      BY RanksAreDistinct DEF AuctionInv, PaidInv
    <3>3. 0..(BidCount - 1) \subseteq Ranks
      BY <3>1 DEF Ranks
    <3> QED
      BY <3>2, <3>3 DEF AuctionInv, PaidInv
  <2> QED
    BY <2>1, <2>2, <2>3, <2>4, <2>5, <2>6, <2>7 DEF AuctionTypeOK
<1>2. AuctionInit => RestTyped
  <2> SUFFICES ASSUME AuctionInit PROVE RestTyped
    OBVIOUS
  <2>1. engineClosed = FALSE /\ requests = {}
    BY DEF AuctionInit
  <2> QED
    BY <2>1 DEF RestTyped
<1>3. AuctionSpec => []RestTyped
  BY <1>2, StepKeepsRestTyped, PTL DEF AuctionSpec
<1> QED
  BY <1>1, <1>3, AuctionInvariant, MoneyInvariant, AuctionFollowsStateGraph, PTL
=============================================================================
