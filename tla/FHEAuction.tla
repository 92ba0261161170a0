----------------------------- MODULE FHEAuction -----------------------------
(***************************************************************************)
(* The auction contract: FHEAuctionBase.sol, FHEAuction.sol, the extension *)
(* FHEAuctionBlindClaimable.sol and the two deployed ends FHEAuctionERC20  *)
(* and FHEAuctionNative, on top of TimedAuction.  It holds the bidders'    *)
(* deposits and the tokens for sale, opens and closes the book, starts the *)
(* computation, and pays every bidder from the answers of the decryption   *)
(* gateway, which come later, in any order, or never.                      *)
(*                                                                         *)
(* The engine is seen through its getters: which results are ready         *)
(* (`ready'), and results that are those of TieBreaking.tla, as            *)
(* AuctionEngine.tla shows.  The bookkeeping of ids and indices is in      *)
(* BidRegistry.tla.  A call that reverts changes nothing and is no action. *)
(***************************************************************************)
EXTENDS TimedAuction, TieBreaking

CONSTANTS
  Bidders,          \* accounts
  Rejecting,        \* accounts that refuse a native transfer
  Rule,             \* tie-breaking rule of the engine
  AuctionQuantity,  \* auctionQuantity()
  MinimumDeposit,   \* _minimumPaymentDeposit
  PaymentPenalty,   \* _paymentPenalty
  Funds,            \* payment tokens of a bidder when the auction begins
  Deposits,         \* amounts that are deposited
  Offers,           \* (price, quantity) of bids, as addBid() normalises them
  MaxNextId,        \* bound on _nextId, that is on the number of bids placed
  MaxCopies         \* bound on identical requests waiting in the gateway

ASSUME AuctionAssumption ==
  /\ IsFiniteSet(Bidders) /\ Rejecting \subseteq Bidders
  /\ Rule \in {"PriceId", "PriceQuantityId"}   \* a bid has no random number here
  /\ AuctionQuantity \in Nat \ {0}
  /\ MinimumDeposit \in Nat /\ PaymentPenalty \in Nat
  /\ PaymentPenalty <= MinimumDeposit     \* PaymentPenaltyTooHigh()
  /\ Funds \in Nat /\ Deposits \subseteq Nat
  /\ Offers \subseteq [price : Nat, quantity : 0..AuctionQuantity]
  /\ \A offer \in Offers : offer.price = 0 <=> offer.quantity = 0
  /\ MaxNextId \in Nat /\ MaxCopies \in Nat \ {0}

VARIABLES
  engineClosed,             \* _auctionIsClosed of the engine
  iteratorBidCount,         \* the bids that the iterator of the engine counts on
  ready,                    \* which results of the engine are ready
  nextId,                   \* _nextId of the engine
  bidOf,                    \* _idToBid of _bidderToId of the engine
  balance,                  \* _balances
  clearUniformPrice,        \* _clearUniformPrice
  requests,                 \* decryptions the gateway was asked for
  claimCompleted,           \* accounts marked in _claimCompleted
  claimCompletedCount,      \* _claimCompletedCount
  prizeAtRankAwarded,       \* ranks marked in _prizeAtRankAwarded
  prizeAtRankAwardedCount,  \* _prizeAtRankAwardedCount
  blindRankPlusOne,         \* _bidderToBlindClaimRankPlusOne
  blindClaimRequestCount,   \* _blindClaimRequestCount
  paymentTokens,            \* the payment token's balances
  auctionTokens             \* the auction token's balances

engineVars == <<engineClosed, iteratorBidCount, ready, nextId, bidOf>>
claimVars == <<claimCompleted, claimCompletedCount, prizeAtRankAwarded,
               prizeAtRankAwardedCount>>
blindVars == <<blindRankPlusOne, blindClaimRequestCount>>
tokenVars == <<paymentTokens, auctionTokens>>
auctionVars == <<timedVars, engineVars, balance, clearUniformPrice, requests,
                 claimVars, blindVars, tokenVars>>

This == "auction"              \* address(this)
Beneficiary == "beneficiary"   \* _beneficiary
Accounts == Bidders \cup {This, Beneficiary}

ASSUME AccountsAssumption == This \notin Bidders /\ Beneficiary \notin Bidders

NoBid == [price |-> 0, quantity |-> 0, id |-> 0, rand |-> 0]

-----------------------------------------------------------------------------
(* The engine, through its getters *)

Registered == {b \in Bidders : bidOf[b].id # 0}
BidCount == Cardinality(Registered)
Book == [b \in Registered |-> bidOf[b]]

\* Steps 1, 3 and 4 of the computation are the ones whose effect can be seen.
Stages == <<"nothing", "validated", "byRank", "byId">>
ByRankReady == ready \in {"byRank", "byId"}
ByIdReady == ready = "byId"

UniformPrice == SinglePrice(Rule, Book, AuctionQuantity)
WonBy(b) == Won(Rule, Book, AuctionQuantity, b)

Rank(b) == Cardinality({c \in Registered : Beats(Rule, bidOf[c], bidOf[b])})
BidderAtRank(k) == CHOOSE b \in Registered : Rank(b) = k
BidderById(id) == CHOOSE b \in Registered : bidOf[b].id = id

\* Mutant of Validated: the price is compared with the deposit.
ValidatedByPrice(b) ==
  IF bidOf[b].price <= balance[b] THEN bidOf[b]
  ELSE [bidOf[b] EXCEPT !.price = 0, !.quantity = 0]

\* Step 1: a bid that the deposit does not cover becomes zero.
Validated(b) ==
  IF bidOf[b].price * bidOf[b].quantity <= balance[b] THEN bidOf[b]
  ELSE [bidOf[b] EXCEPT !.price = 0, !.quantity = 0]

-----------------------------------------------------------------------------
(* Tokens: a transfer of an amount between two accounts *)

Transfer(tokens, from, to, amount) ==
  [tokens EXCEPT ![from] = @ - amount, ![to] = @ + amount]

\* A native transfer calls the account, also with an amount of zero.
CanReceive(account) == account \notin Rejecting

-----------------------------------------------------------------------------
(* Owner *)

AuctionInit ==
  /\ TimedInit
  /\ engineClosed = FALSE
  /\ iteratorBidCount = 0
  /\ ready = "nothing"
  /\ nextId = 1
  /\ bidOf = [b \in Bidders |-> NoBid]
  /\ balance = [b \in Bidders |-> 0]
  /\ clearUniformPrice = 0
  /\ requests = {}
  /\ claimCompleted = {}
  /\ claimCompletedCount = 0
  /\ prizeAtRankAwarded = {}
  /\ prizeAtRankAwardedCount = 0
  /\ blindRankPlusOne = [b \in Bidders |-> 0]
  /\ blindClaimRequestCount = 0
  /\ paymentTokens = [a \in Accounts |-> IF a \in Bidders THEN Funds ELSE 0]
  /\ auctionTokens = [a \in Accounts |->
                        IF a = Beneficiary THEN AuctionQuantity ELSE 0]

Initialize ==
  /\ TimedInitialize
  /\ UNCHANGED <<engineVars, balance, clearUniformPrice, requests, claimVars,
                 blindVars, tokenVars>>

Start(duration, isStoppable) ==
  /\ TimedStart(duration, isStoppable)
  /\ auctionTokens[Beneficiary] >= AuctionQuantity
  /\ auctionTokens' = Transfer(auctionTokens, Beneficiary, This, AuctionQuantity)
  /\ UNCHANGED <<engineVars, balance, clearUniformPrice, requests, claimVars,
                 blindVars, paymentTokens>>

\* _close() of the engine, which gives the iterator the sizes of its steps: they
\* are computed from the number of bids at this moment, and never again.
CloseEngine ==
  /\ engineClosed' = TRUE
  /\ iteratorBidCount' = BidCount

\* The engine refuses to be closed twice, also when a computation closed it.
Stop ==
  /\ TimedStop
  /\ ~engineClosed
  /\ CloseEngine
  /\ UNCHANGED <<ready, nextId, bidOf, balance, clearUniformPrice, requests,
                 claimVars, blindVars, tokenVars>>

\* Mutant of CanTerminateAfterStart: it is enough that everybody has asked.
CanTerminateWhenRequested ==
  claimCompletedCount = BidCount \/ blindClaimRequestCount = BidCount

CanTerminateAfterStart ==
  claimCompletedCount = BidCount \/ prizeAtRankAwardedCount = BidCount

Terminate ==
  /\ TimedTerminate(CanTerminateAfterStart)
  /\ auctionTokens' = Transfer(auctionTokens, This, Beneficiary, auctionTokens[This])
  /\ UNCHANGED <<engineVars, balance, clearUniformPrice, requests, claimVars,
                 blindVars, paymentTokens>>

-----------------------------------------------------------------------------
(* Bidders, while the auction is open *)

\* Mutant of Deposited: a transferFrom() that fails is not noticed.
DepositedUnchecked(b, amount) ==
  /\ balance' = [balance EXCEPT ![b] = @ + amount]
  /\ paymentTokens' = IF paymentTokens[b] >= amount
                      THEN Transfer(paymentTokens, b, This, amount)
                      ELSE paymentTokens

\* The balance after a deposit of `amount', 0 for a call without deposit.
Deposited(b, amount) ==
  /\ paymentTokens[b] >= amount
  /\ balance' = [balance EXCEPT ![b] = @ + amount]
  /\ paymentTokens' = Transfer(paymentTokens, b, This, amount)

Deposit(b, amount) ==
  /\ IsOpen
  /\ Deposited(b, amount)
  /\ UNCHANGED <<timedVars, engineVars, clearUniformPrice, requests, claimVars,
                 blindVars, auctionTokens>>

\* bid() for amount 0, bidWithDeposit() otherwise: the deposit must reach the
\* minimum, and the account must not have a bid.
Bid(b, offer, amount) ==
  /\ IsOpen
  /\ Deposited(b, amount)
  /\ balance[b] + amount >= MinimumDeposit
  /\ ~engineClosed
  /\ bidOf[b].id = 0
  /\ nextId <= MaxNextId
  /\ nextId' = nextId + 1
  /\ bidOf' = [bidOf EXCEPT ![b] = [price |-> offer.price, rand |-> 0,
                                    quantity |-> offer.quantity, id |-> nextId]]
  /\ UNCHANGED <<timedVars, engineClosed, iteratorBidCount, ready, clearUniformPrice,
                 requests, claimVars, blindVars, auctionTokens>>

CancelBid(b) ==
  /\ IsOpen
  /\ b \in Registered
  /\ ~engineClosed
  /\ CanReceive(b)
  /\ bidOf' = [bidOf EXCEPT ![b] = NoBid]
  /\ balance' = [balance EXCEPT ![b] = 0]
  /\ paymentTokens' = Transfer(paymentTokens, This, b, balance[b])
  /\ UNCHANGED <<timedVars, engineClosed, iteratorBidCount, ready, nextId,
                 clearUniformPrice, requests, claimVars, blindVars, auctionTokens>>

\* What withdraw(amount) pays: a bidder leaves at least the minimum deposit.
Withdrawable(b, amount) ==
  LET kept == IF b \in Registered THEN MinimumDeposit ELSE 0
  IN  IF balance[b] < kept THEN 0 ELSE Lesser(amount, balance[b] - kept)

\* Mutant of WithdrawAccepted: a bidder need not withdraw while the auction is open.
WithdrawAcceptedAnyTime(b) == flags # UNINITIALIZED

\* Its modifier whenStarted lets a call through before the start only.
WithdrawAccepted(b) ==
  /\ flags # UNINITIALIZED
  /\ WhenStarted
  /\ b \in Registered => IsOpen

Withdraw(b, amount) ==
  LET paid == Withdrawable(b, amount)
  IN  /\ WithdrawAccepted(b)
      /\ paid = 0 \/ CanReceive(b)
      /\ balance' = [balance EXCEPT ![b] = @ - paid]
      /\ paymentTokens' = Transfer(paymentTokens, This, b, paid)
      /\ UNCHANGED <<timedVars, engineVars, clearUniformPrice, requests,
                     claimVars, blindVars, auctionTokens>>

-----------------------------------------------------------------------------
(* Anybody, when the auction is closed *)

\* The first call closes the engine, unless stop() did.  A call completes any
\* number of further steps, none beyond step 3 with stopIfReadyForBlindClaim.
\* For no bids there is no step to run, and nothing is ever ready.
ComputeAuction(stopIfReadyForBlindClaim) ==
  /\ Closed
  /\ IF engineClosed THEN UNCHANGED <<engineClosed, iteratorBidCount>> ELSE CloseEngine
  /\ \E i, j \in 1..4 :
       /\ Stages[i] = ready
       /\ i <= j
       /\ iteratorBidCount' = 0 => j = i
       /\ stopIfReadyForBlindClaim => j <= 3 \/ j = i
       /\ ready' = Stages[j]
       /\ bidOf' = IF i = 1 /\ j > 1
                   THEN [b \in Bidders |-> IF b \in Registered THEN Validated(b)
                                           ELSE bidOf[b]]
                   ELSE bidOf
  /\ UNCHANGED <<timedVars, nextId, balance, clearUniformPrice, requests,
                 claimVars, blindVars, tokenVars>>

\* Gateway.requestDecryption: the ciphertexts are fixed now, their values are
\* revealed by the callback.  Equal requests are told apart by `copy'.
Request(r) ==
  \E new \in {[content |-> r, copy |-> c] : c \in 1..MaxCopies} \ requests :
    requests' = requests \cup {new}

DecryptUniformPrice ==
  /\ flags # UNINITIALIZED
  /\ ByRankReady
  /\ Request([kind |-> "price", price |-> UniformPrice])
  /\ UNCHANGED <<timedVars, engineVars, balance, clearUniformPrice, claimVars,
                 blindVars, tokenVars>>

CanAward == clearUniformPrice > 0

Claim(b) ==
  /\ Closed
  /\ b \in Registered
  /\ b \notin claimCompleted
  /\ CanAward
  /\ ByIdReady
  /\ Request([kind |-> "claim", bidder |-> b, price |-> bidOf[b].price,
              quantity |-> WonBy(b)])
  /\ UNCHANGED <<timedVars, engineVars, balance, clearUniformPrice, claimVars,
                 blindVars, tokenVars>>

\* _awardPrizeAtRank(rank)
AwardRank(k) ==
  /\ ByRankReady /\ CanAward
  /\ \E b \in Registered :
       /\ Rank(b) = k
       /\ Request([kind |-> "award", rank |-> k, id |-> bidOf[b].id,
                   price |-> bidOf[b].price, quantity |-> WonBy(b)])

AwardPrizeAtRank(k) ==
  /\ Closed
  /\ k \notin prizeAtRankAwarded
  /\ AwardRank(k)
  /\ UNCHANGED <<timedVars, engineVars, balance, clearUniformPrice, claimVars,
                 blindVars, tokenVars>>

\* Mutant of BlindClaim: _blindClaimRequestCount is not stored.
BlindClaimUncounted(b) ==
  LET rankPlusOne == IF blindRankPlusOne[b] # 0 THEN blindRankPlusOne[b]
                     ELSE blindClaimRequestCount + 1
  IN  /\ Closed
      /\ blindRankPlusOne[b] = 0 => b \in Registered
      /\ blindRankPlusOne' = [blindRankPlusOne EXCEPT ![b] = rankPlusOne]
      /\ IF rankPlusOne - 1 \in prizeAtRankAwarded
         THEN UNCHANGED requests
         ELSE AwardRank(rankPlusOne - 1)
      /\ UNCHANGED <<timedVars, engineVars, balance, clearUniformPrice, claimVars,
                     blindClaimRequestCount, tokenVars>>

\* A bidder keeps the rank it is given; the ranks are given in turn.
BlindClaim(b) ==
  LET rankPlusOne == IF blindRankPlusOne[b] # 0 THEN blindRankPlusOne[b]
                     ELSE blindClaimRequestCount + 1
  IN  /\ Closed
      /\ blindRankPlusOne[b] = 0 => b \in Registered
      /\ blindRankPlusOne' = [blindRankPlusOne EXCEPT ![b] = rankPlusOne]
      /\ blindClaimRequestCount' = IF blindRankPlusOne[b] = 0 THEN rankPlusOne
                                   ELSE blindClaimRequestCount
      /\ IF rankPlusOne - 1 \in prizeAtRankAwarded
         THEN UNCHANGED requests
         ELSE AwardRank(rankPlusOne - 1)
      /\ UNCHANGED <<timedVars, engineVars, balance, clearUniformPrice, claimVars,
                     tokenVars>>

-----------------------------------------------------------------------------
(* The gateway answers a request, once; or it never does. *)

CallbackDecryptUniformPrice(r) ==
  /\ r.content.kind = "price"
  /\ requests' = requests \ {r}
  /\ clearUniformPrice' = r.content.price
  /\ UNCHANGED <<timedVars, engineVars, balance, claimVars, blindVars, tokenVars>>

\* Mutant of AmountDue: winners pay their own price.
AmountDueAsBid(clearValidatedPrice, clearWonQuantity) ==
  IF clearWonQuantity > 0 THEN clearValidatedPrice * clearWonQuantity
  ELSE IF clearValidatedPrice = 0 THEN PaymentPenalty
  ELSE 0

\* What _callbackDecrypt takes from the deposit for the beneficiary.
AmountDue(clearValidatedPrice, clearWonQuantity) ==
  IF clearWonQuantity > 0 THEN clearUniformPrice * clearWonQuantity
  ELSE IF clearValidatedPrice = 0 THEN PaymentPenalty
  ELSE 0

\* The checks of _callbackDecrypt that are marked "Debug" and say "Panic".
NoPanic(b, clearValidatedPrice, clearWonQuantity) ==
  /\ clearUniformPrice > 0
  /\ clearValidatedPrice = 0 => clearWonQuantity = 0
  /\ balance[b] >= AmountDue(clearValidatedPrice, clearWonQuantity)

\* _callbackDecrypt: the whole payment of one bidder, or nothing at all.
PayBidder(b, clearValidatedPrice, clearWonQuantity) ==
  LET due       == AmountDue(clearValidatedPrice, clearWonQuantity)
      remaining == balance[b] - due
  IN  /\ b \notin claimCompleted
      /\ NoPanic(b, clearValidatedPrice, clearWonQuantity)
      /\ remaining = 0 \/ CanReceive(b)
      /\ auctionTokens[This] >= clearWonQuantity
      /\ claimCompleted' = claimCompleted \cup {b}
      /\ claimCompletedCount' = claimCompletedCount + 1
      /\ balance' = [balance EXCEPT ![b] = 0]
      /\ paymentTokens' = Transfer(Transfer(paymentTokens, This, Beneficiary, due),
                                   This, b, remaining)
      /\ auctionTokens' = Transfer(auctionTokens, This, b, clearWonQuantity)

CallbackDecryptWonQuantity(r) ==
  /\ r.content.kind = "claim"
  /\ requests' = requests \ {r}
  /\ PayBidder(r.content.bidder, r.content.price, r.content.quantity)
  /\ UNCHANGED <<timedVars, engineVars, clearUniformPrice, prizeAtRankAwarded,
                 prizeAtRankAwardedCount, blindVars>>

\* Mutant of CallbackDecryptRankedWonQuantity: _requestIDToRank was not written,
\* and every award is taken for the one of rank 0.
CallbackDecryptAtRankZero(r) ==
  /\ r.content.kind = "award"
  /\ requests' = requests \ {r}
  /\ 0 \notin prizeAtRankAwarded
  /\ prizeAtRankAwarded' = prizeAtRankAwarded \cup {0}
  /\ prizeAtRankAwardedCount' = prizeAtRankAwardedCount + 1
  /\ PayBidder(BidderById(r.content.id), r.content.price, r.content.quantity)
  /\ UNCHANGED <<timedVars, engineVars, clearUniformPrice, blindVars>>

CallbackDecryptRankedWonQuantity(r) ==
  /\ r.content.kind = "award"
  /\ requests' = requests \ {r}
  /\ r.content.rank \notin prizeAtRankAwarded
  /\ prizeAtRankAwarded' = prizeAtRankAwarded \cup {r.content.rank}
  /\ prizeAtRankAwardedCount' = prizeAtRankAwardedCount + 1
  /\ PayBidder(BidderById(r.content.id), r.content.price, r.content.quantity)
  /\ UNCHANGED <<timedVars, engineVars, clearUniformPrice, blindVars>>

\* The answer is lost, comes after the deadline, or its callback reverts.
RequestLost(r) ==
  /\ requests' = requests \ {r}
  /\ UNCHANGED <<timedVars, engineVars, balance, clearUniformPrice, claimVars,
                 blindVars, tokenVars>>

NextBlock ==
  /\ Tick
  /\ UNCHANGED <<engineVars, balance, clearUniformPrice, requests, claimVars,
                 blindVars, tokenVars>>

Ranks == 0..(Cardinality(Bidders) - 1)

AuctionNext ==
  \/ Initialize
  \/ \E d \in Durations, isStoppable \in BOOLEAN : Start(d, isStoppable)
  \/ Stop
  \/ Terminate
  \/ \E b \in Bidders :
       \/ \E amount \in Deposits : Deposit(b, amount) \/ Withdraw(b, amount)
       \/ \E offer \in Offers, amount \in Deposits \cup {0} : Bid(b, offer, amount)
       \/ CancelBid(b)
       \/ Claim(b)
       \/ BlindClaim(b)
  \/ \E stopIfReady \in BOOLEAN : ComputeAuction(stopIfReady)
  \/ DecryptUniformPrice
  \/ \E k \in Ranks : AwardPrizeAtRank(k)
  \/ \E r \in requests :
       \/ CallbackDecryptUniformPrice(r)
       \/ CallbackDecryptWonQuantity(r)
       \/ CallbackDecryptRankedWonQuantity(r)
       \/ RequestLost(r)
  \/ NextBlock

AuctionSpec == AuctionInit /\ [][AuctionNext]_auctionVars

-----------------------------------------------------------------------------
(* Properties *)

Contents ==
  [kind : {"price"}, price : Nat]
    \cup [kind : {"claim"}, bidder : Bidders, price : Nat, quantity : 0..AuctionQuantity]
    \cup [kind : {"award"}, rank : Ranks, id : 1..MaxNextId, price : Nat,
          quantity : 0..AuctionQuantity]

\* Every variable has the type its declaration gives it.
AuctionTypeOK ==
  /\ TimedTypeOK
  /\ engineClosed \in BOOLEAN
  /\ iteratorBidCount \in Nat
  /\ ready \in {"nothing", "validated", "byRank", "byId"}
  /\ nextId \in 1..(MaxNextId + 1)
  /\ bidOf \in [Bidders -> [price : Nat, quantity : 0..AuctionQuantity,
                            id : 0..MaxNextId, rand : {0}]]
  /\ balance \in [Bidders -> Nat]
  /\ clearUniformPrice \in Nat
  /\ \A r \in requests : r.content \in Contents /\ r.copy \in 1..MaxCopies
  /\ claimCompleted \subseteq Bidders
  /\ claimCompletedCount \in Nat
  /\ prizeAtRankAwarded \subseteq Ranks
  /\ prizeAtRankAwardedCount \in Nat
  /\ blindRankPlusOne \in [Bidders -> Nat]
  /\ blindClaimRequestCount \in Nat
  /\ paymentTokens \in [Accounts -> Nat]
  /\ auctionTokens \in [Accounts -> Nat]

\* Auction and engine each note for themselves that they are closed, the auction
\* by its flags or by the clock alone, the engine when stop() or the first
\* computeAuction() tells it: while bids are taken the engine is not closed, an
\* auction that was stopped has closed its engine, and the computation that was
\* set up by whichever of the two came first is for the bids that are in the book.
ClosingsAgree ==
  /\ IsOpen => ~engineClosed
  /\ flags = INITIALIZED_STARTED_ENDED => engineClosed
  /\ engineClosed => iteratorBidCount = BidCount

\* The book changes only while bids are taken, nobody is paid twice, and the
\* auction is not terminated while anybody in the book is unpaid: claims, awards
\* and blind claims of the same bidder race, and exactly one of them pays.
Settled == INSTANCE Settlement WITH
             Members <- Bidders,
             stage   <- IF Terminated THEN "over"
                        ELSE IF Closed THEN "settling" ELSE "bidding",
             book    <- Registered,
             paid    <- claimCompleted
ImplementsSettlement == Settled!SettlementSpec

\* What bidder b owes in the end: the single price for what it won, the penalty
\* for a bid its deposit did not cover, nothing for a bid that lost.
DueBy(b) == IF WonBy(b) > 0 THEN UniformPrice * WonBy(b)
            ELSE IF bidOf[b].price = 0 THEN PaymentPenalty
            ELSE 0

\* A bidder that is paid has the tokens it won, has paid what it owes and got the
\* rest of its deposit back; an unpaid one still has all it came with, in its
\* wallet or on deposit; the beneficiary has what the paid ones owed.
PaidAsOwed ==
  /\ \A b \in Bidders :
       IF b \in claimCompleted
       THEN /\ balance[b] = 0
            /\ paymentTokens[b] = Funds - DueBy(b)
            /\ auctionTokens[b] = WonBy(b)
       ELSE /\ paymentTokens[b] + balance[b] = Funds
            /\ auctionTokens[b] = 0
  /\ paymentTokens[Beneficiary] =
       SumFunctionOnSet([b \in claimCompleted |-> DueBy(b)], claimCompleted)

\* The contract holds what it owes: the payment tokens of all deposits, and at
\* least the auction tokens of the winners not yet paid.
EscrowCoversDebts ==
  /\ paymentTokens[This] = SumFunctionOnSet(balance, Bidders)
  /\ Closed /\ ByRankReady =>
       auctionTokens[This] >=
         SumFunctionOnSet([b \in Registered |-> WonBy(b)], Registered \ claimCompleted)

\* Step 1 looks at the deposits long before they are used to pay: they still
\* cover the bids that were found valid, and the penalty of those that were not.
ValidBidsStayCovered ==
  ready # "nothing" =>
    \A b \in Registered \ claimCompleted :
      /\ bidOf[b].price * bidOf[b].quantity <= balance[b]
      /\ bidOf[b].price = 0 => PaymentPenalty <= balance[b]

\* An answer on its way is still right when it comes, however late, repeated or
\* overtaken by others: the price is the final one, and unless the bidder was paid
\* in between no check marked "Panic" in _callbackDecrypt fires.
PendingAnswersArePayable ==
  \A r \in requests :
    IF r.content.kind = "price" THEN r.content.price = UniformPrice
    ELSE LET b == IF r.content.kind = "claim" THEN r.content.bidder
                  ELSE BidderById(r.content.id)
         IN  b \notin claimCompleted =>
               /\ NoPanic(b, r.content.price, r.content.quantity)
               /\ auctionTokens[This] >= r.content.quantity

\* The two counters that allow termination count what they should: a rank is
\* marked only together with its bidder, so that either counter at bidCount()
\* means that everybody is paid.
CountersAgree ==
  /\ claimCompletedCount = Cardinality(claimCompleted)
  /\ prizeAtRankAwardedCount = Cardinality(prizeAtRankAwarded)
  /\ \A k \in prizeAtRankAwarded : BidderAtRank(k) \in claimCompleted

\* Blind claims: no two bidders are given the same rank, no rank is skipped, and
\* there is a rank for everybody who asks.
BlindRanksAreFair ==
  /\ \A b, c \in Bidders :
       blindRankPlusOne[b] = blindRankPlusOne[c] /\ blindRankPlusOne[b] # 0 => b = c
  /\ {blindRankPlusOne[b] : b \in Bidders} \ {0} = 1..blindClaimRequestCount
  /\ blindClaimRequestCount <= BidCount

-----------------------------------------------------------------------------
(* What the documentation says, and the code does not do *)

\* withdraw(), FHEAuction.sol:185-190: an account that "has not placed any bid"
\* can withdraw its deposit when "the auction must have started".
DepositWithoutBidIsWithdrawable ==
  \A b \in Bidders :
    flags = INITIALIZED_STARTED /\ b \notin Registered => WithdrawAccepted(b)
=============================================================================
