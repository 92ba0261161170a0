# A verification development of the FHE single-price auction

This directory holds TLA+ models of the Solidity contracts in `src/contracts` and of the
Hardhat commands and deployment scripts that people operate them with (`src/tasks`,
`src/deploy`), the configurations that model-check them with TLC, and theorems about
them whose proofs are checked by TLAPS. `PROJECT.json` is its index: components, runs, properties with
a mutant for each, the lines every definition translates, findings, hazards, theorems.

## 1. Inventory

The program is an auction of a fixed quantity of ERC20 tokens at one price. Bids are
encrypted; the contracts sort them and compute what each wins without seeing them, in
as many transactions as it takes, and a gateway decrypts only what is paid out.

| Component | State | Operations | Talks to |
|---|---|---|---|
| `TimedAuction` | flags, start and end time, stoppable | `_initialize`, `_start`, `_stop`, `_terminate`, and time passing | base of the auction |
| `FHEAuctionBase`, `FHEAuction` | deposits, clear price, claims done, ranks awarded, decryptions under way | `start`, `stop`, `terminate`, `deposit`, `bid`, `cancelBid`, `withdraw`, `computeAuction`, `decryptUniformPrice`, `claim`, `awardPrizeAtRank`, three callbacks | engine (calls), gateway (requests, callbacks), two tokens |
| `FHEAuctionBlindClaimable` | rank given to a bidder, number of ranks given | `blindClaim` | auction |
| `FHEAuctionERC20`, `FHEAuctionNative` | none | deposits and payments | token, accounts |
| `FHEAuctionEngine`, registry | bidder/id, id/index and id/bid mappings, `_bidCount`, `_nextId` | `addBid`, `removeBid`, `close` | called by the auction |
| `FHEAuctionEngine`, computation | ranked bids, cursor, won quantities by rank and by index, cumulative quantity, price | `_runStep1` to `_runStep4` | called by the iterator; reads the deposits |
| `FourStepsIterator`, `FHEAuctionEngineIterator` | step, progress in it, total progress, sizes and costs | `initializeFourSteps`, `_next` | calls the engine back |
| tie-breaking engines | none | one comparison of a bid with the cursor | engine |
| commands of an auction, `tasks/auction.ts` with `tasks/utils.ts` | what a command has read so far | `start`, `stop`, `can-bid`, `bid`, `cancel-bid`, `compute`, `decrypt-uniform-price`, `award`, `claim`, `blind-claim`; `info` and `claim-info` only print | views and transactions of the auction, the payment token and the auction token |
| commands of the tokens, `tasks/erc20.ts`, `ethToken.ts`, `paymentERC20Token.ts`, `auctionERC20Token.ts` | what a command has read so far | `transfer`, `set-balance`, `approve`, `eth transfer`, `set-min-balance`, two older transfers | tokens, native coin |
| deployment scripts, `deploy/*.ts` | the records of `deployments/<network>` | four scripts of deploy, read and mint calls | hardhat-deploy, the chain |
| factories of auctions, `tasks/auctionFactory.ts` | engine factories by rule, auctions by hashed salt | `getAuction`, `createNewAuction`; `auction create`, lookup by salt | engine factories, the auction it initialises |

A life of an auction: the owner initialises and starts it; bidders deposit, bid and
cancel while it is open; it ends by the clock or by `stop()`. Anybody then calls
`computeAuction()` page by page: validation against the deposits (1), ranking (2), won
quantities by rank and the price (3), won quantities by bidder (4). After (3) anybody
may ask the gateway for the price. Then bidders claim, or anybody awards a rank; each
request makes the gateway call back later, and the callback pays the bidder. When all
are paid the owner may terminate. All of this is done by people in terminals: a command
reads the chain view by view, gives up if a value does not suit it, and sends a few
transactions in between.

What is hard here, and hard to test:

* three ways to be paid (claim, award, blind claim) race through an asynchronous
  gateway; answers are late, reordered, lost, or come twice for the same bidder;
* deposits are checked in step 1 and used for payment much later;
* a sort and a search are cut into transactions at arbitrary points, by the page size
  and by two kinds of gas, and everything must survive in storage;
* swapped indices in the registry after cancellations;
* unchecked encrypted arithmetic, checked `uint16` and `uint32` arithmetic;
* a lifecycle whose stored flags lag behind the clock;
* commands whose reads are stale when they send, that are interrupted between a deposit
  and its bid and given again, or that meet the same command of somebody else;
* deployments that are interrupted between a contract, its record and its initial
  supply, and contracts that keep the address of one that was replaced.

`PROJECT.json` lists the hazards one by one with their lines and the properties that
cover them. What makes each component correct: the lifecycle follows its state graph;
the registry is a book of one bid per bidder in order of placement; the result of the
computation is the one the definition of the auction gives, however it was cut; the
iterator's progress is exact and it ends; every bidder is paid exactly once, what it
is owed, and termination waits for all of them; a command that is left alone does what it
reports and is not rejected, and one that is interrupted can be given again; a
deployment that came to its end is wired consistently whatever happened before.

## 2. Modules

Read them in this order; each row lists what it stands on.

| Module | Stands for |
|---|---|
| `AuctionLifecycle` | abstract: the state graph drawn in `TimedAuction.sol` |
| `TimedAuction` | `TimedAuction.sol`, with `now` for `block.timestamp` |
| `FourStepsIterator` | `FourStepsIterator.sol`; `call` holds the locals of the `_next()` in progress, one action per turn of its loop; a step may do all that is asked for or stop early (`Reply`), as `Computation` shows of the engine's steps; a transaction may revert anywhere for lack of gas |
| `FHEAuctionEngineIterator` | the sizes, weights and gas costs the engine passes to the iterator, as values of its constants; `OnlyAward` says that the auction is claimed blindly, which leaves step 4 empty |
| `BidBook` | abstract: at most one bid per bidder, sealed once |
| `BidRegistry` | `addBid`, `removeBid`, `close` of `FHEAuctionEngine.sol`, with the limits of `uint16` and `uint256` |
| `TieBreaking` | the three comparisons, and from them the *definition* of the auction's result (`Won`, `SinglePrice`): a bid wins what the bids ahead of it leave |
| `AuctionEngine` | `_runStep1` to `_runStep4`; `run` holds the locals of the call in progress, which are lost when it returns; one action per comparison, award or lookup |
| `Computation` | `computeAuctionIterations()`: the iterator with the engine behind it, page by page; the engine's variables are its storage as the transaction in progress sees it, `stored` is what is left when the transaction reverts |
| `Settlement` | abstract: a book that opens, closes and is settled; every member is paid once, and it is over when all are paid |
| `FHEAuction` | the auction contract with both payment ends and blind claims; extends `TimedAuction` |
| `AuctionTasks` | `tasks/auction.ts`: extends `FHEAuction` with terminals; `task[t]` is the command of terminal `t`, with the call it makes next, the value it read and whether something overtook it |
| `TokenTasks` | `tasks/erc20.ts`, `ethToken.ts` and the older transfers; arguments are tagged records, and a conversion is the set of values it may return, empty if it fails |
| `Deployment` | `deploy/*.ts`, `tasks/auctionFactory.ts` and the factories of auctions; `run` is the list of calls the scripts have left to make, `records` the files of hardhat-deploy |
| `*Proofs` | theorems about the module of the same name; `FHEAuctionProofs` also holds those about `TimedAuction`, `ComputationProofs` those about `FourStepsIterator` and `FHEAuctionEngineIterator`; `SumProofs` is about the sums that `FHEAuctionProofs` and `AuctionEngineProofs` need |
| `MC*` | the constants of the runs |

How they fit. `FHEAuction` sees the engine through its getters only: which results are
ready, and results given by `TieBreaking`. That these getters return them is what
`AuctionEngine` is checked and proved for; that the ids and indices behind them are consistent is
what `BidRegistry` is checked and proved for; that any sequence of pages reaches them
is what the iterator is checked for. Iterator and engine are two contracts that rely on
each other: the iterator assumes of an answer that it is within what was asked for and says
"finished" exactly at the end of the step (`Reply`), the engine that it is asked for at
most what is left of the step (`Called`). `Computation` puts them together without
either assumption. An answer is filed as it comes, and what the engine computes is
computed by its own actions; that both assumptions hold then is checked and proved
(`ImplementsIterator`, `CallsKeepContract`). It leaves out the auctions that are claimed
blindly only, whose step 4 is empty, and those without bids, whose steps all are.
Offers in `FHEAuction` are in the form `addBid` stores them in
(`NormalisedBid` of `BidRegistry`), and a bid has no `rand`, so the rules `PriceId` and
`PriceQuantityId` are run there and `PriceRandom` in `AuctionEngine`.

Conventions: a ciphertext is its cleartext; homomorphic arithmetic is modulo
`UInt256Max + 1` in `AuctionEngine`, because it is unchecked; checked Solidity
arithmetic is a guard, because a call that reverts changes nothing. Every transaction
of the auction contract is one action. Access control (`onlyOwner`, `onlyGateway`),
encryption permissions (`TFHE.allow`) and events are left out. In the modules of the
commands one action is one remote call: a view that is read or a transaction that is
mined. `AuctionTasks` uses the actions of `FHEAuction` as the transactions, and the clock
and the gateway are those of the contract. A command is rejected when its transaction does
not meet the requirements of the contract, which `Accepted` lists call by call. They are
the guards of the actions without the bounds of the model (`MaxCopies`, `MaxNextId`): no
mined transaction is one that would be rejected (theorem `RejectedAreNeverMined`), and a
command that met them and could not send its transaction would stand still for ever,
where `StoppedAuctionsArePaidOut` wants it to go on.

How the commands fit to the contracts. The reads of a command are the views of the
contract, named by the view in `task[t].at`; `canBidOrThrow`, which three commands
share, is `CanBidReads`. The owner's, the beneficiary's and the bidders' keys are all at
hand in every terminal, as they are in the configuration's accounts. The auction of
`AuctionTasks` is paid in tokens, because only then approvals are needed.

## 3. Runs

All pass runs use `CHECK_DEADLOCK FALSE`, because each of these contracts ends in a
state in which nothing more can happen, and so do the bounded histories of commands.

| Run | Bounds | Shows |
|---|---|---|
| `FourStepsIterator` | sizes 4, 3, 0, 2, weights 1, 3, 0, 2, gas limit 5, pages 0, 1, 2, 3, 4, 20, `UInt32Max` 7 | an empty step, a unit heavier than a page, a page longer than a step, a page cut by gas, and an overflowing product all occur |
| `BidRegistry` | three bidders, ids to 9, offers with a price and a quantity out of range | every history of up to eight bids, with cancellations between them |
| `AuctionEngine` | three bids of four kinds (one not covered), two orders of ids, two of random numbers, three rules, 3 tokens, `UInt256Max` 4 | all ways to cut all four steps; over- and undersold auctions, ties, invalid bids, partly filled bids; a sum of quantities that reaches the largest number |
| `Computation` | three bids, three books, the real gas costs, pages 0, 1, 3, 30, two places to stop, reverts anywhere | pages over several steps, pages that end by size, by FHE gas or by native gas, and pages that revert after they ranked bids or announced results; the end is always reported with the numbers the engine uses |
| `FHEAuction` | two bidders, one refusing payments, deposits 2 and 4, a zero bid, three ids, durations 0 and 1, clock to 2 | cancel and bid again, deposits in parts, races of claim, award and blind claim, payments that revert, a clock that overtakes every transition, a `stop()` before and after the computation has begun |
| `FHEAuctionThreeBidders` | three bidders, symmetric, one deposit each | races of three bidders, a rank without winner between claims |
| `AuctionTasks` | two terminals: the owner, who also bids, approves and claims blindly and may be interrupted, and a worker, who also bids; a cheap and a dear bid; an auction to be stopped and one that ends by itself | every interleaving of two commands, the clock and the gateway; interrupted bids given again at another price |
| `AuctionTasksLiveness` | the commands that lead to the payment of two bidders, interrupted and given again | an open auction ends, a stopped one is paid out |
| `TokenTasks` | three accounts, two terminals, symmetric, seven kinds of commands | two commands on the same accounts, fees that cannot be paid, mistyped addresses and units |
| `Deployment` | all scripts or the last one alone, one interruption, one edited source, two people who create auctions of one salt with different owners and deposits | interruptions at every call, partial reruns, a replaced factory, two creations at once |
| `WithdrawDeposit`, `ReadyReports` | small instances | the findings below |

Why they are enough. Three bids are the least at which the ranking takes a full pass
after a cut one, a cursor is displaced twice, and step 4 saves a position inside
a row; the counts (`N(N-1)/2`, `N*N`) leave their special cases at three. Payment of a
bidder interacts with the others only through the two token balances and two counters,
for which two bidders are the least and three let one be unpaid while both counters
advance. `MaxCopies = 1` keeps equal requests of the same kind apart only once; the same
bidder still has a claim and an award under way at the same time, which is how a second
answer arrives after the first paid. `UInt32Max` in `Computation.cfg` is
2147483647, the largest number TLC computes with; no product of that run reaches it. The cost
of a comparison there is that of `PriceId` under all three rules; the theorems take any.
With
`UInt256Max` 4 two bids of quantity 2 reach the largest number, and three pass it at the
last rank: the sum wraps there, and nobody reads it any more.
`_maxBidCount` is in `BidRegistry`; in `FHEAuction` it is not reached. Symmetry of
bidders and of terminals is used in runs with safety properties only. A command meets one
other command at a time, so two terminals show every race of two; a third would only
repeat what the second does. One edit and one interruption let a run of the scripts
start in every state that an interrupted or outdated one leaves; a second interruption
starts from a state of the same kind. `MaxCopies` and `MaxNextId` are bounds of the model
at which no command is rejected.

### Fairness

* `FairIteratorSpec`: the caller calls again until the computation is finished. Whether
  a step makes progress depends on the gas sent, so requests of one iteration that
  get one unit done happen again and again (strong fairness). Transactions run out of
  gas as a whole, instead of stopping early, only for a while.
* `FairTasksSpec`: blocks are produced while the auction is open. A command that is not
  interrupted makes its next call: nothing in it waits for anybody. Workers give the
  commands that `info` and `claim-info` show to be called for, and give them again
  (strong fairness, because another command in the terminal or an interruption may come
  first). Not every `compute` is in vain, and the gateway, which may lose any answer,
  does not lose all of them. The owner is not assumed to start or to stop anything, nor the
  bidders to bid or to claim.

### Properties worth reading

`SortIsResumable` (what ranked bids and cursor are at every point where the sort may be
cut), `AwardsAreRight` (the result is the defined one), `StoredResultsAreRight` and
`ImplementsIterator` (so it is, and payable, with the pages of the iterator and
transactions that revert), `ValidBidsStayCovered` and `PendingAnswersArePayable` (a decryption answer is
right whenever it arrives), `ClosingsAgree` (auction and engine note for themselves that
they are closed, one of them by a clock that is written nowhere, and the computation is
for the bids in the book; that the engine refuses a second closing only makes a late
`stop()` revert, since it would be given the same number again), `CountersAgree` with `ImplementsSettlement` (termination
waits for everybody although one of two counters is enough), `BlindRanksAreFair`,
`EndIsReported`, `PagesFit`; `SoleCommandsAreAccepted` (the checks of ten commands are
those of the contract), `DepositsOnce` (a bid command may be interrupted anywhere and
given again), `StoppedAuctionsArePaidOut`; `SoleCommandsFailAtEdgesOnly` (exactly when an
assertion of `set-balance` fails); `FinishedRunsAreWired`, `AuctionsStayFound` (a
redeployment replaces what it must and nothing else).

## 4. Theorems

Proved for all values of the constants that satisfy the modules' named assumptions:

| Module | Theorem | From |
|---|---|---|
| `ComputationProofs` | `IteratorTypeCorrect`, `ProgressIsExact`, `PagesStayInStep`, `ThresholdsAlwaysExact` | `IteratorInv`, below |
| | `PagesAreBounded`: a page does at most what was asked for, but for one rounded unit; `PagesAlwaysFit` is both | `IteratorInv` and `PageInv`, below |
| | `EndAlwaysReported`: the page that completes the work of a deployed engine says so | `GasInv`, below |
| | `PagesImplementIterator`: the iterator with the engine behind it is the iterator of `FourStepsIterator`, so that what is proved of that one holds; `PagesKeepContract`; `StoredResultsAlwaysFinal`; `ThresholdsAlwaysAnnounce` | `ComputationInv`, below (`ComputationInvariant`) |
| | `StoredResultsAlwaysRight`, if the quantities add up | `ComputationInv` and `ResultInv` |
| `BidRegistryProofs` | `RegistryTypeCorrect`, `MappingsAgree`, `DebugErrorsUnreachable` | `RegistryInv`, below |
| | `StoredProductsFit`: price times quantity of any stored bid is a `uint256`; `ChecksAlwaysHold` is both | a lemma on division and `MaximumPrice` |
| | `RegistryImplementsBook`: implements `BidBook`; `LaterBidsWait`: time priority | `RegistryInv` |
| `FHEAuctionProofs` | `TimedTypeCorrect`: types, and a started auction started before now and ends after its start | inductive as it stands |
| | `ImplementsStateGraph`: `TimedAuction` implements `AuctionLifecycle` | the type invariant; the clock's step from open to ended is a step of the graph |
| | `AuctionFollowsStateGraph`: implements `AuctionLifecycle` | one step per action, and `ImplementsStateGraph` |
| | `ClosingsAlwaysAgree`: the engine is closed when bidding is over, by `stop()` at the latest, for the bids that are in the book | `ClosingInv`, below |
| | `DepositsCoverBids`: what the computation validated is still there when it is paid; `CountersAlwaysAgree`; `BlindRanksAlwaysFair` | `AuctionInv`, below |
| | `AuctionSettles`: implements `Settlement` | `SettledInv`, below |
| | `EverybodyPaidAsOwed`, `PendingAnswersStayPayable` | `AnswerInv`, below |
| | `EscrowAlwaysCovers`, `AuctionTypeCorrect` | `MoneyInv`, below |
| `SumProofs` | induction over finite sets in the form of a set of sets, and sums over a finite set: exchange of one value, monotonicity, parts | lemmas for `FHEAuctionProofs` and `AuctionEngineProofs` |
| `AuctionEngineProofs` | `EngineTypesCorrect`, `SortingResumes`, `EngineErrorsUnreachable`; `EngineKeepsContract`: what the iterator assumes of a step; `ResultsAreFinal` | `EngineInv`, below |
| | `AnnouncedAwardsAreRight`, `EveryWinnerCanPay`, if `TotalFits` | `ResultInv`, below |
| `AuctionTasksProofs` | `CommandsImplementAuction`: whatever people do in their terminals, the contract behind them runs as `FHEAuction` says, so that what is proved of it holds there; `CommandsPayAsOwed` is one such consequence | one step per call: a view is a stutter, a transaction the action it sends |
| | `BiddersDepositOnce`, `TransactionsAreAlwaysVerified` | `TasksInv`, below (`TasksInvariant`) |
| | `SoleCommandsAlwaysAccepted`: a command that nothing overtook sends no transaction that the contract rejects | `FactsInv`, below |
| `TokenTasksProofs` | `BalancesAreSet`, `MinimaAreReached`: what a command reports of an account that nothing else touched is so | `TokensInv`, below |
| | `SoleCommandsFailOnlyAtEdges`: a command that nothing overtook fails only for its fee, or at the misplaced assertion | `SoleInv`, below |
| `DeploymentProofs` | `FinishedRunsAreWiredHolds`, `TokensAreMintedOnceHolds`, `CreatedAsAskedHolds`, `AuctionsStayFoundHolds` | `DeploymentInv`, below (`DeploymentInvHolds`) |

`RegistryInv` is needed because `removeBid` reads the last index and the index of the id
it removes: that these are registered ids takes, beside the types, that bidders and ids
are inverse, that ids and indices are inverse, that exactly the indices up to `bidCount`
are in use, and that ids from `nextId` on are unused. `IteratorInv` adds to the
types and to `ProgressAccounting` that progress within a step is zero or below its
size, in storage and in the locals of a call: a complete step is always left behind, so
that the next page neither asks for zero units nor runs past the end. `PageInv` says what
is left of a request: done and left add up to it until a rest is rounded up to one unit,
which is then the last of the page, done or not. `GasInv` says that a call has paid for
exactly the units it did. With it `EndIsReported` needs one more fact (`NoExactGas`): from no
point of the computation does the rest take exactly the FHE gas of one transaction, which
`_next()` would report as a lack of gas. That is false for arbitrary costs and true of those
of `_close()`, for every number of bids (`EngineHasNoExactGas`): the rest of step 4 is a
multiple of 101000, which ten million is not, and the rest from an earlier step is either
larger than ten million or one of the few values that fewer than ten bids leave.

`ComputationInv` is `IteratorInv` with three links to the engine. `EngineInv` holds of the
storage as the transaction sees it, with the iterator's locals for step and progress, and
once more of the storage as everybody else sees it: that is what a revert goes back to,
so it has to be an invariant of `stored` by itself. `StorageInv`: the two agree in between,
and the stored step and progress are the iterator's. `AskedInv`: a call under way is for
exactly the units the iterator asks for. `Frozen`: what `stored` announces is in the
transaction as it was. Then the engine's lemmas about one step give what `Reply` wants
(`AnswerAllowed`), and the iterator's that no page runs past its step gives what `Called`
wants. A page that is mined carries `EngineInv` from one instance of the engine to the
other, which is why the first lemmas show that the instances say the same of the same
storage. Results are carried the same way (`ResultsInv`). The theorems assume that the
iterator was given the sizes and weights of the bids (`PagesOfBids`), and nothing of costs or
gas.

`TokensInv` says, for each call a command can be at, how its sender, receiver and sum were
derived from the balance it read, and that the account still has that balance unless it
was touched; the balances of the deployer may change at any time, which is why nothing is
claimed when the account is the deployer's own. `SoleInv` adds, of a command that nothing
overtook, that what it has read up to its transaction is still true.

`TasksInv` says of each bid command under way what it may rely on: since it looked, its
bidder has no bid; until it sends the deposit, the one that it read is there and not above
the one required, and afterwards exactly the required one is; an approval it waits for covers what is
missing. It needs that nobody else moves the deposit of such a bidder: its commands are given
in one terminal (`CommandsAssumption`), and only a bidder in the book is paid by an answer of
the gateway. `DepositsOnce` follows from it because what a command sends is computed from
the deposit that it read, whoever sent that.

`FactsInv` says of each command that nothing overtook what its calls so far have shown and
is still so (`Facts`): that the auction can be started and the beneficiary has the tokens,
that bids are taken and the book is not full, that the rank is not awarded and the price is
decrypted, and so on for each of eleven commands. It is kept because a read leaves the
chain alone and adds one fact (`ReadsLearn`), because the transactions in the middle of a
command, its approvals and its deposit, leave the facts behind them (`TransactionsKeepFacts`),
and because whatever anybody else does marks the command as overtaken. At the transaction
the facts are the contract's requirements (`FactsAreEnough`), with three that no command
asks for: that the engine is not closed while bids are taken or the auction can be stopped
(`ClosingInv`), that the deposit reaches the minimum (`TasksInv`), and that there is a rank
left for a bidder who claims blindly for the first time. The last takes that
only bidders in the book have been given ranks, and that the ranks are given without gaps.

`DeploymentInv` has five parts. `Schedule`: which calls the scripts have left and in which
order, a contract after those it is constructed with and a token before its supply.
`RecordInv`: a contract that is recorded next was constructed from the current source and the
current records. `WiredInv`: what the run has dealt with is up to date, and stays so, because a
contract that is still to come never stands behind one that is done. `SupplyInv`: a token has
its supply, or the run will still ask for it; it is minted only when it has none. `TaskInv`: a command
that creates an auction goes after the address of what it asked for, and what it finds
there, once it says so, is as asked.

`ClosingInv` is what `ClosingsAgree` needs to be inductive: that the engine is closed only
after the time for bids is over, which stays so when the clock runs on and when the
auction is terminated. With it, a book that no longer changes (`ComputeKeepsInv`: the
validation makes bids zero and removes none) is the one that the iterator was sized for.

`AuctionInv` is a conjunction of parts, each of which another needs. `BookInv`: the book is
typed, no two bids in it have the same id, and all ids are below `nextId`. `PhaseInv`:
results are ready only when the time for bids is over, and before one is ready nothing
is asked, paid, awarded or claimed blindly. `RequestInv`: a request under way asks for a
bidder of the book, directly or by an id and a rank that belong together. `PaidInv`: each
counter counts its marks, and a marked rank is that of a paid bidder. `BlindInv`: the
blind ranks given out are the first numbers without gaps, each to one bidder.
`CoverInv`: unpaid bidders keep the minimum on deposit, and what their valid bids take.
`CountersAgree` is not inductive alone, because an answer that comes late marks whatever
its request said. `SettledInv` adds that nobody is in the book before the start, and that
everybody in it is paid once the auction is terminated.

`AnswerInv` says what each request was for in terms of the *defined* result: the price, the
quantity won by the id or at the rank. That rank and id of one bidder give the same
quantity takes that ranks are distinct, which follows from the tie-breaking rules being
strict total orders on ids. `MoneyInv` relates the balances to sums: deposits held are the
sum of what is recorded, and tokens held are what is for sale less what the paid have won.
That the rest is enough is the lemma that all winnings together are at most the quantity
for sale, proved by taking the bidder that is served last out of the set. The theorems
about payments assume of accounts that no bidder is the auction itself or the
beneficiary, and of the rule that it is `PriceId` or `PriceQuantityId`.

`EngineInv` ties what is saved between two calls to the number of comparisons that
the iterator has counted. A call works on the current step and within its request. While
`r` bids are ranked and one more is compared with `p` of them, the progress is
`r(r-1)/2 + p`: it is from this equation that the sort ends with the last bid ranked exactly
when the iterator finds the step complete. In the same way the progress of step 4 is the
row times `N` plus the position in the row. `SortIsResumable` is not inductive alone: that
the cursor is not among the ranked bids, that the validated bids stay covered and that the
ranking stays what it is after the sort have to be added. The flags say which step is
reached.

`ResultInv` says of every rank that is done that its quantity is the one the definition
gives, read along the ranking: what is left by the sum of the quantities at the ranks
below. Of what step 3 carries along, it says that the sum is that of the ranks done and that
the price is the lowest of their winners; of step 4, that the quantity found so far in a row
is that of the rank that holds the bid, if it was passed. The theorems assume
of the books what `BidRegistryProofs` proves of `addBid` (`BooksAssumption`), with
distinct random numbers. The two about results also assume `TotalFits`: all bids at the
quantity for sale add up within 256 bits. Nothing in the contract bounds the quantity so;
beyond it the unchecked sum of step 3 could wrap and sell tokens a second time, which
takes a quantity near 2^248 with the 255 bids that can be computed, far above the supply
of a real token. The run `AuctionEngine` goes up to that bound; it is one bid more than is
needed, because the sum with the last bid is never read.

The assumptions on constants are stated where the constants are declared. Beside types
they say: of the commands of `AuctionTasks`, that those which move the tokens of one bidder
are given in one terminal (with two, each may find no deposit and make one), and that
any sum up to a required deposit can be deposited; of the scripts, which tags they
are run with; of the commands of `Deployment`, what parameters they have.

Every invariant, every action property and every refinement that a passing run checks is
proved. `ThresholdsAreExact`, `AnswersKeepContract`, `ReadyResultsAreFinal` and
`WinnersCanPay` are proved of iterator or engine alone; the run `Computation` checks what
they come to for both together. `CallsKeepContract` is proved only. Only model-checked is
liveness: `TLAPS` does not treat `ENABLED`, and so no fairness.

## 5. Findings

Shown by a run:

1. `withdraw()` carries `whenStarted`, whose test is inverted. It can be called before the
   start only, when nobody has a deposit. An account that deposits and does not bid
   cannot get its deposit back after the end (run `WithdrawDeposit`).
2. `auction compute` compares the progress with thresholds that are zero until the engine
   is closed. It reports an auction that is still open as "ready to award prizes" or "ready
   for claim", and so it does if the clock closed the auction: the command then computes
   nothing, however often it is given, and only a direct call of `computeAuction()` helps
   (run `ReadyReports`; its shortest trace is that of an open auction).

Beside these, seen while modelling the contracts:

* When no bid is covered, the price is decrypted as zero, which `_canAward()`
  (`FHEAuction.sol:34`) takes for "not decrypted". Nothing can be claimed, awarded or
  terminated any more; deposits and tokens stay. The doc of `clearUniformPrice()`
  (`FHEAuctionBase.sol:723`) says that it is non-zero once the price is available.
* `computeAuction(iter)` may execute more than `iter` iterations: a page is rounded up to
  a unit (`FourStepsIterator.sol:184`). `PagesFit` states what does hold.
* Sizes are computed in `uint16` (`FHEAuctionEngineIterator.sol:39`), so that an auction
  with 256 bids or more cannot be closed or computed.
* A bidder that refuses native payments is never paid, and blocks termination, but nobody
  else. An auction without bids can be terminated while it is open. A `computeAuction()`
  on an ended auction without bids finishes with nothing ready.

Of the commands and scripts:

* The comparison of the deposit is inverted (`utils.ts:760`): a bidder whose deposit is
  *larger* than required is told "Not enough deposit" and cannot bid. One who interrupts
  a bid at a high price cannot give it again at a lower one. If two commands of one
  bidder each deposit, no later one is accepted.
* `auction cancel-bid` uses `canBidOrThrow`, which refuses bidders that have a bid
  (`auction.ts:408`): given alone it cannot succeed, which is why
  `SoleCommandsAreAccepted` excepts it.
* `auction create --type native` passes the payment token and no maximum number of bids
  (`auctionFactory.ts:273-283`), which its factory does not take: the arguments are
  never encoded, although the option is documented (`auctionFactory.ts:31`). Salts that
  begin with a zero byte lose it in `toBeArray` and are not encoded either; a maximum
  above 65535 is clamped to a number that does not fit (`auctionFactory.ts:93-95`).
* `auction create` reports an auction of the same salt as already deployed even if its
  owner, quantity or deposit differ from those asked for.
* A mistyped address that begins with `0x` is parsed as the index zero and becomes the
  deployer (`utils.ts:131`). The suffix `wei` of an amount takes its last digit with it
  (`utils.ts:222`). `eth transfer` reads an address as the index zero.
* The assertion of `set-balance` fails if the deployer and the account together have twice
  the amount (`erc20.ts:390`), and set-balance of the deployer itself changes
  nothing. Fees are in no check of a balance.
* The fhEVM counts as installed when its ACL is (`0_deploy_fhEVM.ts:46`): an interrupted
  installation is never completed. `func.id` is commented as preventing the execution of
  a script a second time, which takes a return value of `true` that no script has.
* A redeployed factory of auctions begins with an empty mapping: the auctions created
  before are no longer found by their salts, only by their addresses.
* The `README.md` of the repository gives `set-balance` an option `--to` (line 123) where
  the command takes `--account`.

## 6. Not modelled

The pro-rata engine (its ranking reverts); the construction of engines by their
factories; mocks, test suites and shell scripts; access control and decryption
permissions; ERC20 reentrancy (all entry points are `nonReentrant`); the same token for
payment and for sale; equal random numbers under `PriceRandom`, which have a
probability of 2^-256; native gas, which is a nondeterministic early stop or revert.

Of the tasks: `info`, `claim-info`, `balance`, `allowance`, `accounts` read and print, with
no decision that anything depends on; `etherscanVerify` and
`mintMyConfidentialERC20` make one call; `CustomProvider` keeps the block at which the
mocked coprocessor of the tests was reset. Transactions are mined when they are sent:
a command that is interrupted while its transaction is pending is not in the model, nor
are two terminals of one bidder; both can make a deposit twice. The same is assumed of
the deployment scripts: one that is interrupted while a mint is pending, and run again
before it is mined, reads a supply of zero and mints a second time.

What stays with TLC and why: liveness, because the prover does not treat `ENABLED` and
so no fairness.

## 7. Plan

Done: the modules above in the order of the table. What is left, by weight:

1. A composition of `BidRegistry` and `FHEAuction` with `_maxBidCount` and normalisation in
   place; the same token on both ends of the auction.
2. Pending transactions in `AuctionTasks`: a command that is interrupted after it sent.
