---------------------------- MODULE AuctionTasks ----------------------------
(***************************************************************************)
(* The command line of an auction, tasks/auction.ts with tasks/utils.ts:   *)
(* people who run `npx hardhat auction <command>' in their terminals, with *)
(* the auction contract of FHEAuction.tla and its gateway behind them.     *)
(*                                                                         *)
(* A command is a sequence of remote calls.  It reads the chain, one value *)
(* per call, gives up when a value does not suit it, and sends             *)
(* transactions in between; other terminals, the clock and the gateway act *)
(* between any two of its calls, and it can be interrupted at every one.   *)
(* task[t].at is the call that terminal t makes next.                      *)
(*                                                                         *)
(* The auction is paid in ERC20 tokens.  A transaction is mined when it is *)
(* sent; one that the contract rejects ends the command.  `Commands' gives *)
(* the commands of a bidder to one terminal: two terminals of one bidder   *)
(* may each read that no deposit was made, and make it.  Only cancel-bid   *)
(* may be given in another one.                                            *)
(***************************************************************************)
EXTENDS FHEAuction

CONSTANTS
  Terminals,         \* where commands are run, one at a time
  Commands,          \* the commands that are given in each terminal
  Interruptible,     \* terminals whose commands may be interrupted
  MaximumBidCount    \* maximumBidCount()

CommandNames ==
  {"start", "stop", "can-bid", "bid", "cancel-bid", "approve", "compute",
   "decrypt-uniform-price", "award", "claim", "blind-claim"}

\* What the parameters of a command are, and where the commands are given that
\* move the tokens of a bidder.
ASSUME CommandsAssumption ==
  /\ \A t \in Terminals : \A c \in Commands[t] :
       /\ c.name \in CommandNames
       /\ c.name = "start" => c.duration \in Durations /\ c.nonStoppable \in BOOLEAN
       /\ c.name = "compute" => c.award \in BOOLEAN
       /\ c.name = "approve" => c.amount \in Nat
       /\ c.name = "bid" => c.offer \in Offers
       /\ c.name \in {"can-bid", "bid", "cancel-bid", "approve", "claim", "blind-claim"}
            => c.bidder \in Bidders
  /\ \A t, u \in Terminals : \A c \in Commands[t], d \in Commands[u] :
       /\ {c.name, d.name} \subseteq {"bid", "approve"}
       /\ c.bidder = d.bidder
       => t = u

VARIABLES
  task,              \* the command each terminal runs
  allowance,         \* payment tokens a bidder lets the auction take
  saleAllowance      \* auction tokens the beneficiary lets the auction take

chainVars == <<auctionVars, allowance, saleAllowance>>
tasksVars == <<chainVars, task>>

Idle == [cmd |-> [name |-> "none"], at |-> "idle", seen |-> 0, overtaken |-> FALSE]

TasksInit ==
  /\ AuctionInit
  /\ now = 0
  /\ task = [t \in Terminals |-> Idle]
  /\ allowance = [b \in Bidders |-> 0]
  /\ saleAllowance = 0

-----------------------------------------------------------------------------
(* The calls of a command *)

Runs(t, name, call) == task[t].cmd.name = name /\ task[t].at = call

\* A view is read: the command goes on with the next call, or it ends.
Read(t, name, call, suits, next) ==
  /\ Runs(t, name, call)
  /\ task' = [task EXCEPT ![t] = IF suits THEN [@ EXCEPT !.at = next] ELSE Idle]
  /\ UNCHANGED chainVars

\* The commands that run in these terminals are overtaken by a change.
Overtaken(terminals) ==
  [u \in Terminals |-> IF u \notin terminals \/ task[u] = Idle THEN task[u]
                       ELSE [task[u] EXCEPT !.overtaken = TRUE]]

\* A transaction is mined, and the command goes on or is done.
Mined(t, name, call, next) ==
  /\ Runs(t, name, call)
  /\ task' = [Overtaken(Terminals \ {t}) EXCEPT ![t] = IF next = "idle" THEN Idle
                                         ELSE [@ EXCEPT !.at = next]]

OnlyAuctionChanges == UNCHANGED <<allowance, saleAllowance>>

\* The argument resolves to a deployed auction, or the command does nothing.
Launch(t, c) ==
  /\ task[t] = Idle
  /\ flags # UNINITIALIZED
  /\ task' = [task EXCEPT ![t] = [Idle EXCEPT !.cmd = c, !.at =
       CASE c.name \in {"start", "stop", "can-bid", "bid", "cancel-bid"} -> "status"
         [] c.name = "approve" -> "approval"
         [] c.name = "compute" -> "minIterations"
         [] c.name \in {"blind-claim", "claim"} -> "registered"
         [] c.name = "award" -> "canAwardPrizeAtRank"
         [] c.name = "decrypt-uniform-price" -> "clearUniformPrice"]]
  /\ UNCHANGED chainVars

Interrupt(t) ==
  /\ t \in Interruptible
  /\ task[t] # Idle
  /\ task' = [task EXCEPT ![t] = Idle]
  /\ UNCHANGED chainVars

-----------------------------------------------------------------------------
(* auction start: the owner's and the beneficiary's keys are at hand *)

StartReads(t) ==
  LET c == task[t].cmd
  IN  \/ Read(t, "start", "status",
              c.duration # 0 /\ State < INITIALIZED_STARTED, "beneficiaryBalance")
      \/ Read(t, "start", "beneficiaryBalance",
              auctionTokens[Beneficiary] >= AuctionQuantity, "beneficiaryAllowance")
      \/ Read(t, "start", "beneficiaryAllowance",
              saleAllowance >= AuctionQuantity \/ ~c.noApproval,
              IF saleAllowance >= AuctionQuantity THEN "start" ELSE "approve")
      \/ Read(t, "start", "verifyApproval", saleAllowance >= AuctionQuantity, "start")

ApproveSale(t) ==
  /\ Mined(t, "start", "approve", "verifyApproval")
  /\ saleAllowance' = AuctionQuantity
  /\ UNCHANGED <<auctionVars, allowance>>

SendStart(t) ==
  /\ Mined(t, "start", "start", "idle")
  /\ saleAllowance >= AuctionQuantity
  /\ Start(task[t].cmd.duration, ~task[t].cmd.nonStoppable)
  /\ saleAllowance' = saleAllowance - AuctionQuantity
  /\ UNCHANGED allowance

-----------------------------------------------------------------------------
(* auction stop *)

\* Mutant of StopReads: canStop() is not asked.
StopReadsByStatus(t) ==
  Read(t, "stop", "status", State < INITIALIZED_STARTED_ENDED, "stop")

StopReads(t) ==
  \/ Read(t, "stop", "status", State < INITIALIZED_STARTED_ENDED, "canStop")
  \/ Read(t, "stop", "canStop", CanStop, "stop")

SendStop(t) ==
  /\ Mined(t, "stop", "stop", "idle")
  /\ Stop
  /\ OnlyAuctionChanges

-----------------------------------------------------------------------------
(* auction can-bid, bid and cancel-bid, which share canBidOrThrow *)

\* Mutant of RequiredDeposit: only the minimum is asked for.
RequiredDepositAtLeast(offer) == MinimumDeposit

RequiredDeposit(offer) ==
  IF offer.price * offer.quantity < MinimumDeposit THEN MinimumDeposit
  ELSE offer.price * offer.quantity

\* A bid command makes up for what is missing of a deposit.
ASSUME MissingDepositsAssumption ==
  \A offer \in Offers : 0..RequiredDeposit(offer) \subseteq Deposits

MissingDeposit(t) == RequiredDeposit(task[t].cmd.offer) - task[t].seen

CanBidReads(t) ==
  \E name \in {"can-bid", "bid", "cancel-bid"} :
    \/ Read(t, name, "status",
            State >= INITIALIZED_STARTED /\ State < INITIALIZED_STARTED_ENDED,
            "registered")
    \/ Read(t, name, "registered", task[t].cmd.bidder \notin Registered, "bidCount")
    \/ Read(t, name, "bidCount",
            BidCount < MaximumBidCount /\ name # "can-bid",
            IF name = "bid" THEN "balance" ELSE "cancelBid")

\* A deposit that is larger than required ends the command: the comparison that
\* ought to find it too small is the other way round.
RefusesDeposit(t) ==
  RequiredDeposit(task[t].cmd.offer) < balance[task[t].cmd.bidder]

ReadDepositBalance(t) ==
  LET required  == RequiredDeposit(task[t].cmd.offer)
      deposited == balance[task[t].cmd.bidder]
  IN  /\ Runs(t, "bid", "balance")
      /\ task' = [task EXCEPT ![t] =
                    IF RefusesDeposit(t) THEN Idle
                    ELSE [@ EXCEPT !.seen = deposited, !.at =
                            IF deposited = required THEN "bid" ELSE "wallet"]]
      /\ UNCHANGED chainVars

BidReads(t) ==
  LET b == task[t].cmd.bidder
  IN  \/ Read(t, "bid", "wallet", paymentTokens[b] >= MissingDeposit(t), "allowance")
      \/ Read(t, "bid", "allowance", TRUE,
              IF allowance[b] >= MissingDeposit(t) THEN "deposit" ELSE "approve")
      \/ Read(t, "bid", "verifyApproval", allowance[b] >= MissingDeposit(t), "deposit")
      \/ Read(t, "bid", "verifyDeposit",
              balance[b] = task[t].seen + MissingDeposit(t), "bid")

\* Mutant of ApproveDeposit: the approval is for the minimum.
ApproveDepositOfMinimum(t) ==
  /\ Mined(t, "bid", "approve", "verifyApproval")
  /\ allowance' = [allowance EXCEPT ![task[t].cmd.bidder] = MinimumDeposit]
  /\ UNCHANGED <<auctionVars, saleAllowance>>

ApproveDeposit(t) ==
  /\ Mined(t, "bid", "approve", "verifyApproval")
  /\ allowance' = [allowance EXCEPT ![task[t].cmd.bidder] = MissingDeposit(t)]
  /\ UNCHANGED <<auctionVars, saleAllowance>>

SendDeposit(t) ==
  LET b == task[t].cmd.bidder
  IN  /\ Mined(t, "bid", "deposit", "verifyDeposit")
      /\ allowance[b] >= MissingDeposit(t)
      /\ Deposit(b, MissingDeposit(t))
      /\ allowance' = [allowance EXCEPT ![b] = @ - MissingDeposit(t)]
      /\ UNCHANGED saleAllowance

SendBid(t) ==
  /\ Mined(t, "bid", "bid", "idle")
  /\ BidCount < MaximumBidCount
  /\ Bid(task[t].cmd.bidder, task[t].cmd.offer, 0)
  /\ OnlyAuctionChanges

\* erc20 approve: the allowance is set to any amount, without a look at it.
SendApproval(t) ==
  /\ Mined(t, "approve", "approval", "idle")
  /\ allowance' = [allowance EXCEPT ![task[t].cmd.bidder] = task[t].cmd.amount]
  /\ UNCHANGED <<auctionVars, saleAllowance>>

SendCancelBid(t) ==
  /\ Mined(t, "cancel-bid", "cancelBid", "idle")
  /\ CancelBid(task[t].cmd.bidder)
  /\ OnlyAuctionChanges

-----------------------------------------------------------------------------
(* auction compute and decrypt-uniform-price *)

\* The numbers of iterations are zero until the engine is closed: by stop(), or
\* by the first computeAuction().
ReadMinIterations(t) ==
  /\ Runs(t, "compute", "minIterations")
  /\ task' = [task EXCEPT ![t].at = "computedIterations",
                          ![t].seen = iteratorBidCount]
  /\ UNCHANGED chainVars

ReportsReady(t) ==
  \/ task[t].seen = 0
  \/ ByRankReady /\ (ByIdReady \/ task[t].cmd.award)

ComputeReads(t) ==
  \/ Read(t, "compute", "computedIterations", ~ReportsReady(t), "closed")
  \/ Read(t, "compute", "closed", Closed, "computeAuction")

SendCompute(t) ==
  /\ Mined(t, "compute", "computeAuction", "idle")
  /\ ComputeAuction(task[t].cmd.award)
  /\ OnlyAuctionChanges

DecryptReads(t) ==
  \/ Read(t, "decrypt-uniform-price", "clearUniformPrice",
          clearUniformPrice = 0, "canDecrypt")
  \/ Read(t, "decrypt-uniform-price", "canDecrypt", ByRankReady, "decrypt")

SendDecrypt(t) ==
  /\ Mined(t, "decrypt-uniform-price", "decrypt", "idle")
  /\ DecryptUniformPrice
  /\ OnlyAuctionChanges

-----------------------------------------------------------------------------
(* auction award, claim and blind-claim *)

\* Mutant of AwardReads: the last rank is taken for an invalid one.
AwardReadsButLast(t) ==
  LET k == task[t].cmd.rank
  IN  \/ Read(t, "award", "canAwardPrizeAtRank",
              Closed /\ k \notin prizeAtRankAwarded /\ ByRankReady /\ CanAward,
              "bidCount")
      \/ Read(t, "award", "bidCount", k < BidCount - 1, "award")

AwardReads(t) ==
  LET k == task[t].cmd.rank
  IN  \/ Read(t, "award", "canAwardPrizeAtRank",
              Closed /\ k \notin prizeAtRankAwarded /\ ByRankReady /\ CanAward,
              "bidCount")
      \/ Read(t, "award", "bidCount", k < BidCount, "award")

SendAward(t) ==
  /\ Mined(t, "award", "award", "idle")
  /\ AwardPrizeAtRank(task[t].cmd.rank)
  /\ OnlyAuctionChanges

ClaimReads(t) ==
  LET b == task[t].cmd.bidder
  IN  \/ Read(t, "claim", "registered", b \in Registered, "canClaim")
      \/ Read(t, "claim", "canClaim",
              Closed /\ b \notin claimCompleted /\ ByIdReady /\ CanAward, "claim")

SendClaim(t) ==
  /\ Mined(t, "claim", "claim", "idle")
  /\ Claim(task[t].cmd.bidder)
  /\ OnlyAuctionChanges

BlindClaimReads(t) ==
  LET b == task[t].cmd.bidder
  IN  \/ Read(t, "blind-claim", "registered", b \in Registered, "clearUniformPrice")
      \/ Read(t, "blind-claim", "clearUniformPrice",
              clearUniformPrice # 0, "canBlindClaim")
      \/ Read(t, "blind-claim", "canBlindClaim",
              Closed /\ ByRankReady /\ CanAward,
              IF task[t].cmd.forceClaimAgain THEN "completed" ELSE "hasBlindClaimed")
      \/ Read(t, "blind-claim", "hasBlindClaimed", blindRankPlusOne[b] = 0, "completed")
      \/ Read(t, "blind-claim", "completed",
              blindRankPlusOne[b] = 0 \/ blindRankPlusOne[b] - 1 \notin prizeAtRankAwarded,
              "blindClaim")

SendBlindClaim(t) ==
  /\ Mined(t, "blind-claim", "blindClaim", "idle")
  /\ BlindClaim(task[t].cmd.bidder)
  /\ OnlyAuctionChanges

-----------------------------------------------------------------------------
(* The system *)

Reads(t) ==
  \/ StartReads(t)
  \/ StopReads(t)
  \/ CanBidReads(t)
  \/ ReadDepositBalance(t)
  \/ BidReads(t)
  \/ ReadMinIterations(t)
  \/ ComputeReads(t)
  \/ DecryptReads(t)
  \/ AwardReads(t)
  \/ ClaimReads(t)
  \/ BlindClaimReads(t)

Transaction(t) ==
  \/ ApproveSale(t)
  \/ SendStart(t)
  \/ SendStop(t)
  \/ SendApproval(t)
  \/ ApproveDeposit(t)
  \/ SendDeposit(t)
  \/ SendBid(t)
  \/ SendCancelBid(t)
  \/ SendCompute(t)
  \/ SendDecrypt(t)
  \/ SendAward(t)
  \/ SendClaim(t)
  \/ SendBlindClaim(t)

TransactionCalls ==
  {"approval", "approve", "start", "stop", "deposit", "bid", "cancelBid", "computeAuction",
   "decrypt", "award", "claim", "blindClaim"}

\* awardPrizeAtRank() and blindClaim() pay a rank when the results are there.
CanPayRank(k) == ByRankReady /\ CanAward /\ k < BidCount

NextBlindRank(b) ==
  IF blindRankPlusOne[b] # 0 THEN blindRankPlusOne[b] - 1 ELSE blindClaimRequestCount

\* The contract meets the transaction that a command sends next with these
\* requirements: what the sale as a whole is ready for,
SaleAccepted(t) ==
  \/ /\ Runs(t, "start", "start")
     /\ CanStart /\ task[t].cmd.duration # 0
     /\ auctionTokens[Beneficiary] >= AuctionQuantity
     /\ saleAllowance >= AuctionQuantity
  \/ Runs(t, "stop", "stop") /\ CanStop /\ ~engineClosed
  \/ Runs(t, "compute", "computeAuction") /\ Closed

\* what is asked of a bidder,
BiddingAccepted(t) ==
  LET b == task[t].cmd.bidder
  IN  \/ /\ Runs(t, "bid", "deposit")
         /\ IsOpen
         /\ paymentTokens[b] >= MissingDeposit(t) /\ allowance[b] >= MissingDeposit(t)
      \/ /\ Runs(t, "bid", "bid")
         /\ IsOpen /\ ~engineClosed
         /\ balance[b] >= MinimumDeposit
         /\ b \notin Registered /\ BidCount < MaximumBidCount
      \/ /\ Runs(t, "cancel-bid", "cancelBid")
         /\ IsOpen /\ ~engineClosed
         /\ b \in Registered /\ CanReceive(b)

\* and what it takes to be paid.
PaymentAccepted(t) ==
  LET c == task[t].cmd
      b == c.bidder
  IN  \/ Runs(t, "decrypt-uniform-price", "decrypt") /\ flags # UNINITIALIZED /\ ByRankReady
      \/ /\ Runs(t, "award", "award")
         /\ Closed /\ c.rank \notin prizeAtRankAwarded /\ CanPayRank(c.rank)
      \/ /\ Runs(t, "claim", "claim")
         /\ Closed /\ b \in Registered \ claimCompleted /\ CanAward /\ ByIdReady
      \/ /\ Runs(t, "blind-claim", "blindClaim")
         /\ Closed /\ (blindRankPlusOne[b] = 0 => b \in Registered)
         /\ NextBlindRank(b) \in prizeAtRankAwarded \/ CanPayRank(NextBlindRank(b))

\* An approval has no requirements.
Accepted(t) ==
  \/ \/ Runs(t, "approve", "approval")
     \/ Runs(t, "start", "approve")
     \/ Runs(t, "bid", "approve")
  \/ SaleAccepted(t) \/ BiddingAccepted(t) \/ PaymentAccepted(t)

Rejected(t) == task[t].at \in TransactionCalls /\ ~Accepted(t)

Revert(t) ==
  /\ Rejected(t)
  /\ task' = [task EXCEPT ![t] = Idle]
  /\ UNCHANGED chainVars

Outside(change) ==
  /\ change
  /\ task' = Overtaken(Terminals)
  /\ OnlyAuctionChanges

\* The factory deploys and initialises the auction.
Create == Outside(Initialize)

\* The clock is looked at while the auction is open only.
BlockMined == Outside(IsOpen /\ NextBlock)

GatewayAnswers(r) ==
  \/ CallbackDecryptUniformPrice(r)
  \/ CallbackDecryptWonQuantity(r)
  \/ CallbackDecryptRankedWonQuantity(r)

Step(t) == Reads(t) \/ Transaction(t) \/ Revert(t)

TasksNext ==
  \/ \E t \in Terminals :
       \/ \E c \in Commands[t] : Launch(t, c)
       \/ Reads(t)
       \/ Transaction(t)
       \/ Revert(t)
       \/ Interrupt(t)
  \/ Create
  \/ BlockMined
  \/ \E r \in requests : Outside(GatewayAnswers(r) \/ RequestLost(r))

TasksSpec == TasksInit /\ [][TasksNext]_tasksVars

\* The commands of the workers, when `info' and `claim-info' show that they are
\* what the auction waits for.
CalledFor(c) ==
  \/ c.name = "compute" /\ Closed /\ ~ByRankReady
  \/ c.name = "decrypt-uniform-price" /\ ByRankReady /\ clearUniformPrice = 0
  \/ c.name = "award" /\ Closed /\ CanAward /\ c.rank \in (0..(BidCount - 1)) \ prizeAtRankAwarded

\* Blocks are produced, a command that is not interrupted goes on, the commands
\* that are called for are given in the end, and of the computations, and of the
\* requests to the gateway, not all are in vain.
FairTasksSpec ==
  /\ TasksSpec
  /\ WF_tasksVars(BlockMined)
  /\ \A t \in Terminals : WF_tasksVars(Step(t))
  /\ SF_tasksVars(\E t \in Terminals : \E c \in Commands[t] : CalledFor(c) /\ Launch(t, c))
  /\ SF_tasksVars(\E t \in Terminals : SendCompute(t) /\ ready' # ready)
  /\ SF_tasksVars(\E r \in requests : Outside(GatewayAnswers(r)))

-----------------------------------------------------------------------------
(* Properties *)

\* A command that nothing overtook sends no transaction that is rejected: its
\* checks are those of the contract.  All but cancel-bid, which turns away the
\* bidders that have a bid to cancel.
SoleCommandsAreAccepted ==
  \A t \in Terminals :
    Rejected(t) => task[t].overtaken \/ task[t].cmd.name = "cancel-bid"

\* The deposit and the approval are found as they were sent.
TransactionsAreVerified ==
  \A t \in Terminals :
    /\ task[t].at = "verifyDeposit" =>
         balance[task[t].cmd.bidder] = task[t].seen + MissingDeposit(t)
    /\ Runs(t, "bid", "verifyApproval") =>
         allowance[task[t].cmd.bidder] >= MissingDeposit(t)

\* However often a bid command is interrupted and given again, at another price or
\* at the same one, a bidder deposits what one bid requires.
DepositsOnce ==
  \A b \in Bidders : b \notin claimCompleted =>
    /\ balance[b] \in {0} \cup {RequiredDeposit(offer) : offer \in Offers}
    /\ b \in Registered => bidOf[b].price * bidOf[b].quantity <= balance[b]

\* An auction that was closed with the stop command is paid out by the commands of
\* the README, whatever else is run or interrupted and however many answers of the
\* gateway are lost: every bidder is paid, and none of their bids was invalid.
StoppedAuctionsArePaidOut ==
  \A b \in Bidders :
    flags = INITIALIZED_STARTED_ENDED /\ b \in Registered ~> b \in claimCompleted

-----------------------------------------------------------------------------
(* What a message of the program says, and the code does not do *)

\* auction compute, auction.ts:474-478: a computation reported to be "ready to award
\* prizes" or "ready for claim" is done.
ReadyReportsAreTrue ==
  \A t \in Terminals :
    Runs(t, "compute", "computedIterations") /\ ReportsReady(t) =>
      BidCount = 0 \/ ByRankReady
=============================================================================
