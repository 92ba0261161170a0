------------------------- MODULE AuctionTasksProofs -------------------------
(***************************************************************************)
(* Theorems about the commands of an auction, for any number of terminals, *)
(* any commands given in them, any interruptions, and any auction of the   *)
(* kind FHEAuctionProofs.tla is about.  First that the commands do nothing *)
(* the contract does not provide for, so that its theorems hold of the     *)
(* auction behind the command line; then what a bidder's command may rely  *)
(* on between two of its calls.                                            *)
(***************************************************************************)
EXTENDS AuctionTasks, FHEAuctionProofs

-----------------------------------------------------------------------------
(* The invariant *)

Calls ==
  TransactionCalls \cup
  {"idle", "status", "beneficiaryBalance", "beneficiaryAllowance", "verifyApproval",
   "canStop", "registered", "bidCount", "balance", "wallet", "allowance",
   "verifyDeposit", "minIterations", "computedIterations", "closed", "canAwardPrizeAtRank",
   "clearUniformPrice", "canDecrypt", "canClaim", "canBlindClaim", "hasBlindClaimed",
   "completed"}

AllCommands == {Idle.cmd} \cup UNION {Commands[t] : t \in Terminals}

TaskRecords == [cmd : AllCommands, at : Calls, seen : Nat, overtaken : BOOLEAN]

TasksTypeInv ==
  /\ task \in [Terminals -> TaskRecords]
  /\ \A t \in Terminals : task[t].cmd \in Commands[t] \cup {Idle.cmd}
  /\ allowance \in [Bidders -> Nat]
  /\ saleAllowance \in Nat

\* The calls of a bid command, by what they may rely on.
AfterRegistration ==
  {"bidCount", "balance", "wallet", "allowance", "approve", "verifyApproval", "deposit",
   "verifyDeposit", "bid"}
BeforeDeposit == {"wallet", "allowance", "approve", "verifyApproval", "deposit"}
AfterDeposit == {"verifyDeposit", "bid"}

\* A bid command that found its bidder without a bid finds it so until it places one;
\* the deposit it read, and then completed, is the one that is there.
BidTaskInv(t) ==
  LET b        == task[t].cmd.bidder
      required == RequiredDeposit(task[t].cmd.offer)
  IN  /\ task[t].at \in AfterRegistration => b \notin Registered
      /\ task[t].at \in BeforeDeposit => task[t].seen = balance[b] /\ balance[b] <= required
      /\ task[t].at \in AfterDeposit => balance[b] = required
      /\ task[t].at = "verifyApproval" => allowance[b] >= MissingDeposit(t)

TasksInv ==
  /\ TasksTypeInv
  /\ \A t \in Terminals : task[t].cmd.name = "bid" => BidTaskInv(t)
  /\ \A t \in Terminals : task[t].at = "verifyDeposit" => task[t].cmd.name = "bid"

-----------------------------------------------------------------------------
(* Commands and their calls *)

\* A terminal that runs a command runs one that is given there.
LEMMA TasksAreCommands ==
  ASSUME TasksTypeInv, NEW t \in Terminals, task[t].cmd.name # "none"
  PROVE  task[t].cmd \in Commands[t] /\ task[t].cmd.name \in CommandNames
BY CommandsAssumption DEF TasksTypeInv, Idle

\* Steps of a command of a bidder that moves tokens are made in one terminal only.
LEMMA BiddersUseOneTerminal ==
  ASSUME TasksTypeInv, NEW t \in Terminals, NEW u \in Terminals,
         task[t].cmd.name \in {"bid", "approve"}, task[u].cmd.name \in {"bid", "approve"},
         task[t].cmd.bidder = task[u].cmd.bidder
  PROVE  t = u
<1>1. task[t].cmd \in Commands[t] /\ task[u].cmd \in Commands[u]
  BY TasksAreCommands
<1> QED
  BY <1>1, CommandsAssumption

LEMMA ProductsAreNatural ==
  ASSUME NEW m \in Nat, NEW n \in Nat
  PROVE  m * n \in Nat
OBVIOUS

LEMMA BidCommandsAreTyped ==
  ASSUME TasksTypeInv, NEW t \in Terminals, task[t].cmd.name = "bid"
  PROVE  /\ task[t].cmd.bidder \in Bidders /\ task[t].cmd.offer \in Offers
         /\ RequiredDeposit(task[t].cmd.offer) \in Nat
         /\ task[t].seen \in Nat
<1>1. task[t].cmd \in Commands[t]
  BY TasksAreCommands
<1>2. task[t].cmd.bidder \in Bidders /\ task[t].cmd.offer \in Offers
  BY <1>1, CommandsAssumption
<1>3. PICK offer : offer = task[t].cmd.offer
  OBVIOUS
<1>4. offer.price \in Nat /\ offer.quantity \in Nat
  BY <1>2, <1>3, AuctionAssumption
<1>5. offer.price * offer.quantity \in Nat
  BY <1>4, ProductsAreNatural
<1>6. RequiredDeposit(offer) \in Nat
  BY <1>5, AuctionAssumption DEF RequiredDeposit
<1> QED
  BY <1>2, <1>3, <1>6 DEF TasksTypeInv, TaskRecords

-----------------------------------------------------------------------------
(* The commands implement the auction *)

\* What the steps of a terminal do to the auction is a call of the contract.
LEMMA TransactionsArePermitted ==
  ASSUME TasksInv, BookInv, NEW t \in Terminals, Transaction(t)
  PROVE  [AuctionNext]_auctionVars
<1>0. TasksTypeInv
  BY DEF TasksInv
<1>1. CASE ApproveSale(t)
  BY <1>1 DEF ApproveSale
<1>2. CASE SendStart(t)
  <2>1. task[t].cmd.name = "start"
    BY <1>2 DEF SendStart, Mined, Runs
  <2>2. task[t].cmd.duration \in Durations /\ (~task[t].cmd.nonStoppable) \in BOOLEAN
    BY <1>0, <2>1, TasksAreCommands, CommandsAssumption
  <2>3. Start(task[t].cmd.duration, ~task[t].cmd.nonStoppable)
    BY <1>2 DEF SendStart
  <2> QED
    BY <2>2, <2>3 DEF AuctionNext
<1>3. CASE SendStop(t)
  BY <1>3 DEF SendStop, AuctionNext
<1>4. CASE SendApproval(t)
  BY <1>4 DEF SendApproval
<1>5. CASE ApproveDeposit(t)
  BY <1>5 DEF ApproveDeposit
<1>6. CASE SendDeposit(t)
  <2>1. task[t].cmd.name = "bid" /\ task[t].at = "deposit"
    BY <1>6 DEF SendDeposit, Mined, Runs
  <2>2. /\ task[t].cmd.bidder \in Bidders /\ task[t].cmd.offer \in Offers
        /\ RequiredDeposit(task[t].cmd.offer) \in Nat /\ task[t].seen \in Nat
    BY <1>0, <2>1, BidCommandsAreTyped
  <2>3. task[t].seen <= RequiredDeposit(task[t].cmd.offer)
    BY <2>1 DEF TasksInv, BidTaskInv, BeforeDeposit
  <2>4. MissingDeposit(t) \in 0..RequiredDeposit(task[t].cmd.offer)
    BY <2>2, <2>3 DEF MissingDeposit
  <2>5. MissingDeposit(t) \in Deposits
    BY <2>2, <2>4, MissingDepositsAssumption
  <2>6. Deposit(task[t].cmd.bidder, MissingDeposit(t))
    BY <1>6 DEF SendDeposit
  <2> QED
    BY <2>2, <2>5, <2>6 DEF AuctionNext
<1>7. CASE SendBid(t)
  <2>1. task[t].cmd.name = "bid"
    BY <1>7 DEF SendBid, Mined, Runs
  <2>2. task[t].cmd.bidder \in Bidders /\ task[t].cmd.offer \in Offers
    BY <1>0, <2>1, BidCommandsAreTyped
  <2>3. Bid(task[t].cmd.bidder, task[t].cmd.offer, 0)
    BY <1>7 DEF SendBid
  <2> QED
    BY <2>2, <2>3 DEF AuctionNext
<1>8. CASE SendCancelBid(t)
  <2>1. CancelBid(task[t].cmd.bidder)
    BY <1>8 DEF SendCancelBid
  <2>2. task[t].cmd.bidder \in Bidders
    BY <2>1 DEF CancelBid, Registered
  <2> QED
    BY <2>1, <2>2 DEF AuctionNext
<1>9. CASE SendCompute(t)
  <2>1. task[t].cmd.name = "compute"
    BY <1>9 DEF SendCompute, Mined, Runs
  <2>2. task[t].cmd.award \in BOOLEAN
    BY <1>0, <2>1, TasksAreCommands, CommandsAssumption
  <2>3. ComputeAuction(task[t].cmd.award)
    BY <1>9 DEF SendCompute
  <2> QED
    BY <2>2, <2>3 DEF AuctionNext
<1>10. CASE SendDecrypt(t)
  BY <1>10 DEF SendDecrypt, AuctionNext
<1>11. CASE SendAward(t)
  <2>1. PICK k : k = task[t].cmd.rank
    OBVIOUS
  <2>2. AwardPrizeAtRank(k)
    BY <1>11, <2>1 DEF SendAward
  <2>3. PICK b \in Registered : Rank(b) = k
    BY <2>2 DEF AwardPrizeAtRank, AwardRank
  <2>4. Rank(b) \in 0..(BidCount - 1) /\ BidCount \in Nat
    BY RanksAreDistinct, BookIsFinite
  <2>5. BidCount <= Cardinality(Bidders) /\ Cardinality(Bidders) \in Nat
    BY AuctionAssumption, FS_Subset, FS_CardinalityType DEF BidCount, Registered
  <2>6. k \in Ranks
    BY <2>3, <2>4, <2>5 DEF Ranks
  <2> QED
    BY <2>2, <2>6 DEF AuctionNext
<1>12. CASE SendClaim(t)
  <2>1. Claim(task[t].cmd.bidder)
    BY <1>12 DEF SendClaim
  <2>2. task[t].cmd.bidder \in Bidders
    BY <2>1 DEF Claim, Registered
  <2> QED
    BY <2>1, <2>2 DEF AuctionNext
<1>13. CASE SendBlindClaim(t)
  <2>1. task[t].cmd.name = "blind-claim"
    BY <1>13 DEF SendBlindClaim, Mined, Runs
  <2>2. task[t].cmd.bidder \in Bidders
    BY <1>0, <2>1, TasksAreCommands, CommandsAssumption
  <2>3. BlindClaim(task[t].cmd.bidder)
    BY <1>13 DEF SendBlindClaim
  <2> QED
    BY <2>2, <2>3 DEF AuctionNext
<1> QED
  BY <1>1, <1>2, <1>3, <1>4, <1>5, <1>6, <1>7, <1>8, <1>9, <1>10, <1>11, <1>12, <1>13
     DEF Transaction

\* Reading the chain leaves it as it is.
LEMMA ReadsChangeNothing ==
  ASSUME NEW t \in Terminals, Reads(t)
  PROVE  UNCHANGED chainVars
BY DEF Reads, StartReads, StopReads, CanBidReads, ReadDepositBalance, BidReads,
       ReadMinIterations, ComputeReads, DecryptReads, AwardReads, ClaimReads,
       BlindClaimReads, Read

LEMMA StepsArePermitted ==
  ASSUME TasksInv, BookInv, [TasksNext]_tasksVars
  PROVE  [AuctionNext]_auctionVars
<1>1. ASSUME NEW t \in Terminals,
             \/ \E c \in Commands[t] : Launch(t, c)
             \/ Reads(t)
             \/ Revert(t)
             \/ Interrupt(t)
      PROVE  UNCHANGED auctionVars
  BY <1>1, ReadsChangeNothing DEF Launch, Revert, Interrupt, chainVars
<1>2. ASSUME NEW t \in Terminals, Transaction(t)
      PROVE  [AuctionNext]_auctionVars
  BY <1>2, TransactionsArePermitted
<1>3. CASE Create
  BY <1>3 DEF Create, Outside, AuctionNext
<1>4. CASE BlockMined
  BY <1>4 DEF BlockMined, Outside, AuctionNext
<1>5. ASSUME NEW r \in requests, Outside(GatewayAnswers(r) \/ RequestLost(r))
      PROVE  AuctionNext
  BY <1>5 DEF Outside, GatewayAnswers, AuctionNext
<1>6. CASE UNCHANGED tasksVars
  BY <1>6 DEF tasksVars, chainVars
<1> QED
  BY <1>1, <1>2, <1>3, <1>4, <1>5, <1>6 DEF TasksNext

-----------------------------------------------------------------------------
(* What a step does to the commands *)

Ends(t) == task'[t] = Idle

AdvancesTo(t, next, seen) ==
  task'[t] = [cmd |-> task[t].cmd, at |-> next, seen |-> seen,
              overtaken |-> task[t].overtaken]

\* A command goes on although another one changed what it may have read.
GoesOn(u) ==
  /\ task'[u].cmd = task[u].cmd /\ task'[u].at = task[u].at /\ task'[u].seen = task[u].seen
  /\ \/ task'[u] = task[u]
     \/ task'[u] = [cmd |-> task[u].cmd, at |-> task[u].at, seen |-> task[u].seen,
                    overtaken |-> TRUE]

\* The command of terminal t ends or goes on, the others wait.
Moves(t) ==
  /\ task' = [u \in Terminals |-> task'[u]]
  /\ \A u \in Terminals \ {t} : GoesOn(u)
  /\ Ends(t) \/ \E next \in Calls, seen \in Nat : AdvancesTo(t, next, seen)

LEMMA TasksAreRecords ==
  ASSUME TasksTypeInv, NEW t \in Terminals
  PROVE  /\ task = [u \in Terminals |-> task[u]]
         /\ task[t] = [cmd |-> task[t].cmd, at |-> task[t].at, seen |-> task[t].seen,
                       overtaken |-> task[t].overtaken]
         /\ task[t].at \in Calls /\ task[t].seen \in Nat /\ task[t].overtaken \in BOOLEAN
         /\ task[t].cmd \in Commands[t] \cup {Idle.cmd}
<1>1. task \in [Terminals -> TaskRecords] /\ task[t].cmd \in Commands[t] \cup {Idle.cmd}
  BY DEF TasksTypeInv
<1>2. task[t] \in TaskRecords
  BY <1>1
<1> QED
  BY <1>1, <1>2 DEF TaskRecords

LEMMA MovesKeepTypes ==
  ASSUME TasksTypeInv, NEW t \in Terminals, Moves(t)
  PROVE  /\ task' \in [Terminals -> TaskRecords]
         /\ \A u \in Terminals : task'[u].cmd \in Commands[u] \cup {Idle.cmd}
<1>2. Idle.cmd \in AllCommands /\ \A u \in Terminals : Commands[u] \subseteq AllCommands
  <2>1. AllCommands = {Idle.cmd} \cup UNION {Commands[u] : u \in Terminals}
    BY DEF AllCommands
  <2> QED
    BY ONLY <2>1, Zenon
<1>3. ASSUME NEW u \in Terminals
      PROVE  /\ task'[u] \in TaskRecords
             /\ task'[u].cmd \in Commands[u] \cup {Idle.cmd}
  <2>1. /\ task[u] = [cmd |-> task[u].cmd, at |-> task[u].at, seen |-> task[u].seen,
                      overtaken |-> task[u].overtaken]
        /\ task[u].at \in Calls /\ task[u].seen \in Nat /\ task[u].overtaken \in BOOLEAN
        /\ task[u].cmd \in Commands[u] \cup {Idle.cmd}
    BY TasksAreRecords
  <2>2. task[u].cmd \in AllCommands
    BY <1>2, <2>1
  <2>3. CASE task'[u] = task[u]
    BY <2>1, <2>2, <2>3 DEF TaskRecords
  <2>4. CASE task'[u] = [cmd |-> task[u].cmd, at |-> task[u].at, seen |-> task[u].seen,
                         overtaken |-> TRUE]
    BY <2>1, <2>2, <2>4 DEF TaskRecords
  <2>5. CASE task'[u] = Idle
    <3>1. Idle.cmd \in AllCommands /\ Idle.cmd \in Commands[u] \cup {Idle.cmd}
      BY <1>2, Zenon
    <3>2. PICK none : none = Idle.cmd
      OBVIOUS
    <3>3. task'[u] = [cmd |-> none, at |-> "idle", seen |-> 0, overtaken |-> FALSE]
      BY <2>5, <3>2 DEF Idle
    <3>4. "idle" \in Calls
      BY DEF Calls
    <3> QED
      BY <3>1, <3>2, <3>3, <3>4 DEF TaskRecords
  <2>6. ASSUME NEW next \in Calls, NEW seen \in Nat,
               task'[u] = [cmd |-> task[u].cmd, at |-> next, seen |-> seen,
                           overtaken |-> task[u].overtaken]
        PROVE  /\ task'[u] \in TaskRecords
               /\ task'[u].cmd \in Commands[u] \cup {Idle.cmd}
    BY <2>1, <2>2, <2>6 DEF TaskRecords
  <2> QED
    BY <2>3, <2>4, <2>5, <2>6 DEF Moves, GoesOn, Ends, AdvancesTo
<1>4. task' \in [Terminals -> TaskRecords]
  BY <1>3 DEF Moves
<1> QED
  BY <1>3, <1>4

\* A read ends the command or takes it to the next call.
LEMMA ReadMoves ==
  ASSUME TasksTypeInv, NEW t \in Terminals, NEW name, NEW call, NEW suits \in BOOLEAN,
         NEW next \in Calls, Read(t, name, call, suits, next)
  PROVE  /\ Runs(t, name, call) /\ Moves(t) /\ UNCHANGED chainVars
         /\ (suits /\ AdvancesTo(t, next, task[t].seen)) \/ (~suits /\ Ends(t))
<1>1. PICK k : k = task[t]
  OBVIOUS
<1>2. PICK r : r = [k EXCEPT !.at = next]
  OBVIOUS
<1>3. k = [cmd |-> k.cmd, at |-> k.at, seen |-> k.seen, overtaken |-> k.overtaken]
      /\ k.seen \in Nat
  BY <1>1, TasksAreRecords
<1>4. r = [cmd |-> k.cmd, at |-> next, seen |-> k.seen, overtaken |-> k.overtaken]
  BY <1>2, <1>3
<1>5. task' = [task EXCEPT ![t] = IF suits THEN r ELSE Idle]
  BY <1>1, <1>2 DEF Read
<1>6. task = [u \in Terminals |-> task[u]]
  BY TasksAreRecords
<1>7. task'[t] = (IF suits THEN r ELSE Idle) /\ task' = [u \in Terminals |-> task'[u]]
      /\ \A u \in Terminals \ {t} : task'[u] = task[u]
  BY <1>5, <1>6
<1>8. (suits /\ AdvancesTo(t, next, task[t].seen)) \/ (~suits /\ Ends(t))
  BY <1>1, <1>4, <1>7 DEF AdvancesTo, Ends
<1>9. Moves(t)
  BY <1>1, <1>3, <1>7, <1>8 DEF Moves, GoesOn
<1> QED
  BY <1>8, <1>9 DEF Read

LEMMA OvertakenGoesOn ==
  ASSUME TasksTypeInv, NEW T \in SUBSET Terminals, NEW u \in Terminals
  PROVE  LET k == task[u]
             o == Overtaken(T)[u]
         IN  /\ o.cmd = k.cmd /\ o.at = k.at /\ o.seen = k.seen
             /\ \/ o = k
                \/ o = [cmd |-> k.cmd, at |-> k.at, seen |-> k.seen, overtaken |-> TRUE]
<1>1. PICK k : k = task[u]
  OBVIOUS
<1>2. PICK r : r = [k EXCEPT !.overtaken = TRUE]
  OBVIOUS
<1>3. k = [cmd |-> k.cmd, at |-> k.at, seen |-> k.seen, overtaken |-> k.overtaken]
  BY <1>1, TasksAreRecords
<1>4. r = [cmd |-> k.cmd, at |-> k.at, seen |-> k.seen, overtaken |-> TRUE]
  BY <1>2, <1>3
<1>5. Overtaken(T)[u] = k \/ Overtaken(T)[u] = r
  BY <1>1, <1>2 DEF Overtaken
<1> QED
  BY <1>1, <1>4, <1>5

\* A transaction does, too, and the others are overtaken by it.
LEMMA MinedMoves ==
  ASSUME TasksTypeInv, NEW t \in Terminals, NEW name, NEW call, NEW next \in Calls,
         Mined(t, name, call, next)
  PROVE  /\ Runs(t, name, call) /\ Moves(t)
         /\ IF next = "idle" THEN Ends(t) ELSE AdvancesTo(t, next, task[t].seen)
<1>1. PICK k : k = task[t]
  OBVIOUS
<1>2. PICK r : r = [k EXCEPT !.at = next]
  OBVIOUS
<1>3. k = [cmd |-> k.cmd, at |-> k.at, seen |-> k.seen, overtaken |-> k.overtaken]
      /\ k.seen \in Nat
  BY <1>1, TasksAreRecords
<1>4. r = [cmd |-> k.cmd, at |-> next, seen |-> k.seen, overtaken |-> k.overtaken]
  BY <1>2, <1>3
<1>5. PICK over : over = Overtaken(Terminals \ {t})
  OBVIOUS
<1>6. over[t] = k /\ over = [u \in Terminals |-> over[u]]
  BY <1>1, <1>5 DEF Overtaken
<1>7. task' = [over EXCEPT ![t] = IF next = "idle" THEN Idle ELSE r]
  BY <1>2, <1>5, <1>6 DEF Mined
<1>8. task'[t] = (IF next = "idle" THEN Idle ELSE r) /\ task' = [u \in Terminals |-> task'[u]]
      /\ \A u \in Terminals \ {t} : task'[u] = over[u]
  BY <1>6, <1>7
<1>9. ASSUME NEW u \in Terminals \ {t}
      PROVE  GoesOn(u)
  <2>1. (Terminals \ {t}) \in SUBSET Terminals
    OBVIOUS
  <2>2. /\ over[u].cmd = task[u].cmd /\ over[u].at = task[u].at /\ over[u].seen = task[u].seen
        /\ \/ over[u] = task[u]
           \/ over[u] = [cmd |-> task[u].cmd, at |-> task[u].at, seen |-> task[u].seen,
                         overtaken |-> TRUE]
    BY <1>5, <2>1, OvertakenGoesOn
  <2> QED
    BY <1>8, <2>2 DEF GoesOn
<1>10. IF next = "idle" THEN Ends(t) ELSE AdvancesTo(t, next, task[t].seen)
  BY <1>1, <1>4, <1>8 DEF AdvancesTo, Ends
<1>11. Moves(t)
  BY <1>1, <1>3, <1>8, <1>9, <1>10 DEF Moves
<1> QED
  BY <1>10, <1>11 DEF Mined

-----------------------------------------------------------------------------
(* The reads *)

\* No command is sent to these calls by what it reads.
ReadTargets == Calls \ {"verifyApproval", "verifyDeposit"}

Leads(t, next) == task' = [task EXCEPT ![t] = [task[t] EXCEPT !.at = next]]
Stops(t) == task' = [task EXCEPT ![t] = Idle]

LEMMA LeadsOrStops ==
  ASSUME TasksTypeInv, NEW t \in Terminals, NEW next \in ReadTargets,
         Leads(t, next) \/ Stops(t)
  PROVE  /\ Moves(t) /\ task'[t].at \in ReadTargets
         /\ Leads(t, next) => AdvancesTo(t, next, task[t].seen)
         /\ Stops(t) => Ends(t)
<1>1. PICK k : k = task[t]
  OBVIOUS
<1>2. PICK r : r = [k EXCEPT !.at = next]
  OBVIOUS
<1>3. /\ k = [cmd |-> k.cmd, at |-> k.at, seen |-> k.seen, overtaken |-> k.overtaken]
      /\ k.seen \in Nat /\ task = [u \in Terminals |-> task[u]]
  BY <1>1, TasksAreRecords
<1>4. r = [cmd |-> k.cmd, at |-> next, seen |-> k.seen, overtaken |-> k.overtaken]
  BY <1>2, <1>3
<1>5. CASE Leads(t, next)
  <2>1. task' = [task EXCEPT ![t] = r]
    BY <1>1, <1>2, <1>5 DEF Leads
  <2>2. /\ task'[t] = r /\ task' = [u \in Terminals |-> task'[u]]
        /\ \A u \in Terminals \ {t} : task'[u] = task[u]
    BY <1>3, <2>1
  <2>3. AdvancesTo(t, next, task[t].seen)
    BY <1>1, <1>4, <2>2 DEF AdvancesTo
  <2>4. Moves(t)
    BY <1>1, <1>3, <2>2, <2>3 DEF Moves, GoesOn, ReadTargets
  <2>5. Stops(t) => Ends(t)
    BY <1>3 DEF Stops, Ends
  <2> QED
    BY <2>3, <2>4, <2>5 DEF AdvancesTo
<1>6. CASE Stops(t) /\ ~Leads(t, next)
  <2>1. /\ task'[t] = Idle /\ task' = [u \in Terminals |-> task'[u]]
        /\ \A u \in Terminals \ {t} : task'[u] = task[u]
    BY <1>3, <1>6 DEF Stops
  <2>2. Moves(t)
    BY <2>1 DEF Moves, GoesOn, Ends
  <2> QED
    BY <1>6, <2>1, <2>2 DEF Ends, Idle, ReadTargets, Calls
<1> QED
  BY <1>5, <1>6

LEMMA RecordMoves ==
  ASSUME TasksTypeInv, NEW t \in Terminals, NEW next \in Calls, NEW seen \in Nat,
         task' = [task EXCEPT ![t] = [cmd |-> task[t].cmd, at |-> next, seen |-> seen,
                                      overtaken |-> task[t].overtaken]]
  PROVE  Moves(t) /\ AdvancesTo(t, next, seen)
<1>1. PICK r : r = [cmd |-> task[t].cmd, at |-> next, seen |-> seen,
                    overtaken |-> task[t].overtaken]
  OBVIOUS
<1>2. task = [u \in Terminals |-> task[u]] /\ task' = [task EXCEPT ![t] = r]
  BY <1>1, TasksAreRecords
<1>3. /\ task'[t] = r /\ task' = [u \in Terminals |-> task'[u]]
      /\ \A u \in Terminals \ {t} : task'[u] = task[u]
  BY <1>2
<1>4. AdvancesTo(t, next, seen)
  BY <1>1, <1>3 DEF AdvancesTo
<1> QED
  BY <1>3, <1>4 DEF Moves, GoesOn

\* The deposit that a bid command goes on with is the one it has read.
LEMMA DepositIsRead ==
  ASSUME TasksTypeInv, BookInv, NEW t \in Terminals, ReadDepositBalance(t)
  PROVE  LET b        == task[t].cmd.bidder
             required == RequiredDeposit(task[t].cmd.offer)
         IN  /\ Moves(t) /\ task[t].cmd.name = "bid"
             /\ \/ Ends(t)
                \/ balance[b] = required /\ AdvancesTo(t, "bid", balance[b])
                \/ balance[b] < required /\ AdvancesTo(t, "wallet", balance[b])
<1>1. PICK k : k = task[t]
  OBVIOUS
<1>2. task[t].cmd.name = "bid"
  BY DEF ReadDepositBalance, Runs
<1>3. PICK b, required : b = k.cmd.bidder /\ required = RequiredDeposit(k.cmd.offer)
  OBVIOUS
<1>4. b \in Bidders /\ balance[b] \in Nat /\ required \in Nat
  BY <1>1, <1>2, <1>3, BidCommandsAreTyped DEF BookInv
<1>5. k = [cmd |-> k.cmd, at |-> k.at, seen |-> k.seen, overtaken |-> k.overtaken]
  BY <1>1, TasksAreRecords
<1>6. CASE RefusesDeposit(t)
  <2>1. Stops(t)
    BY <1>6 DEF ReadDepositBalance, Stops
  <2> QED
    BY <1>2, <2>1, LeadsOrStops DEF ReadTargets, Calls
<1>7. ASSUME ~RefusesDeposit(t), NEW next \in {"bid", "wallet"},
             next = IF balance[b] = required THEN "bid" ELSE "wallet"
      PROVE  Moves(t) /\ AdvancesTo(t, next, balance[b])
  <2>1. PICK r : r = [k EXCEPT !.seen = balance[b], !.at = next]
    OBVIOUS
  <2>2. PICK q : q = [cmd |-> k.cmd, at |-> next, seen |-> balance[b],
                      overtaken |-> k.overtaken]
    OBVIOUS
  <2>3. r = q
    <3>1. PICK h : h = [k EXCEPT !.seen = balance[b]]
      OBVIOUS
    <3>2. h = [cmd |-> k.cmd, at |-> k.at, seen |-> balance[b], overtaken |-> k.overtaken]
      BY <1>5, <3>1
    <3>3. r = [h EXCEPT !.at = next]
      BY <2>1, <3>1
    <3> QED
      BY <2>2, <3>2, <3>3
  <2>4. task' = [task EXCEPT ![t] = r]
    BY <1>1, <1>3, <1>7, <2>1 DEF ReadDepositBalance
  <2>5. task' = [task EXCEPT ![t] = q]
    BY <2>3, <2>4
  <2>6. next \in Calls
    BY <1>7 DEF Calls, TransactionCalls
  <2> QED
    BY <1>1, <1>4, <2>2, <2>5, <2>6, RecordMoves
<1>8. CASE ~RefusesDeposit(t)
  <2>1. balance[b] <= required
    BY <1>1, <1>3, <1>4, <1>8 DEF RefusesDeposit
  <2>2. CASE balance[b] = required
    BY <1>1, <1>2, <1>3, <1>7, <1>8, <2>2
  <2>3. CASE balance[b] # required
    BY <1>1, <1>2, <1>3, <1>4, <1>7, <1>8, <2>1, <2>3
  <2> QED
    BY <2>2, <2>3
<1> QED
  BY <1>6, <1>8

LEMMA IterationsAreRead ==
  ASSUME TasksTypeInv, BookInv, NEW t \in Terminals, ReadMinIterations(t)
  PROVE  Moves(t) /\ task'[t].at = "computedIterations"
<1>1. PICK k : k = task[t]
  OBVIOUS
<1>2. PICK seen : seen = iteratorBidCount
  OBVIOUS
<1>3. PICK f : f = [task EXCEPT ![t].at = "computedIterations"]
  OBVIOUS
<1>4. task' = [f EXCEPT ![t].seen = seen]
  BY <1>2, <1>3 DEF ReadMinIterations
<1>5. /\ k = [cmd |-> k.cmd, at |-> k.at, seen |-> k.seen, overtaken |-> k.overtaken]
      /\ task = [u \in Terminals |-> task[u]]
  BY <1>1, TasksAreRecords
<1>6. seen \in Nat /\ "computedIterations" \in Calls
  BY <1>2 DEF BookInv, Calls
<1>7. PICK q : q = [cmd |-> k.cmd, at |-> "computedIterations", seen |-> seen,
                    overtaken |-> k.overtaken]
  OBVIOUS
<1>8. task' = [task EXCEPT ![t] = q]
  <2>1. PICK h : h = [k EXCEPT !.at = "computedIterations"]
    OBVIOUS
  <2>2. PICK g : g = [h EXCEPT !.seen = seen]
    OBVIOUS
  <2>3. g = q
    <3>1. h = [cmd |-> k.cmd, at |-> "computedIterations", seen |-> k.seen,
               overtaken |-> k.overtaken]
      BY <1>5, <2>1
    <3> QED
      BY <1>7, <2>2, <3>1
  <2>4. f = [task EXCEPT ![t] = h]
    BY <1>1, <1>3, <2>1
  <2>5. f[t] = h
    BY <1>5, <2>4
  <2>6. task' = [f EXCEPT ![t] = g]
    BY <1>4, <2>2, <2>5
  <2> QED
    BY <1>5, <2>3, <2>4, <2>6
<1>9. Moves(t) /\ AdvancesTo(t, "computedIterations", seen)
  BY <1>1, <1>6, <1>7, <1>8, RecordMoves
<1> QED
  BY <1>9 DEF AdvancesTo

LEMMA ReadsMove ==
  ASSUME TasksTypeInv, BookInv, NEW t \in Terminals, Reads(t)
  PROVE  Moves(t) /\ task'[t].at \in ReadTargets
<1>0. /\ \A next \in ReadTargets : Leads(t, next) => Moves(t) /\ task'[t].at \in ReadTargets
      /\ Stops(t) => Moves(t) /\ task'[t].at \in ReadTargets
  BY LeadsOrStops DEF ReadTargets, Calls
<1> USE DEF Read, Leads, Stops
<1>1. CASE StartReads(t)
  <2>1. \/ Stops(t) \/ Leads(t, "beneficiaryBalance") \/ Leads(t, "beneficiaryAllowance")
        \/ Leads(t, "start") \/ Leads(t, "approve")
    BY <1>1 DEF StartReads
  <2> QED
    BY <1>0, <2>1 DEF ReadTargets, Calls, TransactionCalls
<1>2. CASE StopReads(t)
  <2>1. Stops(t) \/ Leads(t, "canStop") \/ Leads(t, "stop")
    BY <1>2 DEF StopReads
  <2> QED
    BY <1>0, <2>1 DEF ReadTargets, Calls, TransactionCalls
<1>3. CASE CanBidReads(t)
  <2>1. \/ Stops(t) \/ Leads(t, "registered") \/ Leads(t, "bidCount")
        \/ Leads(t, "balance") \/ Leads(t, "cancelBid")
    BY <1>3 DEF CanBidReads
  <2> QED
    BY <1>0, <2>1 DEF ReadTargets, Calls, TransactionCalls
<1>5. CASE BidReads(t)
  <2>1. \/ Stops(t) \/ Leads(t, "allowance") \/ Leads(t, "deposit")
        \/ Leads(t, "approve") \/ Leads(t, "bid")
    BY <1>5 DEF BidReads
  <2> QED
    BY <1>0, <2>1 DEF ReadTargets, Calls, TransactionCalls
<1>7. CASE ComputeReads(t)
  <2>1. Stops(t) \/ Leads(t, "closed") \/ Leads(t, "computeAuction")
    BY <1>7 DEF ComputeReads
  <2> QED
    BY <1>0, <2>1 DEF ReadTargets, Calls, TransactionCalls
<1>8. CASE DecryptReads(t)
  <2>1. Stops(t) \/ Leads(t, "canDecrypt") \/ Leads(t, "decrypt")
    BY <1>8 DEF DecryptReads
  <2> QED
    BY <1>0, <2>1 DEF ReadTargets, Calls, TransactionCalls
<1>9. CASE AwardReads(t)
  <2>1. Stops(t) \/ Leads(t, "bidCount") \/ Leads(t, "award")
    BY <1>9 DEF AwardReads
  <2> QED
    BY <1>0, <2>1 DEF ReadTargets, Calls, TransactionCalls
<1>10. CASE ClaimReads(t)
  <2>1. Stops(t) \/ Leads(t, "canClaim") \/ Leads(t, "claim")
    BY <1>10 DEF ClaimReads
  <2> QED
    BY <1>0, <2>1 DEF ReadTargets, Calls, TransactionCalls
<1>11. CASE BlindClaimReads(t)
  <2>1. \/ Stops(t) \/ Leads(t, "clearUniformPrice") \/ Leads(t, "canBlindClaim")
        \/ Leads(t, "completed") \/ Leads(t, "hasBlindClaimed") \/ Leads(t, "blindClaim")
    BY <1>11 DEF BlindClaimReads
  <2> QED
    BY <1>0, <2>1 DEF ReadTargets, Calls, TransactionCalls
<1>4. CASE ReadDepositBalance(t)
  <2>1. /\ Moves(t)
        /\ \/ Ends(t)
           \/ \E seen : AdvancesTo(t, "bid", seen) \/ AdvancesTo(t, "wallet", seen)
    BY <1>4, DepositIsRead
  <2>2. task'[t].at \in {"idle", "bid", "wallet"}
    <3>1. CASE Ends(t)
      BY <3>1 DEF Ends, Idle
    <3>2. ASSUME NEW seen, NEW next \in {"bid", "wallet"}, AdvancesTo(t, next, seen)
          PROVE  task'[t].at = next
      BY <3>2 DEF AdvancesTo
    <3> QED
      BY <2>1, <3>1, <3>2
  <2> QED
    BY <2>1, <2>2 DEF ReadTargets, Calls, TransactionCalls
<1>6. CASE ReadMinIterations(t)
  BY <1>6, IterationsAreRead DEF ReadTargets, Calls
<1> QED
  BY <1>1, <1>2, <1>3, <1>4, <1>5, <1>6, <1>7, <1>8, <1>9, <1>10, <1>11 DEF Reads

-----------------------------------------------------------------------------
(* A bid command between its calls *)

LEMMA BidTaskAfter ==
  ASSUME NEW t, NEW b, NEW required, NEW next, NEW seen,
         b = task[t].cmd.bidder, required = RequiredDeposit(task[t].cmd.offer),
         task'[t].cmd = task[t].cmd, task'[t].at = next, task'[t].seen = seen,
         next \in AfterRegistration => b \notin Registered',
         next \in BeforeDeposit => seen = balance'[b] /\ balance'[b] <= required,
         next \in AfterDeposit => balance'[b] = required,
         next = "verifyApproval" => allowance'[b] >= required - seen
  PROVE  BidTaskInv(t)'
<1>1. RequiredDeposit(task[t].cmd.offer)' = required
  BY DEF RequiredDeposit
<1>2. MissingDeposit(t)' = required - seen
  BY <1>1 DEF MissingDeposit
<1> QED
  BY <1>1, <1>2 DEF BidTaskInv

LEMMA BidReadsKeepInv ==
  ASSUME TasksInv, BookInv, NEW t \in Terminals, Reads(t),
         task[t].cmd.name = "bid", task'[t].cmd.name = "bid"
  PROVE  BidTaskInv(t)'
<1>1. TasksTypeInv /\ BidTaskInv(t) /\ UNCHANGED chainVars
  BY ReadsChangeNothing DEF TasksInv
<1>2. PICK b, required : b = task[t].cmd.bidder /\ required = RequiredDeposit(task[t].cmd.offer)
  OBVIOUS
<1>3. Registered' = Registered /\ balance' = balance /\ allowance' = allowance
  BY <1>1 DEF Registered, chainVars, auctionVars, engineVars
<1>4. ~Ends(t)
  BY DEF Ends, Idle
<1>5. b \in Bidders /\ balance[b] \in Nat /\ required \in Nat
  BY <1>1, <1>2, BidCommandsAreTyped DEF BookInv
<1>6. ASSUME NEW next, NEW seen, AdvancesTo(t, next, seen),
             next \in AfterRegistration => b \notin Registered,
             next \in BeforeDeposit => seen = balance[b] /\ balance[b] <= required,
             next \in AfterDeposit => balance[b] = required,
             next # "verifyApproval"
      PROVE  BidTaskInv(t)'
  <2>1. task'[t].cmd = task[t].cmd /\ task'[t].at = next /\ task'[t].seen = seen
    BY <1>6 DEF AdvancesTo
  <2> QED
    BY <1>2, <1>3, <1>6, <2>1, BidTaskAfter
<1>7. ~Stops(t) /\ \A next \in ReadTargets : Leads(t, next) => AdvancesTo(t, next, task[t].seen)
  BY <1>1, <1>4, LeadsOrStops DEF ReadTargets, Calls
<1>8. /\ task[t].at \in AfterRegistration => b \notin Registered
      /\ task[t].at \in BeforeDeposit => task[t].seen = balance[b] /\ balance[b] <= required
      /\ task[t].at \in AfterDeposit => balance[b] = required
  BY <1>1, <1>2 DEF BidTaskInv
<1>9. CASE CanBidReads(t)
  <2>1. \/ Leads(t, "registered")
        \/ Leads(t, "bidCount") /\ b \notin Registered
        \/ Leads(t, "balance") /\ task[t].at = "bidCount"
    BY <1>2, <1>7, <1>9 DEF CanBidReads, Read, Runs, Leads, Stops
  <2>2. {"registered", "bidCount", "balance"} \subseteq ReadTargets
    BY DEF ReadTargets, Calls
  <2> QED
    BY <1>6, <1>7, <1>8, <2>1, <2>2 DEF AfterRegistration, BeforeDeposit, AfterDeposit
<1>10. CASE ReadDepositBalance(t)
  <2>1. \/ balance[b] = required /\ AdvancesTo(t, "bid", balance[b])
        \/ balance[b] < required /\ AdvancesTo(t, "wallet", balance[b])
    BY <1>1, <1>2, <1>4, <1>10, DepositIsRead
  <2>2. b \notin Registered
    BY <1>8, <1>10 DEF ReadDepositBalance, Runs, AfterRegistration
  <2> QED
    BY <1>5, <1>6, <2>1, <2>2 DEF AfterRegistration, BeforeDeposit, AfterDeposit
<1>11. CASE BidReads(t)
  <2>1. \/ Leads(t, "allowance") /\ task[t].at = "wallet"
        \/ Leads(t, "deposit") /\ task[t].at \in {"allowance", "verifyApproval"}
        \/ Leads(t, "approve") /\ task[t].at = "allowance"
        \/ Leads(t, "bid") /\ task[t].at = "verifyDeposit"
    BY <1>7, <1>11 DEF BidReads, Read, Runs, Leads, Stops
  <2>2. {"allowance", "deposit", "approve", "bid"} \subseteq ReadTargets
    BY DEF ReadTargets, Calls, TransactionCalls
  <2> QED
    BY <1>6, <1>7, <1>8, <2>1, <2>2 DEF AfterRegistration, BeforeDeposit, AfterDeposit
<1>12. CASE StartReads(t) \/ StopReads(t) \/ ReadMinIterations(t) \/ ComputeReads(t)
            \/ DecryptReads(t) \/ AwardReads(t) \/ ClaimReads(t) \/ BlindClaimReads(t)
  BY <1>12 DEF StartReads, StopReads, ReadMinIterations, ComputeReads, DecryptReads,
               AwardReads, ClaimReads, BlindClaimReads, Read, Runs
<1> QED
  BY <1>9, <1>10, <1>11, <1>12 DEF Reads

\* Nobody else touches the deposit, the allowance or the place in the book of a
\* bidder whose bid command has found it without a bid.
Untouched(u) ==
  LET b == task[u].cmd.bidder
  IN  balance'[b] = balance[b] /\ allowance'[b] = allowance[b] /\ b \notin Registered'

LEMMA UntouchedBidsKeepInv ==
  ASSUME NEW u, BidTaskInv(u), GoesOn(u), task[u].at \in AfterRegistration => Untouched(u)
  PROVE  BidTaskInv(u)'
<1>1. PICK b, required : b = task[u].cmd.bidder /\ required = RequiredDeposit(task[u].cmd.offer)
  OBVIOUS
<1>2. /\ task[u].at \in AfterRegistration => b \notin Registered'
      /\ task[u].at \in BeforeDeposit => task[u].seen = balance'[b] /\ balance'[b] <= required
      /\ task[u].at \in AfterDeposit => balance'[b] = required
      /\ task[u].at = "verifyApproval" => allowance'[b] >= required - task[u].seen
  BY <1>1 DEF BidTaskInv, Untouched, MissingDeposit, AfterRegistration, BeforeDeposit,
              AfterDeposit
<1> QED
  BY <1>1, <1>2, BidTaskAfter DEF GoesOn

-----------------------------------------------------------------------------
(* The transactions *)

LEMMA TransactionsMove ==
  ASSUME TasksTypeInv, NEW t \in Terminals, Transaction(t)
  PROVE  /\ Moves(t)
         /\ task'[t].at = "verifyDeposit" => task'[t].cmd.name = "bid"
<1>1. ASSUME NEW name, NEW call, NEW next \in {"verifyApproval", "verifyDeposit", "idle"},
             Mined(t, name, call, next), next = "verifyDeposit" => name = "bid"
      PROVE  /\ Moves(t)
             /\ task'[t].at = "verifyDeposit" => task'[t].cmd.name = "bid"
  <2>1. next \in Calls
    BY <1>1 DEF Calls
  <2>2. /\ Runs(t, name, call) /\ Moves(t)
        /\ IF next = "idle" THEN Ends(t) ELSE AdvancesTo(t, next, task[t].seen)
    BY <1>1, <2>1, MinedMoves
  <2>3. CASE next = "idle"
    BY <2>2, <2>3 DEF Ends, Idle
  <2>4. CASE next # "idle"
    <3>1. AdvancesTo(t, next, task[t].seen)
      BY <2>2, <2>4
    <3>2. task'[t].at = next /\ task'[t].cmd = task[t].cmd /\ task[t].cmd.name = name
      BY <2>2, <3>1 DEF AdvancesTo, Runs
    <3> QED
      BY <1>1, <2>2, <3>2
  <2> QED
    BY <2>3, <2>4
<1>2. \/ \E name, call : Mined(t, name, call, "idle") \/ Mined(t, name, call, "verifyApproval")
      \/ Mined(t, "bid", "deposit", "verifyDeposit")
  BY DEF Transaction, ApproveSale, SendStart, SendStop, SendApproval, ApproveDeposit,
         SendDeposit, SendBid, SendCancelBid, SendCompute, SendDecrypt, SendAward,
         SendClaim, SendBlindClaim
<1> QED
  BY <1>1, <1>2

LEMMA TransactionsKeepOwnInv ==
  ASSUME TasksInv, BookInv, NEW t \in Terminals, Transaction(t),
         task[t].cmd.name = "bid", task'[t].cmd.name = "bid"
  PROVE  BidTaskInv(t)'
<1>1. TasksTypeInv /\ BidTaskInv(t) /\ allowance \in [Bidders -> Nat]
  BY DEF TasksInv, TasksTypeInv
<1>2. PICK b, required, seen :
        /\ b = task[t].cmd.bidder /\ required = RequiredDeposit(task[t].cmd.offer)
        /\ seen = task[t].seen
  OBVIOUS
<1>3. b \in Bidders /\ balance[b] \in Nat /\ required \in Nat /\ seen \in Nat
  BY <1>1, <1>2, BidCommandsAreTyped DEF BookInv
<1>4. ~Ends(t)
  BY DEF Ends, Idle
<1>5. MissingDeposit(t) = required - seen
  BY <1>2 DEF MissingDeposit
<1>6. CASE ApproveDeposit(t)
  <2>1. Mined(t, "bid", "approve", "verifyApproval") /\ "verifyApproval" \in Calls
    BY <1>6 DEF ApproveDeposit, Calls
  <2>2. Runs(t, "bid", "approve") /\ AdvancesTo(t, "verifyApproval", seen)
    BY <1>1, <1>2, <2>1, MinedMoves
  <2>3. task'[t].cmd = task[t].cmd /\ task'[t].at = "verifyApproval" /\ task'[t].seen = seen
    BY <2>2 DEF AdvancesTo
  <2>4. b \notin Registered /\ seen = balance[b] /\ balance[b] <= required
    BY <1>1, <1>2, <2>2 DEF BidTaskInv, Runs, AfterRegistration, BeforeDeposit
  <2>5. Registered' = Registered /\ balance' = balance
    BY <1>6 DEF ApproveDeposit, Registered, auctionVars, engineVars
  <2>6. allowance' = [allowance EXCEPT ![b] = required - seen]
    BY <1>2, <1>5, <1>6 DEF ApproveDeposit
  <2>7. allowance'[b] >= required - seen
    BY <1>1, <1>3, <2>6
  <2> QED
    BY <1>2, <2>3, <2>4, <2>5, <2>7, BidTaskAfter DEF AfterDeposit
<1>7. CASE SendDeposit(t)
  <2>1. Mined(t, "bid", "deposit", "verifyDeposit") /\ "verifyDeposit" \in Calls
    BY <1>7 DEF SendDeposit, Calls
  <2>2. Runs(t, "bid", "deposit") /\ AdvancesTo(t, "verifyDeposit", seen)
    BY <1>1, <1>2, <2>1, MinedMoves
  <2>3. task'[t].cmd = task[t].cmd /\ task'[t].at = "verifyDeposit" /\ task'[t].seen = seen
    BY <2>2 DEF AdvancesTo
  <2>4. b \notin Registered /\ seen = balance[b] /\ balance[b] <= required
    BY <1>1, <1>2, <2>2 DEF BidTaskInv, Runs, AfterRegistration, BeforeDeposit
  <2>5. Deposit(b, required - seen)
    BY <1>2, <1>5, <1>7 DEF SendDeposit
  <2>6. Registered' = Registered /\ balance' = [balance EXCEPT ![b] = @ + (required - seen)]
    BY <2>5 DEF Deposit, Deposited, Registered, engineVars
  <2>7. balance'[b] = required
    BY <1>3, <2>4, <2>6 DEF BookInv
  <2> QED
    BY <1>2, <2>3, <2>4, <2>6, <2>7, BidTaskAfter DEF BeforeDeposit
<1>8. CASE SendBid(t)
  <2>1. Mined(t, "bid", "bid", "idle") /\ "idle" \in Calls
    BY <1>8 DEF SendBid, Calls
  <2> QED
    BY <1>1, <1>4, <2>1, MinedMoves
<1>9. CASE ApproveSale(t) \/ SendStart(t) \/ SendStop(t) \/ SendApproval(t) \/ SendCancelBid(t)
           \/ SendCompute(t) \/ SendDecrypt(t) \/ SendAward(t) \/ SendClaim(t)
           \/ SendBlindClaim(t)
  BY <1>9
     DEF ApproveSale, SendStart, SendStop, SendApproval, SendCancelBid, SendCompute,
         SendDecrypt, SendAward, SendClaim, SendBlindClaim, Mined, Runs
<1> QED
  BY <1>6, <1>7, <1>8, <1>9 DEF Transaction

LEMMA TransactionsTouchOne ==
  ASSUME TasksInv, AuctionInv, NEW t \in Terminals, Transaction(t),
         NEW u \in Terminals \ {t}, task[u].cmd.name = "bid", task[u].at \in AfterRegistration
  PROVE  Untouched(u)
<1>1. TasksTypeInv /\ BidTaskInv(u) /\ BookInv /\ allowance \in [Bidders -> Nat]
  BY DEF TasksInv, TasksTypeInv, AuctionInv
<1>2. PICK b : b = task[u].cmd.bidder
  OBVIOUS
<1>3. b \in Bidders /\ b \notin Registered
  BY <1>1, <1>2, BidCommandsAreTyped DEF BidTaskInv
<1>4. task[t].cmd.name \in {"bid", "approve"} => task[t].cmd.bidder # b
  BY <1>1, <1>2, BiddersUseOneTerminal
<1>5. ASSUME balance'[b] = balance[b], allowance'[b] = allowance[b], bidOf'[b] = bidOf[b]
      PROVE  Untouched(u)
  BY <1>2, <1>3, <1>5 DEF Untouched, Registered
<1>6. CASE ApproveSale(t) \/ SendStart(t) \/ SendStop(t) \/ SendDecrypt(t) \/ SendAward(t)
           \/ SendClaim(t) \/ SendBlindClaim(t)
  <2>1. balance' = balance /\ bidOf' = bidOf /\ allowance' = allowance
    BY <1>6 DEF ApproveSale, SendStart, SendStop, SendDecrypt, SendAward, SendClaim,
                SendBlindClaim, OnlyAuctionChanges, Start, Stop, DecryptUniformPrice,
                AwardPrizeAtRank, Claim, BlindClaim, auctionVars, engineVars
  <2> QED
    BY <1>5, <2>1
<1>7. CASE SendApproval(t) \/ ApproveDeposit(t)
  <2>1. task[t].cmd.name \in {"bid", "approve"}
    BY <1>7 DEF SendApproval, ApproveDeposit, Mined, Runs
  <2>2. PICK c : c = task[t].cmd.bidder
    OBVIOUS
  <2>3. balance' = balance /\ bidOf' = bidOf
    BY <1>7 DEF SendApproval, ApproveDeposit, auctionVars, engineVars
  <2>4. \E amount : allowance' = [allowance EXCEPT ![c] = amount]
    BY <1>7, <2>2 DEF SendApproval, ApproveDeposit
  <2> QED
    BY <1>1, <1>3, <1>4, <1>5, <2>1, <2>2, <2>3, <2>4
<1>8. CASE SendDeposit(t) \/ SendBid(t)
  <2>1. task[t].cmd.name \in {"bid", "approve"}
    BY <1>8 DEF SendDeposit, SendBid, Mined, Runs
  <2>2. PICK c : c = task[t].cmd.bidder
    OBVIOUS
  <2>3. c # b
    BY <1>4, <2>1, <2>2
  <2>4. CASE SendDeposit(t)
    <3>1. \E amount : /\ Deposit(c, amount)
                      /\ allowance' = [allowance EXCEPT ![c] = @ - amount]
      BY <2>2, <2>4 DEF SendDeposit
    <3>2. balance'[b] = balance[b] /\ allowance'[b] = allowance[b] /\ bidOf' = bidOf
      BY <1>1, <1>3, <2>3, <3>1 DEF Deposit, Deposited, BookInv, engineVars
    <3> QED
      BY <1>5, <3>2
  <2>5. CASE SendBid(t)
    <3>1. PICK offer : Bid(c, offer, 0) /\ allowance' = allowance
      BY <2>2, <2>5 DEF SendBid, OnlyAuctionChanges
    <3>2. balance'[b] = balance[b] /\ bidOf'[b] = bidOf[b]
      BY <1>1, <1>3, <2>3, <3>1 DEF Bid, Deposited, BookInv
    <3> QED
      BY <1>5, <3>1, <3>2
  <2> QED
    BY <1>8, <2>4, <2>5
<1>9. CASE SendCancelBid(t)
  <2>1. PICK c \in Registered : CancelBid(c) /\ allowance' = allowance
    BY <1>9 DEF SendCancelBid, CancelBid, OnlyAuctionChanges
  <2>2. balance'[b] = balance[b] /\ bidOf'[b] = bidOf[b]
    BY <1>1, <1>3, <2>1 DEF CancelBid, BookInv
  <2> QED
    BY <1>5, <2>1, <2>2
<1>10. CASE SendCompute(t)
  <2>1. PICK award \in BOOLEAN : ComputeAuction(award) /\ allowance' = allowance
    <3>1. task[t].cmd.award \in BOOLEAN
      BY <1>1, <1>10, TasksAreCommands, CommandsAssumption
         DEF SendCompute, Mined, Runs
    <3> QED
      BY <1>10, <3>1 DEF SendCompute, OnlyAuctionChanges
  <2>2. Registered' = Registered /\ balance' = balance
    BY <2>1, ComputeKeepsInv DEF ComputeAuction
  <2> QED
    BY <1>2, <1>3, <2>1, <2>2 DEF Untouched
<1> QED
  BY <1>6, <1>7, <1>8, <1>9, <1>10 DEF Transaction

LEMMA AllowancesAreTyped ==
  ASSUME TasksInv, BookInv, NEW t \in Terminals, Transaction(t)
  PROVE  allowance' \in [Bidders -> Nat] /\ saleAllowance' \in Nat
<1>1. /\ TasksTypeInv /\ allowance \in [Bidders -> Nat] /\ saleAllowance \in Nat
      /\ AuctionQuantity \in Nat
  BY AuctionAssumption DEF TasksInv, TasksTypeInv
<1>2. ASSUME task[t].cmd.name = "bid", task[t].at \in BeforeDeposit
      PROVE  MissingDeposit(t) \in Nat /\ task[t].cmd.bidder \in Bidders
  <2>1. /\ task[t].cmd.bidder \in Bidders /\ RequiredDeposit(task[t].cmd.offer) \in Nat
        /\ task[t].seen \in Nat
    BY <1>1, <1>2, BidCommandsAreTyped
  <2>2. task[t].seen <= RequiredDeposit(task[t].cmd.offer)
    BY <1>2 DEF TasksInv, BidTaskInv
  <2> QED
    BY <2>1, <2>2 DEF MissingDeposit
<1>3. CASE ApproveSale(t)
  BY <1>1, <1>3 DEF ApproveSale
<1>4. CASE SendStart(t)
  BY <1>1, <1>4 DEF SendStart
<1>5. CASE SendApproval(t)
  <2>1. task[t].cmd.name = "approve"
    BY <1>5 DEF SendApproval, Mined, Runs
  <2>2. task[t].cmd.amount \in Nat
    BY <1>1, <2>1, TasksAreCommands, CommandsAssumption
  <2>3. PICK b, amount : b = task[t].cmd.bidder /\ amount = task[t].cmd.amount
    OBVIOUS
  <2>4. allowance' = [allowance EXCEPT ![b] = amount] /\ saleAllowance' = saleAllowance
    BY <1>5, <2>3 DEF SendApproval
  <2> QED
    BY <1>1, <2>2, <2>3, <2>4
<1>6. CASE ApproveDeposit(t)
  <2>1. task[t].cmd.name = "bid" /\ task[t].at \in BeforeDeposit
    BY <1>6 DEF ApproveDeposit, Mined, Runs, BeforeDeposit
  <2>2. PICK b, missing : b = task[t].cmd.bidder /\ missing = MissingDeposit(t)
    OBVIOUS
  <2>3. allowance' = [allowance EXCEPT ![b] = missing] /\ saleAllowance' = saleAllowance
    BY <1>6, <2>2 DEF ApproveDeposit
  <2> QED
    BY <1>1, <1>2, <2>1, <2>2, <2>3
<1>7. CASE SendDeposit(t)
  <2>1. task[t].cmd.name = "bid" /\ task[t].at \in BeforeDeposit
    BY <1>7 DEF SendDeposit, Mined, Runs, BeforeDeposit
  <2>2. PICK b, missing : b = task[t].cmd.bidder /\ missing = MissingDeposit(t)
    OBVIOUS
  <2>3. /\ allowance' = [allowance EXCEPT ![b] = @ - missing] /\ saleAllowance' = saleAllowance
        /\ allowance[b] >= missing
    BY <1>7, <2>2 DEF SendDeposit
  <2> QED
    BY <1>1, <1>2, <2>1, <2>2, <2>3
<1>8. CASE SendStop(t) \/ SendBid(t) \/ SendCancelBid(t) \/ SendCompute(t) \/ SendDecrypt(t)
           \/ SendAward(t) \/ SendClaim(t) \/ SendBlindClaim(t)
  <2>1. OnlyAuctionChanges
    BY <1>8 DEF SendStop, SendBid, SendCancelBid, SendCompute, SendDecrypt, SendAward,
                SendClaim, SendBlindClaim
  <2> QED
    BY <1>1, <2>1 DEF OnlyAuctionChanges
<1> QED
  BY <1>3, <1>4, <1>5, <1>6, <1>7, <1>8 DEF Transaction

-----------------------------------------------------------------------------
(* Each kind of step keeps the invariant *)

\* A command ends or goes on, the others stay where they are.
LEMMA MovesKeepInv ==
  ASSUME TasksInv, NEW t \in Terminals, Moves(t),
         allowance' \in [Bidders -> Nat], saleAllowance' \in Nat,
         task'[t].at = "verifyDeposit" => task'[t].cmd.name = "bid",
         task'[t].cmd.name = "bid" => BidTaskInv(t)',
         \A u \in Terminals \ {t} :
           task[u].cmd.name = "bid" /\ task[u].at \in AfterRegistration => Untouched(u)
  PROVE  TasksInv'
<1>1. TasksTypeInv'
  BY MovesKeepTypes DEF TasksInv, TasksTypeInv
<1>2. ASSUME NEW u \in Terminals, task'[u].cmd.name = "bid"
      PROVE  BidTaskInv(u)'
  <2>1. CASE u = t
    BY <1>2, <2>1
  <2>2. CASE u # t
    <3>1. GoesOn(u)
      BY <2>2 DEF Moves
    <3>2. task[u].cmd.name = "bid"
      BY <1>2, <3>1 DEF GoesOn
    <3>3. BidTaskInv(u)
      BY <3>2 DEF TasksInv
    <3> QED
      BY <2>2, <3>1, <3>2, <3>3, UntouchedBidsKeepInv
  <2> QED
    BY <2>1, <2>2
<1>3. ASSUME NEW u \in Terminals, task'[u].at = "verifyDeposit"
      PROVE  task'[u].cmd.name = "bid"
  <2>1. CASE u = t
    BY <1>3, <2>1
  <2>2. CASE u # t
    <3>1. GoesOn(u)
      BY <2>2 DEF Moves
    <3> QED
      BY <1>3, <3>1 DEF GoesOn, TasksInv
  <2> QED
    BY <2>1, <2>2
<1> QED
  BY <1>1, <1>2, <1>3 DEF TasksInv

\* Nothing is untouched more than on a chain that stays the same.
LEMMA SameChainTouchesNone ==
  ASSUME TasksInv, UNCHANGED chainVars
  PROVE  /\ allowance' \in [Bidders -> Nat] /\ saleAllowance' \in Nat
         /\ \A u \in Terminals :
              task[u].cmd.name = "bid" /\ task[u].at \in AfterRegistration => Untouched(u)
<1>1. /\ balance' = balance /\ allowance' = allowance /\ saleAllowance' = saleAllowance
      /\ Registered' = Registered
  BY DEF chainVars, auctionVars, engineVars, Registered
<1> QED
  BY <1>1 DEF TasksInv, TasksTypeInv, BidTaskInv, Untouched

LEMMA ReadsKeepInv ==
  ASSUME TasksInv, BookInv, NEW t \in Terminals, Reads(t)
  PROVE  TasksInv'
<1>1. TasksTypeInv /\ UNCHANGED chainVars
  BY ReadsChangeNothing DEF TasksInv
<1>2. Moves(t) /\ task'[t].at \in ReadTargets
  BY <1>1, ReadsMove
<1>3. task'[t].at # "verifyDeposit"
  BY <1>2 DEF ReadTargets
<1>4. task'[t].cmd.name = "bid" => BidTaskInv(t)'
  <2>1. Ends(t) => task'[t].cmd.name = "none"
    BY DEF Ends, Idle
  <2>2. ~Ends(t) => task'[t].cmd = task[t].cmd
    BY <1>2 DEF Moves, AdvancesTo
  <2> QED
    BY <2>1, <2>2, BidReadsKeepInv
<1> QED
  BY <1>1, <1>2, <1>3, <1>4, SameChainTouchesNone, MovesKeepInv

LEMMA TransactionsKeepInv ==
  ASSUME TasksInv, AuctionInv, NEW t \in Terminals, Transaction(t)
  PROVE  TasksInv'
<1>1. TasksTypeInv /\ BookInv
  BY DEF TasksInv, AuctionInv
<1>2. Moves(t) /\ (task'[t].at = "verifyDeposit" => task'[t].cmd.name = "bid")
  BY <1>1, TransactionsMove
<1>3. task'[t].cmd.name = "bid" => BidTaskInv(t)'
  <2>1. Ends(t) => task'[t].cmd.name = "none"
    BY DEF Ends, Idle
  <2>2. ~Ends(t) => task'[t].cmd = task[t].cmd
    BY <1>2 DEF Moves, AdvancesTo
  <2> QED
    BY <1>1, <2>1, <2>2, TransactionsKeepOwnInv
<1>4. \A u \in Terminals \ {t} :
        task[u].cmd.name = "bid" /\ task[u].at \in AfterRegistration => Untouched(u)
  BY TransactionsTouchOne
<1>5. allowance' \in [Bidders -> Nat] /\ saleAllowance' \in Nat
  BY <1>1, AllowancesAreTyped
<1> QED
  BY <1>2, <1>3, <1>4, <1>5, MovesKeepInv

\* A command that is given up leaves nothing behind it.
LEMMA EndingKeepsInv ==
  ASSUME TasksInv, NEW t \in Terminals, Revert(t) \/ Interrupt(t)
  PROVE  TasksInv'
<1>1. TasksTypeInv /\ UNCHANGED chainVars /\ Stops(t)
  BY DEF TasksInv, Revert, Interrupt, Stops
<1>2. "idle" \in ReadTargets
  BY DEF ReadTargets, Calls
<1>3. Moves(t) /\ Ends(t)
  BY <1>1, <1>2, LeadsOrStops
<1>4. task'[t].at # "verifyDeposit" /\ task'[t].cmd.name # "bid"
  BY <1>3 DEF Ends, Idle
<1> QED
  BY <1>1, <1>3, <1>4, SameChainTouchesNone, MovesKeepInv

\* A command begins with the call that its handler makes first.
LEMMA LaunchBegins ==
  ASSUME TasksTypeInv, NEW t \in Terminals, NEW c \in Commands[t], Launch(t, c)
  PROVE  /\ flags # UNINITIALIZED /\ UNCHANGED chainVars /\ c.name \in CommandNames
         /\ \E first \in Calls \ {"verifyDeposit"} :
              task'[t] = [cmd |-> c, at |-> first, seen |-> 0, overtaken |-> FALSE]
         /\ task' = [u \in Terminals |-> task'[u]]
         /\ \A u \in Terminals \ {t} : task'[u] = task[u]
         /\ c.name \in {"start", "stop", "can-bid", "bid", "cancel-bid"} =>
              task'[t].at = "status"
         /\ c.name = "approve" => task'[t].at = "approval"
         /\ c.name = "compute" => task'[t].at = "minIterations"
         /\ c.name \in {"blind-claim", "claim"} => task'[t].at = "registered"
         /\ c.name = "award" => task'[t].at = "canAwardPrizeAtRank"
         /\ c.name = "decrypt-uniform-price" => task'[t].at = "clearUniformPrice"
<1>1. UNCHANGED chainVars /\ c.name \in CommandNames
  BY CommandsAssumption DEF Launch
<1>2. PICK first : first =
        CASE c.name \in {"start", "stop", "can-bid", "bid", "cancel-bid"} -> "status"
          [] c.name = "approve" -> "approval"
          [] c.name = "compute" -> "minIterations"
          [] c.name \in {"blind-claim", "claim"} -> "registered"
          [] c.name = "award" -> "canAwardPrizeAtRank"
          [] c.name = "decrypt-uniform-price" -> "clearUniformPrice"
  OBVIOUS
<1>3. first \in {"status", "approval", "minIterations", "registered", "canAwardPrizeAtRank",
                 "clearUniformPrice"}
  BY <1>1, <1>2 DEF CommandNames
<1>4. first \in Calls \ {"verifyDeposit"}
  BY <1>3 DEF Calls, TransactionCalls
<1>5. PICK r : r = [Idle EXCEPT !.cmd = c, !.at = first]
  OBVIOUS
<1>6. r = [cmd |-> c, at |-> first, seen |-> 0, overtaken |-> FALSE]
  <2>1. PICK i : i = Idle
    OBVIOUS
  <2>2. PICK none : i = [cmd |-> none, at |-> "idle", seen |-> 0, overtaken |-> FALSE]
    BY <2>1 DEF Idle
  <2>3. PICK h : h = [i EXCEPT !.cmd = c]
    OBVIOUS
  <2>4. h = [cmd |-> c, at |-> "idle", seen |-> 0, overtaken |-> FALSE]
    BY <2>2, <2>3
  <2>5. r = [h EXCEPT !.at = first]
    BY <1>5, <2>1, <2>3
  <2> QED
    BY <2>4, <2>5
<1>7. task' = [task EXCEPT ![t] = r]
  BY <1>2, <1>5 DEF Launch
<1>8. /\ task'[t] = r /\ task' = [u \in Terminals |-> task'[u]]
      /\ \A u \in Terminals \ {t} : task'[u] = task[u]
  BY <1>7 DEF TasksTypeInv
<1>9. task'[t].at = first
  BY <1>6, <1>8
<1> QED
  BY <1>1, <1>2, <1>4, <1>6, <1>8, <1>9 DEF Launch

LEMMA LaunchKeepsInv ==
  ASSUME TasksInv, NEW t \in Terminals, NEW c \in Commands[t], Launch(t, c)
  PROVE  TasksInv'
<1>1. TasksTypeInv /\ UNCHANGED chainVars
  BY LaunchBegins DEF TasksInv
<1>2. PICK first \in Calls \ {"verifyDeposit"} :
        task'[t] = [cmd |-> c, at |-> first, seen |-> 0, overtaken |-> FALSE]
  BY <1>1, LaunchBegins
<1>3. /\ task' = [u \in Terminals |-> task'[u]]
      /\ \A u \in Terminals \ {t} : task'[u] = task[u]
      /\ c.name = "bid" => first = "status"
  BY <1>1, <1>2, LaunchBegins
<1>4. /\ \A u \in Terminals : task[u] \in TaskRecords
      /\ \A u \in Terminals : task[u].cmd \in Commands[u] \cup {Idle.cmd}
  BY <1>1 DEF TasksTypeInv
<1>5. c \in AllCommands
  BY Zenon DEF AllCommands
<1>6. task'[t] \in TaskRecords
  BY <1>2, <1>5 DEF TaskRecords
<1>7. task' \in [Terminals -> TaskRecords]
  BY <1>3, <1>4, <1>6
<1>8. TasksTypeInv'
  <2>1. \A u \in Terminals : task'[u].cmd \in Commands[u] \cup {Idle.cmd}
    BY <1>2, <1>3, <1>4
  <2> QED
    BY <1>1, <1>7, <2>1, SameChainTouchesNone DEF TasksTypeInv
<1>9. ASSUME NEW u \in Terminals, task'[u].cmd.name = "bid"
      PROVE  BidTaskInv(u)'
  <2>1. CASE u = t
    <3>1. task'[t].at = "status"
      BY <1>2, <1>3, <1>9, <2>1
    <3> QED
      BY <2>1, <3>1 DEF BidTaskInv, AfterRegistration, BeforeDeposit, AfterDeposit
  <2>2. CASE u # t
    <3>1. task'[u] = task[u] /\ BidTaskInv(u)
      BY <1>3, <1>9, <2>2 DEF TasksInv
    <3>2. task[u].at \in AfterRegistration => Untouched(u)
      BY <1>1, <1>9, <3>1, SameChainTouchesNone
    <3> QED
      BY <3>1, <3>2, UntouchedBidsKeepInv DEF GoesOn
  <2> QED
    BY <2>1, <2>2
<1>10. \A u \in Terminals : task'[u].at = "verifyDeposit" => task'[u].cmd.name = "bid"
  BY <1>2, <1>3 DEF TasksInv
<1> QED
  BY <1>8, <1>9, <1>10 DEF TasksInv

\* What happens outside the terminals lets all commands go on.
LEMMA OutsideKeepsInv ==
  ASSUME TasksInv, task' = Overtaken(Terminals), OnlyAuctionChanges,
         \A b \in Bidders \ Registered : balance'[b] = balance[b] /\ b \notin Registered'
  PROVE  TasksInv'
<1>1. TasksTypeInv /\ allowance' = allowance /\ saleAllowance' = saleAllowance
  BY DEF TasksInv, OnlyAuctionChanges
<1>2. ASSUME NEW u \in Terminals
      PROVE  GoesOn(u) /\ task'[u] \in TaskRecords /\ task'[u].cmd \in Commands[u] \cup {Idle.cmd}
  <2>1. Terminals \in SUBSET Terminals
    OBVIOUS
  <2>2. GoesOn(u)
    BY <1>1, <2>1, OvertakenGoesOn DEF GoesOn
  <2>3. task[u] \in TaskRecords /\ task[u].cmd \in Commands[u] \cup {Idle.cmd}
    BY <1>1 DEF TasksTypeInv
  <2>4. CASE task'[u] = task[u]
    BY <2>2, <2>3, <2>4
  <2>5. CASE task'[u] = [cmd |-> task[u].cmd, at |-> task[u].at, seen |-> task[u].seen,
                         overtaken |-> TRUE]
    <3>1. task[u].cmd \in AllCommands /\ task[u].at \in Calls /\ task[u].seen \in Nat
      BY <2>3 DEF TaskRecords
    <3> QED
      BY <2>2, <2>3, <2>5, <3>1 DEF TaskRecords
  <2> QED
    BY <2>2, <2>3, <2>4, <2>5 DEF GoesOn
<1>3. task' \in [Terminals -> TaskRecords]
  BY <1>2 DEF Overtaken
<1>4. TasksTypeInv'
  BY <1>1, <1>2, <1>3 DEF TasksTypeInv
<1>5. ASSUME NEW u \in Terminals, task'[u].cmd.name = "bid"
      PROVE  BidTaskInv(u)'
  <2>1. GoesOn(u)
    BY <1>2
  <2>2. task[u].cmd.name = "bid"
    BY <1>5, <2>1 DEF GoesOn
  <2>3. BidTaskInv(u) /\ task[u].cmd.bidder \in Bidders
    BY <1>1, <2>2, BidCommandsAreTyped DEF TasksInv
  <2>4. task[u].at \in AfterRegistration => Untouched(u)
    BY <1>1, <2>3 DEF BidTaskInv, Untouched
  <2> QED
    BY <2>1, <2>3, <2>4, UntouchedBidsKeepInv
<1>6. ASSUME NEW u \in Terminals, task'[u].at = "verifyDeposit"
      PROVE  task'[u].cmd.name = "bid"
  BY <1>2, <1>6 DEF GoesOn, TasksInv
<1> QED
  BY <1>4, <1>5, <1>6 DEF TasksInv

\* An answer of the gateway pays a bidder that is in the book, if anybody.
LEMMA AnswersTouchTheBook ==
  ASSUME AuctionInv, NEW r \in requests, GatewayAnswers(r) \/ RequestLost(r)
  PROVE  bidOf' = bidOf /\ \A b \in Bidders \ Registered : balance'[b] = balance[b]
<1>1. CASE CallbackDecryptUniformPrice(r) \/ RequestLost(r)
  BY <1>1 DEF CallbackDecryptUniformPrice, RequestLost, engineVars
<1>2. CASE CallbackDecryptWonQuantity(r) \/ CallbackDecryptRankedWonQuantity(r)
  <2>1. PaysOneBidder
    BY <1>2, AnswersPayOneBidder
  <2>2. bidOf' = bidOf
    BY <1>2
       DEF CallbackDecryptWonQuantity, CallbackDecryptRankedWonQuantity, engineVars
  <2> QED
    BY <2>1, <2>2 DEF PaysOneBidder, AuctionInv, BookInv
<1> QED
  BY <1>1, <1>2 DEF GatewayAnswers

LEMMA StepKeepsTasksInv ==
  ASSUME TasksInv, AuctionInv, [TasksNext]_tasksVars
  PROVE  TasksInv'
<1>0. BookInv
  BY DEF AuctionInv
<1>1. ASSUME NEW t \in Terminals, NEW c \in Commands[t], Launch(t, c)
      PROVE  TasksInv'
  BY <1>1, LaunchKeepsInv
<1>2. ASSUME NEW t \in Terminals, Reads(t)
      PROVE  TasksInv'
  BY <1>0, <1>2, ReadsKeepInv
<1>3. ASSUME NEW t \in Terminals, Transaction(t)
      PROVE  TasksInv'
  BY <1>3, TransactionsKeepInv
<1>4. ASSUME NEW t \in Terminals, Revert(t) \/ Interrupt(t)
      PROVE  TasksInv'
  BY <1>4, EndingKeepsInv
<1>5. CASE Create \/ BlockMined
  <2>1. /\ balance' = balance /\ Registered' = Registered
        /\ task' = Overtaken(Terminals) /\ OnlyAuctionChanges
    BY <1>5
       DEF Create, BlockMined, Outside, Initialize, NextBlock, engineVars, Registered
  <2> QED
    BY <2>1, OutsideKeepsInv
<1>6. ASSUME NEW r \in requests, Outside(GatewayAnswers(r) \/ RequestLost(r))
      PROVE  TasksInv'
  <2>1. /\ GatewayAnswers(r) \/ RequestLost(r)
        /\ task' = Overtaken(Terminals) /\ OnlyAuctionChanges
    BY <1>6 DEF Outside
  <2>2. bidOf' = bidOf /\ \A b \in Bidders \ Registered : balance'[b] = balance[b]
    BY <2>1, AnswersTouchTheBook
  <2>3. Registered' = Registered
    BY <2>2 DEF Registered
  <2> QED
    BY <2>1, <2>2, <2>3, OutsideKeepsInv
<1>7. CASE UNCHANGED tasksVars
  <2>1. UNCHANGED chainVars /\ task' = task
    BY <1>7 DEF tasksVars
  <2>2. allowance' = allowance /\ saleAllowance' = saleAllowance
    BY <2>1 DEF chainVars
  <2>3. TasksTypeInv'
    BY <2>1, <2>2 DEF TasksInv, TasksTypeInv
  <2>4. ASSUME NEW u \in Terminals, task'[u].cmd.name = "bid"
        PROVE  BidTaskInv(u)'
    <3>1. task[u].at \in AfterRegistration => Untouched(u)
      BY <2>1, <2>4, SameChainTouchesNone
    <3> QED
      BY <2>1, <2>4, <3>1, UntouchedBidsKeepInv DEF GoesOn, TasksInv
  <2> QED
    BY <2>1, <2>3, <2>4 DEF TasksInv
<1> QED
  BY <1>1, <1>2, <1>3, <1>4, <1>5, <1>6, <1>7 DEF TasksNext

-----------------------------------------------------------------------------
(* The deposits *)

\* What a bid deposits, given the ones there are.
RequiredDeposits == {RequiredDeposit(offer) : offer \in Offers}

LEMMA DepositsStay ==
  ASSUME DepositsOnce, UNCHANGED <<balance, bidOf, claimCompleted>>
  PROVE  DepositsOnce'
BY DEF DepositsOnce, RequiredDeposit, Registered

\* A command that has deposited leaves what the bid requires.
LEMMA BiddingDepositsOnce ==
  ASSUME TasksInv, BookInv, DepositsOnce, NEW t \in Terminals, SendDeposit(t) \/ SendBid(t)
  PROVE  DepositsOnce'
<1>1. task[t].cmd.name = "bid" /\ task[t].at \in {"deposit", "bid"} /\ TasksTypeInv
  BY DEF SendDeposit, SendBid, Mined, Runs, TasksInv
<1>2. PICK b, offer, required, seen :
        /\ b = task[t].cmd.bidder /\ offer = task[t].cmd.offer
        /\ required = RequiredDeposit(offer) /\ seen = task[t].seen
  OBVIOUS
<1>3. /\ b \in Bidders /\ offer \in Offers /\ required \in Nat /\ seen \in Nat
      /\ balance[b] \in Nat /\ BidTaskInv(t)
  BY <1>1, <1>2, BidCommandsAreTyped DEF TasksInv, BookInv
<1>4. required \in RequiredDeposits
  BY <1>2, <1>3 DEF RequiredDeposits
<1>5. balance \in [Bidders -> Nat] /\ bidOf \in [Bidders -> BidRecords]
  BY DEF BookInv
<1>6. CASE SendDeposit(t)
  <2>1. task[t].at = "deposit"
    BY <1>6 DEF SendDeposit, Mined, Runs
  <2>2. b \notin Registered /\ seen = balance[b]
    BY <1>2, <1>3, <2>1 DEF BidTaskInv, AfterRegistration, BeforeDeposit
  <2>3. Deposit(b, required - seen)
    BY <1>2, <1>6 DEF SendDeposit, MissingDeposit
  <2>4. /\ balance' = [balance EXCEPT ![b] = @ + (required - seen)]
        /\ bidOf' = bidOf /\ Registered' = Registered /\ claimCompleted' = claimCompleted
    BY <2>3 DEF Deposit, Deposited, engineVars, claimVars, Registered
  <2>5. balance'[b] = required
    BY <1>3, <1>5, <2>2, <2>4
  <2>6. \A c \in Bidders \ {b} : balance'[c] = balance[c]
    BY <1>5, <2>4
  <2>7. ASSUME NEW c \in Bidders, c \notin claimCompleted'
        PROVE  /\ balance'[c] \in {0} \cup {RequiredDeposit(o) : o \in Offers}
               /\ c \in Registered' => bidOf'[c].price * bidOf'[c].quantity <= balance'[c]
    <3>1. CASE c = b
      BY <1>4, <2>2, <2>4, <2>5, <3>1 DEF RequiredDeposits
    <3>2. CASE c # b
      BY <2>4, <2>6, <2>7, <3>2 DEF DepositsOnce
    <3> QED
      BY <3>1, <3>2
  <2> QED
    BY <2>7 DEF DepositsOnce, RequiredDeposit
<1>7. CASE SendBid(t)
  <2>1. task[t].at = "bid"
    BY <1>7 DEF SendBid, Mined, Runs
  <2>2. balance[b] = required
    BY <1>2, <1>3, <2>1 DEF BidTaskInv, AfterDeposit
  <2>3. Bid(b, offer, 0)
    BY <1>2, <1>7 DEF SendBid
  <2>4. PICK bid : bid = [price |-> offer.price, rand |-> 0,
                          quantity |-> offer.quantity, id |-> nextId]
    OBVIOUS
  <2>5. /\ balance' = [balance EXCEPT ![b] = @ + 0] /\ claimCompleted' = claimCompleted
        /\ bidOf' = [bidOf EXCEPT ![b] = bid]
    BY <2>3, <2>4 DEF Bid, Deposited, claimVars
  <2>6. balance' = balance
    BY <1>5, <2>5
  <2>7. bidOf'[b] = bid /\ \A c \in Bidders \ {b} : bidOf'[c] = bidOf[c]
    BY <1>3, <1>5, <2>5
  <2>8. offer.price * offer.quantity <= required
    <3>1. offer.price \in Nat /\ offer.quantity \in Nat /\ MinimumDeposit \in Nat
      BY <1>3, AuctionAssumption
    <3>2. offer.price * offer.quantity \in Nat
      BY <3>1, ProductsAreNatural
    <3> QED
      BY <1>2, <3>1, <3>2 DEF RequiredDeposit
  <2>9. ASSUME NEW c \in Bidders, c \notin claimCompleted'
        PROVE  /\ balance'[c] \in {0} \cup {RequiredDeposit(o) : o \in Offers}
               /\ c \in Registered' => bidOf'[c].price * bidOf'[c].quantity <= balance'[c]
    <3>1. balance'[c] \in {0} \cup {RequiredDeposit(o) : o \in Offers}
      BY <2>5, <2>6, <2>9 DEF DepositsOnce
    <3>2. CASE c = b
      BY <2>2, <2>4, <2>6, <2>7, <2>8, <3>1, <3>2
    <3>3. CASE c # b
      BY <2>5, <2>6, <2>7, <2>9, <3>1, <3>3 DEF DepositsOnce, Registered
    <3> QED
      BY <3>2, <3>3
  <2> QED
    BY <2>9 DEF DepositsOnce, RequiredDeposit
<1> QED
  BY <1>6, <1>7

\* A cancelled bid takes its deposit with it.
LEMMA CancellingDepositsOnce ==
  ASSUME BookInv, DepositsOnce, NEW b \in Registered, CancelBid(b)
  PROVE  DepositsOnce'
<1>1. /\ bidOf' = [bidOf EXCEPT ![b] = NoBid] /\ balance' = [balance EXCEPT ![b] = 0]
      /\ claimCompleted' = claimCompleted
  BY DEF CancelBid, claimVars
<1>2. b \in Bidders /\ balance \in [Bidders -> Nat] /\ bidOf \in [Bidders -> BidRecords]
  BY DEF BookInv, Registered
<1>3. /\ balance'[b] = 0 /\ bidOf'[b] = NoBid
      /\ \A c \in Bidders \ {b} : balance'[c] = balance[c] /\ bidOf'[c] = bidOf[c]
  BY <1>1, <1>2
<1>4. b \notin Registered' /\ \A c \in Bidders \ {b} : c \in Registered' <=> c \in Registered
  BY <1>3 DEF Registered, NoBid
<1>5. ASSUME NEW c \in Bidders, c \notin claimCompleted'
      PROVE  /\ balance'[c] \in {0} \cup {RequiredDeposit(o) : o \in Offers}
             /\ c \in Registered' => bidOf'[c].price * bidOf'[c].quantity <= balance'[c]
  <2>1. CASE c = b
    BY <1>3, <1>4, <2>1
  <2>2. CASE c # b
    BY <1>1, <1>3, <1>4, <1>5, <2>2 DEF DepositsOnce
  <2> QED
    BY <2>1, <2>2
<1> QED
  BY <1>5 DEF DepositsOnce, RequiredDeposit

\* A bid that is validated is one its deposit covers, or zero.
LEMMA ComputingDepositsOnce ==
  ASSUME AuctionInv, DepositsOnce, NEW award \in BOOLEAN, ComputeAuction(award)
  PROVE  DepositsOnce'
<1>1. Registered' = Registered /\ balance' = balance /\ claimCompleted' = claimCompleted
  BY ComputeKeepsInv DEF ComputeAuction, claimVars
<1>2. \/ bidOf' = bidOf
      \/ bidOf' = [b \in Bidders |-> IF b \in Registered THEN Validated(b) ELSE bidOf[b]]
  BY DEF ComputeAuction
<1>3. CASE bidOf' = bidOf
  BY <1>1, <1>3, DepositsStay
<1>4. CASE bidOf' = [b \in Bidders |-> IF b \in Registered THEN Validated(b) ELSE bidOf[b]]
  <2>1. ASSUME NEW c \in Bidders, c \notin claimCompleted'
        PROVE  /\ balance'[c] \in {0} \cup {RequiredDeposit(o) : o \in Offers}
               /\ c \in Registered' => bidOf'[c].price * bidOf'[c].quantity <= balance'[c]
    <3>1. balance'[c] \in {0} \cup {RequiredDeposit(o) : o \in Offers}
      BY <1>1, <2>1 DEF DepositsOnce
    <3>2. ASSUME c \in Registered
          PROVE  bidOf'[c].price * bidOf'[c].quantity <= balance'[c]
      <4>1. bidOf'[c] = Validated(c)
        BY <1>4, <3>2
      <4>2. Validated(c).price * Validated(c).quantity <= balance[c]
        BY ValidatedIsCovered
      <4> QED
        BY <1>1, <4>1, <4>2
    <3> QED
      BY <1>1, <3>1, <3>2
  <2> QED
    BY <2>1 DEF DepositsOnce, RequiredDeposit
<1> QED
  BY <1>2, <1>3, <1>4

\* A payment touches the deposit of the bidder it marks only.
LEMMA AnswersDepositOnce ==
  ASSUME AuctionInv, DepositsOnce, NEW r \in requests, GatewayAnswers(r) \/ RequestLost(r)
  PROVE  DepositsOnce'
<1>1. CASE CallbackDecryptUniformPrice(r) \/ RequestLost(r)
  <2>1. UNCHANGED <<balance, bidOf, claimCompleted>>
    BY <1>1 DEF CallbackDecryptUniformPrice, RequestLost, engineVars, claimVars
  <2> QED
    BY <2>1, DepositsStay
<1>2. CASE CallbackDecryptWonQuantity(r) \/ CallbackDecryptRankedWonQuantity(r)
  <2>1. PICK b \in Registered : /\ claimCompleted' = claimCompleted \cup {b}
                                /\ balance' = [balance EXCEPT ![b] = 0]
    BY <1>2, AnswersPayOneBidder DEF PaysOneBidder
  <2>2. bidOf' = bidOf /\ Registered' = Registered
    BY <1>2
       DEF CallbackDecryptWonQuantity, CallbackDecryptRankedWonQuantity, engineVars,
           Registered
  <2>3. \A c \in Bidders : c \notin claimCompleted' =>
          c \notin claimCompleted /\ balance'[c] = balance[c]
    BY <2>1 DEF AuctionInv, BookInv
  <2>4. \A c \in Bidders : c \notin claimCompleted' =>
          /\ balance'[c] \in {0} \cup {RequiredDeposit(o) : o \in Offers}
          /\ c \in Registered' => bidOf'[c].price * bidOf'[c].quantity <= balance'[c]
    BY <2>2, <2>3 DEF DepositsOnce
  <2> QED
    BY <2>4 DEF DepositsOnce, RequiredDeposit
<1> QED
  BY <1>1, <1>2 DEF GatewayAnswers

LEMMA StepDepositsOnce ==
  ASSUME TasksInv, AuctionInv, DepositsOnce, [TasksNext]_tasksVars
  PROVE  DepositsOnce'
<1>0. BookInv
  BY DEF AuctionInv
<1>1. ASSUME NEW t \in Terminals,
             \/ \E c \in Commands[t] : Launch(t, c)
             \/ Reads(t)
             \/ Revert(t)
             \/ Interrupt(t)
      PROVE  DepositsOnce'
  <2>1. UNCHANGED chainVars
    BY <1>1, ReadsChangeNothing DEF Launch, Revert, Interrupt
  <2> QED
    BY <2>1, DepositsStay DEF chainVars, auctionVars, engineVars, claimVars
<1>2. ASSUME NEW t \in Terminals, Transaction(t)
      PROVE  DepositsOnce'
  <2>1. CASE ApproveSale(t) \/ SendStart(t) \/ SendStop(t) \/ SendApproval(t)
             \/ ApproveDeposit(t) \/ SendDecrypt(t) \/ SendAward(t) \/ SendClaim(t)
             \/ SendBlindClaim(t)
    <3>1. UNCHANGED <<balance, bidOf, claimCompleted>>
      BY <2>1
         DEF ApproveSale, SendStart, SendStop, SendApproval, ApproveDeposit,
             SendDecrypt, SendAward, SendClaim, SendBlindClaim, Start, Stop,
             DecryptUniformPrice, AwardPrizeAtRank, Claim, BlindClaim, auctionVars,
             engineVars, claimVars
    <3> QED
      BY <3>1, DepositsStay
  <2>2. CASE SendDeposit(t) \/ SendBid(t)
    BY <1>0, <2>2, BiddingDepositsOnce
  <2>3. CASE SendCancelBid(t)
    <3>1. \E b \in Registered : CancelBid(b)
      BY <2>3 DEF SendCancelBid, CancelBid
    <3> QED
      BY <1>0, <3>1, CancellingDepositsOnce
  <2>4. CASE SendCompute(t)
    <3>1. task[t].cmd.name = "compute" /\ TasksTypeInv
      BY <2>4 DEF SendCompute, Mined, Runs, TasksInv
    <3>2. task[t].cmd.award \in BOOLEAN
      BY <3>1, TasksAreCommands, CommandsAssumption
    <3>3. ComputeAuction(task[t].cmd.award)
      BY <2>4 DEF SendCompute
    <3> QED
      BY <3>2, <3>3, ComputingDepositsOnce
  <2> QED
    BY <1>2, <2>1, <2>2, <2>3, <2>4 DEF Transaction
<1>3. CASE Create \/ BlockMined
  <2>1. UNCHANGED <<balance, bidOf, claimCompleted>>
    BY <1>3
       DEF Create, BlockMined, Outside, Initialize, NextBlock, engineVars, claimVars
  <2> QED
    BY <2>1, DepositsStay
<1>4. ASSUME NEW r \in requests, Outside(GatewayAnswers(r) \/ RequestLost(r))
      PROVE  DepositsOnce'
  BY <1>4, AnswersDepositOnce DEF Outside
<1>5. CASE UNCHANGED tasksVars
  BY <1>5, DepositsStay DEF tasksVars, chainVars, auctionVars, engineVars, claimVars
<1> QED
  BY <1>1, <1>2, <1>3, <1>4, <1>5 DEF TasksNext

-----------------------------------------------------------------------------
(* What a command that nothing overtook may rely on *)

\* The calls of each command, and what those before them have shown.
StartFacts(c, at) ==
  /\ at \in {"status", "beneficiaryBalance", "beneficiaryAllowance", "approve",
             "verifyApproval", "start"}
  /\ at # "status" => CanStart /\ c.duration # 0
  /\ at \in {"beneficiaryAllowance", "approve", "verifyApproval", "start"} =>
       auctionTokens[Beneficiary] >= AuctionQuantity
  /\ at = "start" => saleAllowance >= AuctionQuantity

StopFacts(at) ==
  /\ at \in {"status", "canStop", "stop"}
  /\ at # "status" => State < INITIALIZED_STARTED_ENDED
  /\ at = "stop" => CanStop

BidFacts(c, at, seen) ==
  /\ at \in {"status", "registered"} \cup AfterRegistration
  /\ at # "status" => IsOpen
  /\ at \in AfterRegistration \ {"bidCount"} => BidCount < MaximumBidCount
  /\ at \in BeforeDeposit \ {"wallet"} =>
       paymentTokens[c.bidder] >= RequiredDeposit(c.offer) - seen
  /\ at = "deposit" => allowance[c.bidder] >= RequiredDeposit(c.offer) - seen

ComputeFacts(at) ==
  /\ at \in {"minIterations", "computedIterations", "closed", "computeAuction"}
  /\ at = "computeAuction" => Closed

DecryptFacts(at) ==
  /\ at \in {"clearUniformPrice", "canDecrypt", "decrypt"}
  /\ at = "decrypt" => ByRankReady

AwardFacts(c, at) ==
  /\ at \in {"canAwardPrizeAtRank", "bidCount", "award"}
  /\ at # "canAwardPrizeAtRank" =>
       Closed /\ c.rank \notin prizeAtRankAwarded /\ ByRankReady /\ CanAward
  /\ at = "award" => c.rank < BidCount

ClaimFacts(c, at) ==
  /\ at \in {"registered", "canClaim", "claim"}
  /\ at # "registered" => c.bidder \in Registered
  /\ at = "claim" => Closed /\ c.bidder \notin claimCompleted /\ ByIdReady /\ CanAward

BlindClaimFacts(c, at) ==
  /\ at \in {"registered", "clearUniformPrice", "canBlindClaim", "hasBlindClaimed",
             "completed", "blindClaim"}
  /\ at # "registered" => c.bidder \in Registered
  /\ at \in {"hasBlindClaimed", "completed", "blindClaim"} =>
       Closed /\ ByRankReady /\ CanAward

Facts(c, at, seen) ==
  \/ at = "idle"
  \/ /\ flags # UNINITIALIZED
     /\ \/ c.name = "start" /\ StartFacts(c, at)
        \/ c.name = "stop" /\ StopFacts(at)
        \/ c.name = "can-bid" /\ at \in {"status", "registered", "bidCount"}
        \/ c.name = "bid" /\ BidFacts(c, at, seen)
        \/ c.name = "cancel-bid"
        \/ c.name = "approve" /\ at = "approval"
        \/ c.name = "compute" /\ ComputeFacts(at)
        \/ c.name = "decrypt-uniform-price" /\ DecryptFacts(at)
        \/ c.name = "award" /\ AwardFacts(c, at)
        \/ c.name = "claim" /\ ClaimFacts(c, at)
        \/ c.name = "blind-claim" /\ BlindClaimFacts(c, at)

FactsInv ==
  \A t \in Terminals : task[t].overtaken \/ Facts(task[t].cmd, task[t].at, task[t].seen)

\* There is a rank left for a bidder in the book that has not been given one.
LEMMA BlindRanksAreLeft ==
  ASSUME BlindInv, ClosingInv, NEW b \in Bidders, blindRankPlusOne[b] = 0 => b \in Registered
  PROVE  NextBlindRank(b) < BidCount
<1>1. /\ blindRankPlusOne \in [Bidders -> Nat] /\ blindClaimRequestCount \in Nat
      /\ {blindRankPlusOne[c] : c \in Bidders} \ {0} = 1..blindClaimRequestCount
      /\ blindClaimRequestCount <= BidCount /\ BidCount \in Nat
  BY BookIsFinite DEF BlindInv, BlindRanksAreFair
<1>2. CASE blindRankPlusOne[b] # 0
  <2>1. blindRankPlusOne[b] \in 1..blindClaimRequestCount
    BY <1>1, <1>2
  <2> QED
    BY <1>1, <1>2, <2>1 DEF NextBlindRank
<1>3. CASE blindRankPlusOne[b] = 0
  <2> DEFINE S == {c \in Bidders : blindRankPlusOne[c] # 0}
             f == [c \in S |-> blindRankPlusOne[c]]
             T == 1..blindClaimRequestCount
  <2>1. S \cup {b} \subseteq Registered /\ b \notin S
    BY <1>3 DEF ClosingInv
  <2>2. IsFiniteSet(S) /\ IsFiniteSet(Registered)
    BY <2>1, BookIsFinite, FS_Subset
  <2>3. f \in Surjection(S, T)
    <3>1. \A c \in S : f[c] \in T
      BY <1>1
    <3>2. \A n \in T : \E c \in S : f[c] = n
      <4>1. TAKE n \in T
      <4>2. n \in {blindRankPlusOne[c] : c \in Bidders} \ {0}
        BY <1>1
      <4> QED
        BY <4>2
    <3> QED
      BY <3>1, <3>2 DEF Surjection
  <2>4. Cardinality(T) <= Cardinality(S)
    <3> HIDE DEF S, f, T
    <3> QED
      BY <2>2, <2>3, FS_Surjection
  <2>5. Cardinality(T) = blindClaimRequestCount
    BY <1>1, FS_Interval
  <2>6. Cardinality(S \cup {b}) = Cardinality(S) + 1
    BY <2>1, <2>2, FS_AddElement
  <2>7. Cardinality(S \cup {b}) <= Cardinality(Registered)
    BY <2>1, <2>2, FS_Subset
  <2>8. Cardinality(S) \in Nat
    BY <2>2, FS_CardinalityType
  <2> HIDE DEF S, T
  <2>9. blindClaimRequestCount < BidCount
    BY <1>1, <2>4, <2>5, <2>6, <2>7, <2>8 DEF BidCount
  <2> QED
    BY <1>3, <2>9 DEF NextBlindRank
<1> QED
  BY <1>2, <1>3

\* What a command may rely on is a matter of the chain.
LEMMA SameChainSameFacts ==
  ASSUME UNCHANGED chainVars, NEW c, NEW at, NEW seen
  PROVE  Facts(c, at, seen)' <=> Facts(c, at, seen)
<1>1. /\ UNCHANGED timedVars /\ UNCHANGED claimVars /\ UNCHANGED tokenVars
      /\ UNCHANGED <<ready, clearUniformPrice, allowance, saleAllowance>>
      /\ Registered' = Registered /\ BidCount' = BidCount
  BY SameBookSameRanks DEF chainVars, auctionVars, engineVars
<1>2. /\ flags' = flags /\ State' = State /\ CanStart' = CanStart /\ CanStop' = CanStop
      /\ IsOpen' = IsOpen /\ Closed' = Closed /\ CanAward' = CanAward
      /\ ByRankReady' = ByRankReady /\ ByIdReady' = ByIdReady
      /\ paymentTokens' = paymentTokens /\ auctionTokens' = auctionTokens
      /\ prizeAtRankAwarded' = prizeAtRankAwarded /\ claimCompleted' = claimCompleted
  BY <1>1
     DEF timedVars, claimVars, tokenVars, State, CanStart, CanStop, IsOpen, Closed,
         CanAward, ByRankReady, ByIdReady
<1>3. /\ StartFacts(c, at)' <=> StartFacts(c, at)
      /\ StopFacts(at)' <=> StopFacts(at)
  BY <1>1, <1>2 DEF StartFacts, StopFacts
<1>4. BidFacts(c, at, seen)' <=> BidFacts(c, at, seen)
  BY <1>1, <1>2 DEF BidFacts, RequiredDeposit
<1>5. /\ ComputeFacts(at)' <=> ComputeFacts(at)
      /\ DecryptFacts(at)' <=> DecryptFacts(at)
      /\ AwardFacts(c, at)' <=> AwardFacts(c, at)
  BY <1>1, <1>2 DEF ComputeFacts, DecryptFacts, AwardFacts
<1>6. /\ ClaimFacts(c, at)' <=> ClaimFacts(c, at)
      /\ BlindClaimFacts(c, at)' <=> BlindClaimFacts(c, at)
  BY <1>1, <1>2 DEF ClaimFacts, BlindClaimFacts
<1> QED
  BY <1>2, <1>3, <1>4, <1>5, <1>6 DEF Facts

\* The facts of a command that is at a call of its own.
LEMMA OwnFacts ==
  ASSUME NEW c, NEW at, NEW seen, Facts(c, at, seen), at # "idle"
  PROVE  /\ flags # UNINITIALIZED
         /\ c.name = "start" => StartFacts(c, at)
         /\ c.name = "stop" => StopFacts(at)
         /\ c.name = "can-bid" => at \in {"status", "registered", "bidCount"}
         /\ c.name = "bid" => BidFacts(c, at, seen)
         /\ c.name = "compute" => ComputeFacts(at)
         /\ c.name = "decrypt-uniform-price" => DecryptFacts(at)
         /\ c.name = "award" => AwardFacts(c, at)
         /\ c.name = "claim" => ClaimFacts(c, at)
         /\ c.name = "blind-claim" => BlindClaimFacts(c, at)
BY DEF Facts

\* A read ends the command, or adds to what it may rely on.
Learns(t) == Facts(task[t].cmd, task'[t].at, task'[t].seen)

LEMMA LeadingLearns ==
  ASSUME TasksTypeInv, NEW t \in Terminals, NEW next \in ReadTargets,
         Stops(t) \/ (Leads(t, next) /\ Facts(task[t].cmd, next, task[t].seen))
  PROVE  Learns(t)
<1>1. CASE Stops(t)
  BY <1>1, LeadsOrStops DEF Ends, Idle, Learns, Facts
<1>2. CASE Leads(t, next) /\ Facts(task[t].cmd, next, task[t].seen)
  <2>1. AdvancesTo(t, next, task[t].seen)
    BY <1>2, LeadsOrStops
  <2>2. task'[t].at = next /\ task'[t].seen = task[t].seen
    BY <2>1 DEF AdvancesTo
  <2> QED
    BY <1>2, <2>2 DEF Learns
<1> QED
  BY <1>1, <1>2

LEMMA StartReadsLearn ==
  ASSUME TasksTypeInv, TimedTypeOK, NEW t \in Terminals, StartReads(t),
         Facts(task[t].cmd, task[t].at, task[t].seen)
  PROVE  Learns(t)
<1>1. PICK c, at, seen : c = task[t].cmd /\ at = task[t].at /\ seen = task[t].seen
  OBVIOUS
<1>2. c.name = "start" /\ at # "idle"
  BY <1>1 DEF StartReads, Read, Runs
<1>3. StartFacts(c, at) /\ flags # UNINITIALIZED
  BY <1>1, <1>2, OwnFacts
<1>4. \/ Stops(t)
      \/ /\ Leads(t, "beneficiaryBalance")
         /\ c.duration # 0 /\ State < INITIALIZED_STARTED
      \/ /\ Leads(t, "beneficiaryAllowance") /\ at = "beneficiaryBalance"
         /\ auctionTokens[Beneficiary] >= AuctionQuantity
      \/ Leads(t, "approve") /\ at = "beneficiaryAllowance"
      \/ /\ Leads(t, "start") /\ at \in {"beneficiaryAllowance", "verifyApproval"}
         /\ saleAllowance >= AuctionQuantity
  BY <1>1 DEF StartReads, Read, Runs, Leads, Stops
<1>5. State < INITIALIZED_STARTED => CanStart
  BY <1>3 DEF TimedTypeOK, State, CanStart, StatusCodes, UNINITIALIZED, INITIALIZED,
              INITIALIZED_TERMINATED, INITIALIZED_STARTED, INITIALIZED_STARTED_ENDED,
              INITIALIZED_STARTED_ENDED_TERMINATED
<1>6. \/ Stops(t)
      \/ Leads(t, "beneficiaryBalance") /\ StartFacts(c, "beneficiaryBalance")
      \/ Leads(t, "beneficiaryAllowance") /\ StartFacts(c, "beneficiaryAllowance")
      \/ Leads(t, "approve") /\ StartFacts(c, "approve")
      \/ Leads(t, "start") /\ StartFacts(c, "start")
  BY <1>3, <1>4, <1>5 DEF StartFacts
<1>7. {"beneficiaryBalance", "beneficiaryAllowance", "approve", "start"} \subseteq ReadTargets
  BY DEF ReadTargets, Calls, TransactionCalls
<1>8. \A next \in ReadTargets :
        Stops(t) \/ (Leads(t, next) /\ StartFacts(c, next)) => Learns(t)
  BY <1>1, <1>2, <1>3, LeadingLearns DEF Facts
<1> QED
  BY <1>6, <1>7, <1>8

LEMMA StopReadsLearn ==
  ASSUME TasksTypeInv, NEW t \in Terminals, StopReads(t),
         Facts(task[t].cmd, task[t].at, task[t].seen)
  PROVE  Learns(t)
<1>1. PICK c, at : c = task[t].cmd /\ at = task[t].at
  OBVIOUS
<1>2. c.name = "stop" /\ at # "idle"
  BY <1>1 DEF StopReads, Read, Runs
<1>3. StopFacts(at) /\ flags # UNINITIALIZED
  BY <1>1, <1>2, OwnFacts
<1>4. \/ Stops(t)
      \/ Leads(t, "canStop") /\ StopFacts("canStop")
      \/ Leads(t, "stop") /\ StopFacts("stop")
  <2>1. \/ Stops(t)
        \/ Leads(t, "canStop") /\ State < INITIALIZED_STARTED_ENDED
        \/ Leads(t, "stop") /\ at = "canStop" /\ CanStop
    BY <1>1 DEF StopReads, Read, Runs, Leads, Stops
  <2> QED
    BY <1>3, <2>1 DEF StopFacts
<1>5. {"canStop", "stop"} \subseteq ReadTargets
  BY DEF ReadTargets, Calls, TransactionCalls
<1>6. \A next \in ReadTargets : Stops(t) \/ (Leads(t, next) /\ StopFacts(next)) => Learns(t)
  BY <1>1, <1>2, <1>3, LeadingLearns DEF Facts
<1> QED
  BY <1>4, <1>5, <1>6

LEMMA CanBidReadsLearn ==
  ASSUME TasksTypeInv, TimedTypeOK, NEW t \in Terminals, CanBidReads(t),
         Facts(task[t].cmd, task[t].at, task[t].seen)
  PROVE  Learns(t)
<1>1. PICK c, at, seen : c = task[t].cmd /\ at = task[t].at /\ seen = task[t].seen
  OBVIOUS
<1>2. c.name \in {"can-bid", "bid", "cancel-bid"} /\ at # "idle"
  BY <1>1 DEF CanBidReads, Read, Runs
<1>3. /\ flags # UNINITIALIZED
      /\ c.name = "can-bid" => at \in {"status", "registered", "bidCount"}
      /\ c.name = "bid" => BidFacts(c, at, seen)
  BY <1>1, <1>2, OwnFacts
<1>4. \/ Stops(t)
      \/ /\ Leads(t, "registered")
         /\ State >= INITIALIZED_STARTED /\ State < INITIALIZED_STARTED_ENDED
      \/ Leads(t, "bidCount") /\ at = "registered"
      \/ /\ Leads(t, "balance") /\ at = "bidCount" /\ c.name = "bid"
         /\ BidCount < MaximumBidCount
      \/ Leads(t, "cancelBid") /\ c.name = "cancel-bid"
  BY <1>1 DEF CanBidReads, Read, Runs, Leads, Stops
<1>5. State >= INITIALIZED_STARTED /\ State < INITIALIZED_STARTED_ENDED => IsOpen
  BY DEF TimedTypeOK, State, IsOpen, StatusCodes, UNINITIALIZED, INITIALIZED,
         INITIALIZED_TERMINATED, INITIALIZED_STARTED, INITIALIZED_STARTED_ENDED,
         INITIALIZED_STARTED_ENDED_TERMINATED
<1>6. {"registered", "bidCount", "balance", "cancelBid"} \subseteq ReadTargets
  BY DEF ReadTargets, Calls, TransactionCalls
<1>7. CASE c.name = "bid"
  <2>1. \/ Stops(t)
        \/ Leads(t, "registered") /\ BidFacts(c, "registered", seen)
        \/ Leads(t, "bidCount") /\ BidFacts(c, "bidCount", seen)
        \/ Leads(t, "balance") /\ BidFacts(c, "balance", seen)
    BY <1>3, <1>4, <1>5, <1>7 DEF BidFacts, AfterRegistration, BeforeDeposit
  <2>2. \A next \in ReadTargets :
          Stops(t) \/ (Leads(t, next) /\ BidFacts(c, next, seen)) => Learns(t)
    BY <1>1, <1>3, <1>7, LeadingLearns DEF Facts
  <2> QED
    BY <1>6, <2>1, <2>2
<1>8. CASE c.name \in {"can-bid", "cancel-bid"}
  <2>1. \A next \in ReadTargets :
          /\ next \in {"registered", "bidCount"} \/ (next = "cancelBid" /\ c.name = "cancel-bid")
          /\ Stops(t) \/ Leads(t, next)
          => Learns(t)
    BY <1>1, <1>3, <1>8, LeadingLearns DEF Facts
  <2> QED
    BY <1>4, <1>6, <1>8, <2>1
<1> QED
  BY <1>2, <1>7, <1>8

LEMMA DepositReadsLearn ==
  ASSUME TasksTypeInv, BookInv, NEW t \in Terminals, ReadDepositBalance(t),
         Facts(task[t].cmd, task[t].at, task[t].seen)
  PROVE  Learns(t)
<1>1. PICK c, at, seen : c = task[t].cmd /\ at = task[t].at /\ seen = task[t].seen
  OBVIOUS
<1>2. c.name = "bid" /\ at = "balance"
  BY <1>1 DEF ReadDepositBalance, Runs
<1>3. BidFacts(c, "balance", seen) /\ flags # UNINITIALIZED
  BY <1>1, <1>2, OwnFacts
<1>4. \A any : BidFacts(c, "bid", any) /\ BidFacts(c, "wallet", any)
  BY <1>3 DEF BidFacts, AfterRegistration, BeforeDeposit
<1>5. \A next \in {"bid", "wallet"} : \A any : Facts(c, next, any)
  BY <1>2, <1>3, <1>4 DEF Facts
<1>6. ASSUME NEW next \in {"bid", "wallet"}, NEW any, AdvancesTo(t, next, any)
      PROVE  Learns(t)
  <2>1. task'[t].at = next /\ task'[t].seen = any
    BY <1>6 DEF AdvancesTo
  <2> QED
    BY <1>1, <1>5, <1>6, <2>1 DEF Learns
<1>7. Ends(t) \/ \E any : AdvancesTo(t, "bid", any) \/ AdvancesTo(t, "wallet", any)
  BY DepositIsRead
<1>8. Ends(t) => Learns(t)
  BY DEF Ends, Idle, Learns, Facts
<1> QED
  BY <1>6, <1>7, <1>8

LEMMA BidReadsLearn ==
  ASSUME TasksTypeInv, NEW t \in Terminals, BidReads(t),
         Facts(task[t].cmd, task[t].at, task[t].seen)
  PROVE  Learns(t)
<1>1. PICK c, at, seen : c = task[t].cmd /\ at = task[t].at /\ seen = task[t].seen
  OBVIOUS
<1>2. c.name = "bid" /\ at # "idle"
  BY <1>1 DEF BidReads, Read, Runs
<1>3. BidFacts(c, at, seen) /\ flags # UNINITIALIZED
  BY <1>1, <1>2, OwnFacts
<1>4. MissingDeposit(t) = RequiredDeposit(c.offer) - seen
  BY <1>1 DEF MissingDeposit
<1>5. \/ Stops(t)
      \/ /\ Leads(t, "allowance") /\ at = "wallet"
         /\ paymentTokens[c.bidder] >= MissingDeposit(t)
      \/ Leads(t, "approve") /\ at = "allowance"
      \/ /\ Leads(t, "deposit") /\ at \in {"allowance", "verifyApproval"}
         /\ allowance[c.bidder] >= MissingDeposit(t)
      \/ Leads(t, "bid") /\ at = "verifyDeposit"
  BY <1>1 DEF BidReads, Read, Runs, Leads, Stops
<1>6. \/ Stops(t)
      \/ Leads(t, "allowance") /\ BidFacts(c, "allowance", seen)
      \/ Leads(t, "approve") /\ BidFacts(c, "approve", seen)
      \/ Leads(t, "deposit") /\ BidFacts(c, "deposit", seen)
      \/ Leads(t, "bid") /\ BidFacts(c, "bid", seen)
  BY <1>3, <1>4, <1>5 DEF BidFacts, AfterRegistration, BeforeDeposit
<1>7. {"allowance", "approve", "deposit", "bid"} \subseteq ReadTargets
  BY DEF ReadTargets, Calls, TransactionCalls
<1>8. \A next \in ReadTargets :
        Stops(t) \/ (Leads(t, next) /\ BidFacts(c, next, seen)) => Learns(t)
  BY <1>1, <1>2, <1>3, LeadingLearns DEF Facts
<1> QED
  BY <1>6, <1>7, <1>8

LEMMA ComputeReadsLearn ==
  ASSUME TasksTypeInv, BookInv, NEW t \in Terminals,
         ReadMinIterations(t) \/ ComputeReads(t),
         Facts(task[t].cmd, task[t].at, task[t].seen)
  PROVE  Learns(t)
<1>1. PICK c, at : c = task[t].cmd /\ at = task[t].at
  OBVIOUS
<1>2. c.name = "compute" /\ at # "idle"
  BY <1>1 DEF ReadMinIterations, ComputeReads, Read, Runs
<1>3. flags # UNINITIALIZED
  BY <1>1, <1>2, OwnFacts
<1>4. CASE ReadMinIterations(t)
  <2>1. task'[t].at = "computedIterations"
    BY <1>4, IterationsAreRead
  <2> QED
    BY <1>1, <1>2, <1>3, <2>1 DEF Learns, Facts, ComputeFacts
<1>5. CASE ComputeReads(t)
  <2>1. \/ Stops(t)
        \/ Leads(t, "closed")
        \/ Leads(t, "computeAuction") /\ Closed
    BY <1>1, <1>5 DEF ComputeReads, Read, Runs, Leads, Stops
  <2>2. \/ Stops(t)
        \/ Leads(t, "closed") /\ ComputeFacts("closed")
        \/ Leads(t, "computeAuction") /\ ComputeFacts("computeAuction")
    BY <2>1 DEF ComputeFacts
  <2>3. {"closed", "computeAuction"} \subseteq ReadTargets
    BY DEF ReadTargets, Calls, TransactionCalls
  <2>4. \A next \in ReadTargets :
          Stops(t) \/ (Leads(t, next) /\ ComputeFacts(next)) => Learns(t)
    BY <1>1, <1>2, <1>3, LeadingLearns DEF Facts
  <2> QED
    BY <2>2, <2>3, <2>4
<1> QED
  BY <1>4, <1>5

LEMMA DecryptReadsLearn ==
  ASSUME TasksTypeInv, NEW t \in Terminals, DecryptReads(t),
         Facts(task[t].cmd, task[t].at, task[t].seen)
  PROVE  Learns(t)
<1>1. PICK c, at : c = task[t].cmd /\ at = task[t].at
  OBVIOUS
<1>2. c.name = "decrypt-uniform-price" /\ at # "idle"
  BY <1>1 DEF DecryptReads, Read, Runs
<1>3. flags # UNINITIALIZED
  BY <1>1, <1>2, OwnFacts
<1>4. \/ Stops(t)
      \/ Leads(t, "canDecrypt")
      \/ Leads(t, "decrypt") /\ ByRankReady
  BY <1>1 DEF DecryptReads, Read, Runs, Leads, Stops
<1>5. \/ Stops(t)
      \/ Leads(t, "canDecrypt") /\ DecryptFacts("canDecrypt")
      \/ Leads(t, "decrypt") /\ DecryptFacts("decrypt")
  BY <1>4 DEF DecryptFacts
<1>6. {"canDecrypt", "decrypt"} \subseteq ReadTargets
  BY DEF ReadTargets, Calls, TransactionCalls
<1>7. \A next \in ReadTargets :
        Stops(t) \/ (Leads(t, next) /\ DecryptFacts(next)) => Learns(t)
  BY <1>1, <1>2, <1>3, LeadingLearns DEF Facts
<1> QED
  BY <1>5, <1>6, <1>7

LEMMA AwardReadsLearn ==
  ASSUME TasksTypeInv, NEW t \in Terminals, AwardReads(t),
         Facts(task[t].cmd, task[t].at, task[t].seen)
  PROVE  Learns(t)
<1>1. PICK c, at : c = task[t].cmd /\ at = task[t].at
  OBVIOUS
<1>2. c.name = "award" /\ at # "idle"
  BY <1>1 DEF AwardReads, Read, Runs
<1>3. AwardFacts(c, at) /\ flags # UNINITIALIZED
  BY <1>1, <1>2, OwnFacts
<1>4. \/ Stops(t)
      \/ /\ Leads(t, "bidCount")
         /\ Closed /\ c.rank \notin prizeAtRankAwarded /\ ByRankReady /\ CanAward
      \/ Leads(t, "award") /\ at = "bidCount" /\ c.rank < BidCount
  BY <1>1 DEF AwardReads, Read, Runs, Leads, Stops
<1>5. \/ Stops(t)
      \/ Leads(t, "bidCount") /\ AwardFacts(c, "bidCount")
      \/ Leads(t, "award") /\ AwardFacts(c, "award")
  BY <1>3, <1>4 DEF AwardFacts
<1>6. {"bidCount", "award"} \subseteq ReadTargets
  BY DEF ReadTargets, Calls, TransactionCalls
<1>7. \A next \in ReadTargets :
        Stops(t) \/ (Leads(t, next) /\ AwardFacts(c, next)) => Learns(t)
  BY <1>1, <1>2, <1>3, LeadingLearns DEF Facts
<1> QED
  BY <1>5, <1>6, <1>7

LEMMA ClaimReadsLearn ==
  ASSUME TasksTypeInv, NEW t \in Terminals, ClaimReads(t),
         Facts(task[t].cmd, task[t].at, task[t].seen)
  PROVE  Learns(t)
<1>1. PICK c, at : c = task[t].cmd /\ at = task[t].at
  OBVIOUS
<1>2. c.name = "claim" /\ at # "idle"
  BY <1>1 DEF ClaimReads, Read, Runs
<1>3. ClaimFacts(c, at) /\ flags # UNINITIALIZED
  BY <1>1, <1>2, OwnFacts
<1>4. \/ Stops(t)
      \/ Leads(t, "canClaim") /\ c.bidder \in Registered
      \/ /\ Leads(t, "claim") /\ at = "canClaim"
         /\ Closed /\ c.bidder \notin claimCompleted /\ ByIdReady /\ CanAward
  BY <1>1 DEF ClaimReads, Read, Runs, Leads, Stops
<1>5. \/ Stops(t)
      \/ Leads(t, "canClaim") /\ ClaimFacts(c, "canClaim")
      \/ Leads(t, "claim") /\ ClaimFacts(c, "claim")
  BY <1>3, <1>4 DEF ClaimFacts
<1>6. {"canClaim", "claim"} \subseteq ReadTargets
  BY DEF ReadTargets, Calls, TransactionCalls
<1>7. \A next \in ReadTargets :
        Stops(t) \/ (Leads(t, next) /\ ClaimFacts(c, next)) => Learns(t)
  BY <1>1, <1>2, <1>3, LeadingLearns DEF Facts
<1> QED
  BY <1>5, <1>6, <1>7

LEMMA BlindClaimReadsLearn ==
  ASSUME TasksTypeInv, NEW t \in Terminals, BlindClaimReads(t),
         Facts(task[t].cmd, task[t].at, task[t].seen)
  PROVE  Learns(t)
<1>1. PICK c, at : c = task[t].cmd /\ at = task[t].at
  OBVIOUS
<1>2. c.name = "blind-claim" /\ at # "idle"
  BY <1>1 DEF BlindClaimReads, Read, Runs
<1>3. BlindClaimFacts(c, at) /\ flags # UNINITIALIZED
  BY <1>1, <1>2, OwnFacts
<1>4. \/ Stops(t)
      \/ Leads(t, "clearUniformPrice") /\ c.bidder \in Registered
      \/ Leads(t, "canBlindClaim") /\ at = "clearUniformPrice"
      \/ /\ Leads(t, "completed") \/ Leads(t, "hasBlindClaimed")
         /\ at = "canBlindClaim" /\ Closed /\ ByRankReady /\ CanAward
      \/ Leads(t, "completed") /\ at = "hasBlindClaimed"
      \/ Leads(t, "blindClaim") /\ at = "completed"
  BY <1>1 DEF BlindClaimReads, Read, Runs, Leads, Stops
<1>5. \/ Stops(t)
      \/ Leads(t, "clearUniformPrice") /\ BlindClaimFacts(c, "clearUniformPrice")
      \/ Leads(t, "canBlindClaim") /\ BlindClaimFacts(c, "canBlindClaim")
      \/ Leads(t, "hasBlindClaimed") /\ BlindClaimFacts(c, "hasBlindClaimed")
      \/ Leads(t, "completed") /\ BlindClaimFacts(c, "completed")
      \/ Leads(t, "blindClaim") /\ BlindClaimFacts(c, "blindClaim")
  BY <1>3, <1>4 DEF BlindClaimFacts
<1>6. {"clearUniformPrice", "canBlindClaim", "hasBlindClaimed", "completed", "blindClaim"}
        \subseteq ReadTargets
  BY DEF ReadTargets, Calls, TransactionCalls
<1>7. \A next \in ReadTargets :
        Stops(t) \/ (Leads(t, next) /\ BlindClaimFacts(c, next)) => Learns(t)
  BY <1>1, <1>2, <1>3, LeadingLearns DEF Facts
<1> QED
  BY <1>5, <1>6, <1>7

LEMMA ReadsLearn ==
  ASSUME TasksTypeInv, BookInv, TimedTypeOK, NEW t \in Terminals, Reads(t),
         Facts(task[t].cmd, task[t].at, task[t].seen)
  PROVE  Learns(t)
BY StartReadsLearn, StopReadsLearn, CanBidReadsLearn, DepositReadsLearn,
   BidReadsLearn, ComputeReadsLearn, DecryptReadsLearn, AwardReadsLearn,
   ClaimReadsLearn, BlindClaimReadsLearn
   DEF Reads

\* A step that leaves the chain alone leaves the facts of the others alone, too.
LEMMA SameChainKeepsFacts ==
  ASSUME TasksTypeInv, FactsInv, UNCHANGED chainVars, NEW t \in Terminals, Moves(t),
         task[t].overtaken \/ Learns(t)
  PROVE  FactsInv'
<1> SUFFICES ASSUME NEW u \in Terminals, ~task'[u].overtaken
             PROVE  Facts(task[u].cmd, task[u].at, task[u].seen)'
  BY DEF FactsInv
<1>1. PICK c, at, seen : c = task'[u].cmd /\ at = task'[u].at /\ seen = task'[u].seen
  OBVIOUS
<1>2. CASE u = t /\ Ends(t)
  BY <1>2 DEF Ends, Idle, Facts
<1>3. CASE u = t /\ ~Ends(t)
  <2>1. c = task[t].cmd /\ task'[t].overtaken = task[t].overtaken
    BY <1>1, <1>3 DEF Moves, AdvancesTo
  <2>2. Facts(c, at, seen)
    BY <1>1, <1>3, <2>1 DEF Learns
  <2> QED
    BY <1>1, <2>2, SameChainSameFacts
<1>4. CASE u # t
  <2>1. c = task[u].cmd /\ at = task[u].at /\ seen = task[u].seen /\ task'[u] = task[u]
    BY <1>1, <1>4 DEF Moves, GoesOn
  <2>2. Facts(c, at, seen)
    BY <2>1 DEF FactsInv
  <2> QED
    BY <1>1, <2>2, SameChainSameFacts
<1> QED
  BY <1>2, <1>3, <1>4

LEMMA ReadsKeepFacts ==
  ASSUME TasksTypeInv, BookInv, TimedTypeOK, FactsInv, NEW t \in Terminals, Reads(t)
  PROVE  FactsInv'
<1>1. Moves(t) /\ UNCHANGED chainVars
  BY ReadsMove, ReadsChangeNothing
<1>2. task[t].overtaken \/ Learns(t)
  BY ReadsLearn DEF FactsInv
<1> QED
  BY <1>1, <1>2, SameChainKeepsFacts

LEMMA EndingKeepsFacts ==
  ASSUME TasksTypeInv, FactsInv, NEW t \in Terminals, Revert(t) \/ Interrupt(t)
  PROVE  FactsInv'
<1>1. UNCHANGED chainVars /\ Stops(t) /\ "idle" \in ReadTargets
  BY DEF Revert, Interrupt, Stops, ReadTargets, Calls
<1>2. Moves(t) /\ Ends(t)
  BY <1>1, LeadsOrStops
<1>3. Learns(t)
  BY <1>2 DEF Ends, Idle, Learns, Facts
<1> QED
  BY <1>1, <1>2, <1>3, SameChainKeepsFacts

LEMMA LaunchKeepsFacts ==
  ASSUME TasksTypeInv, FactsInv, NEW t \in Terminals, NEW c \in Commands[t], Launch(t, c)
  PROVE  FactsInv'
<1>1. PICK at : at = task'[t].at
  OBVIOUS
<1>2. c.name \in CommandNames /\ UNCHANGED chainVars
  BY LaunchBegins
<1>3. task'[t].cmd = c /\ task'[t].seen = 0
  <2>1. PICK first \in Calls \ {"verifyDeposit"} :
          task'[t] = [cmd |-> c, at |-> first, seen |-> 0, overtaken |-> FALSE]
    BY LaunchBegins
  <2> QED
    BY <2>1
<1>4. Facts(c, at, 0)
  BY <1>1, <1>2, LaunchBegins
     DEF CommandNames, Facts, StartFacts, StopFacts, BidFacts, ComputeFacts,
         DecryptFacts, AwardFacts, ClaimFacts, BlindClaimFacts, AfterRegistration,
         BeforeDeposit
<1>5. Facts(task[t].cmd, task[t].at, task[t].seen)'
  BY <1>1, <1>2, <1>3, <1>4, SameChainSameFacts
<1>6. ASSUME NEW u \in Terminals \ {t}, ~task'[u].overtaken
      PROVE  Facts(task[u].cmd, task[u].at, task[u].seen)'
  <2>1. PICK d, call, seen : d = task[u].cmd /\ call = task[u].at /\ seen = task[u].seen
    OBVIOUS
  <2>2. task'[u] = task[u]
    BY LaunchBegins
  <2>3. Facts(d, call, seen)
    BY <1>6, <2>1, <2>2 DEF FactsInv
  <2> QED
    BY <1>2, <2>1, <2>2, <2>3, SameChainSameFacts
<1> QED
  BY <1>5, <1>6 DEF FactsInv

\* The commands that run while something changes are overtaken.
LEMMA OvertakenAreMarked ==
  ASSUME TasksTypeInv, NEW T \in SUBSET Terminals, NEW u \in T
  PROVE  Overtaken(T)[u].at = "idle" \/ Overtaken(T)[u].overtaken
<1>1. PICK k : k = task[u]
  OBVIOUS
<1>2. PICK r : r = [k EXCEPT !.overtaken = TRUE]
  OBVIOUS
<1>3. k = [cmd |-> k.cmd, at |-> k.at, seen |-> k.seen, overtaken |-> k.overtaken]
  BY <1>1, TasksAreRecords
<1>4. r.overtaken
  BY <1>2, <1>3
<1>5. Overtaken(T)[u] = IF k = Idle THEN k ELSE r
  BY <1>1, <1>2 DEF Overtaken
<1> QED
  BY <1>4, <1>5 DEF Idle

LEMMA OutsideKeepsFacts ==
  ASSUME TasksTypeInv, task' = Overtaken(Terminals)
  PROVE  FactsInv'
<1>1. \A u \in Terminals : task'[u].at = "idle" \/ task'[u].overtaken
  BY OvertakenAreMarked
<1> QED
  BY <1>1 DEF FactsInv, Facts

LEMMA MinedKeepsFacts ==
  ASSUME TasksTypeInv, NEW t \in Terminals, NEW name, NEW call, NEW next \in Calls,
         Mined(t, name, call, next), NEW c, NEW seen,
         c = task[t].cmd, seen = task[t].seen,
         next = "idle" \/ task[t].overtaken \/ Facts(c, next, seen)'
  PROVE  FactsInv'
<1>1. ASSUME NEW u \in Terminals \ {t}
      PROVE  task'[u].at = "idle" \/ task'[u].overtaken
  <2>1. PICK over : over = Overtaken(Terminals \ {t})
    OBVIOUS
  <2>2. over = [v \in Terminals |-> over[v]]
    BY <2>1 DEF Overtaken
  <2>3. task'[u] = over[u]
    BY <2>1, <2>2 DEF Mined
  <2>4. (Terminals \ {t}) \in SUBSET Terminals
    OBVIOUS
  <2> QED
    BY <2>1, <2>3, <2>4, OvertakenAreMarked
<1>2. IF next = "idle" THEN Ends(t) ELSE AdvancesTo(t, next, task[t].seen)
  BY MinedMoves
<1>3. CASE next = "idle"
  BY <1>1, <1>2, <1>3 DEF Ends, Idle, FactsInv, Facts
<1>4. CASE next # "idle"
  <2>1. /\ task'[t].cmd = c /\ task'[t].at = next /\ task'[t].seen = seen
        /\ task'[t].overtaken = task[t].overtaken
    BY <1>2, <1>4 DEF AdvancesTo
  <2>2. task'[t].overtaken \/ Facts(task[t].cmd, task[t].at, task[t].seen)'
    BY <1>4, <2>1
  <2>3. \A u \in Terminals \ {t} :
          task'[u].overtaken \/ Facts(task[u].cmd, task[u].at, task[u].seen)'
    BY <1>1 DEF Facts
  <2> QED
    BY <2>2, <2>3 DEF FactsInv
<1> QED
  BY <1>3, <1>4

\* Its own approvals and deposit leave a command the facts it has.
LEMMA TransactionsKeepFacts ==
  ASSUME TasksTypeInv, FactsInv, NEW t \in Terminals, Transaction(t)
  PROVE  FactsInv'
<1>1. PICK c, seen : c = task[t].cmd /\ seen = task[t].seen
  OBVIOUS
<1>2. {"idle", "verifyApproval", "verifyDeposit"} \subseteq Calls
  BY DEF Calls
<1>3. CASE ApproveSale(t)
  <2>1. Mined(t, "start", "approve", "verifyApproval") /\ UNCHANGED auctionVars
    BY <1>3 DEF ApproveSale
  <2>2. c.name = "start" /\ task[t].at = "approve"
    BY <1>1, <2>1 DEF Mined, Runs
  <2>3. ASSUME ~task[t].overtaken
        PROVE  Facts(c, "verifyApproval", seen)'
    <3>1. StartFacts(c, "approve") /\ flags # UNINITIALIZED
      BY <1>1, <2>2, <2>3, OwnFacts DEF FactsInv
    <3>2. StartFacts(c, "verifyApproval")' /\ flags' # UNINITIALIZED
      BY <2>1, <3>1 DEF StartFacts, CanStart, auctionVars, timedVars, tokenVars
    <3> QED
      BY <2>2, <3>2 DEF Facts
  <2> QED
    BY <1>1, <1>2, <2>1, <2>3, MinedKeepsFacts
<1>4. CASE ApproveDeposit(t)
  <2>1. Mined(t, "bid", "approve", "verifyApproval") /\ UNCHANGED auctionVars
    BY <1>4 DEF ApproveDeposit
  <2>2. c.name = "bid" /\ task[t].at = "approve"
    BY <1>1, <2>1 DEF Mined, Runs
  <2>3. ASSUME ~task[t].overtaken
        PROVE  Facts(c, "verifyApproval", seen)'
    <3>1. BidFacts(c, "approve", seen) /\ flags # UNINITIALIZED
      BY <1>1, <2>2, <2>3, OwnFacts DEF FactsInv
    <3>2. /\ flags' = flags /\ IsOpen' = IsOpen /\ BidCount' = BidCount
          /\ paymentTokens' = paymentTokens
      BY <2>1, SameBookSameRanks
         DEF auctionVars, engineVars, timedVars, tokenVars, IsOpen, State
    <3>3. BidFacts(c, "verifyApproval", seen)'
      BY <3>1, <3>2
         DEF BidFacts, RequiredDeposit, AfterRegistration, BeforeDeposit
    <3> QED
      BY <2>2, <3>1, <3>2, <3>3 DEF Facts
  <2> QED
    BY <1>1, <1>2, <2>1, <2>3, MinedKeepsFacts
<1>5. CASE SendDeposit(t)
  <2>1. /\ Mined(t, "bid", "deposit", "verifyDeposit")
        /\ Deposit(task[t].cmd.bidder, MissingDeposit(t))
    BY <1>5 DEF SendDeposit
  <2>2. c.name = "bid" /\ task[t].at = "deposit"
    BY <1>1, <2>1 DEF Mined, Runs
  <2>3. ASSUME ~task[t].overtaken
        PROVE  Facts(c, "verifyDeposit", seen)'
    <3>1. BidFacts(c, "deposit", seen) /\ flags # UNINITIALIZED
      BY <1>1, <2>2, <2>3, OwnFacts DEF FactsInv
    <3>2. flags' = flags /\ IsOpen' = IsOpen /\ BidCount' = BidCount
      BY <2>1, SameBookSameRanks DEF Deposit, engineVars, timedVars, IsOpen, State
    <3>3. BidFacts(c, "verifyDeposit", seen)'
      BY <3>1, <3>2 DEF BidFacts, AfterRegistration, BeforeDeposit
    <3> QED
      BY <2>2, <3>1, <3>2, <3>3 DEF Facts
  <2> QED
    BY <1>1, <1>2, <2>1, <2>3, MinedKeepsFacts
<1>6. CASE \E name, call : Mined(t, name, call, "idle")
  BY <1>1, <1>2, <1>6, MinedKeepsFacts
<1>7. \/ ApproveSale(t) \/ ApproveDeposit(t) \/ SendDeposit(t)
      \/ \E name, call : Mined(t, name, call, "idle")
  BY DEF Transaction, SendStart, SendStop, SendApproval, SendBid, SendCancelBid,
         SendCompute, SendDecrypt, SendAward, SendClaim, SendBlindClaim
<1> QED
  BY <1>3, <1>4, <1>5, <1>6, <1>7

LEMMA StepKeepsFacts ==
  ASSUME TasksTypeInv, BookInv, TimedTypeOK, FactsInv, [TasksNext]_tasksVars
  PROVE  FactsInv'
<1>1. ASSUME NEW t \in Terminals,
             \/ \E c \in Commands[t] : Launch(t, c)
             \/ Reads(t) \/ Transaction(t) \/ Revert(t) \/ Interrupt(t)
      PROVE  FactsInv'
  BY <1>1, LaunchKeepsFacts, ReadsKeepFacts, TransactionsKeepFacts, EndingKeepsFacts
<1>2. CASE \/ Create \/ BlockMined
           \/ \E r \in requests : Outside(GatewayAnswers(r) \/ RequestLost(r))
  BY <1>2, OutsideKeepsFacts DEF Create, BlockMined, Outside
<1>3. CASE UNCHANGED tasksVars
  <2>1. UNCHANGED chainVars /\ task' = task
    BY <1>3 DEF tasksVars
  <2>2. ASSUME NEW u \in Terminals, ~task'[u].overtaken
        PROVE  Facts(task[u].cmd, task[u].at, task[u].seen)'
    <3>1. PICK c, at, seen : c = task[u].cmd /\ at = task[u].at /\ seen = task[u].seen
      OBVIOUS
    <3>2. Facts(c, at, seen)
      BY <2>1, <2>2, <3>1 DEF FactsInv
    <3> QED
      BY <2>1, <3>1, <3>2, SameChainSameFacts
  <2> QED
    BY <2>2 DEF FactsInv
<1> QED
  BY <1>1, <1>2, <1>3 DEF TasksNext

LEMMA RequiredReachesMinimum ==
  ASSUME TasksTypeInv, NEW t \in Terminals, task[t].cmd.name = "bid"
  PROVE  RequiredDeposit(task[t].cmd.offer) >= MinimumDeposit
<1>1. PICK offer : offer = task[t].cmd.offer
  OBVIOUS
<1>2. offer.price \in Nat /\ offer.quantity \in Nat
  BY <1>1, BidCommandsAreTyped, AuctionAssumption
<1>3. offer.price * offer.quantity \in Nat
  BY <1>2, ProductsAreNatural
<1>4. RequiredDeposit(offer) >= MinimumDeposit
  BY <1>3, AuctionAssumption DEF RequiredDeposit
<1> QED
  BY <1>1, <1>4

\* What a command may rely on is what the contract requires of the transaction that
\* it sends next.
LEMMA FactsAreEnough ==
  ASSUME TasksInv, AuctionInv, ClosingInv, NEW t \in Terminals,
         Facts(task[t].cmd, task[t].at, task[t].seen),
         task[t].at \in TransactionCalls, task[t].cmd.name # "cancel-bid"
  PROVE  Accepted(t)
<1>1. PICK c, at, seen : c = task[t].cmd /\ at = task[t].at /\ seen = task[t].seen
  OBVIOUS
<1>2. Facts(c, at, seen) /\ at \in TransactionCalls /\ at # "idle"
  BY <1>1 DEF TransactionCalls
<1>3. /\ flags # UNINITIALIZED
      /\ c.name = "start" => StartFacts(c, at)
      /\ c.name = "stop" => StopFacts(at)
      /\ c.name = "can-bid" => at \in {"status", "registered", "bidCount"}
      /\ c.name = "bid" => BidFacts(c, at, seen)
      /\ c.name = "compute" => ComputeFacts(at)
      /\ c.name = "decrypt-uniform-price" => DecryptFacts(at)
      /\ c.name = "award" => AwardFacts(c, at)
      /\ c.name = "claim" => ClaimFacts(c, at)
      /\ c.name = "blind-claim" => BlindClaimFacts(c, at)
  BY <1>2, OwnFacts
<1>4. \/ c.name \in {"start", "stop", "can-bid", "bid", "compute", "decrypt-uniform-price",
                     "award", "claim", "blind-claim"}
      \/ c.name = "approve" /\ at = "approval"
  BY <1>1, <1>2 DEF Facts
<1>5. CASE c.name = "start"
  <2>1. StartFacts(c, at) /\ at \in {"approve", "start"}
    BY <1>2, <1>3, <1>5 DEF StartFacts, TransactionCalls
  <2> QED
    BY <1>1, <1>5, <2>1 DEF Accepted, SaleAccepted, Runs, StartFacts
<1>6. CASE c.name = "stop"
  <2>1. at = "stop" /\ CanStop /\ State < INITIALIZED_STARTED_ENDED
    BY <1>2, <1>3, <1>6 DEF StopFacts, TransactionCalls
  <2>2. ~Over
    BY <2>1 DEF CanStop, Over, State, INITIALIZED_STARTED, INITIALIZED_STARTED_ENDED,
                INITIALIZED_STARTED_ENDED_TERMINATED
  <2> QED
    BY <1>1, <1>6, <2>1, <2>2 DEF Accepted, SaleAccepted, Runs, ClosingInv
<1>7. CASE c.name = "can-bid"
  BY <1>2, <1>3, <1>7 DEF TransactionCalls
<1>8. CASE c.name = "bid"
  <2>1. BidFacts(c, at, seen) /\ at \in {"approve", "deposit", "bid"}
    BY <1>2, <1>3, <1>8
       DEF BidFacts, AfterRegistration, BeforeDeposit, TransactionCalls
  <2>2. CASE at = "approve"
    BY <1>1, <1>8, <2>2 DEF Accepted, BiddingAccepted, Runs
  <2>3. CASE at = "deposit"
    BY <1>1, <1>8, <2>1, <2>3
       DEF Accepted, BiddingAccepted, Runs, BidFacts, BeforeDeposit, MissingDeposit
  <2>4. CASE at = "bid"
    <3>1. IsOpen /\ BidCount < MaximumBidCount
      BY <2>1, <2>4 DEF BidFacts, AfterRegistration
    <3>2. ~engineClosed
      BY <3>1, OpenIsNotOver DEF ClosingInv
    <3>3. c.bidder \notin Registered /\ balance[c.bidder] = RequiredDeposit(c.offer)
      BY <1>1, <1>8, <2>4 DEF TasksInv, BidTaskInv, AfterRegistration, AfterDeposit
    <3>4. RequiredDeposit(c.offer) >= MinimumDeposit
      BY <1>1, <1>8, RequiredReachesMinimum DEF TasksInv
    <3> QED
      BY <1>1, <1>8, <2>4, <3>1, <3>2, <3>3, <3>4 DEF Accepted, BiddingAccepted, Runs
  <2> QED
    BY <2>1, <2>2, <2>3, <2>4
<1>9. CASE c.name = "approve" /\ at = "approval"
  BY <1>1, <1>9 DEF Accepted, Runs
<1>10. CASE c.name = "compute"
  BY <1>1, <1>2, <1>3, <1>10
     DEF ComputeFacts, TransactionCalls, Accepted, SaleAccepted, Runs
<1>11. CASE c.name = "decrypt-uniform-price"
  BY <1>1, <1>2, <1>3, <1>11
     DEF DecryptFacts, TransactionCalls, Accepted, PaymentAccepted, Runs
<1>12. CASE c.name = "award"
  BY <1>1, <1>2, <1>3, <1>12
     DEF AwardFacts, TransactionCalls, Accepted, PaymentAccepted, Runs, CanPayRank
<1>13. CASE c.name = "claim"
  BY <1>1, <1>2, <1>3, <1>13
     DEF ClaimFacts, TransactionCalls, Accepted, PaymentAccepted, Runs
<1>14. CASE c.name = "blind-claim"
  <2>1. /\ at = "blindClaim" /\ c.bidder \in Registered
        /\ Closed /\ ByRankReady /\ CanAward
    BY <1>2, <1>3, <1>14 DEF BlindClaimFacts, TransactionCalls
  <2>2. NextBlindRank(c.bidder) < BidCount
    BY <2>1, BlindRanksAreLeft DEF AuctionInv, Registered
  <2> QED
    BY <1>1, <1>14, <2>1, <2>2 DEF Accepted, PaymentAccepted, Runs, CanPayRank
<1> QED
  BY <1>4, <1>5, <1>6, <1>7, <1>8, <1>9, <1>10, <1>11, <1>12, <1>13, <1>14

\* A transaction that is mined meets the requirements: none is rejected that the
\* contract would accept.
LEMMA MinedIsAccepted ==
  ASSUME TasksTypeInv, BookInv, BlindInv, NEW t \in Terminals, Transaction(t)
  PROVE  Accepted(t)
<1>1. PICK c, b : c = task[t].cmd /\ b = c.bidder
  OBVIOUS
<1> USE DEF Mined
<1>2. CASE ApproveSale(t) \/ SendApproval(t) \/ ApproveDeposit(t)
  BY <1>2 DEF ApproveSale, SendApproval, ApproveDeposit, Accepted
<1>3. CASE SendStart(t)
  BY <1>3 DEF SendStart, Start, TimedStart, Accepted, SaleAccepted
<1>4. CASE SendStop(t)
  BY <1>4 DEF SendStop, Stop, TimedStop, Accepted, SaleAccepted
<1>5. CASE SendDeposit(t)
  BY <1>5 DEF SendDeposit, Deposit, Deposited, Accepted, BiddingAccepted
<1>6. CASE SendBid(t)
  <2>1. Runs(t, "bid", "bid") /\ BidCount < MaximumBidCount /\ Bid(b, c.offer, 0)
    BY <1>1, <1>6 DEF SendBid
  <2>2. b \in Bidders
    BY <1>1, <2>1, BidCommandsAreTyped DEF Runs
  <2>3. balance[b] >= MinimumDeposit /\ IsOpen /\ ~engineClosed /\ b \notin Registered
    BY <2>1, <2>2, AuctionAssumption DEF Bid, BookInv, Registered
  <2> QED
    BY <1>1, <2>1, <2>3 DEF Accepted, BiddingAccepted
<1>7. CASE SendCancelBid(t)
  BY <1>7 DEF SendCancelBid, CancelBid, Accepted, BiddingAccepted
<1>8. CASE SendCompute(t) \/ SendDecrypt(t)
  BY <1>8
     DEF SendCompute, ComputeAuction, SendDecrypt, DecryptUniformPrice, Accepted,
         SaleAccepted, PaymentAccepted
<1>9. ASSUME NEW k, AwardRank(k)
      PROVE  CanPayRank(k)
  <2>1. PICK d \in Registered : Rank(d) = k
    BY <1>9 DEF AwardRank
  <2>2. k \in 0..(BidCount - 1) /\ BidCount \in Nat
    BY <2>1, RanksAreDistinct, BookIsFinite
  <2> QED
    BY <1>9, <2>2 DEF AwardRank, CanPayRank
<1>10. CASE SendAward(t)
  BY <1>9, <1>10 DEF SendAward, AwardPrizeAtRank, Accepted, PaymentAccepted
<1>11. CASE SendClaim(t)
  BY <1>11 DEF SendClaim, Claim, Accepted, PaymentAccepted
<1>12. CASE SendBlindClaim(t)
  <2>1. Runs(t, "blind-claim", "blindClaim") /\ BlindClaim(b)
    BY <1>1, <1>12 DEF SendBlindClaim
  <2>2. PICK rankPlusOne : rankPlusOne = IF blindRankPlusOne[b] # 0 THEN blindRankPlusOne[b]
                                         ELSE blindClaimRequestCount + 1
    OBVIOUS
  <2>3. rankPlusOne - 1 \in prizeAtRankAwarded \/ AwardRank(rankPlusOne - 1)
    BY <2>1, <2>2 DEF BlindClaim
  <2>4. Closed /\ (blindRankPlusOne[b] = 0 => b \in Registered)
    BY <2>1 DEF BlindClaim
  <2>5. rankPlusOne - 1 = NextBlindRank(b)
    BY <2>2 DEF NextBlindRank, BlindInv
  <2> QED
    BY <1>1, <1>9, <2>1, <2>3, <2>4, <2>5 DEF Accepted, PaymentAccepted
<1> QED
  BY <1>2, <1>3, <1>4, <1>5, <1>6, <1>7, <1>8, <1>10, <1>11, <1>12 DEF Transaction

-----------------------------------------------------------------------------
(* The theorems *)

LEMMA InitHasTasksInv == TasksInit => TasksInv /\ AuctionInv /\ TimedTypeOK /\ DepositsOnce
<1> SUFFICES ASSUME TasksInit PROVE TasksInv /\ AuctionInv /\ TimedTypeOK /\ DepositsOnce
  OBVIOUS
<1>1. AuctionInv /\ TimedTypeOK
  BY InitHasInv, TimedInitIsTyped DEF TasksInit, AuctionInit
<1>2. \A t \in Terminals : task[t] = Idle
  BY DEF TasksInit
<1>3. Idle \in TaskRecords
  <2>1. PICK none : none = Idle.cmd
    OBVIOUS
  <2>2. Idle = [cmd |-> none, at |-> "idle", seen |-> 0, overtaken |-> FALSE]
    BY <2>1 DEF Idle
  <2>3. none \in AllCommands
    BY <2>1 DEF AllCommands
  <2>4. "idle" \in Calls
    BY DEF Calls
  <2> QED
    BY <2>2, <2>3, <2>4 DEF TaskRecords
<1>4. TasksTypeInv
  BY <1>2, <1>3 DEF TasksTypeInv, TasksInit
<1>5. TasksInv
  BY <1>2, <1>4 DEF TasksInv, Idle
<1>6. DepositsOnce
  BY DEF DepositsOnce, TasksInit, AuctionInit, Registered, NoBid
<1> QED
  BY <1>1, <1>5, <1>6

\* The invariant of the commands and the contract together: what a bid command has
\* read holds until it has used it (auction.ts:237-300, utils.ts placeBid), because
\* only the bidder's own terminal moves the bidder's deposit before the bid is placed.
THEOREM TasksInvariant ==
  TasksSpec => [](TasksInv /\ AuctionInv /\ TimedTypeOK /\ DepositsOnce)
<1>1. /\ TasksInv /\ AuctionInv /\ TimedTypeOK /\ DepositsOnce
      /\ [TasksNext]_tasksVars
      => (TasksInv /\ AuctionInv /\ TimedTypeOK /\ DepositsOnce)'
  <2> SUFFICES ASSUME TasksInv, AuctionInv, TimedTypeOK, DepositsOnce, [TasksNext]_tasksVars
               PROVE  TasksInv' /\ AuctionInv' /\ TimedTypeOK' /\ DepositsOnce'
    OBVIOUS
  <2>1. [AuctionNext]_auctionVars
    BY StepsArePermitted DEF AuctionInv
  <2>2. AuctionInv' /\ TimedTypeOK'
    BY <2>1, StepKeepsInv, AuctionStepsAreTimedSteps, TimedStepsKeepTypes
  <2> QED
    BY <2>2, StepKeepsTasksInv, StepDepositsOnce
<1> QED
  BY <1>1, InitHasTasksInv, PTL DEF TasksSpec

\* The command line drives the auction contract by nothing but calls that the
\* contract provides for: whatever the commands, the interruptions and the answers
\* of the gateway, the auction behind them is one of FHEAuction.tla, and all that
\* is proved of it there holds.
THEOREM CommandsImplementAuction == TasksSpec => AuctionSpec
<1>1. TasksInit => AuctionInit
  BY DEF TasksInit
<1>2. TasksInv /\ AuctionInv /\ [TasksNext]_tasksVars => [AuctionNext]_auctionVars
  BY StepsArePermitted DEF AuctionInv
<1> QED
  BY <1>1, <1>2, TasksInvariant, PTL DEF TasksSpec, AuctionSpec

\* An approval and a deposit are found as they were sent when the bid command
\* looks at them again (TransactionsAreVerified of the runs).
THEOREM TransactionsAreAlwaysVerified == TasksSpec => []TransactionsAreVerified
<1>1. TasksInv /\ AuctionInv => TransactionsAreVerified
  <2> SUFFICES ASSUME TasksInv, AuctionInv, NEW t \in Terminals
               PROVE  /\ task[t].at = "verifyDeposit" =>
                           balance[task[t].cmd.bidder] = task[t].seen + MissingDeposit(t)
                      /\ Runs(t, "bid", "verifyApproval") =>
                           allowance[task[t].cmd.bidder] >= MissingDeposit(t)
    BY DEF TransactionsAreVerified
  <2>1. ASSUME task[t].at = "verifyDeposit"
        PROVE  balance[task[t].cmd.bidder] = task[t].seen + MissingDeposit(t)
    <3>1. task[t].cmd.name = "bid" /\ TasksTypeInv
      BY <2>1 DEF TasksInv
    <3>2. RequiredDeposit(task[t].cmd.offer) \in Nat /\ task[t].seen \in Nat
      BY <3>1, BidCommandsAreTyped
    <3>3. balance[task[t].cmd.bidder] = RequiredDeposit(task[t].cmd.offer)
      BY <2>1, <3>1 DEF TasksInv, BidTaskInv, AfterDeposit
    <3> QED
      BY <3>2, <3>3 DEF MissingDeposit
  <2>2. ASSUME Runs(t, "bid", "verifyApproval")
        PROVE  allowance[task[t].cmd.bidder] >= MissingDeposit(t)
    BY <2>2 DEF TasksInv, BidTaskInv, Runs
  <2> QED
    BY <2>1, <2>2
<1> QED
  BY <1>1, TasksInvariant, PTL

\* However often a bid command is interrupted and given again, at the same price or
\* another one, the bidder deposits what one bid requires (DepositsOnce of the runs).
THEOREM BiddersDepositOnce == TasksSpec => []DepositsOnce
BY TasksInvariant, PTL

\* Everybody who bids, claims and is awarded through the commands is paid what it is
\* owed, and the contract always holds the tokens for it.
THEOREM CommandsPayAsOwed == TasksSpec => [](PaidAsOwed /\ EscrowCoversDebts)
BY CommandsImplementAuction, EverybodyPaidAsOwed, EscrowAlwaysCovers, PTL

\* A command that nothing overtook since its first call sends no transaction that the
\* contract rejects: what its handler has checked, call by call (tasks/auction.ts), is
\* what the contract requires, and no step of its own undoes it (SoleCommandsAreAccepted
\* of the runs).
THEOREM SoleCommandsAlwaysAccepted == TasksSpec => []SoleCommandsAreAccepted
<1> DEFINE Inv == TasksInv /\ AuctionInv /\ TimedTypeOK /\ DepositsOnce
<1>1. TasksInit => ClosingInv /\ FactsInv
  <2> SUFFICES ASSUME TasksInit PROVE ClosingInv /\ FactsInv
    OBVIOUS
  <2>1. ClosingInv
    BY ClosingBegins DEF TasksInit
  <2>2. \A t \in Terminals : task[t].at = "idle"
    BY DEF TasksInit, Idle
  <2> QED
    BY <2>1, <2>2 DEF FactsInv, Facts
<1>2. Inv /\ ClosingInv /\ FactsInv /\ [TasksNext]_tasksVars => ClosingInv' /\ FactsInv'
  <2> SUFFICES ASSUME TasksInv, AuctionInv, TimedTypeOK, ClosingInv, FactsInv,
                      [TasksNext]_tasksVars
               PROVE  ClosingInv' /\ FactsInv'
    OBVIOUS
  <2>1. TasksTypeInv /\ BookInv
    BY DEF TasksInv, AuctionInv
  <2>2. [AuctionNext]_auctionVars
    BY <2>1, StepsArePermitted
  <2> QED
    BY <2>1, <2>2, ClosingStays, StepKeepsFacts
<1>3. Inv /\ ClosingInv /\ FactsInv => SoleCommandsAreAccepted
  BY FactsAreEnough DEF SoleCommandsAreAccepted, Rejected, FactsInv
<1>4. TasksSpec => []Inv
  BY TasksInvariant
<1> HIDE DEF Inv
<1> QED
  BY <1>1, <1>2, <1>3, <1>4, PTL DEF TasksSpec

\* Rejected and mined transactions are told apart: what the model rejects, by the
\* requirements written out in Accepted, no action of the contract provides for.
THEOREM RejectedAreNeverMined ==
  TasksSpec => [][\A t \in Terminals : Transaction(t) => ~Rejected(t)]_tasksVars
<1>1. TasksInv /\ AuctionInv => \A t \in Terminals : Transaction(t) => ~Rejected(t)
  BY MinedIsAccepted DEF Rejected, TasksInv, AuctionInv
<1> QED
  BY <1>1, TasksInvariant, PTL DEF TasksSpec
=============================================================================
