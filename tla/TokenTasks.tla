----------------------------- MODULE TokenTasks -----------------------------
(***************************************************************************)
(* The command line for moving funds between the accounts of the signers:  *)
(* tasks/erc20.ts, tasks/ethToken.ts and the two older transfer tasks,     *)
(* with the conversions of arguments of tasks/utils.ts.                    *)
(*                                                                         *)
(* The commands read balances one by one, decide what to send, send it and *)
(* report; commands in other terminals act in between.  One token stands   *)
(* for the payment and the auction token, which no command moves together. *)
(* Every transaction costs its sender a fee in ether.  A command whose     *)
(* arguments do not resolve prints an error and is no action.              *)
(***************************************************************************)
EXTENDS Integers, Sequences, FiniteSets

CONSTANTS
  Signers,         \* the accounts of getSigners(), in order
  Terminals,       \* where commands are run, one at a time
  Commands,        \* the commands that are given
  InitialTokens,
  InitialEther,
  GasFee,          \* what a transaction costs
  MaxSafeInteger   \* Number.MAX_SAFE_INTEGER

Accounts == {Signers[i] : i \in 1..Len(Signers)}
Deployer == Signers[1]

\* What can be typed for an account and for an amount.
AddressArgs == [form : {"address"}, account : Accounts]
                 \cup [form : {"index"}, index : Nat] \cup [form : {"typo", "word"}]
OptionalArgs == AddressArgs \cup [form : {"missing"}]
Amounts == [unit : {"none", "wei"}, number : Nat]
PlainAmounts == [unit : {"none"}, number : Nat]
BidAmounts == [unit : {"bid"}, price : Amounts, quantity : Nat]

CommandLines ==
  [name : {"transfer"}, from : OptionalArgs, to : AddressArgs,
   amount : Amounts \cup BidAmounts, dryRun : BOOLEAN]
    \cup [name : {"transfer-erc20-token"}, to : AddressArgs, amount : Nat]
    \cup [name : {"set-balance"}, account : AddressArgs, amount : PlainAmounts,
          dryRun : BOOLEAN]
    \cup [name : {"eth-transfer"}, from : OptionalArgs, to : AddressArgs,
          amount : Amounts]
    \cup [name : {"set-min-balance"}, account : AddressArgs, amount : Amounts,
          dryRun : BOOLEAN]

ASSUME TokenAssumption ==
  /\ Signers # <<>> /\ Signers \in Seq(Accounts)
  /\ Commands \subseteq CommandLines
  /\ InitialTokens \in [Accounts -> Nat] /\ InitialEther \in [Accounts -> Nat]
  /\ GasFee \in Nat /\ MaxSafeInteger \in Nat

VARIABLES
  tokens,   \* balances of the token
  ether,    \* balances of the native coin
  task      \* the command each terminal runs

fundsVars == <<tokens, ether>>
vars == <<tokens, ether, task>>

Idle == [cmd |-> [name |-> "none"], at |-> "idle"]

TokensInit ==
  /\ tokens = InitialTokens
  /\ ether = InitialEther
  /\ task = [t \in Terminals |-> Idle]

-----------------------------------------------------------------------------
(* Arguments: the values a conversion may return, none if it fails *)

\* Number.parseInt(arg, 10), which stops at the x of 0x and returns zero.
ParseInt(arg) ==
  CASE arg.form = "index"               -> {arg.index}
    [] arg.form \in {"address", "typo"} -> {0}
    [] arg.form = "word"                -> {}

SignerAt(arg) == {Signers[i + 1] : i \in ParseInt(arg) \cap 0..(Len(Signers) - 1)}

\* An address, checksum and all, or else the index of a signer; a mistyped
\* address is the signer with index zero.
ConvertToAddress(arg) ==
  IF arg.form = "address" THEN {arg.account} ELSE SignerAt(arg)

ConvertOrDefault(arg) ==
  IF arg.form = "missing" THEN {Deployer} ELSE ConvertToAddress(arg)

\* A number with its unit: the unit "wei" takes the last digit with it, and a
\* number that has no other digit does not parse.
ToWei(num) ==
  CASE num.unit = "none" -> {num.number}
    [] num.unit = "wei"  -> IF num.number < 10 THEN {} ELSE {num.number \div 10}

\* What erc20 transfer is to send.
AmountOf(c) ==
  IF c.amount.unit # "bid" THEN ToWei(c.amount)
  ELSE {price * c.amount.quantity : price \in ToWei(c.amount.price)}

-----------------------------------------------------------------------------
(* Launching a command *)

Begin(t, c, at, account, amount, from, to) ==
  /\ task[t] = Idle
  /\ task' = [task EXCEPT ![t] =
       [cmd |-> c, at |-> at, account |-> account, amount |-> amount, from |-> from,
        to |-> to, sum |-> amount, receiverBalance |-> 0, touched |-> {}]]
  /\ UNCHANGED fundsVars

\* erc20 transfer
LaunchTransfer(t, c) ==
  /\ c.name = "transfer" /\ ~c.dryRun
  /\ \E amount \in AmountOf(c), from \in ConvertOrDefault(c.from),
        to \in ConvertToAddress(c.to) :
       Begin(t, c, "sendTokens", to, amount, from, to)

\* transfer-payment-erc20-token and transfer-auction-erc20-token, whose amount
\* is a number of JavaScript.
LaunchOldTransfer(t, c) ==
  /\ c.name = "transfer-erc20-token"
  /\ c.amount <= MaxSafeInteger
  /\ \E to \in ConvertToAddress(c.to) :
       Begin(t, c, "sendTokens", to, c.amount, Deployer, to)

\* erc20 set-balance, whose amount, or price and quantity, are plain integers.
LaunchSetBalance(t, c) ==
  /\ c.name = "set-balance"
  /\ \E account \in ConvertToAddress(c.account) :
       Begin(t, c, "balance", account, c.amount.number, Deployer, account)

\* eth transfer takes indices only: an address is read as index zero.
LaunchEthTransfer(t, c) ==
  /\ c.name = "eth-transfer"
  /\ \E amount \in ToWei(c.amount), to \in SignerAt(c.to),
        from \in IF c.from.form = "missing" THEN {Deployer} ELSE SignerAt(c.from) :
       Begin(t, c, "sendEther", to, amount, from, to)

\* eth set-min-balance
LaunchSetMinBalance(t, c) ==
  /\ c.name = "set-min-balance"
  /\ \E amount \in ToWei(c.amount), account \in ConvertToAddress(c.account) :
       Begin(t, c, "etherBalance", account, amount, Deployer, account)

Launch(t, c) ==
  \/ LaunchTransfer(t, c)
  \/ LaunchOldTransfer(t, c)
  \/ LaunchSetBalance(t, c)
  \/ LaunchEthTransfer(t, c)
  \/ LaunchSetMinBalance(t, c)

-----------------------------------------------------------------------------
(* Reading *)

At(t, call) == task[t].at = call

Goes(t, command) ==
  /\ task' = [task EXCEPT ![t] = command]
  /\ UNCHANGED fundsVars

\* Mutant of ReadBalance: the account receives in either case.
ReadBalanceToReceive(t) ==
  LET balance == tokens[task[t].account]
      amount  == task[t].amount
  IN  /\ At(t, "balance")
      /\ Goes(t,
           IF balance = amount THEN Idle
           ELSE IF balance < amount
           THEN [task[t] EXCEPT !.at = "receiverBalance", !.sum = amount - balance]
           ELSE [task[t] EXCEPT !.at = "receiverBalance", !.sum = balance - amount])

\* What is missing comes from the deployer, what is too much goes to it.
ReadBalance(t) ==
  LET balance == tokens[task[t].account]
      amount  == task[t].amount
  IN  /\ At(t, "balance")
      /\ Goes(t,
           IF balance = amount THEN Idle
           ELSE IF balance < amount
           THEN [task[t] EXCEPT !.at = "receiverBalance", !.sum = amount - balance]
           ELSE [task[t] EXCEPT !.at = "receiverBalance", !.sum = balance - amount,
                                !.from = task[t].account, !.to = Deployer])

ReadReceiverBalance(t) ==
  /\ At(t, "receiverBalance")
  /\ Goes(t, [task[t] EXCEPT !.at = "senderBalance",
                             !.receiverBalance = tokens[task[t].to]])

\* The assertions about what the balances will be.
Expected(t) ==
  IF task[t].receiverBalance + task[t].sum = task[t].amount
  THEN task[t].to = task[t].account
  ELSE /\ tokens[task[t].from] - task[t].sum = task[t].amount
       /\ task[t].to = Deployer

ReadSenderBalance(t) ==
  /\ At(t, "senderBalance")
  /\ Goes(t,
       IF tokens[task[t].from] < task[t].sum THEN Idle
       ELSE IF ~Expected(t) THEN [task[t] EXCEPT !.at = "internalError"]
       ELSE IF task[t].cmd.dryRun THEN Idle
       ELSE [task[t] EXCEPT !.at = "sendTokens"])

\* Mutant of ReadEtherBalance: the fee is kept from what is sent.
ReadEtherBalanceLessFee(t) ==
  LET balance == ether[task[t].account]
  IN  /\ At(t, "etherBalance")
      /\ Goes(t, IF balance + GasFee >= task[t].amount THEN Idle
                 ELSE [task[t] EXCEPT !.at = "senderEther",
                                      !.sum = task[t].amount - balance - GasFee])

ReadEtherBalance(t) ==
  LET balance == ether[task[t].account]
  IN  /\ At(t, "etherBalance")
      /\ Goes(t, IF balance >= task[t].amount THEN Idle
                 ELSE [task[t] EXCEPT !.at = "senderEther",
                                      !.sum = task[t].amount - balance])

ReadSenderEther(t) ==
  /\ At(t, "senderEther")
  /\ Goes(t, IF ether[Deployer] < task[t].sum \/ task[t].cmd.dryRun THEN Idle
             ELSE [task[t] EXCEPT !.at = "sendEther"])

-----------------------------------------------------------------------------
(* Sending *)

Moved(balances, from, to, sum) ==
  [a \in Accounts |-> balances[a] - (IF a = from THEN sum ELSE 0)
                                  + (IF a = to THEN sum ELSE 0)]

\* The other commands that run are overtaken by a change of these accounts.
Sent(t, accounts) ==
  task' = [u \in Terminals |->
             IF u = t THEN [task[u] EXCEPT !.at = "report"]
             ELSE IF task[u] = Idle THEN Idle
             ELSE [task[u] EXCEPT !.touched = @ \cup accounts]]

\* Mutant of SendTokens: the amount is sent, not the difference.
SendTokensOfAmount(t) ==
  LET c == task[t]
  IN  /\ At(t, "sendTokens")
      /\ tokens[c.from] >= c.amount
      /\ ether[c.from] >= GasFee
      /\ tokens' = Moved(tokens, c.from, c.to, c.amount)
      /\ ether' = [ether EXCEPT ![c.from] = @ - GasFee]
      /\ Sent(t, {c.from, c.to})

SendTokens(t) ==
  LET c == task[t]
  IN  /\ At(t, "sendTokens")
      /\ tokens[c.from] >= c.sum
      /\ ether[c.from] >= GasFee
      /\ tokens' = Moved(tokens, c.from, c.to, c.sum)
      /\ ether' = [ether EXCEPT ![c.from] = @ - GasFee]
      /\ Sent(t, {c.from, c.to})

SendEther(t) ==
  LET c == task[t]
  IN  /\ At(t, "sendEther")
      /\ ether[c.from] >= c.sum + GasFee
      /\ ether' = [Moved(ether, c.from, c.to, c.sum) EXCEPT ![c.from] = @ - GasFee]
      /\ UNCHANGED tokens
      /\ Sent(t, {c.from, c.to})

Rejected(t) ==
  \/ At(t, "sendTokens") /\ (\/ tokens[task[t].from] < task[t].sum
                             \/ ether[task[t].from] < GasFee)
  \/ At(t, "sendEther") /\ ether[task[t].from] < task[t].sum + GasFee

Revert(t) ==
  /\ Rejected(t)
  /\ Goes(t, Idle)

\* The balances are printed, or the error.
Report(t) ==
  /\ At(t, "report") \/ At(t, "internalError")
  /\ Goes(t, Idle)

TokensNext ==
  \E t \in Terminals :
    \/ \E c \in Commands : Launch(t, c)
    \/ ReadBalance(t)
    \/ ReadReceiverBalance(t)
    \/ ReadSenderBalance(t)
    \/ ReadEtherBalance(t)
    \/ ReadSenderEther(t)
    \/ SendTokens(t)
    \/ SendEther(t)
    \/ Revert(t)
    \/ Report(t)

TokensSpec == TokensInit /\ [][TokensNext]_vars

-----------------------------------------------------------------------------
(* Properties *)

\* A set-balance command that reports, of an account other than the deployer's that
\* no other command touched, has set its balance, whatever happened to the
\* deployer's balance after it was read.
SetBalanceSets ==
  \A t \in Terminals :
    /\ task[t].cmd.name = "set-balance" /\ At(t, "report")
    /\ task[t].account \notin task[t].touched \cup {Deployer}
    => tokens[task[t].account] = task[t].amount

\* A set-min-balance command that reports leaves the account, if it was not touched
\* and is not the deployer's, with the minimum, the fees paid.
SetMinBalanceReaches ==
  \A t \in Terminals :
    /\ task[t].cmd.name = "set-min-balance" /\ At(t, "report")
    /\ task[t].account \notin task[t].touched \cup {Deployer}
    => ether[task[t].account] >= task[t].amount

\* A set-balance or set-min-balance command that nobody overtook fails after its
\* checks in two cases only: the sender owns what it sends but cannot pay the fee,
\* which is not checked; or the deployer and the account together own twice the
\* amount, and the assertion about the balances is made for the wrong one.
SoleCommandsFailAtEdgesOnly ==
  \A t \in Terminals :
    LET c == task[t]
    IN  /\ c.cmd.name \in {"set-balance", "set-min-balance"}
        /\ c.touched = {} /\ c.account # Deployer
        => /\ Rejected(t) =>
                LET sent == IF At(t, "sendEther") THEN c.sum ELSE 0
                IN  sent <= ether[c.from] /\ ether[c.from] < sent + GasFee
           /\ At(t, "internalError") =>
                tokens[Deployer] + tokens[c.account] = 2 * c.amount
=============================================================================
