-------------------------- MODULE TokenTasksProofs --------------------------
(***************************************************************************)
(* Proofs about TokenTasks.tla: the commands that set a balance do, as     *)
(* long as nobody else touches the account, and a command that nobody      *)
(* overtakes fails in two cases only, for any signers, commands, balances  *)
(* and fee, and with any number of terminals.                              *)
(***************************************************************************)
EXTENDS TokenTasks, TLAPS

Calls == {"balance", "receiverBalance", "senderBalance", "sendTokens",
          "etherBalance", "senderEther", "sendEther", "report", "internalError"}

RunningCommands ==
  [cmd : Commands, at : Calls, account : Accounts, amount : Nat, from : Accounts,
   to : Accounts, sum : Nat, receiverBalance : Nat, touched : SUBSET Accounts]

\* Where a set-balance command of an untouched account stands: the sum makes up
\* the difference to what the account has now, until it is sent.
SetBalancePhase(c, owned) ==
  c.cmd.name = "set-balance" =>
    /\ c.at \in {"balance", "receiverBalance", "senderBalance", "sendTokens",
                 "report", "internalError"}
    /\ c.at = "balance" => c.from = Deployer /\ c.to = c.account
    /\ c.account \notin c.touched \cup {Deployer} =>
         /\ c.at \in {"receiverBalance", "senderBalance", "sendTokens"} =>
              \/ /\ c.from = Deployer /\ c.to = c.account
                 /\ owned[c.account] + c.sum = c.amount
              \/ /\ c.from = c.account /\ c.to = Deployer
                 /\ owned[c.account] - c.sum = c.amount
         /\ c.at = "report" => owned[c.account] = c.amount

\* The same for set-min-balance.
SetMinBalancePhase(c, owned) ==
  c.cmd.name = "set-min-balance" =>
    /\ c.at \in {"etherBalance", "senderEther", "sendEther", "report"}
    /\ c.from = Deployer /\ c.to = c.account
    /\ c.account \notin c.touched \cup {Deployer} =>
         /\ c.at \in {"senderEther", "sendEther"} =>
              owned[c.account] + c.sum >= c.amount
         /\ c.at = "report" => owned[c.account] >= c.amount

CommandOK(c, ownedTokens, ownedEther) ==
  \/ c = Idle
  \/ /\ c \in RunningCommands
     /\ SetBalancePhase(c, ownedTokens)
     /\ SetMinBalancePhase(c, ownedEther)

\* The inductive invariant.
TokensInv ==
  /\ tokens \in [Accounts -> Nat]
  /\ ether \in [Accounts -> Nat]
  /\ task = [t \in Terminals |-> task[t]]
  /\ \A t \in Terminals : CommandOK(task[t], tokens, ether)

-----------------------------------------------------------------------------

LEMMA DeployerIsAccount == Deployer \in Accounts
  <1>1. Len(Signers) \in Nat /\ Len(Signers) # 0
    BY TokenAssumption
  <1> QED BY <1>1 DEF Deployer, Accounts

LEMMA SignersAreAccounts == ASSUME NEW arg PROVE SignerAt(arg) \subseteq Accounts
  <1>1. Len(Signers) \in Nat
    BY TokenAssumption
  <1>2. ASSUME NEW i \in 0..(Len(Signers) - 1) PROVE Signers[i + 1] \in Accounts
    BY <1>1, <1>2, i + 1 \in 1..Len(Signers) DEF Accounts
  <1> QED BY <1>2 DEF SignerAt

LEMMA ArgumentsAreAccounts ==
  /\ \A arg \in AddressArgs : ConvertToAddress(arg) \subseteq Accounts
  /\ \A arg \in OptionalArgs : ConvertOrDefault(arg) \subseteq Accounts
  <1>1. ASSUME NEW arg \in AddressArgs PROVE ConvertToAddress(arg) \subseteq Accounts
    BY SignersAreAccounts DEF AddressArgs, ConvertToAddress
  <1>2. ASSUME NEW arg \in OptionalArgs PROVE ConvertOrDefault(arg) \subseteq Accounts
    <2>1. CASE arg.form = "missing"
      BY <2>1, DeployerIsAccount DEF ConvertOrDefault
    <2>2. CASE arg.form # "missing"
      <3>1. arg \in AddressArgs
        BY <2>2 DEF OptionalArgs
      <3> QED BY <3>1, <1>1, <2>2 DEF ConvertOrDefault
    <2> QED BY <2>1, <2>2
  <1> QED BY <1>1, <1>2

LEMMA AmountsAreNaturals ==
  /\ \A num \in Amounts : ToWei(num) \subseteq Nat
  /\ \A c : c.amount \in Amounts \cup BidAmounts => AmountOf(c) \subseteq Nat
  <1>1. ASSUME NEW num \in Amounts PROVE ToWei(num) \subseteq Nat
    <2>1. num.number \in Nat /\ num.unit \in {"none", "wei"}
      BY DEF Amounts
    <2>2. num.number \div 10 \in Nat
      BY <2>1
    <2> QED BY <2>1, <2>2 DEF ToWei
  <1>2. ASSUME NEW c, c.amount \in Amounts \cup BidAmounts PROVE AmountOf(c) \subseteq Nat
    <2>1. CASE c.amount.unit # "bid"
      <3>1. c.amount \in Amounts
        BY <1>2, <2>1 DEF BidAmounts
      <3> QED BY <3>1, <1>1, <2>1 DEF AmountOf
    <2>2. CASE c.amount.unit = "bid"
      <3>1. c.amount.price \in Amounts /\ c.amount.quantity \in Nat
        BY <1>2, <2>2 DEF Amounts, BidAmounts
      <3>2. ASSUME NEW price \in ToWei(c.amount.price) PROVE price * c.amount.quantity \in Nat
        <4>1. price \in Nat
          BY <3>1, <1>1
        <4> QED BY <3>1, <4>1
      <3> QED BY <2>2, <3>2 DEF AmountOf
    <2> QED BY <2>1, <2>2
  <1> QED BY <1>1, <1>2

-----------------------------------------------------------------------------
(* What the invariant says of one command, and how it is kept *)

LEMMA CommandTypes ==
  ASSUME TokensInv, NEW t \in Terminals, task[t] # Idle
  PROVE  /\ task[t] \in RunningCommands
         /\ SetBalancePhase(task[t], tokens)
         /\ SetMinBalancePhase(task[t], ether)
  BY DEF TokensInv, CommandOK

\* A step of one terminal that moves nothing.
LEMMA GoesKeepsInv ==
  ASSUME TokensInv, NEW t \in Terminals, NEW command, Goes(t, command),
         CommandOK(command, tokens, ether)
  PROVE  TokensInv'
  <1>1. tokens' = tokens /\ ether' = ether
    BY DEF Goes, fundsVars
  <1>2. /\ task' = [task EXCEPT ![t] = command]
        /\ task = [u \in Terminals |-> task[u]]
    BY DEF Goes, TokensInv
  <1>3. task' = [u \in Terminals |-> IF u = t THEN command ELSE task[u]]
    BY <1>2
  <1>4. \A u \in Terminals : CommandOK(task[u], tokens, ether)'
    BY <1>1, <1>3 DEF TokensInv, CommandOK, SetBalancePhase, SetMinBalancePhase
  <1>5. task' = [u \in Terminals |-> task'[u]]
    BY <1>3
  <1> QED BY <1>1, <1>4, <1>5 DEF TokensInv

LEMMA BeginKeepsInv ==
  ASSUME TokensInv, NEW t \in Terminals, NEW c \in Commands, NEW at \in Calls,
         NEW account \in Accounts, NEW amount \in Nat,
         NEW from \in Accounts, NEW to \in Accounts,
         Begin(t, c, at, account, amount, from, to),
         c.name = "set-balance" =>
           at = "balance" /\ from = Deployer /\ to = account,
         c.name = "set-min-balance" =>
           at = "etherBalance" /\ from = Deployer /\ to = account
  PROVE  TokensInv'
  <1> DEFINE command ==
        [cmd |-> c, at |-> at, account |-> account, amount |-> amount, from |-> from,
         to |-> to, sum |-> amount, receiverBalance |-> 0, touched |-> {}]
  <1>1. Goes(t, command)
    BY DEF Begin, Goes
  <1>2. command \in RunningCommands
    BY DEF RunningCommands
  <1>3. SetBalancePhase(command, tokens) /\ SetMinBalancePhase(command, ether)
    BY DEF SetBalancePhase, SetMinBalancePhase
  <1>4. CommandOK(command, tokens, ether)
    BY <1>2, <1>3 DEF CommandOK
  <1> QED BY <1>1, <1>4, GoesKeepsInv

LEMMA CommandLineTypes ==
  ASSUME NEW c \in Commands
  PROVE  /\ c.name = "transfer" =>
              /\ c.from \in OptionalArgs /\ c.to \in AddressArgs
              /\ c.amount \in Amounts \cup BidAmounts
         /\ c.name = "transfer-erc20-token" => c.to \in AddressArgs /\ c.amount \in Nat
         /\ c.name = "set-balance" =>
              c.account \in AddressArgs /\ c.amount.number \in Nat
         /\ c.name = "eth-transfer" => c.amount \in Amounts
         /\ c.name = "set-min-balance" => c.account \in AddressArgs /\ c.amount \in Amounts
  BY TokenAssumption DEF CommandLines, PlainAmounts

LEMMA LaunchKeepsInv ==
  ASSUME TokensInv, NEW t \in Terminals, NEW c \in Commands, Launch(t, c)
  PROVE  TokensInv'
  <1> USE DeployerIsAccount, CommandLineTypes, ArgumentsAreAccounts, AmountsAreNaturals
  <1>1. CASE LaunchTransfer(t, c)
    <2>1. c.name = "transfer"
      BY <1>1 DEF LaunchTransfer
    <2>2. PICK amount \in AmountOf(c), from \in ConvertOrDefault(c.from),
               to \in ConvertToAddress(c.to) :
            Begin(t, c, "sendTokens", to, amount, from, to)
      BY <1>1 DEF LaunchTransfer
    <2>3. amount \in Nat /\ from \in Accounts /\ to \in Accounts
      BY <2>1, <2>2
    <2> QED BY <2>1, <2>2, <2>3, BeginKeepsInv DEF Calls
  <1>2. CASE LaunchOldTransfer(t, c)
    <2>1. c.name = "transfer-erc20-token"
      BY <1>2 DEF LaunchOldTransfer
    <2>2. PICK to \in ConvertToAddress(c.to) :
            Begin(t, c, "sendTokens", to, c.amount, Deployer, to)
      BY <1>2 DEF LaunchOldTransfer
    <2>3. c.amount \in Nat /\ to \in Accounts
      BY <2>1, <2>2
    <2> QED BY <2>1, <2>2, <2>3, BeginKeepsInv DEF Calls
  <1>3. CASE LaunchSetBalance(t, c)
    <2>1. c.name = "set-balance"
      BY <1>3 DEF LaunchSetBalance
    <2>2. PICK account \in ConvertToAddress(c.account) :
            Begin(t, c, "balance", account, c.amount.number, Deployer, account)
      BY <1>3 DEF LaunchSetBalance
    <2>3. c.amount.number \in Nat /\ account \in Accounts
      BY <2>1, <2>2
    <2> QED BY <2>1, <2>2, <2>3, BeginKeepsInv DEF Calls
  <1>4. CASE LaunchEthTransfer(t, c)
    <2>1. c.name = "eth-transfer"
      BY <1>4 DEF LaunchEthTransfer
    <2>2. PICK amount \in ToWei(c.amount), to \in SignerAt(c.to),
               from \in IF c.from.form = "missing" THEN {Deployer} ELSE SignerAt(c.from) :
            Begin(t, c, "sendEther", to, amount, from, to)
      BY <1>4 DEF LaunchEthTransfer
    <2>3. amount \in Nat /\ from \in Accounts /\ to \in Accounts
      BY <2>1, <2>2, SignersAreAccounts
    <2> QED BY <2>1, <2>2, <2>3, BeginKeepsInv DEF Calls
  <1>5. CASE LaunchSetMinBalance(t, c)
    <2>1. c.name = "set-min-balance"
      BY <1>5 DEF LaunchSetMinBalance
    <2>2. PICK amount \in ToWei(c.amount), account \in ConvertToAddress(c.account) :
            Begin(t, c, "etherBalance", account, amount, Deployer, account)
      BY <1>5 DEF LaunchSetMinBalance
    <2>3. amount \in Nat /\ account \in Accounts
      BY <2>1, <2>2
    <2> QED BY <2>1, <2>2, <2>3, BeginKeepsInv DEF Calls
  <1> QED BY <1>1, <1>2, <1>3, <1>4, <1>5 DEF Launch

-----------------------------------------------------------------------------
(* Reads *)

LEMMA IdleIsOK == CommandOK(Idle, tokens, ether)
  BY DEF CommandOK

LEMMA RunningIsNotIdle ==
  ASSUME NEW t, NEW call \in Calls, At(t, call)
  PROVE  task[t] # Idle
  BY DEF At, Idle, Calls

LEMMA FundsAreNaturals ==
  ASSUME TokensInv, NEW a \in Accounts
  PROVE  tokens[a] \in Nat /\ ether[a] \in Nat
  BY DEF TokensInv

LEMMA ReadBalanceKeepsInv ==
  ASSUME TokensInv, NEW t \in Terminals, ReadBalance(t)
  PROVE  TokensInv'
  <1> DEFINE c == task[t]
             balance == tokens[c.account]
             less == [c EXCEPT !.at = "receiverBalance", !.sum = c.amount - balance]
             more == [c EXCEPT !.at = "receiverBalance", !.sum = balance - c.amount,
                               !.from = c.account, !.to = Deployer]
  <1>1. At(t, "balance") /\ c # Idle
    BY RunningIsNotIdle DEF ReadBalance, Calls
  <1>2. c \in RunningCommands /\ SetBalancePhase(c, tokens) /\ SetMinBalancePhase(c, ether)
    BY <1>1, CommandTypes
  <1>3. c.cmd.name # "set-min-balance"
    BY <1>1, <1>2 DEF SetMinBalancePhase, At
  <1>4. balance \in Nat /\ c.amount \in Nat /\ c.account \in Accounts
    BY <1>2, FundsAreNaturals DEF RunningCommands
  <1>5. CASE balance = c.amount
    BY <1>5, IdleIsOK, GoesKeepsInv DEF ReadBalance
  <1>6. CASE balance < c.amount
    <2>1. Goes(t, less)
      BY <1>4, <1>6 DEF ReadBalance
    <2>2. c.amount - balance \in Nat
      BY <1>4, <1>6
    <2>3. less \in RunningCommands
      BY <1>2, <2>2 DEF RunningCommands, Calls
    <2> QED
      <3>1. CASE c.cmd.name = "set-balance"
        \* The command still has the sender and the receiver it began with.
        <4>1. c.from = Deployer /\ c.to = c.account
          BY <1>1, <1>2, <3>1 DEF SetBalancePhase, At
        <4>2. less.from = c.from /\ less.to = c.to /\ less.account = c.account /\ less.amount = c.amount
              /\ less.sum = c.amount - balance /\ less.at = "receiverBalance"
              /\ less.touched = c.touched /\ less.cmd = c.cmd
          BY <1>2 DEF RunningCommands
        <4>3. SetBalancePhase(less, tokens) /\ SetMinBalancePhase(less, ether)
          BY <4>1, <4>2, <1>3, <1>4 DEF SetBalancePhase, SetMinBalancePhase
        <4> QED BY <2>1, <2>3, <4>3, GoesKeepsInv DEF CommandOK
      <3>2. CASE c.cmd.name # "set-balance"
        <4>1. less.cmd = c.cmd
          BY <1>2 DEF RunningCommands
        <4>2. SetBalancePhase(less, tokens) /\ SetMinBalancePhase(less, ether)
          BY <4>1, <3>2, <1>3 DEF SetBalancePhase, SetMinBalancePhase
        <4> QED BY <2>1, <2>3, <4>2, GoesKeepsInv DEF CommandOK
      <3> QED BY <3>1, <3>2
  <1>7. CASE balance > c.amount
    <2>1. Goes(t, more)
      BY <1>4, <1>7 DEF ReadBalance
    <2>2. balance - c.amount \in Nat
      BY <1>4, <1>7
    <2>3. more \in RunningCommands
      BY <1>2, <2>2, DeployerIsAccount DEF RunningCommands, Calls
    <2>4. more.from = c.account /\ more.to = Deployer /\ more.account = c.account
          /\ more.amount = c.amount /\ more.sum = balance - c.amount
          /\ more.at = "receiverBalance" /\ more.cmd = c.cmd
      BY <1>2 DEF RunningCommands
    <2>5. SetBalancePhase(more, tokens) /\ SetMinBalancePhase(more, ether)
      BY <2>4, <1>3, <1>4 DEF SetBalancePhase, SetMinBalancePhase
    <2> QED BY <2>1, <2>3, <2>5, GoesKeepsInv DEF CommandOK
  <1> QED BY <1>4, <1>5, <1>6, <1>7

LEMMA ReadReceiverBalanceKeepsInv ==
  ASSUME TokensInv, NEW t \in Terminals, ReadReceiverBalance(t)
  PROVE  TokensInv'
  <1> DEFINE c == task[t]
             next == [c EXCEPT !.at = "senderBalance", !.receiverBalance = tokens[c.to]]
  <1>1. At(t, "receiverBalance") /\ Goes(t, next) /\ c # Idle
    BY RunningIsNotIdle DEF ReadReceiverBalance, Calls
  <1>2. c \in RunningCommands /\ SetBalancePhase(c, tokens) /\ SetMinBalancePhase(c, ether)
    BY <1>1, CommandTypes
  <1>3. tokens[c.to] \in Nat
    BY <1>2, FundsAreNaturals DEF RunningCommands
  <1>4. next \in RunningCommands
    BY <1>2, <1>3 DEF RunningCommands, Calls
  <1>5. next.from = c.from /\ next.to = c.to /\ next.account = c.account
        /\ next.amount = c.amount /\ next.sum = c.sum /\ next.touched = c.touched
        /\ next.cmd = c.cmd /\ next.at = "senderBalance"
    BY <1>2 DEF RunningCommands
  <1>6. SetBalancePhase(next, tokens) /\ SetMinBalancePhase(next, ether)
    BY <1>1, <1>2, <1>5 DEF SetBalancePhase, SetMinBalancePhase, At
  <1> QED BY <1>1, <1>4, <1>6, GoesKeepsInv DEF CommandOK

LEMMA ReadSenderBalanceKeepsInv ==
  ASSUME TokensInv, NEW t \in Terminals, ReadSenderBalance(t)
  PROVE  TokensInv'
  <1> DEFINE c == task[t]
             next(call) == [c EXCEPT !.at = call]
  <1>1. /\ At(t, "senderBalance") /\ c # Idle
        /\ Goes(t, Idle) \/ Goes(t, next("internalError")) \/ Goes(t, next("sendTokens"))
    BY RunningIsNotIdle DEF ReadSenderBalance, Calls
  <1>2. c \in RunningCommands /\ SetBalancePhase(c, tokens) /\ SetMinBalancePhase(c, ether)
    BY <1>1, CommandTypes
  <1>3. ASSUME NEW call \in {"internalError", "sendTokens"}
        PROVE  CommandOK(next(call), tokens, ether)
    <2>1. next(call) \in RunningCommands
      BY <1>2, <1>3 DEF RunningCommands, Calls
    <2>2. next(call).from = c.from /\ next(call).to = c.to
          /\ next(call).account = c.account /\ next(call).amount = c.amount
          /\ next(call).sum = c.sum /\ next(call).touched = c.touched
          /\ next(call).cmd = c.cmd /\ next(call).at = call
      BY <1>2 DEF RunningCommands
    <2>3. SetBalancePhase(next(call), tokens) /\ SetMinBalancePhase(next(call), ether)
      BY <1>1, <1>2, <1>3, <2>2 DEF SetBalancePhase, SetMinBalancePhase, At
    <2> QED BY <2>1, <2>3 DEF CommandOK
  <1>4. /\ CommandOK(next("internalError"), tokens, ether)
        /\ CommandOK(next("sendTokens"), tokens, ether)
    BY <1>3
  <1> QED BY <1>1, <1>4, IdleIsOK, GoesKeepsInv

LEMMA ReadEtherBalanceKeepsInv ==
  ASSUME TokensInv, NEW t \in Terminals, ReadEtherBalance(t)
  PROVE  TokensInv'
  <1> DEFINE c == task[t]
             balance == ether[c.account]
             next == [c EXCEPT !.at = "senderEther", !.sum = c.amount - balance]
  <1>1. At(t, "etherBalance") /\ c # Idle
    BY RunningIsNotIdle DEF ReadEtherBalance, Calls
  <1>2. c \in RunningCommands /\ SetBalancePhase(c, tokens) /\ SetMinBalancePhase(c, ether)
    BY <1>1, CommandTypes
  <1>3. c.cmd.name # "set-balance"
    BY <1>1, <1>2 DEF SetBalancePhase, At
  <1>4. balance \in Nat /\ c.amount \in Nat
    BY <1>2, FundsAreNaturals DEF RunningCommands
  <1>5. CASE balance >= c.amount
    BY <1>5, IdleIsOK, GoesKeepsInv DEF ReadEtherBalance
  <1>6. CASE balance < c.amount
    <2>1. Goes(t, next)
      BY <1>4, <1>6 DEF ReadEtherBalance
    <2>2. c.amount - balance \in Nat
      BY <1>4, <1>6
    <2>3. next \in RunningCommands
      BY <1>2, <2>2 DEF RunningCommands, Calls
    <2>4. next.from = c.from /\ next.to = c.to /\ next.account = c.account
          /\ next.amount = c.amount /\ next.sum = c.amount - balance
          /\ next.cmd = c.cmd /\ next.at = "senderEther"
      BY <1>2 DEF RunningCommands
    <2>5. SetBalancePhase(next, tokens) /\ SetMinBalancePhase(next, ether)
      BY <1>2, <1>3, <1>4, <2>4 DEF SetBalancePhase, SetMinBalancePhase
    <2> QED BY <2>1, <2>3, <2>5, GoesKeepsInv DEF CommandOK
  <1> QED BY <1>4, <1>5, <1>6

LEMMA ReadSenderEtherKeepsInv ==
  ASSUME TokensInv, NEW t \in Terminals, ReadSenderEther(t)
  PROVE  TokensInv'
  <1> DEFINE c == task[t]
             next == [c EXCEPT !.at = "sendEther"]
  <1>1. At(t, "senderEther") /\ c # Idle /\ (Goes(t, Idle) \/ Goes(t, next))
    BY RunningIsNotIdle DEF ReadSenderEther, Calls
  <1>2. c \in RunningCommands /\ SetBalancePhase(c, tokens) /\ SetMinBalancePhase(c, ether)
    BY <1>1, CommandTypes
  <1>3. next \in RunningCommands
    BY <1>2 DEF RunningCommands, Calls
  <1>4. next.from = c.from /\ next.to = c.to /\ next.account = c.account
        /\ next.amount = c.amount /\ next.sum = c.sum /\ next.touched = c.touched
        /\ next.cmd = c.cmd /\ next.at = "sendEther"
    BY <1>2 DEF RunningCommands
  <1>5. SetBalancePhase(next, tokens) /\ SetMinBalancePhase(next, ether)
    BY <1>1, <1>2, <1>4 DEF SetBalancePhase, SetMinBalancePhase, At
  <1> QED BY <1>1, <1>3, <1>5, IdleIsOK, GoesKeepsInv DEF CommandOK

-----------------------------------------------------------------------------
(* Transactions *)

LEMMA MovedFunds ==
  ASSUME NEW owned \in [Accounts -> Nat], NEW from \in Accounts, NEW to \in Accounts,
         NEW sum \in Nat, owned[from] >= sum
  PROVE  LET new == Moved(owned, from, to, sum)
         IN  /\ new \in [Accounts -> Nat]
             /\ \A a \in Accounts \ {from, to} : new[a] = owned[a]
             /\ from # to => new[to] = owned[to] + sum /\ new[from] = owned[from] - sum
             /\ from = to => new = owned
  BY DEF Moved

\* The commands in the other terminals know that they were overtaken.
LEMMA OthersKeepPhase ==
  ASSUME TokensInv, NEW u \in Terminals, task[u] # Idle,
         NEW newTokens \in [Accounts -> Nat], NEW newEther \in [Accounts -> Nat],
         NEW accounts \in SUBSET Accounts,
         \A a \in Accounts \ accounts : newTokens[a] = tokens[a] /\ newEther[a] = ether[a]
  PROVE  CommandOK([task[u] EXCEPT !.touched = @ \cup accounts], newTokens, newEther)
  <1> DEFINE c == task[u]
             next == [c EXCEPT !.touched = @ \cup accounts]
  <1>1. c \in RunningCommands /\ SetBalancePhase(c, tokens) /\ SetMinBalancePhase(c, ether)
    BY CommandTypes
  <1>2. next \in RunningCommands
    BY <1>1 DEF RunningCommands
  <1>3. next.from = c.from /\ next.to = c.to /\ next.account = c.account
        /\ next.amount = c.amount /\ next.sum = c.sum /\ next.cmd = c.cmd
        /\ next.at = c.at /\ next.touched = c.touched \cup accounts
        /\ c.account \in Accounts
    BY <1>1 DEF RunningCommands
  <1>4. SetBalancePhase(next, newTokens)
    BY <1>1, <1>3 DEF SetBalancePhase
  <1>5. SetMinBalancePhase(next, newEther)
    BY <1>1, <1>3 DEF SetMinBalancePhase
  <1> QED BY <1>2, <1>4, <1>5 DEF CommandOK

LEMMA SentKeepsInv ==
  ASSUME TokensInv, NEW t \in Terminals, NEW accounts \in SUBSET Accounts,
         Sent(t, accounts),
         tokens' \in [Accounts -> Nat], ether' \in [Accounts -> Nat],
         \A a \in Accounts \ accounts : tokens'[a] = tokens[a] /\ ether'[a] = ether[a],
         CommandOK([task[t] EXCEPT !.at = "report"], tokens', ether')
  PROVE  TokensInv'
  <1>1. task' = [u \in Terminals |->
                   IF u = t THEN [task[u] EXCEPT !.at = "report"]
                   ELSE IF task[u] = Idle THEN Idle
                   ELSE [task[u] EXCEPT !.touched = @ \cup accounts]]
    BY DEF Sent
  <1>2. task' = [u \in Terminals |-> task'[u]]
    BY <1>1
  <1>3. ASSUME NEW u \in Terminals PROVE CommandOK(task'[u], tokens', ether')
    <2>1. CASE u = t
      BY <1>1, <2>1
    <2>2. CASE u # t /\ task[u] = Idle
      BY <1>1, <2>2 DEF CommandOK
    <2>3. CASE u # t /\ task[u] # Idle
      <3>1. task'[u] = [task[u] EXCEPT !.touched = @ \cup accounts]
        BY <1>1, <2>3
      <3> QED BY <3>1, <2>3, OthersKeepPhase
    <2> QED BY <2>1, <2>2, <2>3
  <1>4. \A u \in Terminals : CommandOK(task[u], tokens, ether)'
    BY <1>3 DEF CommandOK, SetBalancePhase, SetMinBalancePhase
  <1> QED BY <1>2, <1>4 DEF TokensInv

LEMMA SendTokensKeepsInv ==
  ASSUME TokensInv, NEW t \in Terminals, SendTokens(t)
  PROVE  TokensInv'
  <1> DEFINE c == task[t]
             next == [c EXCEPT !.at = "report"]
  <1>1. At(t, "sendTokens") /\ c # Idle
    BY RunningIsNotIdle DEF SendTokens, Calls
  <1>2. c \in RunningCommands /\ SetBalancePhase(c, tokens) /\ SetMinBalancePhase(c, ether)
    BY <1>1, CommandTypes
  <1>3. /\ tokens[c.from] >= c.sum /\ ether[c.from] >= GasFee
        /\ tokens' = Moved(tokens, c.from, c.to, c.sum)
        /\ ether' = [ether EXCEPT ![c.from] = @ - GasFee]
        /\ Sent(t, {c.from, c.to})
    BY DEF SendTokens
  <1>4. c.from \in Accounts /\ c.to \in Accounts /\ c.account \in Accounts
        /\ c.sum \in Nat /\ c.amount \in Nat
    BY <1>2 DEF RunningCommands
  <1>5. tokens \in [Accounts -> Nat] /\ ether \in [Accounts -> Nat]
    BY DEF TokensInv
  <1>6. /\ tokens' \in [Accounts -> Nat]
        /\ \A a \in Accounts \ {c.from, c.to} : tokens'[a] = tokens[a]
        /\ c.from # c.to => tokens'[c.to] = tokens[c.to] + c.sum
                            /\ tokens'[c.from] = tokens[c.from] - c.sum
    BY <1>3, <1>4, <1>5, MovedFunds
  <1>7. /\ ether' \in [Accounts -> Nat]
        /\ \A a \in Accounts \ {c.from, c.to} : ether'[a] = ether[a]
    <2>1. ether[c.from] - GasFee \in Nat
      <3>1. ether[c.from] \in Nat /\ GasFee \in Nat
        BY <1>4, <1>5, TokenAssumption
      <3> QED BY <1>3, <3>1
    <2> QED BY <1>3, <1>4, <1>5, <2>1
  <1>8. next \in RunningCommands
    BY <1>2 DEF RunningCommands, Calls
  <1>9. next.account = c.account /\ next.amount = c.amount /\ next.cmd = c.cmd
        /\ next.at = "report" /\ next.touched = c.touched
        /\ next.from = c.from /\ next.to = c.to
    BY <1>2 DEF RunningCommands
  <1>10. SetBalancePhase(next, tokens')
    BY <1>1, <1>2, <1>4, <1>6, <1>9 DEF SetBalancePhase, At
  <1>11. SetMinBalancePhase(next, ether')
    BY <1>1, <1>2, <1>9 DEF SetMinBalancePhase, At
  <1>12. CommandOK(next, tokens', ether')
    BY <1>8, <1>10, <1>11 DEF CommandOK
  <1>13. \A a \in Accounts \ {c.from, c.to} : tokens'[a] = tokens[a] /\ ether'[a] = ether[a]
    BY <1>6, <1>7
  <1> QED BY <1>3, <1>4, <1>6, <1>7, <1>12, <1>13, SentKeepsInv

LEMMA SendEtherKeepsInv ==
  ASSUME TokensInv, NEW t \in Terminals, SendEther(t)
  PROVE  TokensInv'
  <1> DEFINE c == task[t]
             next == [c EXCEPT !.at = "report"]
             moved == Moved(ether, c.from, c.to, c.sum)
  <1>1. At(t, "sendEther") /\ c # Idle
    BY RunningIsNotIdle DEF SendEther, Calls
  <1>2. c \in RunningCommands /\ SetBalancePhase(c, tokens) /\ SetMinBalancePhase(c, ether)
    BY <1>1, CommandTypes
  <1>3. /\ ether[c.from] >= c.sum + GasFee
        /\ ether' = [moved EXCEPT ![c.from] = @ - GasFee]
        /\ tokens' = tokens
        /\ Sent(t, {c.from, c.to})
    BY DEF SendEther
  <1>4. c.from \in Accounts /\ c.to \in Accounts /\ c.account \in Accounts
        /\ c.sum \in Nat /\ c.amount \in Nat /\ GasFee \in Nat
    BY <1>2, TokenAssumption DEF RunningCommands
  <1>5. tokens \in [Accounts -> Nat] /\ ether \in [Accounts -> Nat]
        /\ ether[c.from] \in Nat /\ ether[c.to] \in Nat
    BY <1>4 DEF TokensInv
  <1>6. ether[c.from] >= c.sum
    BY <1>3, <1>4, <1>5
  <1>7. /\ moved \in [Accounts -> Nat]
        /\ \A a \in Accounts \ {c.from, c.to} : moved[a] = ether[a]
        /\ c.from # c.to => moved[c.to] = ether[c.to] + c.sum
                            /\ moved[c.from] = ether[c.from] - c.sum
        /\ c.from = c.to => moved = ether
    BY <1>4, <1>5, <1>6, MovedFunds
  <1>8. moved[c.from] - GasFee \in Nat
    BY <1>3, <1>4, <1>5, <1>7
  <1>9. /\ ether' \in [Accounts -> Nat]
        /\ \A a \in Accounts \ {c.from, c.to} : ether'[a] = ether[a]
        /\ c.from # c.to => ether'[c.to] = ether[c.to] + c.sum
    BY <1>3, <1>4, <1>7, <1>8
  <1>10. next \in RunningCommands
    BY <1>2 DEF RunningCommands, Calls
  <1>11. next.account = c.account /\ next.amount = c.amount /\ next.cmd = c.cmd
         /\ next.at = "report" /\ next.touched = c.touched
         /\ next.from = c.from /\ next.to = c.to
    BY <1>2 DEF RunningCommands
  <1>12. SetMinBalancePhase(next, ether')
    BY <1>1, <1>2, <1>4, <1>9, <1>11 DEF SetMinBalancePhase, At
  <1>13. SetBalancePhase(next, tokens')
    BY <1>1, <1>2, <1>11 DEF SetBalancePhase, At
  <1>14. CommandOK(next, tokens', ether')
    BY <1>10, <1>12, <1>13 DEF CommandOK
  <1>15. \A a \in Accounts \ {c.from, c.to} : tokens'[a] = tokens[a] /\ ether'[a] = ether[a]
    BY <1>3, <1>9
  <1>16. tokens' \in [Accounts -> Nat] /\ ether' \in [Accounts -> Nat]
    BY <1>3, <1>5, <1>9
  <1> QED BY <1>3, <1>4, <1>14, <1>15, <1>16, SentKeepsInv

-----------------------------------------------------------------------------

LEMMA TokensInvHolds == TokensSpec => []TokensInv
  <1>1. TokensInit => TokensInv
    BY TokenAssumption DEF TokensInit, TokensInv, CommandOK
  <1>2. ASSUME TokensInv, [TokensNext]_vars PROVE TokensInv'
    <2>1. CASE UNCHANGED vars
      BY <1>2, <2>1 DEF TokensInv, vars, CommandOK, SetBalancePhase, SetMinBalancePhase
    <2>2. CASE TokensNext
      <3>1. PICK t \in Terminals :
              \/ \E c \in Commands : Launch(t, c)
              \/ ReadBalance(t) \/ ReadReceiverBalance(t) \/ ReadSenderBalance(t)
              \/ ReadEtherBalance(t) \/ ReadSenderEther(t)
              \/ SendTokens(t) \/ SendEther(t)
              \/ Revert(t) \/ Report(t)
        BY <2>2 DEF TokensNext
      <3>2. ASSUME NEW c \in Commands, Launch(t, c) PROVE TokensInv'
        BY <1>2, <3>2, LaunchKeepsInv
      <3>3. CASE ReadBalance(t)
        BY <1>2, <3>3, ReadBalanceKeepsInv
      <3>4. CASE ReadReceiverBalance(t)
        BY <1>2, <3>4, ReadReceiverBalanceKeepsInv
      <3>5. CASE ReadSenderBalance(t)
        BY <1>2, <3>5, ReadSenderBalanceKeepsInv
      <3>6. CASE ReadEtherBalance(t)
        BY <1>2, <3>6, ReadEtherBalanceKeepsInv
      <3>7. CASE ReadSenderEther(t)
        BY <1>2, <3>7, ReadSenderEtherKeepsInv
      <3>8. CASE SendTokens(t)
        BY <1>2, <3>8, SendTokensKeepsInv
      <3>9. CASE SendEther(t)
        BY <1>2, <3>9, SendEtherKeepsInv
      <3>10. CASE Revert(t) \/ Report(t)
        BY <1>2, <3>10, IdleIsOK, GoesKeepsInv DEF Revert, Report
      <3> QED BY <3>1, <3>2, <3>3, <3>4, <3>5, <3>6, <3>7, <3>8, <3>9, <3>10
    <2> QED BY <1>2, <2>1, <2>2
  <1> QED BY <1>1, <1>2, PTL DEF TokensSpec

LEMMA InvImpliesProperties == TokensInv => SetBalanceSets /\ SetMinBalanceReaches
  <1> SUFFICES ASSUME TokensInv, NEW t \in Terminals, At(t, "report"),
                      task[t].account \notin task[t].touched \cup {Deployer}
      PROVE  /\ task[t].cmd.name = "set-balance" =>
                  tokens[task[t].account] = task[t].amount
             /\ task[t].cmd.name = "set-min-balance" =>
                  ether[task[t].account] >= task[t].amount
    BY DEF SetBalanceSets, SetMinBalanceReaches
  <1>1. task[t] # Idle
    BY RunningIsNotIdle DEF Calls
  <1> QED BY <1>1, CommandTypes DEF SetBalancePhase, SetMinBalancePhase, At

\* A set-balance command of erc20.ts that reports, of an account that nobody else
\* touched and that is not the deployer's, has set its balance.
THEOREM BalancesAreSet == TokensSpec => []SetBalanceSets
  <1> QED BY TokensInvHolds, InvImpliesProperties, PTL

\* A set-min-balance command of ethToken.ts that reports has reached the minimum,
\* under the same conditions, whatever the fees.
THEOREM MinimaAreReached == TokensSpec => []SetMinBalanceReaches
  <1> QED BY TokensInvHolds, InvImpliesProperties, PTL
-----------------------------------------------------------------------------
(* Commands that nobody overtakes *)

\* What such a command has read is still true, up to its transaction.
SolePhase(c, ownedTokens, ownedEther) ==
  c.touched = {} /\ c.account # Deployer =>
    /\ c.cmd.name = "set-balance" =>
         /\ c.at = "senderBalance" => c.receiverBalance = ownedTokens[c.to]
         /\ c.at = "sendTokens" => ownedTokens[c.from] >= c.sum
         /\ c.at = "internalError" =>
              ownedTokens[Deployer] + ownedTokens[c.account] = 2 * c.amount
    /\ c.cmd.name = "set-min-balance" /\ c.at = "sendEther" =>
         ownedEther[Deployer] >= c.sum

SoleInv == \A t \in Terminals : task[t] = Idle \/ SolePhase(task[t], tokens, ether)

\* A step of one terminal that moves nothing.
LEMMA GoesKeepsSole ==
  ASSUME TokensInv, SoleInv, NEW t \in Terminals, NEW command, Goes(t, command),
         command = Idle \/ SolePhase(command, tokens, ether)
  PROVE  SoleInv'
  <1>1. tokens' = tokens /\ ether' = ether
    BY DEF Goes, fundsVars
  <1>2. /\ task' = [task EXCEPT ![t] = command]
        /\ task = [u \in Terminals |-> task[u]]
    BY DEF Goes, TokensInv
  <1>3. task' = [u \in Terminals |-> IF u = t THEN command ELSE task[u]]
    BY <1>2
  <1> QED BY <1>1, <1>3 DEF SoleInv, SolePhase

\* A transaction ends the calls of its terminal and overtakes all the others.
LEMMA SentKeepsSole ==
  ASSUME TokensInv, NEW t \in Terminals, NEW accounts \in SUBSET Accounts,
         accounts # {}, Sent(t, accounts), task[t] # Idle
  PROVE  SoleInv'
  <1> SUFFICES ASSUME NEW u \in Terminals, task'[u] # Idle
      PROVE  SolePhase(task'[u], tokens', ether')
    BY DEF SoleInv, SolePhase, Idle
  <1>1. task'[u] = IF u = t THEN [task[u] EXCEPT !.at = "report"]
                   ELSE IF task[u] = Idle THEN Idle
                   ELSE [task[u] EXCEPT !.touched = @ \cup accounts]
    BY DEF Sent
  <1>2. task[u] # Idle
    BY <1>1
  <1>3. task[u] \in RunningCommands
    BY <1>2, CommandTypes
  <1>4. CASE u = t
    <2>1. task'[u].at = "report"
      BY <1>1, <1>3, <1>4 DEF RunningCommands
    <2> QED BY <2>1 DEF SolePhase
  <1>5. CASE u # t
    <2>1. task'[u].touched = task[u].touched \cup accounts
      BY <1>1, <1>2, <1>3, <1>5 DEF RunningCommands
    <2> QED BY <2>1 DEF SolePhase
  <1> QED BY <1>4, <1>5

LEMMA LaunchKeepsSole ==
  ASSUME TokensInv, SoleInv, NEW t \in Terminals, NEW c \in Commands, Launch(t, c)
  PROVE  SoleInv'
  <1>1. ASSUME NEW at, NEW account, NEW amount, NEW from, NEW to,
               Begin(t, c, at, account, amount, from, to),
               c.name = "set-balance" => at = "balance",
               c.name = "set-min-balance" => at = "etherBalance"
        PROVE  SoleInv'
    <2> DEFINE command ==
          [cmd |-> c, at |-> at, account |-> account, amount |-> amount, from |-> from,
           to |-> to, sum |-> amount, receiverBalance |-> 0, touched |-> {}]
    <2>1. Goes(t, command)
      BY <1>1 DEF Begin, Goes
    <2>2. SolePhase(command, tokens, ether)
      BY <1>1 DEF SolePhase
    <2> QED BY <2>1, <2>2, GoesKeepsSole
  <1> QED BY <1>1
    DEF Launch, LaunchTransfer, LaunchOldTransfer, LaunchSetBalance, LaunchEthTransfer,
        LaunchSetMinBalance

LEMMA ReadReceiverBalanceKeepsSole ==
  ASSUME TokensInv, SoleInv, NEW t \in Terminals, ReadReceiverBalance(t)
  PROVE  SoleInv'
  <1>1. PICK next : next = [task[t] EXCEPT !.at = "senderBalance",
                                           !.receiverBalance = tokens[task[t].to]]
    OBVIOUS
  <1>2. At(t, "receiverBalance") /\ Goes(t, next) /\ task[t] # Idle
    BY <1>1, RunningIsNotIdle DEF ReadReceiverBalance, Calls
  <1>3. task[t] \in RunningCommands
    BY <1>2, CommandTypes
  <1>4. next.at = "senderBalance" /\ next.to = task[t].to
        /\ next.receiverBalance = tokens[task[t].to]
    BY <1>1, <1>3 DEF RunningCommands
  <1>5. SolePhase(next, tokens, ether)
    BY <1>4 DEF SolePhase
  <1> QED BY <1>2, <1>5, GoesKeepsSole

\* The assertion fails on balances that add up to twice the amount, never on others.
LEMMA ExpectedUnlessTwice ==
  ASSUME TokensInv, SoleInv, NEW t \in Terminals, At(t, "senderBalance"), ~Expected(t),
         task[t].cmd.name = "set-balance", task[t].touched = {},
         task[t].account # Deployer
  PROVE  tokens[Deployer] + tokens[task[t].account] = 2 * task[t].amount
  <1> DEFINE c == task[t]
  <1>1. c # Idle
    BY RunningIsNotIdle DEF Calls
  <1>2. c \in RunningCommands /\ SetBalancePhase(c, tokens) /\ SolePhase(c, tokens, ether)
    BY <1>1, CommandTypes DEF SoleInv
  <1>3. c.account \in Accounts /\ c.sum \in Nat /\ c.amount \in Nat
    BY <1>2 DEF RunningCommands
  <1>4. tokens[c.account] \in Nat /\ tokens[Deployer] \in Nat
    BY <1>3, FundsAreNaturals, DeployerIsAccount
  <1>5. c.receiverBalance = tokens[c.to]
    BY <1>2 DEF SolePhase, At
  <1>6. \/ /\ c.from = Deployer /\ c.to = c.account
           /\ tokens[c.account] + c.sum = c.amount
        \/ /\ c.from = c.account /\ c.to = Deployer
           /\ tokens[c.account] - c.sum = c.amount
    BY <1>2 DEF SetBalancePhase, At
  <1>7. ~(c.from = Deployer /\ c.to = c.account /\ tokens[c.account] + c.sum = c.amount)
    BY <1>5 DEF Expected
  <1>8. /\ c.from = c.account /\ c.to = Deployer
        /\ tokens[c.account] - c.sum = c.amount
    BY <1>6, <1>7
  <1>9. tokens[Deployer] + c.sum = c.amount
    BY <1>5, <1>8 DEF Expected
  <1>10. \A held, owned, sum, amount \in Nat :
           owned - sum = amount /\ held + sum = amount => held + owned = 2 * amount
    OBVIOUS
  <1>11. /\ tokens[c.account] - c.sum = c.amount
         /\ tokens[Deployer] + c.sum = c.amount
    BY <1>8, <1>9
  <1> QED BY <1>3, <1>4, <1>10, <1>11

LEMMA ReadSenderBalanceKeepsSole ==
  ASSUME TokensInv, SoleInv, NEW t \in Terminals, ReadSenderBalance(t)
  PROVE  SoleInv'
  <1> DEFINE c == task[t]
  <1>1. At(t, "senderBalance") /\ c # Idle
    BY RunningIsNotIdle DEF ReadSenderBalance, Calls
  <1>2. c \in RunningCommands /\ SetBalancePhase(c, tokens)
    BY <1>1, CommandTypes
  <1>3. CASE tokens[c.from] < c.sum
    BY <1>3, GoesKeepsSole DEF ReadSenderBalance
  <1>4. CASE ~(tokens[c.from] < c.sum) /\ ~Expected(t)
    <2>1. PICK next : next = [c EXCEPT !.at = "internalError"]
      OBVIOUS
    <2>2. Goes(t, next)
      BY <1>4, <2>1 DEF ReadSenderBalance
    <2>3. next.at = "internalError" /\ next.cmd = c.cmd /\ next.account = c.account
          /\ next.amount = c.amount /\ next.touched = c.touched
      BY <1>2, <2>1 DEF RunningCommands
    <2>4. SolePhase(next, tokens, ether)
      BY <1>1, <1>4, <2>3, ExpectedUnlessTwice DEF SolePhase
    <2> QED BY <2>2, <2>4, GoesKeepsSole
  <1>5. CASE ~(tokens[c.from] < c.sum) /\ Expected(t)
    <2>1. PICK next : next = [c EXCEPT !.at = "sendTokens"]
      OBVIOUS
    <2>2. Goes(t, Idle) \/ Goes(t, next)
      BY <1>5, <2>1 DEF ReadSenderBalance
    <2>3. next.at = "sendTokens" /\ next.from = c.from /\ next.sum = c.sum
      BY <1>2, <2>1 DEF RunningCommands
    <2>4. tokens[c.from] \in Nat /\ c.sum \in Nat
      BY <1>2, FundsAreNaturals DEF RunningCommands
    <2>5. c.cmd.name # "set-min-balance"
      BY <1>1, CommandTypes DEF SetMinBalancePhase, At
    <2>6. next.cmd = c.cmd
      BY <1>2, <2>1 DEF RunningCommands
    <2>7. SolePhase(next, tokens, ether)
      BY <1>5, <2>3, <2>4, <2>5, <2>6 DEF SolePhase
    <2> QED BY <2>2, <2>7, GoesKeepsSole
  <1> QED BY <1>3, <1>4, <1>5

LEMMA ReadSenderEtherKeepsSole ==
  ASSUME TokensInv, SoleInv, NEW t \in Terminals, ReadSenderEther(t)
  PROVE  SoleInv'
  <1> DEFINE c == task[t]
  <1>1. At(t, "senderEther") /\ c # Idle
    BY RunningIsNotIdle DEF ReadSenderEther, Calls
  <1>2. c \in RunningCommands
    BY <1>1, CommandTypes
  <1>3. PICK next : next = [c EXCEPT !.at = "sendEther"]
    OBVIOUS
  <1>4. \/ Goes(t, Idle)
        \/ Goes(t, next) /\ ~(ether[Deployer] < c.sum)
    BY <1>3 DEF ReadSenderEther
  <1>5. next.at = "sendEther" /\ next.sum = c.sum
    BY <1>2, <1>3 DEF RunningCommands
  <1>6. ether[Deployer] \in Nat /\ c.sum \in Nat
    BY <1>2, FundsAreNaturals, DeployerIsAccount DEF RunningCommands
  <1>7. ~(ether[Deployer] < c.sum) => SolePhase(next, tokens, ether)
    BY <1>5, <1>6 DEF SolePhase
  <1> QED BY <1>4, <1>7, GoesKeepsSole

\* The reads after which there is nothing to remember.
LEMMA FirstReadsKeepSole ==
  ASSUME TokensInv, SoleInv, NEW t \in Terminals,
         ReadBalance(t) \/ ReadEtherBalance(t)
  PROVE  SoleInv'
  <1> DEFINE c == task[t]
             less == c.amount - tokens[c.account]
             more == tokens[c.account] - c.amount
             missing == c.amount - ether[c.account]
  <1>1. c \in RunningCommands
    BY RunningIsNotIdle, CommandTypes DEF ReadBalance, ReadEtherBalance, Calls
  <1>2. ASSUME NEW next, Goes(t, next),
               next = Idle \/ next.at \in {"receiverBalance", "senderEther"}
        PROVE  SoleInv'
    <2>1. next = Idle \/ SolePhase(next, tokens, ether)
      BY <1>2 DEF SolePhase
    <2> QED BY <1>2, <2>1, GoesKeepsSole
  <1>3. PICK receive : receive = [c EXCEPT !.at = "receiverBalance", !.sum = less]
    OBVIOUS
  <1>4. PICK give : give = [c EXCEPT !.at = "receiverBalance", !.sum = more,
                                     !.from = c.account, !.to = Deployer]
    OBVIOUS
  <1>5. PICK fill : fill = [c EXCEPT !.at = "senderEther", !.sum = missing]
    OBVIOUS
  <1>6. receive.at = "receiverBalance" /\ give.at = "receiverBalance"
        /\ fill.at = "senderEther"
    BY <1>1, <1>3, <1>4, <1>5 DEF RunningCommands
  <1>7. Goes(t, Idle) \/ Goes(t, receive) \/ Goes(t, give) \/ Goes(t, fill)
    BY <1>3, <1>4, <1>5 DEF ReadBalance, ReadEtherBalance
  <1> QED BY <1>2, <1>6, <1>7

LEMMA TransactionsKeepSole ==
  ASSUME TokensInv, NEW t \in Terminals, SendTokens(t) \/ SendEther(t)
  PROVE  SoleInv'
  <1>1. task[t] # Idle
    BY RunningIsNotIdle DEF SendTokens, SendEther, Calls
  <1>2. task[t].from \in Accounts /\ task[t].to \in Accounts
    BY <1>1, CommandTypes DEF RunningCommands
  <1>3. Sent(t, {task[t].from, task[t].to})
    BY DEF SendTokens, SendEther
  <1> QED BY <1>1, <1>2, <1>3, SentKeepsSole

LEMMA SoleInvHolds == TokensSpec => []SoleInv
  <1>1. TokensInit => SoleInv
    BY DEF TokensInit, SoleInv
  <1>2. ASSUME TokensInv, SoleInv, [TokensNext]_vars PROVE SoleInv'
    <2>1. CASE UNCHANGED vars
      BY <1>2, <2>1 DEF SoleInv, vars, SolePhase
    <2>2. CASE TokensNext
      <3>1. PICK t \in Terminals :
              \/ \E c \in Commands : Launch(t, c)
              \/ ReadBalance(t) \/ ReadReceiverBalance(t) \/ ReadSenderBalance(t)
              \/ ReadEtherBalance(t) \/ ReadSenderEther(t)
              \/ SendTokens(t) \/ SendEther(t)
              \/ Revert(t) \/ Report(t)
        BY <2>2 DEF TokensNext
      <3>2. ASSUME NEW c \in Commands, Launch(t, c) PROVE SoleInv'
        BY <1>2, <3>2, LaunchKeepsSole
      <3>3. CASE ReadBalance(t) \/ ReadEtherBalance(t)
        BY <1>2, <3>3, FirstReadsKeepSole
      <3>4. CASE ReadReceiverBalance(t)
        BY <1>2, <3>4, ReadReceiverBalanceKeepsSole
      <3>5. CASE ReadSenderBalance(t)
        BY <1>2, <3>5, ReadSenderBalanceKeepsSole
      <3>6. CASE ReadSenderEther(t)
        BY <1>2, <3>6, ReadSenderEtherKeepsSole
      <3>7. CASE SendTokens(t) \/ SendEther(t)
        BY <1>2, <3>7, TransactionsKeepSole
      <3>8. CASE Revert(t) \/ Report(t)
        BY <1>2, <3>8, GoesKeepsSole DEF Revert, Report
      <3> QED BY <3>1, <3>2, <3>3, <3>4, <3>5, <3>6, <3>7, <3>8
    <2> QED BY <1>2, <2>1, <2>2
  <1> QED BY <1>1, <1>2, TokensInvHolds, PTL DEF TokensSpec

LEMMA InvsImplySoleCommands == TokensInv /\ SoleInv => SoleCommandsFailAtEdgesOnly
  <1> SUFFICES ASSUME TokensInv, SoleInv, NEW t \in Terminals,
                      task[t].cmd.name \in {"set-balance", "set-min-balance"},
                      task[t].touched = {}, task[t].account # Deployer
      PROVE  LET c    == task[t]
                 sent == IF At(t, "sendEther") THEN c.sum ELSE 0
             IN  /\ Rejected(t) => sent <= ether[c.from] /\ ether[c.from] < sent + GasFee
                 /\ At(t, "internalError") =>
                      tokens[Deployer] + tokens[c.account] = 2 * c.amount
    BY DEF SoleCommandsFailAtEdgesOnly
  <1> DEFINE c == task[t]
  <1>1. CASE c = Idle
    BY <1>1 DEF At, Idle, Rejected
  <1>2. CASE c # Idle
    <2>1. /\ c \in RunningCommands
          /\ SetBalancePhase(c, tokens) /\ SetMinBalancePhase(c, ether)
          /\ SolePhase(c, tokens, ether)
      BY <1>2, CommandTypes DEF SoleInv
    <2>2. /\ c.sum \in Nat /\ tokens[c.from] \in Nat /\ ether[c.from] \in Nat
          /\ GasFee \in Nat
      BY <2>1, FundsAreNaturals, TokenAssumption DEF RunningCommands
    <2>3. At(t, "sendTokens") => tokens[c.from] >= c.sum
      BY <2>1 DEF SolePhase, SetMinBalancePhase, At
    <2>4. At(t, "sendEther") => ether[c.from] >= c.sum
      BY <2>1 DEF SolePhase, SetBalancePhase, SetMinBalancePhase, At
    <2>5. At(t, "internalError") => tokens[Deployer] + tokens[c.account] = 2 * c.amount
      BY <2>1 DEF SolePhase, SetMinBalancePhase, At
    <2>6. At(t, "sendTokens") => ~At(t, "sendEther")
      BY DEF At
    <2> QED BY <2>2, <2>3, <2>4, <2>5, <2>6 DEF Rejected
  <1> QED BY <1>1, <1>2

\* A set-balance or set-min-balance command that nobody overtook passes its own
\* checks except in the two cases the property names: the fee that is not checked,
\* and balances that together are twice the amount (erc20.ts, ethToken.ts).
THEOREM SoleCommandsFailOnlyAtEdges == TokensSpec => []SoleCommandsFailAtEdgesOnly
  <1> QED BY TokensInvHolds, SoleInvHolds, InvsImplySoleCommands, PTL
=============================================================================
