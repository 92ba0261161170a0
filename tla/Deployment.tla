----------------------------- MODULE Deployment -----------------------------
(***************************************************************************)
(* The deployment scripts deploy/*.ts and the command that creates an      *)
(* auction, tasks/auctionFactory.ts, with the factories of auctions behind *)
(* it and the resolution of an auction by its salt, tasks/utils.ts.        *)
(*                                                                         *)
(* `npx hardhat deploy' executes scripts call by call.  It can be          *)
(* interrupted between two calls, and is then run again from the start.    *)
(* What was deployed is remembered in a file of records, which is all that *)
(* the other commands know of it; they read the file when they are         *)
(* launched.  Sources are edited between two runs.                         *)
(*                                                                         *)
(* hardhat-deploy is external: deploy(name) keeps the recorded contract if *)
(* its bytecode and its constructor arguments are those it would send.     *)
(* Contracts are addressed by their order of deployment.  One person       *)
(* deploys; a transaction is mined when it is sent.                        *)
(***************************************************************************)
EXTENDS Integers, Sequences, Functions

CONSTANTS
  Network,       \* hre.network.name
  Tags,          \* the tags that deployments are run with
  Terminals,     \* where `auction create' is run
  Commands,      \* the arguments it is given in each terminal
  ShortSalts,    \* salts whose 32 bytes begin with a zero byte
  Editable,      \* the contracts whose sources may be edited
  MaxEdits,      \* bound on the edits
  MaxCrashes     \* bound on the interruptions of a deployment

\* The tags are those of the scripts, and the options are those the task declares.
ASSUME TagsAssumption ==
  Tags \subseteq {"fhEVM", "PaymentERC20", "AuctionERC20", "AuctionFactories", "all"}
ASSUME CommandsAssumption ==
  /\ DOMAIN Commands = Terminals
  /\ \A t \in Terminals : \A c \in Commands[t] : c.type \in {"erc20", "native"}

VARIABLES
  version,          \* the version of the source of each contract
  fhEVM,            \* parts of the fhEVM installed, and the version of its ACL
  contracts,        \* the contracts deployed, in order
  records,          \* deployments/<network>: the address recorded by name
  auctionDeployed,  \* the mapping of the same name of every auction factory
  auctions,         \* what the auction at each address was created with
  run,              \* the calls that the scripts executed have left to make
  crashes,          \* interruptions so far
  task              \* the command each terminal runs

chainVars == <<fhEVM, contracts, auctionDeployed, auctions>>
deployVars == <<chainVars, version, records, run, crashes>>
vars == <<deployVars, task>>

None == 0
NoAuction == <<>>

Tokens == {"PaymentERC20", "AuctionERC20"}
IteratorFactory == "FHEAuctionEngineIteratorFactory"

\* By tie-breaking rule.
EngineFactories ==
  <<"FHEAuctionEnginePriceIdFactory", "FHEAuctionEnginePriceQuantityIdFactory",
    "FHEAuctionEnginePriceRandomFactory", "FHEAuctionEngineProRataFactory">>

AuctionFactory == [erc20 |-> "FHEAuctionERC20Factory",
                   native |-> "FHEAuctionNativeFactory"]

Names == Tokens \cup {IteratorFactory} \cup Range(EngineFactories)
           \cup Range(AuctionFactory)

-----------------------------------------------------------------------------
(* The scripts *)

Call(kind, name) == [call |-> kind, name |-> name]

\* Nobody asks which of the parts behind the ACL are missing.
InstallCalls ==
  <<Call("install", "ACL"), Call("install", "the rest")>>

TokenCalls(token) == <<Call("deploy", token), Call("totalSupply", token)>>

FactoryCalls ==
  <<Call("deploy", IteratorFactory)>>
    \o [i \in 1..Len(EngineFactories) |-> Call("deploy", EngineFactories[i])]
    \o <<Call("deploy", AuctionFactory.erc20), Call("deploy", AuctionFactory.native)>>

Script ==
  [fhEVM |-> IF Network = "sepolia" THEN <<>> ELSE <<Call("getCode", "ACL")>>,
   PaymentERC20 |-> TokenCalls("PaymentERC20"),
   AuctionERC20 |-> TokenCalls("AuctionERC20"),
   AuctionFactories |-> FactoryCalls]

\* All of them, in the order of their files, or the one that has the tag.
Runs == [tag \in DOMAIN Script \cup {"all"} |->
           (IF tag = "all" THEN Script.fhEVM \o Script.PaymentERC20
                                \o Script.AuctionERC20 \o Script.AuctionFactories
                           ELSE Script[tag])
             \o <<Call("finish", tag)>>]

\* The constructor arguments that name other contracts.
Dependencies(name) ==
  CASE name \in Range(EngineFactories) -> {IteratorFactory}
    [] name \in Range(AuctionFactory)  -> Range(EngineFactories)
    [] OTHER                           -> {}

Args(name) == [d \in Dependencies(name) |-> records[d]]

UpToDate(name) ==
  /\ records[name] # None
  /\ contracts[records[name]].version = version[name]
  /\ contracts[records[name]].args = Args(name)

-----------------------------------------------------------------------------
(* The deployer *)

NoRun == <<>>

StartRun(tag) ==
  /\ run = NoRun
  /\ run' = Runs[tag]
  /\ UNCHANGED <<chainVars, version, records, crashes, task>>

Crash ==
  /\ run # NoRun
  /\ crashes < MaxCrashes
  /\ crashes' = crashes + 1
  /\ run' = NoRun
  /\ UNCHANGED <<chainVars, version, records, task>>

Edit(name) ==
  /\ run = NoRun
  /\ name \in Editable
  /\ version[name] < MaxEdits
  /\ version' = [version EXCEPT ![name] = @ + 1]
  /\ UNCHANGED <<chainVars, records, run, crashes, task>>

Makes(kind) == run # NoRun /\ Head(run).call = kind
Called == Head(run).name

\* The fhEVM is there if its first contract is; if that one differs, the run fails.
ReadACL ==
  /\ Makes("getCode")
  /\ run' = IF fhEVM.parts = 0 THEN InstallCalls \o Tail(run)
            ELSE IF fhEVM.acl # version["ACL"] THEN NoRun
            ELSE Tail(run)
  /\ UNCHANGED <<chainVars, version, records, crashes, task>>

Install ==
  /\ Makes("install")
  /\ fhEVM' = [parts |-> fhEVM.parts + 1, acl |-> version["ACL"]]
  /\ run' = Tail(run)
  /\ UNCHANGED <<contracts, auctionDeployed, auctions, version, records, crashes, task>>

\* Mutants of Reusable: skipIfAlreadyDeployed; a script that always redeploys.
ReusableByName(name) == records[name] # None

NeverReusable(name) == FALSE

Reusable(name) == UpToDate(name)

Reuse ==
  /\ Makes("deploy")
  /\ Reusable(Called)
  /\ run' = Tail(run)
  /\ UNCHANGED <<chainVars, version, records, crashes, task>>

\* The record is written when the receipt is there.
SendContract ==
  /\ Makes("deploy")
  /\ ~Reusable(Called)
  /\ contracts' = Append(contracts, [name |-> Called, version |-> version[Called],
                                     args |-> Args(Called), mints |-> 0])
  /\ run' = <<Call("record", Called)>> \o Tail(run)
  /\ UNCHANGED <<fhEVM, auctionDeployed, auctions, version, records, crashes, task>>

Record ==
  /\ Makes("record")
  /\ records' = [records EXCEPT ![Called] = Len(contracts)]
  /\ run' = Tail(run)
  /\ UNCHANGED <<chainVars, version, crashes, task>>

\* Mutant of ReadSupply: the tokens are minted at every run.
ReadNoSupply ==
  /\ Makes("totalSupply")
  /\ run' = <<Call("mint", Called)>> \o Tail(run)
  /\ UNCHANGED <<chainVars, version, records, crashes, task>>

ReadSupply ==
  /\ Makes("totalSupply")
  /\ run' = (IF contracts[records[Called]].mints = 0 THEN <<Call("mint", Called)>>
                                                     ELSE <<>>) \o Tail(run)
  /\ UNCHANGED <<chainVars, version, records, crashes, task>>

Mint ==
  /\ Makes("mint")
  /\ contracts' = [contracts EXCEPT ![records[Called]].mints = @ + 1]
  /\ run' = Tail(run)
  /\ UNCHANGED <<fhEVM, auctionDeployed, auctions, version, records, crashes, task>>

Finish ==
  /\ Makes("finish")
  /\ run' = NoRun
  /\ UNCHANGED <<chainVars, version, records, crashes, task>>

-----------------------------------------------------------------------------
(* The factories of auctions *)

Ask(c, known) == [factory |-> known[AuctionFactory[c.type]],
                  key |-> <<c.salt, c.beneficiary, known["AuctionERC20"],
                            IF c.type = "erc20" THEN known["PaymentERC20"] ELSE None>>]

GetAuction(ask) ==
  IF ask \in DOMAIN auctionDeployed THEN auctionDeployed[ask] ELSE NoAuction

\* The address that Create2 computes: the deposit is a constructor argument.
Create2(c, ask) == <<ask, c.minimumPaymentDeposit>>

\* What ethers can encode: the salt in 32 bytes, the count in a uint16.  The
\* arguments of a native auction are not those of its factory.
Encodable(c) == /\ c.type = "erc20"
                /\ c.salt \notin ShortSalts
                /\ c.maxBidCount < 2^16

\* Mutant of FactoryAccepts: the key is not looked up.
FactoryAcceptsAnew(c, ask) == Create2(c, ask) \notin DOMAIN auctions

FactoryAccepts(c, ask) == /\ GetAuction(ask) = NoAuction
                          /\ Create2(c, ask) \notin DOMAIN auctions

CreateNewAuction(c, ask) ==
  LET new == Create2(c, ask)
      engine == contracts[ask.factory].args[EngineFactories[c.tieBreakingRule + 1]]
      made == [owner |-> c.owner, quantity |-> c.quantity, engineFactory |-> engine]
  IN  /\ auctionDeployed' = [a \in DOMAIN auctionDeployed \cup {ask} |->
                               IF a = ask THEN new ELSE auctionDeployed[a]]
      /\ auctions' = [a \in DOMAIN auctions \cup {new} |->
                        IF a = new THEN made ELSE auctions[a]]

-----------------------------------------------------------------------------
(* auction create *)

Idle == [cmd |-> None, ask |-> None, at |-> "idle", found |-> NoAuction]

Valid(c) ==
  /\ c.tieBreakingRule \in 0..2
  /\ c.quantity # 0
  /\ c.maxBidCount > 1

\* An invalid argument, or a missing record, is reported and nothing is done.
Launch(t, c) ==
  /\ task[t].at = "idle"
  /\ Valid(c)
  /\ \A name \in Tokens \cup {AuctionFactory[c.type]} : records[name] # None
  /\ task' = [task EXCEPT ![t] = [Idle EXCEPT !.cmd = c, !.ask = Ask(c, records),
                                              !.at = "getAuction"]]
  /\ UNCHANGED deployVars

\* A dry run, and a run that finds an auction, print its address.
LookUp(t) ==
  LET found == GetAuction(task[t].ask)
  IN  /\ task[t].at = "getAuction"
      /\ task' = [task EXCEPT ![t] =
           IF task[t].cmd.dryRun \/ found # NoAuction THEN Idle
           ELSE [@ EXCEPT !.at = "createNewAuction"]]
      /\ UNCHANGED deployVars

Create(t) ==
  LET c == task[t].cmd
      ask == task[t].ask
  IN  /\ task[t].at = "createNewAuction"
      /\ Encodable(c) /\ FactoryAccepts(c, ask)
      /\ CreateNewAuction(c, ask)
      /\ task' = [task EXCEPT ![t].at = "getNewAuction"]
      /\ UNCHANGED <<fhEVM, contracts, version, records, run, crashes>>

\* The call is not encoded, or the transaction is reverted.
CreateFails(t) ==
  LET c == task[t].cmd
  IN  /\ task[t].at = "createNewAuction"
      /\ ~(Encodable(c) /\ FactoryAccepts(c, task[t].ask))
      /\ task' = [task EXCEPT ![t] = Idle]
      /\ UNCHANGED deployVars

FindNew(t) ==
  /\ task[t].at = "getNewAuction"
  /\ task' = [task EXCEPT ![t].at = "successfully created",
                          ![t].found = GetAuction(task[t].ask)]
  /\ UNCHANGED deployVars

\* The address is printed, or the command is interrupted before.
End(t) ==
  /\ task[t].at # "idle"
  /\ task' = [task EXCEPT ![t] = Idle]
  /\ UNCHANGED deployVars

-----------------------------------------------------------------------------
Init ==
  /\ version = [n \in Names \cup {"ACL"} |-> 0]
  /\ fhEVM = [parts |-> 0, acl |-> 0]
  /\ contracts = <<>>
  /\ records = [n \in Names |-> None]
  /\ auctionDeployed = <<>> /\ auctions = <<>>
  /\ run = NoRun
  /\ crashes = 0
  /\ task = [t \in Terminals |-> Idle]

DeployNext ==
  \/ \E tag \in Tags : StartRun(tag)
  \/ \E name \in Editable : Edit(name)
  \/ Crash
  \/ ReadACL \/ Install
  \/ Reuse \/ SendContract \/ Record
  \/ ReadSupply \/ Mint
  \/ Finish

CreateNext(t) ==
  \/ \E c \in Commands[t] : Launch(t, c)
  \/ LookUp(t) \/ Create(t) \/ CreateFails(t) \/ FindNew(t) \/ End(t)

Next == DeployNext \/ \E t \in Terminals : CreateNext(t)

Spec == Init /\ [][Next]_vars

-----------------------------------------------------------------------------
(* Properties *)

\* The contracts a script is responsible for.
DeployedBy(tag) == {Runs[tag][i].name : i \in
                      {j \in 1..Len(Runs[tag]) : Runs[tag][j].call = "deploy"}}

(* When the scripts come to their end, after any history of edits, partial
   runs and interruptions, each contract they record is of the current source
   and was constructed with the recorded addresses of the others
   (deploy/3_deploy_AuctionFactories.ts hands them from one deploy() to the
   next): no factory keeps using an engine factory that was replaced.        *)
FinishedRunsAreWired ==
  Makes("finish") => \A name \in DeployedBy(Called) : UpToDate(name)

(* A token never has more than one initial supply, and once its script has
   come to its end it has one, however often the script was interrupted and
   run again (deploy/1_deploy_PaymentERC20.ts:31, 2_deploy_AuctionERC20.ts:31). *)
TokensAreMintedOnce ==
  /\ \A a \in 1..Len(contracts) : contracts[a].mints <= 1
  /\ Makes("finish") =>
       \A token \in Tokens \cap DeployedBy(Called) : contracts[records[token]].mints = 1

(* The auction that `auction create' reports as successfully created
   (tasks/auctionFactory.ts:230) is the one that was asked for: its owner, its
   quantity, its deposit, and an engine of its rule, even when others create
   auctions of the same salt or a deployment replaces the factory meanwhile.  *)
CreatedAsAsked ==
  \A t \in Terminals : task[t].at = "successfully created" =>
    LET c == task[t].cmd
        a == task[t].found
    IN  /\ a = Create2(c, task[t].ask)
        /\ auctions[a].owner = c.owner /\ auctions[a].quantity = c.quantity
        /\ contracts[auctions[a].engineFactory].name
             = EngineFactories[c.tieBreakingRule + 1]

(* An auction that its salt leads to (tasks/utils.ts:298,
   resolveAuctionAddressOrThrow) is led to for ever, by the same address,
   through runs of the scripts and their interruptions, as long as the
   contracts on the way to it are up to date: only an edited source makes a
   deployment lose auctions.                                                  *)
AuctionsStayFound ==
  [][\A c \in UNION Range(Commands) :
       LET way == Names \ {AuctionFactory[type] : type \in {"erc20", "native"} \ {c.type}}
           found == GetAuction(Ask(c, records))
       IN  (\A name \in way : UpToDate(name)) /\ found # NoAuction
             => (GetAuction(Ask(c, records)))' = found]_vars
=============================================================================
