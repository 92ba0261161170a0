-------------------------- MODULE DeploymentProofs --------------------------
(***************************************************************************)
(* Theorems about Deployment.tla, for any terminals and commands, any      *)
(* history of edits, interruptions and partial runs of the scripts: what a *)
(* script that comes to its end leaves behind, and that auctions are       *)
(* created as they were asked for and stay found.                          *)
(***************************************************************************)
EXTENDS Deployment, SequenceTheorems, TLAPS

-----------------------------------------------------------------------------
(* The scripts *)

EngineFactoryNames ==
  {"FHEAuctionEnginePriceIdFactory", "FHEAuctionEnginePriceQuantityIdFactory",
   "FHEAuctionEnginePriceRandomFactory", "FHEAuctionEngineProRataFactory"}
AuctionFactoryNames == {"FHEAuctionERC20Factory", "FHEAuctionNativeFactory"}

LEMMA NamesAre ==
  /\ Range(EngineFactories) = EngineFactoryNames
  /\ Range(AuctionFactory) = AuctionFactoryNames
  /\ Names = Tokens \cup {IteratorFactory} \cup EngineFactoryNames
               \cup AuctionFactoryNames
<1>1. Range(EngineFactories) = EngineFactoryNames
  <2>1. DOMAIN EngineFactories = 1..4
    BY DEF EngineFactories
  <2>2. Range(EngineFactories) = {EngineFactories[i] : i \in 1..4}
    BY <2>1 DEF Range
  <2>3. 1..4 = {1, 2, 3, 4}
    OBVIOUS
  <2> QED
    BY <2>2, <2>3 DEF EngineFactories, EngineFactoryNames
<1>2. Range(AuctionFactory) = AuctionFactoryNames
  <2>1. DOMAIN AuctionFactory = {"erc20", "native"}
    BY DEF AuctionFactory
  <2> QED
    BY <2>1 DEF Range, AuctionFactory, AuctionFactoryNames
<1> QED
  BY <1>1, <1>2 DEF Names

LEMMA DependenciesAre ==
  ASSUME NEW name
  PROVE  Dependencies(name) = IF name \in EngineFactoryNames THEN {IteratorFactory}
                              ELSE IF name \in AuctionFactoryNames
                              THEN EngineFactoryNames ELSE {}
BY NamesAre DEF Dependencies, EngineFactoryNames, AuctionFactoryNames

LEMMA NothingDependsOnTokens ==
  ASSUME NEW name, NEW d \in Dependencies(name)
  PROVE  /\ d \in Names /\ d \notin Tokens /\ d # name
         /\ name \in Names
BY DependenciesAre, NamesAre DEF EngineFactoryNames, AuctionFactoryNames, Tokens,
                                 IteratorFactory

-----------------------------------------------------------------------------
(* The inductive invariant *)

Ships(call) == call.call \in {"deploy", "record"}
Supplies(call) == call.call \in {"totalSupply", "mint"}

\* The script that a run executes.
Executed(r) == r[Len(r)].name

Kinds == {"getCode", "install", "deploy", "record", "totalSupply", "mint", "finish"}
TagNames == {"fhEVM", "PaymentERC20", "AuctionERC20", "AuctionFactories", "all"}
CallNames == Names \cup TagNames \cup {"ACL", "the rest"}
Calls == [call : Kinds, name : CallNames]

\* What the calls that are left are, and the order they are in: a contract
\* comes after those it is constructed with, and a token before its supply.
Schedule(r) ==
  /\ r \in Seq(Calls)
  /\ r # <<>> => Executed(r) \in DOMAIN Runs
  /\ \A k \in 1..Len(r) :
       /\ r[k].call = "finish" <=> k = Len(r)
       /\ r[k].call \in {"record", "mint"} => k = 1
       /\ Ships(r[k]) => r[k].name \in DeployedBy(Executed(r))
       /\ Supplies(r[k]) => r[k].name \in Tokens \cap DeployedBy(Executed(r))
  /\ \A j, k \in 1..Len(r) :
       /\ Ships(r[j]) /\ Ships(r[k]) =>
            /\ r[j].name = r[k].name => j = k
            /\ r[j].name \in Dependencies(r[k].name) => j < k
       /\ Ships(r[j]) /\ Supplies(r[k]) /\ r[j].name = r[k].name => j < k

ShipsIn(r, name) == \E k \in 1..Len(r) : Ships(r[k]) /\ r[k].name = name
SuppliesIn(r, name) == \E k \in 1..Len(r) : Supplies(r[k]) /\ r[k].name = name

\* What a contract is constructed with are contracts of the right names.
WellConstructed(c) ==
  \A d \in Dependencies(c.name) :
    c.args[d] \in 1..Len(contracts) /\ contracts[c.args[d]].name = d

Constructions == UNION {[Dependencies(n) -> Nat] : n \in Names}
Contracts == [name : Names, version : Nat, args : Constructions, mints : {0, 1}]

TypeInv ==
  /\ version \in [Names \cup {"ACL"} -> Nat]
  /\ contracts \in Seq(Contracts)
  /\ records \in [Names -> 0..Len(contracts)]
  /\ \A n \in Names : records[n] # None => contracts[records[n]].name = n
  /\ \A a \in 1..Len(contracts) : WellConstructed(contracts[a])

\* The contract that is recorded next is of the current source.
RecordInv ==
  Makes("record") =>
    /\ ~UpToDate(Called)
    /\ contracts # <<>>
    /\ contracts[Len(contracts)] = [name |-> Called, version |-> version[Called],
                                    args |-> Args(Called), mints |-> 0]

\* A contract that the run has dealt with is up to date, and remains it since
\* those it is constructed with were dealt with before.
WiredInv ==
  run # NoRun =>
    \A n \in DeployedBy(Executed(run)) :
      /\ ShipsIn(run, n) \/ UpToDate(n)
      /\ \A d \in Dependencies(n) : ShipsIn(run, d) => ShipsIn(run, n)

\* A token whose supply is not asked for any more has one.
SupplyInv ==
  /\ run # NoRun =>
       \A n \in Tokens \cap DeployedBy(Executed(run)) :
         \/ SuppliesIn(run, n)
         \/ ~ShipsIn(run, n) /\ contracts[records[n]].mints = 1
  /\ Makes("mint") => contracts[records[Called]].mints = 0

\* The auction at an address is what a command asks for.
MadeAsAsked(c, a) ==
  /\ a \in DOMAIN auctions
  /\ auctions[a].owner = c.owner /\ auctions[a].quantity = c.quantity
  /\ auctions[a].engineFactory \in 1..Len(contracts)
  /\ contracts[auctions[a].engineFactory].name = EngineFactories[c.tieBreakingRule + 1]

\* A command goes after an auction it may create, and has created it when it says so.
TaskIs(t, k) ==
  /\ k = [cmd |-> k.cmd, ask |-> k.ask, at |-> k.at, found |-> k.found]
  /\ k.at # "idle" =>
       /\ k.cmd \in Commands[t] /\ Valid(k.cmd)
       /\ k.ask.factory \in 1..Len(contracts)
       /\ contracts[k.ask.factory].name \in AuctionFactoryNames
  /\ k.at = "getNewAuction" =>
       /\ GetAuction(k.ask) = Create2(k.cmd, k.ask)
       /\ MadeAsAsked(k.cmd, Create2(k.cmd, k.ask))
  /\ k.at = "successfully created" =>
       /\ k.found = Create2(k.cmd, k.ask)
       /\ MadeAsAsked(k.cmd, Create2(k.cmd, k.ask))

TaskInv == DOMAIN task = Terminals /\ \A t \in Terminals : TaskIs(t, task[t])

\* The deployer, and all.
DeployerInv == TypeInv /\ Schedule(run) /\ RecordInv /\ WiredInv /\ SupplyInv

DeploymentInv == DeployerInv /\ TaskInv

-----------------------------------------------------------------------------
(* Sequences of calls *)

LEMMA CallsAre ==
  ASSUME NEW kind \in Kinds, NEW name \in CallNames
  PROVE  /\ Call(kind, name) \in Calls
         /\ Call(kind, name).call = kind /\ Call(kind, name).name = name
BY DEF Call, Calls

LEMMA FirstAndRest ==
  ASSUME NEW r \in Seq(Calls), r # <<>>
  PROVE  /\ Len(r) \in Nat /\ Len(r) >= 1
         /\ Head(r) = r[1] /\ r[1] \in Calls
         /\ Tail(r) \in Seq(Calls)
         /\ Len(Tail(r)) = Len(r) - 1
         /\ \A i \in 1..(Len(r) - 1) : Tail(r)[i] = r[i + 1]
BY HeadTailProperties, EmptySeq, LenProperties

LEMMA Pushed ==
  ASSUME NEW r \in Seq(Calls), NEW c \in Calls
  PROVE  /\ <<c>> \o r \in Seq(Calls)
         /\ <<c>> \o r # <<>>
         /\ Len(<<c>> \o r) = Len(r) + 1
         /\ (<<c>> \o r)[1] = c
         /\ \A i \in 1..Len(r) : (<<c>> \o r)[i + 1] = r[i]
<1>1. <<c>> \in Seq(Calls) /\ Len(<<c>>) = 1 /\ <<c>>[1] = c
  OBVIOUS
<1>2. /\ <<c>> \o r \in Seq(Calls)
      /\ Len(<<c>> \o r) = Len(<<c>>) + Len(r)
      /\ \A i \in 1..(Len(<<c>>) + Len(r)) :
           (<<c>> \o r)[i] = IF i <= Len(<<c>>) THEN <<c>>[i] ELSE r[i - Len(<<c>>)]
  BY <1>1, ConcatProperties
<1>3. Len(r) \in Nat
  BY LenProperties
<1> HIDE DEF Calls
<1> QED
  BY <1>1, <1>2, <1>3, EmptySeq

LEMMA Replaced ==
  ASSUME NEW r \in Seq(Calls), r # <<>>, NEW c \in Calls
  PROVE  LET s == <<c>> \o Tail(r)
         IN  /\ s \in Seq(Calls) /\ s # <<>>
             /\ Len(s) = Len(r)
             /\ s[1] = c
             /\ \A i \in 2..Len(r) : s[i] = r[i]
<1> DEFINE s == <<c>> \o Tail(r)
<1>1. /\ s \in Seq(Calls) /\ s # <<>>
      /\ Len(s) = Len(Tail(r)) + 1
      /\ s[1] = c
      /\ \A i \in 1..Len(Tail(r)) : s[i + 1] = Tail(r)[i]
  BY FirstAndRest, Pushed
<1>2. \A i \in 2..Len(r) : s[i] = r[i]
  <2>1. TAKE i \in 2..Len(r)
  <2>2. i - 1 \in 1..Len(Tail(r)) /\ (i - 1) + 1 = i
    BY FirstAndRest
  <2> HIDE DEF s
  <2>3. s[(i - 1) + 1] = r[(i - 1) + 1]
    BY <1>1, <2>2, FirstAndRest
  <2> QED
    BY <2>2, <2>3
<1> QED
  BY <1>1, <1>2, FirstAndRest

-----------------------------------------------------------------------------
(* How the calls that are left change *)

LEMMA ScheduleTail ==
  ASSUME NEW r, Schedule(r), r # <<>>, r[1].call # "finish"
  PROVE  /\ Schedule(Tail(r)) /\ Tail(r) # <<>>
         /\ Executed(Tail(r)) = Executed(r)
         /\ Tail(r)[1].call \notin {"record", "mint"}
         /\ \A n : ShipsIn(Tail(r), n) <=> ShipsIn(r, n) /\ ~(Ships(r[1]) /\ r[1].name = n)
         /\ \A n : SuppliesIn(r, n) =>
                     SuppliesIn(Tail(r), n) \/ (Supplies(r[1]) /\ r[1].name = n)
<1> DEFINE s == Tail(r)
<1>1. /\ r \in Seq(Calls) /\ Len(r) \in Nat /\ Len(r) >= 1
      /\ s \in Seq(Calls) /\ Len(s) = Len(r) - 1
      /\ \A i \in 1..Len(s) : s[i] = r[i + 1]
  BY FirstAndRest DEF Schedule
<1> HIDE DEF s
<1>2. Len(r) # 1
  <2>1. 1 \in 1..Len(r)
    BY <1>1
  <2>2. r[1].call = "finish" <=> 1 = Len(r)
    BY <2>1 DEF Schedule
  <2> QED
    BY <2>2
<1>3. s # <<>> /\ Executed(s) = Executed(r)
  <2>1. Len(s) >= 1
    BY <1>1, <1>2
  <2>2. s[Len(s)] = r[Len(r)]
    BY <1>1, <2>1
  <2>3. s # <<>>
    BY <2>1, EmptySeq
  <2> QED
    BY <2>2, <2>3 DEF Executed
<1>4. \A k \in 1..Len(s) : k + 1 \in 1..Len(r) /\ s[k] = r[k + 1] /\ k + 1 # 1
  BY <1>1
<1>5. Schedule(s)
  <2>1. Executed(s) \in DOMAIN Runs
    BY <1>3 DEF Schedule
  <2>2. ASSUME NEW k \in 1..Len(s)
        PROVE  /\ s[k].call = "finish" <=> k = Len(s)
               /\ s[k].call \in {"record", "mint"} => k = 1
               /\ Ships(s[k]) => s[k].name \in DeployedBy(Executed(s))
               /\ Supplies(s[k]) => s[k].name \in Tokens \cap DeployedBy(Executed(s))
    <3>1. /\ r[k + 1].call = "finish" <=> k + 1 = Len(r)
          /\ r[k + 1].call \in {"record", "mint"} => k + 1 = 1
          /\ Ships(r[k + 1]) => r[k + 1].name \in DeployedBy(Executed(r))
          /\ Supplies(r[k + 1]) => r[k + 1].name \in Tokens \cap DeployedBy(Executed(r))
      BY <1>4 DEF Schedule
    <3>2. s[k] = r[k + 1] /\ k + 1 # 1 /\ (k + 1 = Len(r) <=> k = Len(s))
      BY <1>1, <1>4
    <3> QED
      BY <1>3, <3>1, <3>2
  <2>3. ASSUME NEW j \in 1..Len(s), NEW k \in 1..Len(s)
        PROVE  /\ Ships(s[j]) /\ Ships(s[k]) =>
                    /\ s[j].name = s[k].name => j = k
                    /\ s[j].name \in Dependencies(s[k].name) => j < k
               /\ Ships(s[j]) /\ Supplies(s[k]) /\ s[j].name = s[k].name => j < k
    <3>1. /\ Ships(r[j + 1]) /\ Ships(r[k + 1]) =>
               /\ r[j + 1].name = r[k + 1].name => j + 1 = k + 1
               /\ r[j + 1].name \in Dependencies(r[k + 1].name) => j + 1 < k + 1
          /\ Ships(r[j + 1]) /\ Supplies(r[k + 1]) /\ r[j + 1].name = r[k + 1].name
               => j + 1 < k + 1
      BY <1>4 DEF Schedule
    <3> QED
      BY <3>1, <1>1, <1>4
  <2> QED
    BY <1>1, <2>1, <2>2, <2>3 DEF Schedule
<1>6. s[1].call \notin {"record", "mint"}
  BY <1>1, <1>2, <1>4 DEF Schedule
<1>7. ASSUME NEW n
      PROVE  /\ ShipsIn(s, n) <=> ShipsIn(r, n) /\ ~(Ships(r[1]) /\ r[1].name = n)
             /\ SuppliesIn(r, n) => SuppliesIn(s, n) \/ (Supplies(r[1]) /\ r[1].name = n)
  <2>1. ASSUME NEW k \in 1..Len(r), k # 1
        PROVE  k - 1 \in 1..Len(s) /\ s[k - 1] = r[k]
    <3>1. k - 1 \in 1..Len(s) /\ (k - 1) + 1 = k
      BY <1>1, <2>1
    <3>2. s[k - 1] = r[(k - 1) + 1]
      BY <3>1, <1>4
    <3> QED
      BY <3>1, <3>2
  <2>2. ASSUME ShipsIn(s, n)
        PROVE  ShipsIn(r, n) /\ ~(Ships(r[1]) /\ r[1].name = n)
    <3>1. PICK k \in 1..Len(s) : Ships(s[k]) /\ s[k].name = n
      BY <2>2 DEF ShipsIn
    <3>2. 1 \in 1..Len(r) /\ k + 1 \in 1..Len(r) /\ k + 1 # 1
      BY <1>1
    <3> QED
      BY <3>1, <3>2, <1>4 DEF ShipsIn, Schedule
  <2>3. ASSUME ShipsIn(r, n), ~(Ships(r[1]) /\ r[1].name = n)
        PROVE  ShipsIn(s, n)
    BY <2>1, <2>3 DEF ShipsIn
  <2>4. SuppliesIn(r, n) => SuppliesIn(s, n) \/ (Supplies(r[1]) /\ r[1].name = n)
    BY <2>1 DEF SuppliesIn
  <2> QED
    BY <2>2, <2>3, <2>4
<1> QED
  BY <1>3, <1>5, <1>6, <1>7 DEF s

\* What is sent is recorded next, and what has no supply is minted next.
LEMMA ScheduleReplaced ==
  ASSUME NEW r, Schedule(r), r # <<>>, NEW c \in Calls,
         \/ r[1].call = "deploy" /\ c.call = "record"
         \/ r[1].call = "totalSupply" /\ c.call = "mint",
         c.name = r[1].name
  PROVE  LET s == <<c>> \o Tail(r)
         IN  /\ Schedule(s) /\ s # <<>>
             /\ Executed(s) = Executed(r)
             /\ s[1] = c
             /\ \A n : (ShipsIn(s, n) <=> ShipsIn(r, n))
             /\ \A n : (SuppliesIn(s, n) <=> SuppliesIn(r, n))
<1> DEFINE s == <<c>> \o Tail(r)
<1>1. /\ r \in Seq(Calls) /\ Len(r) \in Nat /\ Len(r) >= 1
      /\ s \in Seq(Calls) /\ s # <<>> /\ Len(s) = Len(r)
      /\ s[1] = c
      /\ \A i \in 2..Len(r) : s[i] = r[i]
  BY FirstAndRest, Replaced DEF Schedule
<1> HIDE DEF s
<1>2. \A k \in 1..Len(r) :
        /\ s[k].name = r[k].name
        /\ Ships(s[k]) <=> Ships(r[k])
        /\ Supplies(s[k]) <=> Supplies(r[k])
        /\ s[k].call = "finish" <=> r[k].call = "finish"
        /\ k # 1 => s[k] = r[k]
  <2>1. TAKE k \in 1..Len(r)
  <2>2. CASE k = 1
    BY <1>1, <2>2 DEF Ships, Supplies
  <2>3. CASE k # 1
    BY <1>1, <2>3
  <2> QED
    BY <2>2, <2>3
<1>3. Executed(s) = Executed(r)
  BY <1>1, <1>2 DEF Executed
<1>4. Schedule(s)
  <2>1. ASSUME NEW k \in 1..Len(s)
        PROVE  /\ s[k].call = "finish" <=> k = Len(s)
               /\ s[k].call \in {"record", "mint"} => k = 1
               /\ Ships(s[k]) => s[k].name \in DeployedBy(Executed(s))
               /\ Supplies(s[k]) => s[k].name \in Tokens \cap DeployedBy(Executed(s))
    BY <1>1, <1>2, <1>3 DEF Schedule
  <2>2. ASSUME NEW j \in 1..Len(s), NEW k \in 1..Len(s)
        PROVE  /\ Ships(s[j]) /\ Ships(s[k]) =>
                    /\ s[j].name = s[k].name => j = k
                    /\ s[j].name \in Dependencies(s[k].name) => j < k
               /\ Ships(s[j]) /\ Supplies(s[k]) /\ s[j].name = s[k].name => j < k
    BY <1>1, <1>2 DEF Schedule
  <2> QED
    BY <1>1, <1>3, <2>1, <2>2 DEF Schedule
<1>5. ASSUME NEW n
      PROVE  (ShipsIn(s, n) <=> ShipsIn(r, n)) /\ (SuppliesIn(s, n) <=> SuppliesIn(r, n))
  BY <1>1, <1>2 DEF ShipsIn, SuppliesIn
<1> QED
  BY <1>1, <1>3, <1>4, <1>5 DEF s

\* Parts of the fhEVM are installed before all else.
LEMMA SchedulePushed ==
  ASSUME NEW r, Schedule(r), r # <<>>, r[1].call \notin {"record", "mint"},
         NEW c \in Calls, c.call = "install"
  PROVE  LET s == <<c>> \o r
         IN  /\ Schedule(s) /\ s # <<>>
             /\ Executed(s) = Executed(r)
             /\ s[1] = c
             /\ \A n : (ShipsIn(s, n) <=> ShipsIn(r, n))
             /\ \A n : (SuppliesIn(s, n) <=> SuppliesIn(r, n))
<1> DEFINE s == <<c>> \o r
<1>1. /\ r \in Seq(Calls) /\ Len(r) \in Nat /\ Len(r) >= 1
      /\ s \in Seq(Calls) /\ s # <<>> /\ Len(s) = Len(r) + 1
      /\ s[1] = c
      /\ \A i \in 1..Len(r) : s[i + 1] = r[i]
  BY FirstAndRest, Pushed DEF Schedule
<1> HIDE DEF s
<1>2. \A k \in 1..Len(s) : k # 1 => k - 1 \in 1..Len(r) /\ s[k] = r[k - 1]
  <2>1. TAKE k \in 1..Len(s)
  <2>2. HAVE k # 1
  <2>3. k - 1 \in 1..Len(r) /\ (k - 1) + 1 = k
    BY <1>1, <2>2
  <2>4. s[(k - 1) + 1] = r[k - 1]
    BY <1>1, <2>3
  <2> QED
    BY <2>3, <2>4
<1>3. Executed(s) = Executed(r)
  BY <1>1 DEF Executed
<1>4. Schedule(s)
  <2>1. ASSUME NEW k \in 1..Len(s)
        PROVE  /\ s[k].call = "finish" <=> k = Len(s)
               /\ s[k].call \in {"record", "mint"} => k = 1
               /\ Ships(s[k]) => s[k].name \in DeployedBy(Executed(s))
               /\ Supplies(s[k]) => s[k].name \in Tokens \cap DeployedBy(Executed(s))
    <3>1. CASE k = 1
      BY <1>1, <3>1 DEF Ships, Supplies
    <3>2. CASE k # 1
      <4>1. /\ k - 1 \in 1..Len(r) /\ s[k] = r[k - 1]
            /\ k = Len(s) <=> k - 1 = Len(r)
        BY <3>2, <1>1, <1>2
      <4>2. r[k - 1].call \notin {"record", "mint"}
        BY <4>1 DEF Schedule
      <4> QED
        BY <1>3, <4>1, <4>2 DEF Schedule
    <3> QED
      BY <3>1, <3>2
  <2>2. ASSUME NEW j \in 1..Len(s), NEW k \in 1..Len(s)
        PROVE  /\ Ships(s[j]) /\ Ships(s[k]) =>
                    /\ s[j].name = s[k].name => j = k
                    /\ s[j].name \in Dependencies(s[k].name) => j < k
               /\ Ships(s[j]) /\ Supplies(s[k]) /\ s[j].name = s[k].name => j < k
    <3>1. CASE j = 1 \/ k = 1
      BY <1>1, <3>1 DEF Ships, Supplies
    <3>2. CASE j # 1 /\ k # 1
      <4>1. /\ j - 1 \in 1..Len(r) /\ s[j] = r[j - 1]
            /\ k - 1 \in 1..Len(r) /\ s[k] = r[k - 1]
        BY <3>2, <1>2
      <4>2. /\ Ships(r[j - 1]) /\ Ships(r[k - 1]) =>
                 /\ r[j - 1].name = r[k - 1].name => j - 1 = k - 1
                 /\ r[j - 1].name \in Dependencies(r[k - 1].name) => j - 1 < k - 1
            /\ Ships(r[j - 1]) /\ Supplies(r[k - 1]) /\ r[j - 1].name = r[k - 1].name
                 => j - 1 < k - 1
        BY <4>1 DEF Schedule
      <4>3. (j - 1 = k - 1 <=> j = k) /\ (j - 1 < k - 1 <=> j < k)
        BY <1>1
      <4> QED
        BY <4>1, <4>2, <4>3
    <3> QED
      BY <3>1, <3>2
  <2>3. Executed(s) \in DOMAIN Runs
    BY <1>3 DEF Schedule
  <2> QED
    BY <1>1, <2>1, <2>2, <2>3 DEF Schedule
<1>5. ASSUME NEW n
      PROVE  (ShipsIn(s, n) <=> ShipsIn(r, n)) /\ (SuppliesIn(s, n) <=> SuppliesIn(r, n))
  <2>1. ~Ships(s[1]) /\ ~Supplies(s[1])
    BY <1>1 DEF Ships, Supplies
  <2>2. \A i \in 1..Len(r) : i + 1 \in 1..Len(s) /\ s[i + 1] = r[i]
    BY <1>1
  <2>3. ShipsIn(r, n) => ShipsIn(s, n)
    BY <2>2 DEF ShipsIn
  <2>4. SuppliesIn(r, n) => SuppliesIn(s, n)
    BY <2>2 DEF SuppliesIn
  <2>5. ShipsIn(s, n) => ShipsIn(r, n)
    BY <1>2, <2>1 DEF ShipsIn
  <2>6. SuppliesIn(s, n) => SuppliesIn(r, n)
    BY <1>2, <2>1 DEF SuppliesIn
  <2> QED
    BY <2>3, <2>4, <2>5, <2>6
<1> QED
  BY <1>1, <1>3, <1>4, <1>5 DEF s

-----------------------------------------------------------------------------
(* Where a run begins *)

TokenFrom(r, i, token) ==
  r[i + 1] = Call("deploy", token) /\ r[i + 2] = Call("totalSupply", token)

FactoriesFrom(r, i) ==
  /\ r[i + 1] = Call("deploy", "FHEAuctionEngineIteratorFactory")
  /\ r[i + 2] = Call("deploy", "FHEAuctionEnginePriceIdFactory")
  /\ r[i + 3] = Call("deploy", "FHEAuctionEnginePriceQuantityIdFactory")
  /\ r[i + 4] = Call("deploy", "FHEAuctionEnginePriceRandomFactory")
  /\ r[i + 5] = Call("deploy", "FHEAuctionEngineProRataFactory")
  /\ r[i + 6] = Call("deploy", "FHEAuctionERC20Factory")
  /\ r[i + 7] = Call("deploy", "FHEAuctionNativeFactory")

EngineFactoryCalls == [i \in 1..Len(EngineFactories) |-> Call("deploy", EngineFactories[i])]

LEMMA EngineFactoryCallsAre ==
  LET s == EngineFactoryCalls
  IN  /\ s \in Seq(Calls) /\ Len(s) = 4
      /\ s[1] = Call("deploy", "FHEAuctionEnginePriceIdFactory")
      /\ s[2] = Call("deploy", "FHEAuctionEnginePriceQuantityIdFactory")
      /\ s[3] = Call("deploy", "FHEAuctionEnginePriceRandomFactory")
      /\ s[4] = Call("deploy", "FHEAuctionEngineProRataFactory")
<1>1. Len(EngineFactories) = 4
  BY DEF EngineFactories
<1>2. EngineFactoryCalls = [i \in 1..4 |-> Call("deploy", EngineFactories[i])]
  BY <1>1 DEF EngineFactoryCalls
<1>3. ASSUME NEW i \in 1..4
      PROVE  Call("deploy", EngineFactories[i]) \in Calls
  <2>1. i \in {1, 2, 3, 4}
    OBVIOUS
  <2>2. EngineFactories[i] \in EngineFactoryNames
    BY <2>1 DEF EngineFactories, EngineFactoryNames
  <2>3. EngineFactories[i] \in CallNames /\ "deploy" \in Kinds
    BY <2>2, NamesAre DEF CallNames, Kinds
  <2> QED
    BY <2>3, CallsAre
<1>4. EngineFactoryCalls \in Seq(Calls) /\ Len(EngineFactoryCalls) = 4
  BY <1>2, <1>3
<1>5. \A i \in 1..4 : EngineFactoryCalls[i] = Call("deploy", EngineFactories[i])
  BY <1>2
<1> QED
  BY <1>4, <1>5 DEF EngineFactories

LEMMA Joined ==
  ASSUME NEW s \in Seq(Calls), NEW t \in Seq(Calls)
  PROVE  /\ s \o t \in Seq(Calls)
         /\ Len(s \o t) = Len(s) + Len(t)
         /\ \A i \in 1..(Len(s) + Len(t)) :
              (s \o t)[i] = IF i <= Len(s) THEN s[i] ELSE t[i - Len(s)]
BY ConcatProperties

LEMMA FactoryCallsAre ==
  FactoryCalls \in Seq(Calls) /\ Len(FactoryCalls) = 7 /\ FactoriesFrom(FactoryCalls, 0)
<1> DEFINE first == <<Call("deploy", IteratorFactory)>>
           last == <<Call("deploy", AuctionFactory.erc20),
                     Call("deploy", AuctionFactory.native)>>
           most == first \o EngineFactoryCalls
<1>1. FactoryCalls = most \o last
  BY DEF FactoryCalls, EngineFactoryCalls
<1>2. /\ IteratorFactory \in CallNames /\ AuctionFactory.erc20 \in CallNames
      /\ AuctionFactory.native \in CallNames /\ "deploy" \in Kinds
  BY NamesAre DEF CallNames, Kinds, AuctionFactory, AuctionFactoryNames
<1>3. /\ Call("deploy", IteratorFactory) \in Calls
      /\ Call("deploy", AuctionFactory.erc20) \in Calls
      /\ Call("deploy", AuctionFactory.native) \in Calls
  BY <1>2, CallsAre
<1>4. /\ first \in Seq(Calls) /\ Len(first) = 1
      /\ first[1] = Call("deploy", IteratorFactory)
  BY <1>3
<1>5. /\ last \in Seq(Calls) /\ Len(last) = 2
      /\ last[1] = Call("deploy", AuctionFactory.erc20)
      /\ last[2] = Call("deploy", AuctionFactory.native)
  BY <1>3
<1>6. most = first \o EngineFactoryCalls
  OBVIOUS
<1>7. EngineFactoryCalls \in Seq(Calls) /\ Len(EngineFactoryCalls) = 4
  BY EngineFactoryCallsAre
<1> HIDE DEF first, last, most
<1>8. /\ most \in Seq(Calls) /\ Len(most) = 5
      /\ \A i \in 1..5 : most[i] = IF i <= 1 THEN first[i] ELSE EngineFactoryCalls[i - 1]
  <2>1. /\ most \in Seq(Calls) /\ Len(most) = Len(first) + Len(EngineFactoryCalls)
        /\ \A i \in 1..(Len(first) + Len(EngineFactoryCalls)) :
             most[i] = IF i <= Len(first) THEN first[i]
                       ELSE EngineFactoryCalls[i - Len(first)]
    BY <1>4, <1>6, <1>7, Joined
  <2> QED
    BY <1>4, <1>7, <2>1
<1>9. /\ FactoryCalls \in Seq(Calls) /\ Len(FactoryCalls) = 7
      /\ \A i \in 1..7 : FactoryCalls[i] = IF i <= 5 THEN most[i] ELSE last[i - 5]
  <2>1. /\ FactoryCalls \in Seq(Calls) /\ Len(FactoryCalls) = Len(most) + Len(last)
        /\ \A i \in 1..(Len(most) + Len(last)) :
             FactoryCalls[i] = IF i <= Len(most) THEN most[i] ELSE last[i - Len(most)]
    BY <1>1, <1>5, <1>8, Joined
  <2> QED
    BY <1>5, <1>8, <2>1
<1>10. FactoriesFrom(FactoryCalls, 0)
  BY <1>4, <1>5, <1>8, <1>9, EngineFactoryCallsAre
     DEF FactoriesFrom, IteratorFactory, AuctionFactory
<1> QED
  BY <1>9, <1>10

LEMMA TokenCallsAre ==
  ASSUME NEW token \in Tokens
  PROVE  /\ TokenCalls(token) \in Seq(Calls) /\ Len(TokenCalls(token)) = 2
         /\ TokenFrom(TokenCalls(token), 0, token)
<1>1. token \in CallNames /\ "deploy" \in Kinds /\ "totalSupply" \in Kinds
  BY DEF CallNames, Names, Kinds
<1>2. Call("deploy", token) \in Calls /\ Call("totalSupply", token) \in Calls
  BY <1>1, CallsAre
<1> QED
  BY <1>2 DEF TokenCalls, TokenFrom

\* The calls that a run of fhEVM, and of all, begins with.
Before == IF Network = "sepolia" THEN 0 ELSE 1

LEMMA BeforeIs ==
  /\ Script.fhEVM \in Seq(Calls) /\ Len(Script.fhEVM) = Before
  /\ Before \in {0, 1}
  /\ Before = 1 => Script.fhEVM[1] = Call("getCode", "ACL")
<1>1. Script.fhEVM = IF Network = "sepolia" THEN <<>> ELSE <<Call("getCode", "ACL")>>
  BY DEF Script
<1>2. Call("getCode", "ACL") \in Calls
  BY CallsAre DEF Kinds, CallNames
<1>3. <<>> \in Seq(Calls) /\ Len(<<>>) = 0
  BY EmptySeq
<1> QED
  BY <1>1, <1>2, <1>3 DEF Before

LEMMA RunOf ==
  ASSUME NEW tag \in {"fhEVM", "PaymentERC20", "AuctionERC20", "AuctionFactories"}
  PROVE  /\ DOMAIN Runs = TagNames
         /\ Runs[tag] = Script[tag] \o <<Call("finish", tag)>>
<1>1. DOMAIN Script = {"fhEVM", "PaymentERC20", "AuctionERC20", "AuctionFactories"}
  BY DEF Script
<1>2. DOMAIN Runs = TagNames
  BY <1>1 DEF Runs, TagNames
<1>3. tag \in DOMAIN Script \cup {"all"} /\ tag # "all"
  BY <1>1
<1> QED
  BY <1>2, <1>3 DEF Runs

LEMMA RunOfAll ==
  Runs["all"] = (((Script.fhEVM \o TokenCalls("PaymentERC20"))
                    \o TokenCalls("AuctionERC20")) \o FactoryCalls) \o <<Call("finish", "all")>>
<1>1. /\ Script.PaymentERC20 = TokenCalls("PaymentERC20")
      /\ Script.AuctionERC20 = TokenCalls("AuctionERC20")
      /\ Script.AuctionFactories = FactoryCalls
  BY DEF Script
<1>2. "all" \in DOMAIN Script \cup {"all"}
  OBVIOUS
<1>3. Runs["all"] = (((Script.fhEVM \o Script.PaymentERC20) \o Script.AuctionERC20)
                       \o Script.AuctionFactories) \o <<Call("finish", "all")>>
  BY <1>2 DEF Runs
<1> QED
  BY <1>1, <1>3

\* The last call of a run.
LEMMA Finishes ==
  ASSUME NEW s \in Seq(Calls), NEW tag \in TagNames, NEW r,
         r = s \o <<Call("finish", tag)>>
  PROVE  /\ r \in Seq(Calls) /\ Len(r) = Len(s) + 1
         /\ \A i \in 1..Len(s) : r[i] = s[i]
         /\ r[Len(r)] = Call("finish", tag)
<1>1. Call("finish", tag) \in Calls
  BY CallsAre DEF Kinds, CallNames
<1> DEFINE f == <<Call("finish", tag)>>
<1>2. f \in Seq(Calls) /\ Len(f) = 1 /\ f[1] = Call("finish", tag)
  BY <1>1
<1>3. r = s \o f /\ Len(s) \in Nat
  BY LenProperties
<1> HIDE DEF f
<1>4. /\ r \in Seq(Calls) /\ Len(r) = Len(s) + Len(f)
      /\ \A i \in 1..(Len(s) + Len(f)) : r[i] = IF i <= Len(s) THEN s[i] ELSE f[i - Len(s)]
  BY <1>2, <1>3, Joined
<1> QED
  BY <1>2, <1>3, <1>4

LEMMA RunOfFhEVM ==
  LET r == Runs["fhEVM"]
  IN  /\ r \in Seq(Calls) /\ Len(r) = Before + 1
      /\ Before = 1 => r[1] = Call("getCode", "ACL")
      /\ r[Len(r)] = Call("finish", "fhEVM")
<1>1. Script["fhEVM"] = Script.fhEVM
  OBVIOUS
<1>2. Runs["fhEVM"] = Script.fhEVM \o <<Call("finish", "fhEVM")>>
  BY <1>1, RunOf
<1> DEFINE r == Runs["fhEVM"]
<1>3. "fhEVM" \in TagNames
  BY DEF TagNames
<1>4. r = Script.fhEVM \o <<Call("finish", "fhEVM")>>
  BY <1>2
<1> HIDE DEF r
<1>5. /\ r \in Seq(Calls) /\ Len(r) = Len(Script.fhEVM) + 1
      /\ \A i \in 1..Len(Script.fhEVM) : r[i] = Script.fhEVM[i]
      /\ r[Len(r)] = Call("finish", "fhEVM")
  BY <1>3, <1>4, BeforeIs, Finishes
<1> QED
  BY <1>5, BeforeIs DEF r

LEMMA RunOfToken ==
  ASSUME NEW token \in Tokens
  PROVE  LET r == Runs[token]
         IN  /\ r \in Seq(Calls) /\ Len(r) = 3
             /\ TokenFrom(r, 0, token)
             /\ r[3] = Call("finish", token)
<1>1. Script[token] = TokenCalls(token)
  BY DEF Script, Tokens
<1>2. Runs[token] = TokenCalls(token) \o <<Call("finish", token)>>
  BY <1>1, RunOf DEF Tokens
<1>3. token \in TagNames
  BY DEF Tokens, TagNames
<1>4. /\ Runs[token] \in Seq(Calls) /\ Len(Runs[token]) = 3
      /\ \A i \in 1..2 : Runs[token][i] = TokenCalls(token)[i]
      /\ Runs[token][3] = Call("finish", token)
  BY <1>2, <1>3, TokenCallsAre, Finishes
<1> QED
  BY <1>4, TokenCallsAre DEF TokenFrom

LEMMA RunOfFactories ==
  LET r == Runs["AuctionFactories"]
  IN  /\ r \in Seq(Calls) /\ Len(r) = 8
      /\ FactoriesFrom(r, 0)
      /\ r[8] = Call("finish", "AuctionFactories")
<1> DEFINE r == Runs["AuctionFactories"]
<1>1. Script["AuctionFactories"] = FactoryCalls
  BY DEF Script
<1>2. r = FactoryCalls \o <<Call("finish", "AuctionFactories")>>
  BY <1>1, RunOf
<1> HIDE DEF r
<1>3. /\ r \in Seq(Calls) /\ Len(r) = 8
      /\ \A i \in 1..7 : r[i] = FactoryCalls[i]
      /\ r[8] = Call("finish", "AuctionFactories")
  <2>1. "AuctionFactories" \in TagNames
    BY DEF TagNames
  <2>2. /\ r \in Seq(Calls) /\ Len(r) = Len(FactoryCalls) + 1
        /\ \A i \in 1..Len(FactoryCalls) : r[i] = FactoryCalls[i]
        /\ r[Len(r)] = Call("finish", "AuctionFactories")
    <3>1. FactoryCalls \in Seq(Calls)
      BY FactoryCallsAre
    <3> QED
      BY <1>2, <2>1, <3>1, Finishes
  <2> QED
    BY <2>2, FactoryCallsAre
<1>4. FactoriesFrom(r, 0)
  BY <1>3, FactoryCallsAre DEF FactoriesFrom
<1> QED
  BY <1>3, <1>4 DEF r

LEMMA RunOfAllIs ==
  LET r == Runs["all"]
  IN  /\ r \in Seq(Calls) /\ Len(r) = Before + 12
      /\ Before = 1 => r[1] = Call("getCode", "ACL")
      /\ TokenFrom(r, Before, "PaymentERC20")
      /\ TokenFrom(r, Before + 2, "AuctionERC20")
      /\ FactoriesFrom(r, Before + 4)
      /\ r[Len(r)] = Call("finish", "all")
<1> DEFINE p == TokenCalls("PaymentERC20")
           a == TokenCalls("AuctionERC20")
           b == Before
           s0 == Script.fhEVM
           s1 == s0 \o p
           s2 == s1 \o a
           s3 == s2 \o FactoryCalls
           r == Runs["all"]
<1>1. r = s3 \o <<Call("finish", "all")>>
  BY RunOfAll
<1>2. /\ p \in Seq(Calls) /\ Len(p) = 2 /\ TokenFrom(p, 0, "PaymentERC20")
      /\ a \in Seq(Calls) /\ Len(a) = 2 /\ TokenFrom(a, 0, "AuctionERC20")
  BY TokenCallsAre DEF Tokens
<1>3. /\ b \in Nat
      /\ s0 \in Seq(Calls) /\ Len(s0) = b
      /\ b = 1 => s0[1] = Call("getCode", "ACL")
  BY BeforeIs
<1>4. s1 = s0 \o p /\ s2 = s1 \o a /\ s3 = s2 \o FactoryCalls
  OBVIOUS
<1> HIDE DEF p, a, b, s0, s1, s2, s3, r
<1>5. /\ s1 \in Seq(Calls) /\ Len(s1) = b + 2
      /\ b = 1 => s1[1] = Call("getCode", "ACL")
      /\ TokenFrom(s1, b, "PaymentERC20")
  <2>1. /\ s1 \in Seq(Calls) /\ Len(s1) = Len(s0) + Len(p)
        /\ \A i \in 1..(Len(s0) + Len(p)) : s1[i] = IF i <= Len(s0) THEN s0[i]
                                                    ELSE p[i - Len(s0)]
    BY <1>2, <1>3, <1>4, Joined
  <2>2. TokenFrom(s1, b, "PaymentERC20")
    BY <1>2, <1>3, <2>1 DEF TokenFrom
  <2> QED
    BY <1>2, <1>3, <2>1, <2>2
<1>6. /\ s2 \in Seq(Calls) /\ Len(s2) = b + 4
      /\ b = 1 => s2[1] = Call("getCode", "ACL")
      /\ TokenFrom(s2, b, "PaymentERC20")
      /\ TokenFrom(s2, b + 2, "AuctionERC20")
  <2>1. /\ s2 \in Seq(Calls) /\ Len(s2) = Len(s1) + Len(a)
        /\ \A i \in 1..(Len(s1) + Len(a)) : s2[i] = IF i <= Len(s1) THEN s1[i]
                                                    ELSE a[i - Len(s1)]
    BY <1>2, <1>4, <1>5, Joined
  <2>2. TokenFrom(s2, b, "PaymentERC20") /\ TokenFrom(s2, b + 2, "AuctionERC20")
    BY <1>2, <1>3, <1>5, <2>1 DEF TokenFrom
  <2> QED
    BY <1>2, <1>3, <1>5, <2>1, <2>2
<1>7. /\ s3 \in Seq(Calls) /\ Len(s3) = b + 11
      /\ b = 1 => s3[1] = Call("getCode", "ACL")
      /\ TokenFrom(s3, b, "PaymentERC20")
      /\ TokenFrom(s3, b + 2, "AuctionERC20")
      /\ FactoriesFrom(s3, b + 4)
  <2>1. /\ s3 \in Seq(Calls) /\ Len(s3) = Len(s2) + Len(FactoryCalls)
        /\ \A i \in 1..(Len(s2) + Len(FactoryCalls)) :
             s3[i] = IF i <= Len(s2) THEN s2[i] ELSE FactoryCalls[i - Len(s2)]
    <3>1. FactoryCalls \in Seq(Calls)
      BY FactoryCallsAre
    <3> QED
      BY <1>4, <1>6, <3>1, Joined
  <2>2. TokenFrom(s3, b, "PaymentERC20") /\ TokenFrom(s3, b + 2, "AuctionERC20")
    BY <1>3, <1>6, <2>1, FactoryCallsAre DEF TokenFrom
  <2>3. FactoriesFrom(s3, b + 4)
    BY <1>3, <1>6, <2>1, FactoryCallsAre DEF FactoriesFrom
  <2> QED
    BY <1>3, <1>6, <2>1, <2>2, <2>3, FactoryCallsAre
<1>8. /\ r \in Seq(Calls) /\ Len(r) = Len(s3) + 1
      /\ \A i \in 1..Len(s3) : r[i] = s3[i]
      /\ r[Len(r)] = Call("finish", "all")
  BY <1>1, <1>7, Finishes DEF TagNames
<1>9. TokenFrom(r, b, "PaymentERC20") /\ TokenFrom(r, b + 2, "AuctionERC20")
  BY <1>3, <1>7, <1>8 DEF TokenFrom
<1>10. FactoriesFrom(r, b + 4)
  BY <1>3, <1>7, <1>8 DEF FactoriesFrom
<1>11. Len(r) = b + 12 /\ (b = 1 => r[1] = Call("getCode", "ACL"))
  BY <1>3, <1>7, <1>8
<1> QED
  BY <1>8, <1>9, <1>10, <1>11 DEF r, b

\* A call of a run that begins: p is where each contract is deployed.
Placed(r, k, p) ==
  /\ r[k].call \in {"getCode", "deploy", "totalSupply"}
  /\ r[k].call = "deploy" =>
       /\ r[k].name \in Names
       /\ p[r[k].name] = k
       /\ \A d \in Dependencies(r[k].name) : \E j \in 1..(k - 1) : r[j] = Call("deploy", d)
       /\ r[k].name \in Tokens => r[k + 1] = Call("totalSupply", r[k].name)
  /\ r[k].call = "totalSupply" =>
       /\ r[k].name \in Tokens
       /\ k - 1 >= 1
       /\ r[k - 1] = Call("deploy", r[k].name)

LEMMA TokenIsPlaced ==
  ASSUME NEW r, NEW i \in Nat, NEW p, NEW token \in Tokens,
         TokenFrom(r, i, token), p[token] = i + 1
  PROVE  Placed(r, i + 1, p) /\ Placed(r, i + 2, p)
<1>1. /\ r[i + 1].call = "deploy" /\ r[i + 1].name = token
      /\ r[i + 2].call = "totalSupply" /\ r[i + 2].name = token
      /\ r[(i + 1) + 1] = Call("totalSupply", token)
      /\ r[(i + 2) - 1] = Call("deploy", token)
  BY DEF TokenFrom, Call
<1>2. token \in Names /\ Dependencies(token) = {}
  BY NothingDependsOnTokens, DependenciesAre, NamesAre
     DEF Names, Tokens, EngineFactoryNames, AuctionFactoryNames
<1>3. (i + 2) - 1 >= 1
  OBVIOUS
<1> QED
  BY <1>1, <1>2, <1>3 DEF Placed

LEMMA FactoriesArePlaced ==
  ASSUME NEW r, NEW i \in Nat, NEW p, FactoriesFrom(r, i),
         p["FHEAuctionEngineIteratorFactory"] = i + 1,
         p["FHEAuctionEnginePriceIdFactory"] = i + 2,
         p["FHEAuctionEnginePriceQuantityIdFactory"] = i + 3,
         p["FHEAuctionEnginePriceRandomFactory"] = i + 4,
         p["FHEAuctionEngineProRataFactory"] = i + 5,
         p["FHEAuctionERC20Factory"] = i + 6,
         p["FHEAuctionNativeFactory"] = i + 7,
         NEW k \in 1..7
  PROVE  Placed(r, i + k, p)
<1>1. \A n : Call("deploy", n).call = "deploy" /\ Call("deploy", n).name = n
  BY DEF Call
<1>2. \A n \in EngineFactoryNames \cup AuctionFactoryNames \cup {IteratorFactory} :
        n \in Names /\ n \notin Tokens
  BY NamesAre DEF EngineFactoryNames, AuctionFactoryNames, IteratorFactory, Tokens
<1>3. CASE k = 1
  <2>1. r[i + k] = Call("deploy", IteratorFactory)
    BY <1>3 DEF FactoriesFrom, IteratorFactory
  <2>2. Dependencies(IteratorFactory) = {}
    BY DependenciesAre DEF EngineFactoryNames, AuctionFactoryNames, IteratorFactory
  <2>3. p[IteratorFactory] = i + k
    BY <1>3 DEF IteratorFactory
  <2> QED
    BY <1>1, <1>2, <2>1, <2>2, <2>3 DEF Placed
<1>4. CASE k \in 2..5
  <2>1. PICK n \in EngineFactoryNames : r[i + k] = Call("deploy", n) /\ p[n] = i + k
    <3>1. k \in {2, 3, 4, 5}
      BY <1>4
    <3> QED
      BY <3>1 DEF FactoriesFrom, EngineFactoryNames
  <2>2. Dependencies(n) = {IteratorFactory}
    BY DependenciesAre
  <2>3. r[i + 1] = Call("deploy", IteratorFactory) /\ i + 1 \in 1..((i + k) - 1)
    BY <1>4 DEF FactoriesFrom, IteratorFactory
  <2> QED
    BY <1>1, <1>2, <2>1, <2>2, <2>3 DEF Placed
<1>5. CASE k \in 6..7
  <2>1. PICK n \in AuctionFactoryNames : r[i + k] = Call("deploy", n) /\ p[n] = i + k
    <3>1. k \in {6, 7}
      BY <1>5
    <3> QED
      BY <3>1 DEF FactoriesFrom, AuctionFactoryNames
  <2>2. Dependencies(n) = EngineFactoryNames
    BY DependenciesAre DEF EngineFactoryNames, AuctionFactoryNames
  <2>3. \A d \in EngineFactoryNames : \E j \in 1..((i + k) - 1) : r[j] = Call("deploy", d)
    <3>1. \A j \in 2..5 : i + j \in 1..((i + k) - 1)
      BY <1>5
    <3>2. 2 \in 2..5 /\ 3 \in 2..5 /\ 4 \in 2..5 /\ 5 \in 2..5
      OBVIOUS
    <3> QED
      BY <3>1, <3>2 DEF FactoriesFrom, EngineFactoryNames
  <2> QED
    BY <1>1, <1>2, <2>1, <2>2, <2>3 DEF Placed
<1> QED
  BY <1>3, <1>4, <1>5

\* What holds where a run begins.
Begins(r, tag) ==
  /\ Schedule(r) /\ r # <<>> /\ Executed(r) = tag
  /\ r[1].call \notin {"record", "mint"}
  /\ \A n \in DeployedBy(tag) :
       /\ n \in Names
       /\ Dependencies(n) \subseteq DeployedBy(tag)
       /\ ShipsIn(r, n)
       /\ n \in Tokens => SuppliesIn(r, n)

LEMMA PlacedBegins ==
  ASSUME NEW tag \in TagNames, NEW p, NEW r, r = Runs[tag],
         r \in Seq(Calls), Len(r) >= 1, r[Len(r)] = Call("finish", tag),
         \A k \in 1..(Len(r) - 1) : Placed(r, k, p)
  PROVE  Begins(r, tag)
<1>1. Len(r) \in Nat /\ r # <<>> /\ Executed(r) = tag
  BY LenProperties, EmptySeq DEF Executed, Call
<1>2. tag \in DOMAIN Runs
  BY RunOf DEF TagNames
<1>3. DeployedBy(tag) = {r[i].name : i \in {j \in 1..Len(r) : r[j].call = "deploy"}}
  BY DEF DeployedBy
<1>4. \A k \in 1..Len(r) : \/ k \in 1..(Len(r) - 1) /\ k # Len(r)
                           \/ k = Len(r) /\ r[k].call = "finish"
  BY <1>1 DEF Call
<1>5. \A k \in 1..Len(r) :
        /\ r[k].call \in {"getCode", "deploy", "totalSupply", "finish"}
        /\ r[k].call = "finish" <=> k = Len(r)
        /\ Ships(r[k]) => r[k].call = "deploy" /\ k \in 1..(Len(r) - 1)
        /\ Supplies(r[k]) => r[k].call = "totalSupply" /\ k \in 1..(Len(r) - 1)
  BY <1>4 DEF Placed, Ships, Supplies
<1>6. ASSUME NEW k \in 1..Len(r), Ships(r[k])
      PROVE  r[k].name \in DeployedBy(tag) /\ p[r[k].name] = k
  BY <1>3, <1>5, <1>6 DEF Placed
<1>7. ASSUME NEW k \in 1..Len(r), Supplies(r[k])
      PROVE  /\ r[k].name \in Tokens
             /\ k - 1 \in 1..Len(r) /\ Ships(r[k - 1]) /\ r[k - 1].name = r[k].name
  <2>1. r[k].name \in Tokens /\ k - 1 >= 1 /\ r[k - 1] = Call("deploy", r[k].name)
    BY <1>5, <1>7 DEF Placed
  <2> QED
    BY <1>1, <2>1 DEF Call, Ships
<1>8. ASSUME NEW k \in 1..Len(r), Ships(r[k]), NEW d \in Dependencies(r[k].name)
      PROVE  \E j \in 1..Len(r) : j < k /\ Ships(r[j]) /\ r[j].name = d
  <2>1. PICK j \in 1..(k - 1) : r[j] = Call("deploy", d)
    BY <1>5, <1>8 DEF Placed
  <2>2. j \in 1..Len(r) /\ j < k
    BY <1>1
  <2> QED
    BY <2>1, <2>2 DEF Call, Ships
<1>9. ASSUME NEW j \in 1..Len(r), NEW k \in 1..Len(r)
      PROVE  /\ Ships(r[j]) /\ Ships(r[k]) =>
                  /\ r[j].name = r[k].name => j = k
                  /\ r[j].name \in Dependencies(r[k].name) => j < k
             /\ Ships(r[j]) /\ Supplies(r[k]) /\ r[j].name = r[k].name => j < k
  <2>1. ASSUME NEW i \in 1..Len(r), Ships(r[i]), Ships(r[j]), r[i].name = r[j].name
        PROVE  i = j
    BY <1>6, <2>1
  <2>2. ASSUME Ships(r[j]), Ships(r[k])
        PROVE  /\ r[j].name = r[k].name => j = k
               /\ r[j].name \in Dependencies(r[k].name) => j < k
    <3>1. ASSUME r[j].name \in Dependencies(r[k].name)
          PROVE  j < k
      <4>1. PICK i \in 1..Len(r) : i < k /\ Ships(r[i]) /\ r[i].name = r[j].name
        BY <1>8, <2>2, <3>1
      <4> QED
        BY <2>1, <2>2, <4>1
    <3> QED
      BY <2>1, <2>2, <3>1
  <2>3. ASSUME Ships(r[j]), Supplies(r[k]), r[j].name = r[k].name
        PROVE  j < k
    <3>1. k - 1 = j
      BY <1>7, <2>1, <2>3
    <3> QED
      BY <3>1, <1>1
  <2> QED
    BY <2>2, <2>3
<1>10. Schedule(r)
  <2>1. ASSUME NEW k \in 1..Len(r)
        PROVE  /\ r[k].call = "finish" <=> k = Len(r)
               /\ r[k].call \in {"record", "mint"} => k = 1
               /\ Ships(r[k]) => r[k].name \in DeployedBy(Executed(r))
               /\ Supplies(r[k]) => r[k].name \in Tokens \cap DeployedBy(Executed(r))
    BY <1>1, <1>5, <1>6, <1>7
  <2> QED
    BY <1>1, <1>2, <1>9, <2>1 DEF Schedule
<1>11. ASSUME NEW n \in DeployedBy(tag)
       PROVE  /\ n \in Names
              /\ Dependencies(n) \subseteq DeployedBy(tag)
              /\ ShipsIn(r, n)
              /\ n \in Tokens => SuppliesIn(r, n)
  <2>1. PICK k \in 1..Len(r) : r[k].call = "deploy" /\ r[k].name = n
    BY <1>3
  <2>2. Ships(r[k]) /\ k \in 1..(Len(r) - 1)
    BY <1>4, <2>1 DEF Ships
  <2>3. n \in Names /\ (n \in Tokens => r[k + 1] = Call("totalSupply", n))
    BY <2>1, <2>2 DEF Placed
  <2>4. k + 1 \in 1..Len(r)
    BY <1>1, <2>2
  <2>5. n \in Tokens => SuppliesIn(r, n)
    BY <2>3, <2>4 DEF SuppliesIn, Supplies, Call
  <2>6. Dependencies(n) \subseteq DeployedBy(tag)
    <3>1. SUFFICES ASSUME NEW d \in Dependencies(r[k].name)
                   PROVE  d \in DeployedBy(tag)
      BY <2>1
    <3>2. PICK j \in 1..Len(r) : j < k /\ Ships(r[j]) /\ r[j].name = d
      BY <1>8, <2>2, <3>1
    <3> QED
      BY <1>6, <3>2
  <2> QED
    BY <2>1, <2>2, <2>3, <2>5, <2>6 DEF ShipsIn
<1>12. r[1].call \notin {"record", "mint"}
  BY <1>1, <1>5
<1> QED
  BY <1>1, <1>10, <1>11, <1>12 DEF Begins

LEMMA RunBegins ==
  ASSUME NEW tag \in TagNames
  PROVE  Begins(Runs[tag], tag)
<1> DEFINE Place(n) == CASE n = "PaymentERC20" -> 1
                         [] n = "AuctionERC20" -> 3
                         [] n = "FHEAuctionEngineIteratorFactory" -> 5
                         [] n = "FHEAuctionEnginePriceIdFactory" -> 6
                         [] n = "FHEAuctionEnginePriceQuantityIdFactory" -> 7
                         [] n = "FHEAuctionEnginePriceRandomFactory" -> 8
                         [] n = "FHEAuctionEngineProRataFactory" -> 9
                         [] n = "FHEAuctionERC20Factory" -> 10
                         [] n = "FHEAuctionNativeFactory" -> 11
           From(i) == [n \in Names |-> i + Place(n)]
<1>1. ASSUME NEW i \in Int
      PROVE  /\ From(i)["PaymentERC20"] = i + 1
             /\ From(i)["AuctionERC20"] = i + 3
             /\ From(i)["FHEAuctionEngineIteratorFactory"] = i + 5
             /\ From(i)["FHEAuctionEnginePriceIdFactory"] = i + 6
             /\ From(i)["FHEAuctionEnginePriceQuantityIdFactory"] = i + 7
             /\ From(i)["FHEAuctionEnginePriceRandomFactory"] = i + 8
             /\ From(i)["FHEAuctionEngineProRataFactory"] = i + 9
             /\ From(i)["FHEAuctionERC20Factory"] = i + 10
             /\ From(i)["FHEAuctionNativeFactory"] = i + 11
  <2>1. \A n \in Names : From(i)[n] = i + Place(n)
    OBVIOUS
  <2>2. /\ "PaymentERC20" \in Names /\ "AuctionERC20" \in Names
        /\ "FHEAuctionEngineIteratorFactory" \in Names
        /\ "FHEAuctionEnginePriceIdFactory" \in Names
        /\ "FHEAuctionEnginePriceQuantityIdFactory" \in Names
        /\ "FHEAuctionEnginePriceRandomFactory" \in Names
        /\ "FHEAuctionEngineProRataFactory" \in Names
        /\ "FHEAuctionERC20Factory" \in Names
        /\ "FHEAuctionNativeFactory" \in Names
    BY NamesAre DEF Tokens, IteratorFactory, EngineFactoryNames, AuctionFactoryNames
  <2> HIDE DEF From
  <2> QED
    BY <2>1, <2>2
<1>2. Before \in {0, 1}
  BY BeforeIs
<1> HIDE DEF From
<1>3. CASE tag = "fhEVM"
  <2> DEFINE r == Runs["fhEVM"]
  <2>1. /\ r \in Seq(Calls) /\ Len(r) = Before + 1
        /\ Before = 1 => r[1] = Call("getCode", "ACL")
        /\ r[Len(r)] = Call("finish", "fhEVM")
    BY RunOfFhEVM
  <2> HIDE DEF r
  <2>2. \A k \in 1..(Len(r) - 1) : Placed(r, k, From(0))
    <3>1. \A k \in 1..(Len(r) - 1) : k = 1 /\ r[1] = Call("getCode", "ACL")
      BY <1>2, <2>1
    <3> QED
      BY <3>1 DEF Placed, Call
  <2>3. Len(r) >= 1 /\ r[Len(r)] = Call("finish", tag)
    BY <1>2, <1>3, <2>1
  <2> QED
    BY <1>3, <2>1, <2>2, <2>3, PlacedBegins DEF r
<1>4. CASE tag \in Tokens
  <2> DEFINE r == Runs[tag]
  <2>1. /\ r \in Seq(Calls) /\ Len(r) = 3 /\ TokenFrom(r, 0, tag)
        /\ r[3] = Call("finish", tag)
    BY <1>4, RunOfToken
  <2>2. PICK i \in Int : From(i)[tag] = 1
    <3>1. CASE tag = "PaymentERC20"
      BY <1>1, <3>1
    <3>2. CASE tag = "AuctionERC20"
      <4>1. -2 \in Int /\ From(-2)["AuctionERC20"] = -2 + 3
        BY <1>1
      <4> QED
        BY <3>2, <4>1
    <3> QED
      BY <1>4, <3>1, <3>2 DEF Tokens
  <2> DEFINE p == From(i)
  <2>3. p[tag] = 0 + 1
    BY <2>2
  <2> HIDE DEF r, p
  <2>4. Placed(r, 0 + 1, p) /\ Placed(r, 0 + 2, p)
    BY <1>4, <2>1, <2>3, TokenIsPlaced
  <2>5. \A k \in 1..(Len(r) - 1) : Placed(r, k, p)
    <3>1. \A k \in 1..(Len(r) - 1) : k = 1 \/ k = 2
      BY <2>1
    <3>2. Placed(r, 1, p) /\ Placed(r, 2, p)
      BY <2>4
    <3> QED
      BY <3>1, <3>2
  <2>6. Len(r) >= 1 /\ r[Len(r)] = Call("finish", tag)
    BY <2>1
  <2> QED
    BY <2>1, <2>5, <2>6, PlacedBegins DEF r
<1>5. CASE tag = "AuctionFactories"
  <2> DEFINE r == Runs["AuctionFactories"]
             p == From(-4)
  <2>1. /\ r \in Seq(Calls) /\ Len(r) = 8 /\ FactoriesFrom(r, 0)
        /\ r[8] = Call("finish", "AuctionFactories")
    BY RunOfFactories
  <2>2. /\ p["FHEAuctionEngineIteratorFactory"] = 0 + 1
        /\ p["FHEAuctionEnginePriceIdFactory"] = 0 + 2
        /\ p["FHEAuctionEnginePriceQuantityIdFactory"] = 0 + 3
        /\ p["FHEAuctionEnginePriceRandomFactory"] = 0 + 4
        /\ p["FHEAuctionEngineProRataFactory"] = 0 + 5
        /\ p["FHEAuctionERC20Factory"] = 0 + 6
        /\ p["FHEAuctionNativeFactory"] = 0 + 7
    <3>1. -4 \in Int
      OBVIOUS
    <3> QED
      BY <1>1, <3>1
  <2> HIDE DEF r, p
  <2>3. \A k \in 1..7 : Placed(r, 0 + k, p)
    BY <2>1, <2>2, FactoriesArePlaced
  <2>4. \A k \in 1..(Len(r) - 1) : Placed(r, k, p)
    <3>1. TAKE k \in 1..(Len(r) - 1)
    <3>2. k \in 1..7 /\ 0 + k = k
      BY <2>1
    <3> QED
      BY <2>3, <3>2
  <2>5. Len(r) >= 1 /\ r[Len(r)] = Call("finish", tag)
    BY <1>5, <2>1
  <2> QED
    BY <1>5, <2>1, <2>4, <2>5, PlacedBegins DEF r
<1>6. CASE tag = "all"
  <2> DEFINE r == Runs["all"]
             b == Before
             p == From(Before)
  <2>1. /\ r \in Seq(Calls) /\ Len(r) = b + 12
        /\ b = 1 => r[1] = Call("getCode", "ACL")
        /\ TokenFrom(r, b, "PaymentERC20")
        /\ TokenFrom(r, b + 2, "AuctionERC20")
        /\ FactoriesFrom(r, b + 4)
        /\ r[Len(r)] = Call("finish", "all")
    BY RunOfAllIs
  <2>2. b \in {0, 1} /\ b \in Int
    BY <1>2
  <2>3. /\ p["PaymentERC20"] = b + 1
        /\ p["AuctionERC20"] = (b + 2) + 1
        /\ p["FHEAuctionEngineIteratorFactory"] = (b + 4) + 1
        /\ p["FHEAuctionEnginePriceIdFactory"] = (b + 4) + 2
        /\ p["FHEAuctionEnginePriceQuantityIdFactory"] = (b + 4) + 3
        /\ p["FHEAuctionEnginePriceRandomFactory"] = (b + 4) + 4
        /\ p["FHEAuctionEngineProRataFactory"] = (b + 4) + 5
        /\ p["FHEAuctionERC20Factory"] = (b + 4) + 6
        /\ p["FHEAuctionNativeFactory"] = (b + 4) + 7
    BY <1>1, <2>2
  <2> HIDE DEF r, b, p
  <2>4. /\ Placed(r, b + 1, p) /\ Placed(r, b + 2, p)
        /\ Placed(r, (b + 2) + 1, p) /\ Placed(r, (b + 2) + 2, p)
    <3>1. b \in Nat /\ b + 2 \in Nat
      BY <2>2
    <3> QED
      BY <2>1, <2>3, <3>1, TokenIsPlaced DEF Tokens
  <2>5. \A k \in 1..7 : Placed(r, (b + 4) + k, p)
    <3>1. b + 4 \in Nat
      BY <2>2
    <3> QED
      BY <2>1, <2>3, <3>1, FactoriesArePlaced
  <2>6. ASSUME NEW k \in 1..(Len(r) - 1)
        PROVE  Placed(r, k, p)
    <3>1. CASE k < b + 1
      <4>1. k = 1 /\ r[1] = Call("getCode", "ACL")
        BY <2>1, <2>2, <3>1
      <4> QED
        BY <4>1 DEF Placed, Call
    <3>2. CASE k \in (b + 1)..(b + 4)
      <4>1. k = b + 1 \/ k = b + 2 \/ k = (b + 2) + 1 \/ k = (b + 2) + 2
        BY <2>2, <3>2
      <4> QED
        BY <2>4, <4>1
    <3>3. CASE k > b + 4
      <4>1. k - (b + 4) \in 1..7 /\ (b + 4) + (k - (b + 4)) = k
        BY <2>1, <2>2, <3>3
      <4>2. Placed(r, (b + 4) + (k - (b + 4)), p)
        BY <2>5, <4>1
      <4> QED
        BY <4>1, <4>2
    <3> QED
      BY <2>2, <3>1, <3>2, <3>3
  <2>7. Len(r) >= 1 /\ r[Len(r)] = Call("finish", tag)
    BY <1>6, <2>1, <2>2
  <2> QED
    BY <1>6, <2>1, <2>6, <2>7, PlacedBegins DEF r
<1> QED
  BY <1>3, <1>4, <1>5, <1>6 DEF TagNames, Tokens

-----------------------------------------------------------------------------
(* The deployer keeps the invariant *)

LEMMA TagNamesAreRuns == DOMAIN Runs = TagNames
BY RunOf

LEMMA DeployedByAre ==
  ASSUME NEW tag \in DOMAIN Runs, NEW n \in DeployedBy(tag)
  PROVE  n \in Names /\ Dependencies(n) \subseteq DeployedBy(tag)
BY RunBegins, TagNamesAreRuns DEF Begins

LEMMA NothingIsScheduled ==
  /\ Schedule(<<>>)
  /\ \A kind : ~(<<>> # NoRun /\ Head(<<>>).call = kind)
<1>1. <<>> \in Seq(Calls) /\ Len(<<>>) = 0
  BY EmptySeq
<1>2. 1..Len(<<>>) = {}
  BY <1>1
<1> QED
  BY <1>1, <1>2 DEF Schedule, NoRun

\* The call that is made next.
LEMMA CalledIs ==
  ASSUME Schedule(run), run # NoRun
  PROVE  /\ run # <<>>
         /\ Head(run) = run[1] /\ Called = run[1].name
         /\ run[1] \in Calls /\ Called \in CallNames
         /\ 1 \in 1..Len(run)
         /\ Tail(run) \in Seq(Calls)
         /\ Executed(run) \in DOMAIN Runs
         /\ Ships(run[1]) => Called \in DeployedBy(Executed(run))
         /\ Supplies(run[1]) => Called \in Tokens \cap DeployedBy(Executed(run))
<1>1. run \in Seq(Calls) /\ run # <<>>
  BY DEF Schedule, NoRun
<1>2. /\ Len(run) \in Nat /\ Len(run) >= 1
      /\ Head(run) = run[1] /\ run[1] \in Calls
      /\ Tail(run) \in Seq(Calls)
  BY <1>1, FirstAndRest
<1>3. 1 \in 1..Len(run)
  BY <1>2
<1> QED
  BY <1>1, <1>2, <1>3 DEF Schedule, Called, Calls

LEMMA MakesNext ==
  ASSUME Schedule(run)', run' # <<>>, NEW kind
  PROVE  Makes(kind)' <=> run'[1].call = kind
<1>1. Head(run') = run'[1]
  BY FirstAndRest DEF Schedule
<1> QED
  BY <1>1 DEF Makes, NoRun

\* What a contract is constructed with was dealt with before it is its turn, and
\* so was a token before its supply is asked for.
LEMMA DealtWithBefore ==
  ASSUME Schedule(run), run # NoRun, WiredInv
  PROVE  /\ Ships(run[1]) =>
              \A d \in Dependencies(Called) :
                d \in DeployedBy(Executed(run)) /\ ~ShipsIn(run, d) /\ UpToDate(d)
         /\ Supplies(run[1]) => ~ShipsIn(run, Called) /\ UpToDate(Called)
<1>1. /\ run # <<>> /\ 1 \in 1..Len(run) /\ Called = run[1].name
      /\ Executed(run) \in DOMAIN Runs
      /\ Ships(run[1]) => Called \in DeployedBy(Executed(run))
      /\ Supplies(run[1]) => Called \in Tokens \cap DeployedBy(Executed(run))
  BY CalledIs
<1>2. \A j \in 1..Len(run) : ~(j < 1)
  OBVIOUS
<1>3. ASSUME Ships(run[1]), NEW d \in Dependencies(Called)
      PROVE  d \in DeployedBy(Executed(run)) /\ ~ShipsIn(run, d) /\ UpToDate(d)
  <2>1. d \in DeployedBy(Executed(run))
    BY <1>1, <1>3, DeployedByAre
  <2>2. ~ShipsIn(run, d)
    BY <1>1, <1>2, <1>3 DEF ShipsIn, Schedule
  <2> QED
    BY <2>1, <2>2 DEF WiredInv
<1>4. ASSUME Supplies(run[1])
      PROVE  ~ShipsIn(run, Called) /\ UpToDate(Called)
  <2>1. ~ShipsIn(run, Called)
    BY <1>1, <1>2, <1>4 DEF ShipsIn, Schedule
  <2> QED
    BY <1>1, <1>4, <2>1 DEF WiredInv
<1> QED
  BY <1>3, <1>4

\* A run goes on with the next call.
LEMMA WiredAfterTail ==
  ASSUME Schedule(run), run # NoRun, run[1].call # "finish", run' = Tail(run), WiredInv,
         \A n \in DeployedBy(Executed(run)) :
           /\ Ships(run[1]) /\ run[1].name = n => UpToDate(n)'
           /\ ~ShipsIn(run, n) /\ UpToDate(n) => UpToDate(n)'
  PROVE  WiredInv'
<1>1. /\ run # <<>> /\ run' # <<>>
      /\ Executed(run') = Executed(run) /\ Executed(run) \in DOMAIN Runs
      /\ \A n : ShipsIn(run', n) <=> ShipsIn(run, n) /\ ~(Ships(run[1]) /\ run[1].name = n)
  BY CalledIs, ScheduleTail DEF NoRun
<1>2. SUFFICES ASSUME NEW n \in DeployedBy(Executed(run))
               PROVE  /\ ShipsIn(run', n) \/ UpToDate(n)'
                      /\ \A d \in Dependencies(n) : ShipsIn(run', d) => ShipsIn(run', n)
  BY <1>1 DEF WiredInv, NoRun
<1>3. /\ ShipsIn(run, n) \/ UpToDate(n)
      /\ \A d \in Dependencies(n) : ShipsIn(run, d) => ShipsIn(run, n)
  BY DEF WiredInv
<1>4. ASSUME NEW d \in Dependencies(n), ShipsIn(run', d), Ships(run[1]), run[1].name = n
      PROVE  FALSE
  <2>1. ShipsIn(run, d)
    BY <1>1, <1>4
  <2>2. ~ShipsIn(run, d)
    BY <1>4, DealtWithBefore, CalledIs
  <2> QED
    BY <2>1, <2>2
<1> QED
  BY <1>1, <1>3, <1>4

\* Another call takes the place of the next one, or comes before it.
LEMMA WiredAfterChange ==
  ASSUME WiredInv, run # NoRun, Executed(run') = Executed(run),
         \A n : ShipsIn(run', n) <=> ShipsIn(run, n),
         \A n \in DeployedBy(Executed(run)) : UpToDate(n) => UpToDate(n)'
  PROVE  WiredInv'
BY DEF WiredInv

LEMMA ContractsAre ==
  ASSUME TypeInv, NEW a \in 1..Len(contracts)
  PROVE  /\ contracts[a] \in Contracts
         /\ contracts[a].name \in Names /\ contracts[a].version \in Nat
         /\ contracts[a].args \in Constructions /\ contracts[a].mints \in {0, 1}
<1>1. contracts[a] \in Contracts
  BY ElementOfSeq DEF TypeInv
<1> QED
  BY <1>1 DEF Contracts

LEMMA RecordsAre ==
  ASSUME TypeInv, NEW n \in Names
  PROVE  /\ Len(contracts) \in Nat
         /\ records[n] \in 0..Len(contracts)
         /\ records[n] # None => /\ records[n] \in 1..Len(contracts)
                                 /\ contracts[records[n]].name = n
<1>1. Len(contracts) \in Nat
  BY LenProperties DEF TypeInv
<1>2. records[n] \in 0..Len(contracts)
  BY DEF TypeInv
<1> QED
  BY <1>1, <1>2 DEF TypeInv, None

\* The calls that change nothing but the run.
LEMMA UnchangedUpToDate ==
  ASSUME UNCHANGED <<contracts, records, version>>
  PROVE  /\ \A n : UpToDate(n)' <=> UpToDate(n)
         /\ TypeInv => TypeInv'
BY DEF UpToDate, Args, TypeInv, WellConstructed

LEMMA DeployerUnchanged ==
  ASSUME DeployerInv, UNCHANGED <<contracts, records, version, run>>
  PROVE  DeployerInv'
<1>1. \A n : UpToDate(n)' <=> UpToDate(n)
  BY UnchangedUpToDate
<1>2. TypeInv' /\ Schedule(run)'
  BY UnchangedUpToDate DEF DeployerInv
<1>3. RecordInv'
  BY DEF DeployerInv, RecordInv, Makes, Called, UpToDate, Args
<1>4. WiredInv'
  BY <1>1 DEF DeployerInv, WiredInv
<1>5. SupplyInv'
  BY DEF DeployerInv, SupplyInv, Makes, Called
<1> QED
  BY <1>2, <1>3, <1>4, <1>5 DEF DeployerInv

LEMMA RunIsOver ==
  ASSUME TypeInv', run' = NoRun
  PROVE  DeployerInv'
<1>1. Schedule(run)' /\ \A kind : ~Makes(kind)'
  BY NothingIsScheduled DEF NoRun, Makes
<1> QED
  BY <1>1 DEF DeployerInv, RecordInv, WiredInv, SupplyInv

LEMMA StartRunDeployer ==
  ASSUME DeployerInv, NEW tag \in Tags, StartRun(tag)
  PROVE  DeployerInv'
<1>1. /\ run' = Runs[tag]
      /\ UNCHANGED <<contracts, records, version>>
  BY DEF StartRun, chainVars
<1>2. tag \in TagNames
  BY TagsAssumption DEF TagNames
<1>3. Begins(run', tag)
  BY <1>1, <1>2, RunBegins
<1>4. TypeInv'
  BY <1>1, UnchangedUpToDate DEF DeployerInv
<1>5. Schedule(run)' /\ run' # <<>>
  BY <1>3 DEF Begins
<1>6. RecordInv' /\ ~Makes("mint")'
  BY <1>3, <1>5, MakesNext DEF Begins, RecordInv
<1>7. WiredInv'
  BY <1>3 DEF Begins, WiredInv
<1>8. SupplyInv'
  BY <1>3, <1>6 DEF Begins, SupplyInv
<1> QED
  BY <1>4, <1>5, <1>6, <1>7, <1>8 DEF DeployerInv

LEMMA CrashDeployer ==
  ASSUME DeployerInv, Crash \/ Finish
  PROVE  DeployerInv'
<1>1. run' = NoRun /\ UNCHANGED <<contracts, records, version>>
  BY DEF Crash, Finish, chainVars
<1> QED
  BY <1>1, UnchangedUpToDate, RunIsOver DEF DeployerInv

LEMMA EditDeployer ==
  ASSUME DeployerInv, NEW name, Edit(name)
  PROVE  DeployerInv'
<1>1. /\ version' = [version EXCEPT ![name] = @ + 1]
      /\ run' = NoRun /\ UNCHANGED <<contracts, records>>
  BY DEF Edit, chainVars
<1>2. version' \in [Names \cup {"ACL"} -> Nat]
  <2> DEFINE D == Names \cup {"ACL"}
  <2>1. version \in [D -> Nat]
    BY DEF DeployerInv, TypeInv
  <2> HIDE DEF D
  <2>2. name \in D => version[name] + 1 \in Nat
    BY <2>1
  <2>3. version' \in [D -> Nat]
    BY <1>1, <2>1, <2>2
  <2> QED
    BY <2>3 DEF D
<1>3. TypeInv'
  BY <1>1, <1>2 DEF DeployerInv, TypeInv, WellConstructed
<1> QED
  BY <1>1, <1>3, RunIsOver

\* The calls that ship nothing and supply nothing.
LEMMA SkipDeployer ==
  ASSUME DeployerInv, run # NoRun, run[1].call \in {"getCode", "install"},
         run' = Tail(run), UNCHANGED <<contracts, records, version>>
  PROVE  DeployerInv'
<1>1. ~Ships(run[1]) /\ ~Supplies(run[1]) /\ run[1].call # "finish"
  BY DEF Ships, Supplies
<1>2. /\ Schedule(run)' /\ run' # <<>> /\ Executed(run') = Executed(run)
      /\ run'[1].call \notin {"record", "mint"}
      /\ \A n : ShipsIn(run', n) <=> ShipsIn(run, n)
      /\ \A n : SuppliesIn(run, n) => SuppliesIn(run', n)
  BY <1>1, ScheduleTail DEF DeployerInv, NoRun
<1>3. RecordInv' /\ ~Makes("mint")'
  BY <1>2, MakesNext DEF RecordInv
<1>4. WiredInv'
  BY <1>1, UnchangedUpToDate, WiredAfterTail DEF DeployerInv
<1>5. SupplyInv'
  BY <1>2, <1>3 DEF SupplyInv, DeployerInv
<1> QED
  BY <1>2, <1>3, <1>4, <1>5, UnchangedUpToDate DEF DeployerInv

LEMMA InstallCallsPushed ==
  ASSUME NEW r \in Seq(Calls)
  PROVE  /\ Call("install", "ACL") \in Calls /\ Call("install", "the rest") \in Calls
         /\ InstallCalls \o r =
              <<Call("install", "ACL")>> \o (<<Call("install", "the rest")>> \o r)
<1> DEFINE a == Call("install", "ACL")
           b == Call("install", "the rest")
<1>1. a \in Calls /\ b \in Calls
  BY CallsAre DEF Kinds, CallNames
<1>2. InstallCalls = <<a, b>>
  BY DEF InstallCalls
<1> HIDE DEF a, b
<1>3. <<a>> \in Seq(Calls) /\ <<b>> \in Seq(Calls)
  BY <1>1
<1>4. InstallCalls = <<a>> \o <<b>>
  <2>1. PICK q : q = <<a>> \o <<b>>
    OBVIOUS
  <2>2. Len(q) = 2 /\ q[1] = a /\ q[2] = b
    BY <2>1
  <2>3. q \in Seq(Calls)
    BY <1>3, <2>1, ConcatProperties
  <2>4. q = <<q[1], q[2]>>
    BY <2>2, <2>3
  <2> QED
    BY <1>2, <2>1, <2>2, <2>4
<1>5. (<<a>> \o <<b>>) \o r = <<a>> \o (<<b>> \o r)
  BY <1>3, ConcatAssociative
<1> QED
  BY <1>1, <1>4, <1>5 DEF a, b

LEMMA ReadACLDeployer ==
  ASSUME DeployerInv, ReadACL
  PROVE  DeployerInv'
<1>1. /\ run # NoRun /\ run[1].call = "getCode" /\ run # <<>>
      /\ Tail(run) \in Seq(Calls)
      /\ UNCHANGED <<contracts, records, version>>
  BY CalledIs DEF ReadACL, Makes, DeployerInv, chainVars
<1>2. CASE run' = Tail(run)
  BY <1>1, <1>2, SkipDeployer
<1>3. CASE run' = NoRun
  BY <1>1, <1>3, UnchangedUpToDate, RunIsOver DEF DeployerInv
<1>4. CASE run' = InstallCalls \o Tail(run)
  <2> DEFINE a == Call("install", "ACL")
             b == Call("install", "the rest")
             r == Tail(run)
             s == <<b>> \o r
             q == <<a>> \o s
  <2>1. /\ Schedule(r) /\ r # <<>> /\ Executed(r) = Executed(run)
        /\ r[1].call \notin {"record", "mint"}
        /\ \A n : ShipsIn(r, n) <=> ShipsIn(run, n)
        /\ \A n : SuppliesIn(run, n) => SuppliesIn(r, n)
    BY <1>1, ScheduleTail DEF DeployerInv, Ships, Supplies
  <2>2. a \in Calls /\ b \in Calls /\ run' = q
    BY <1>1, <1>4, InstallCallsPushed
  <2>3. a.call = "install" /\ b.call = "install"
    BY DEF Call
  <2> HIDE DEF a, b, r
  <2>4. /\ Schedule(s) /\ s # <<>> /\ Executed(s) = Executed(r) /\ s[1] = b
        /\ \A n : ShipsIn(s, n) <=> ShipsIn(r, n)
        /\ \A n : SuppliesIn(s, n) <=> SuppliesIn(r, n)
    BY <2>1, <2>2, <2>3, SchedulePushed
  <2> HIDE DEF s
  <2>5. /\ Schedule(q) /\ q # <<>> /\ Executed(q) = Executed(s) /\ q[1] = a
        /\ \A n : ShipsIn(q, n) <=> ShipsIn(s, n)
        /\ \A n : SuppliesIn(q, n) <=> SuppliesIn(s, n)
    BY <2>2, <2>3, <2>4, SchedulePushed
  <2> HIDE DEF q
  <2>6. /\ Schedule(run)' /\ run' # <<>> /\ Executed(run') = Executed(run)
        /\ run'[1].call = "install"
        /\ \A n : ShipsIn(run', n) <=> ShipsIn(run, n)
        /\ \A n : SuppliesIn(run, n) => SuppliesIn(run', n)
    BY <2>1, <2>2, <2>3, <2>4, <2>5
  <2>7. RecordInv' /\ ~Makes("mint")'
    BY <2>6, MakesNext DEF RecordInv
  <2>8. WiredInv'
    BY <1>1, <2>6, UnchangedUpToDate, WiredAfterChange DEF DeployerInv
  <2>9. SupplyInv'
    BY <1>1, <2>6, <2>7 DEF SupplyInv, DeployerInv
  <2> QED
    BY <1>1, <2>6, <2>7, <2>8, <2>9, UnchangedUpToDate DEF DeployerInv
<1> QED
  BY <1>2, <1>3, <1>4 DEF ReadACL

LEMMA InstallDeployer ==
  ASSUME DeployerInv, Install
  PROVE  DeployerInv'
<1>1. /\ run # NoRun /\ run[1].call = "install"
      /\ run' = Tail(run)
      /\ UNCHANGED <<contracts, records, version>>
  BY CalledIs DEF Install, Makes, DeployerInv
<1> QED
  BY <1>1, SkipDeployer

LEMMA ReuseDeployer ==
  ASSUME DeployerInv, Reuse
  PROVE  DeployerInv'
<1>1. /\ run # NoRun /\ run[1].call = "deploy" /\ Called = run[1].name
      /\ UpToDate(Called)
      /\ run' = Tail(run)
      /\ UNCHANGED <<contracts, records, version>>
  BY CalledIs DEF Reuse, Reusable, Makes, DeployerInv, chainVars
<1>2. Ships(run[1]) /\ ~Supplies(run[1]) /\ run[1].call # "finish"
  BY <1>1 DEF Ships, Supplies
<1>3. /\ Schedule(run)' /\ run' # <<>> /\ Executed(run') = Executed(run)
      /\ run'[1].call \notin {"record", "mint"}
      /\ \A n : ShipsIn(run', n) => ShipsIn(run, n)
      /\ \A n : SuppliesIn(run, n) => SuppliesIn(run', n)
  BY <1>1, <1>2, ScheduleTail DEF DeployerInv, NoRun
<1>4. RecordInv' /\ ~Makes("mint")'
  BY <1>3, MakesNext DEF RecordInv
<1>5. WiredInv'
  BY <1>1, <1>2, UnchangedUpToDate, WiredAfterTail DEF DeployerInv
<1>6. SupplyInv'
  BY <1>1, <1>3, <1>4 DEF SupplyInv, DeployerInv
<1> QED
  BY <1>1, <1>3, <1>4, <1>5, <1>6, UnchangedUpToDate DEF DeployerInv

\* The address of a deployed contract names what it named before.
LEMMA SendContractGrows ==
  ASSUME DeployerInv, SendContract
  PROVE  LET new == [name |-> Called, version |-> version[Called],
                     args |-> Args(Called), mints |-> 0]
         IN  /\ new \in Contracts
             /\ contracts' \in Seq(Contracts)
             /\ Len(contracts) \in Nat /\ Len(contracts') = Len(contracts) + 1
             /\ \A a \in 1..Len(contracts) : contracts'[a] = contracts[a]
             /\ contracts'[Len(contracts')] = new
<1> DEFINE new == [name |-> Called, version |-> version[Called],
                   args |-> Args(Called), mints |-> 0]
<1>1. /\ run # NoRun /\ Ships(run[1]) /\ Called \in DeployedBy(Executed(run))
      /\ Executed(run) \in DOMAIN Runs
      /\ contracts' = Append(contracts, new)
  BY CalledIs DEF SendContract, Makes, DeployerInv, Ships
<1>2. Called \in Names
  BY <1>1, DeployedByAre
<1>3. version[Called] \in Nat
  BY <1>2 DEF DeployerInv, TypeInv
<1>4. Args(Called) \in Constructions
  <2>1. \A d \in Dependencies(Called) : d \in Names /\ records[d] \in Nat
    BY NothingDependsOnTokens, RecordsAre DEF DeployerInv
  <2>2. Args(Called) \in [Dependencies(Called) -> Nat]
    BY <2>1 DEF Args
  <2> QED
    BY <1>2, <2>2 DEF Constructions
<1>5. new \in Contracts
  BY <1>2, <1>3, <1>4 DEF Contracts
<1>6. contracts \in Seq(Contracts) /\ Len(contracts) \in Nat
  BY LenProperties DEF DeployerInv, TypeInv
<1> HIDE DEF new
<1>7. /\ contracts' \in Seq(Contracts)
      /\ Len(contracts') = Len(contracts) + 1
      /\ \A a \in 1..Len(contracts) : contracts'[a] = contracts[a]
      /\ contracts'[Len(contracts) + 1] = new
  BY <1>1, <1>5, <1>6, AppendProperties
<1> QED
  BY <1>5, <1>6, <1>7 DEF new

LEMMA SendContractDeployer ==
  ASSUME DeployerInv, SendContract
  PROVE  DeployerInv'
<1> DEFINE new == [name |-> Called, version |-> version[Called],
                   args |-> Args(Called), mints |-> 0]
           c == Call("record", Called)
<1>1. /\ run # NoRun /\ run # <<>> /\ run[1].call = "deploy" /\ Called = run[1].name
      /\ Ships(run[1]) /\ Called \in DeployedBy(Executed(run)) /\ Called \in CallNames
      /\ ~UpToDate(Called)
      /\ run' = <<c>> \o Tail(run)
      /\ UNCHANGED <<records, version>>
  BY CalledIs DEF SendContract, Reusable, Makes, DeployerInv, Ships
<1>2. /\ contracts' \in Seq(Contracts)
      /\ Len(contracts) \in Nat /\ Len(contracts') = Len(contracts) + 1
      /\ \A a \in 1..Len(contracts) : contracts'[a] = contracts[a]
      /\ contracts'[Len(contracts')] = new
  BY SendContractGrows
<1>3. c \in Calls /\ c.call = "record" /\ c.name = Called
  BY <1>1, CallsAre DEF Kinds
<1>4. Executed(run) \in DOMAIN Runs
  BY <1>1, CalledIs DEF DeployerInv
<1> HIDE DEF c
<1>5. /\ Schedule(run)' /\ run' # <<>> /\ Executed(run') = Executed(run)
      /\ run'[1] = c
      /\ \A n : ShipsIn(run', n) <=> ShipsIn(run, n)
      /\ \A n : SuppliesIn(run', n) <=> SuppliesIn(run, n)
  BY <1>1, <1>3, ScheduleReplaced DEF DeployerInv
<1>6. ASSUME NEW n \in Names
      PROVE  /\ UpToDate(n)' <=> UpToDate(n)
             /\ records[n] # None => contracts'[records[n]] = contracts[records[n]]
  <2>1. records[n] # None => contracts'[records[n]] = contracts[records[n]]
    BY <1>2, RecordsAre DEF DeployerInv
  <2> QED
    BY <1>1, <2>1 DEF UpToDate, Args
<1>7. \A d \in Dependencies(Called) :
        records[d] \in 1..Len(contracts) /\ contracts[records[d]].name = d
  <2>1. TAKE d \in Dependencies(Called)
  <2>2. UpToDate(d) /\ d \in Names
    BY <1>1, DealtWithBefore, NothingDependsOnTokens DEF DeployerInv
  <2> QED
    BY <2>2, RecordsAre DEF DeployerInv, UpToDate
<1>8. TypeInv'
  <2>1. records' \in [Names -> 0..Len(contracts')]
    <3>1. records \in [Names -> 0..Len(contracts)]
      BY DEF DeployerInv, TypeInv
    <3>2. 0..Len(contracts) \subseteq 0..Len(contracts')
      BY <1>2
    <3> QED
      BY <1>1, <3>1, <3>2
  <2>2. \A n \in Names : records'[n] # None => contracts'[records'[n]].name = n
    BY <1>1, <1>6, RecordsAre DEF DeployerInv
  <2>3. ASSUME NEW a \in 1..Len(contracts'), NEW d \in Dependencies(contracts'[a].name)
        PROVE  /\ contracts'[a].args[d] \in 1..Len(contracts')
               /\ contracts'[contracts'[a].args[d]].name = d
    <3>1. CASE a \in 1..Len(contracts)
      <4>1. contracts'[a] = contracts[a]
        BY <1>2, <3>1
      <4>2. /\ contracts[a].args[d] \in 1..Len(contracts)
            /\ contracts[contracts[a].args[d]].name = d
        BY <2>3, <3>1, <4>1 DEF DeployerInv, TypeInv, WellConstructed
      <4> QED
        BY <1>2, <4>1, <4>2
    <3>2. CASE a = Len(contracts')
      <4>1. contracts'[a].name = Called /\ contracts'[a].args = Args(Called)
        BY <1>2, <3>2
      <4>2. d \in Dependencies(Called) /\ Args(Called)[d] = records[d]
        BY <2>3, <4>1 DEF Args
      <4> QED
        BY <1>2, <1>7, <4>1, <4>2
    <3> QED
      BY <1>2, <3>1, <3>2
  <2>4. version' \in [Names \cup {"ACL"} -> Nat]
    BY <1>1 DEF DeployerInv, TypeInv
  <2> QED
    BY <1>2, <2>1, <2>2, <2>3, <2>4 DEF TypeInv, WellConstructed
<1>9. Called \in Names
  BY <1>1, <1>4, DeployedByAre
<1>10. Called' = Called
  <2>1. Head(run') = run'[1]
    BY <1>5, FirstAndRest DEF Schedule
  <2> QED
    BY <1>3, <1>5, <2>1 DEF Called
<1>11. RecordInv'
  <2>1. ~UpToDate(Called)'
    <3>1. PICK n : n = Called
      OBVIOUS
    <3>2. ~(UpToDate(n)')
      BY <1>1, <1>6, <1>9, <3>1
    <3>3. Called' = n
      BY <1>10, <3>1
    <3> HIDE DEF Called
    <3> QED
      BY <3>2, <3>3 DEF UpToDate, Args
  <2>2. new = [name |-> Called, version |-> version[Called],
               args |-> Args(Called), mints |-> 0]'
    BY <1>1, <1>10 DEF Args
  <2>3. (contracts # <<>>)'
    BY <1>2, EmptySeq
  <2> QED
    BY <1>2, <2>1, <2>2, <2>3 DEF RecordInv
<1>12. ~Makes("mint")'
  BY <1>3, <1>5, MakesNext
<1>13. WiredInv'
  <2>1. \A n \in DeployedBy(Executed(run)) : UpToDate(n) => UpToDate(n)'
    BY <1>4, <1>6, DeployedByAre
  <2> QED
    BY <1>1, <1>5, <2>1, WiredAfterChange DEF DeployerInv
<1>14. SupplyInv'
  <2>1. ASSUME NEW n \in Tokens \cap DeployedBy(Executed(run)), ~SuppliesIn(run, n)
        PROVE  ~ShipsIn(run, n) /\ contracts'[records'[n]].mints = 1
    <3>1. ~ShipsIn(run, n) /\ contracts[records[n]].mints = 1
      BY <1>1, <2>1 DEF DeployerInv, SupplyInv
    <3>2. UpToDate(n) /\ n \in Names
      BY <1>1, <1>4, <3>1, DeployedByAre DEF DeployerInv, WiredInv
    <3>3. contracts'[records[n]] = contracts[records[n]]
      BY <1>6, <3>2 DEF UpToDate
    <3> QED
      BY <1>1, <3>1, <3>3
  <2> QED
    BY <1>5, <1>12, <2>1 DEF SupplyInv
<1> QED
  BY <1>5, <1>8, <1>11, <1>13, <1>14 DEF DeployerInv

LEMMA RecordDeployer ==
  ASSUME DeployerInv, Record
  PROVE  DeployerInv'
<1>1. /\ run # NoRun /\ run[1].call = "record" /\ Called = run[1].name
      /\ Ships(run[1]) /\ Called \in DeployedBy(Executed(run))
      /\ Executed(run) \in DOMAIN Runs
      /\ run' = Tail(run)
      /\ records' = [records EXCEPT ![Called] = Len(contracts)]
      /\ UNCHANGED <<contracts, version>>
      /\ Makes("record")
  BY CalledIs DEF Record, Makes, DeployerInv, Ships, chainVars
<1>2. Called \in Names
  BY <1>1, DeployedByAre
<1>3. /\ contracts # <<>>
      /\ contracts[Len(contracts)] = [name |-> Called, version |-> version[Called],
                                      args |-> Args(Called), mints |-> 0]
  BY <1>1 DEF DeployerInv, RecordInv
<1>4. Len(contracts) \in Nat /\ Len(contracts) \in 1..Len(contracts)
  <2>1. Len(contracts) \in Nat \ {0}
    BY <1>3, EmptySeq DEF DeployerInv, TypeInv
  <2> QED
    BY <2>1
<1>5. ~Supplies(run[1]) /\ run[1].call # "finish"
  BY <1>1 DEF Supplies
<1>6. /\ Schedule(run)' /\ run' # <<>> /\ Executed(run') = Executed(run)
      /\ run'[1].call \notin {"record", "mint"}
      /\ \A n : ShipsIn(run', n) <=> ShipsIn(run, n) /\ ~(Ships(run[1]) /\ run[1].name = n)
      /\ \A n : SuppliesIn(run, n) => SuppliesIn(run', n)
  BY <1>1, <1>5, ScheduleTail DEF DeployerInv, NoRun
<1>7. RecordInv' /\ ~Makes("mint")'
  BY <1>6, MakesNext DEF RecordInv
<1>8. records \in [Names -> 0..Len(contracts)]
  BY DEF DeployerInv, TypeInv
<1>9. \A n \in Names : records'[n] = IF n = Called THEN Len(contracts) ELSE records[n]
  BY <1>1, <1>8
<1>10. ShipsIn(run, Called)
  BY <1>1, CalledIs DEF ShipsIn, DeployerInv
<1>11. ASSUME NEW n \in DeployedBy(Executed(run)), n = Called
       PROVE  UpToDate(n)'
  <2>1. Args(n)' = Args(n)
    <3>1. \A d \in Dependencies(n) : records'[d] = records[d]
      BY <1>9, <1>11, NothingDependsOnTokens
    <3> QED
      BY <3>1 DEF Args
  <2>2. records'[n] = Len(contracts) /\ Len(contracts) # None
    BY <1>2, <1>4, <1>9, <1>11 DEF None
  <2> QED
    BY <1>1, <1>3, <1>11, <2>1, <2>2 DEF UpToDate
<1>12. ASSUME NEW n \in DeployedBy(Executed(run)), ~ShipsIn(run, n), UpToDate(n)
       PROVE  n # Called /\ UpToDate(n)'
  <2>1. n # Called /\ n \in Names
    BY <1>1, <1>10, <1>12, DeployedByAre
  <2>2. Called \notin Dependencies(n)
    BY <1>1, <1>10, <1>12 DEF DeployerInv, WiredInv
  <2>3. \A d \in Dependencies(n) : records'[d] = records[d]
    BY <1>9, <2>2, NothingDependsOnTokens
  <2>4. Args(n)' = Args(n) /\ records'[n] = records[n]
    BY <1>9, <2>1, <2>3 DEF Args
  <2> QED
    BY <1>1, <1>12, <2>1, <2>4 DEF UpToDate
<1>13. WiredInv'
  BY <1>1, <1>5, <1>11, <1>12, WiredAfterTail DEF DeployerInv
<1>14. SupplyInv'
  <2>1. ASSUME NEW n \in Tokens \cap DeployedBy(Executed(run)), ~SuppliesIn(run, n)
        PROVE  ~ShipsIn(run', n) /\ contracts'[records'[n]].mints = 1
    <3>1. ~ShipsIn(run, n) /\ contracts[records[n]].mints = 1
      BY <1>1, <2>1 DEF DeployerInv, SupplyInv
    <3>2. n \in Names /\ n # Called
      BY <1>1, <1>10, <3>1, DeployedByAre
    <3> QED
      BY <1>1, <1>6, <1>9, <3>1, <3>2
  <2> QED
    BY <1>6, <1>7, <2>1 DEF SupplyInv
<1>15. TypeInv'
  <2>1. records' \in [Names -> 0..Len(contracts)]
    <3>1. Len(contracts) \in 0..Len(contracts)
      BY <1>4
    <3> QED
      BY <1>1, <1>8, <3>1
  <2>2. ASSUME NEW n \in Names, records'[n] # None
        PROVE  contracts[records'[n]].name = n
    BY <1>3, <1>9, <2>2 DEF DeployerInv, TypeInv
  <2> QED
    BY <1>1, <2>1, <2>2 DEF DeployerInv, TypeInv, WellConstructed
<1> QED
  BY <1>6, <1>7, <1>13, <1>14, <1>15 DEF DeployerInv

LEMMA ReadSupplyDeployer ==
  ASSUME DeployerInv, ReadSupply
  PROVE  DeployerInv'
<1> DEFINE c == Call("mint", Called)
<1>1. /\ run # NoRun /\ run # <<>> /\ run[1].call = "totalSupply" /\ Called = run[1].name
      /\ Supplies(run[1]) /\ Called \in Tokens \cap DeployedBy(Executed(run))
      /\ Called \in CallNames
      /\ Executed(run) \in DOMAIN Runs
      /\ Tail(run) \in Seq(Calls)
      /\ UNCHANGED <<contracts, records, version>>
  BY CalledIs DEF ReadSupply, Makes, DeployerInv, Supplies, chainVars
<1>2. ~Ships(run[1]) /\ run[1].call # "finish"
  BY <1>1 DEF Ships
<1>3. ~ShipsIn(run, Called) /\ UpToDate(Called) /\ Called \in Names
  BY <1>1, DealtWithBefore, DeployedByAre DEF DeployerInv
<1>4. records[Called] \in 1..Len(contracts)
  BY <1>3, RecordsAre DEF DeployerInv, UpToDate
<1>5. CASE contracts[records[Called]].mints = 0
  <2>1. run' = <<c>> \o Tail(run)
    BY <1>5 DEF ReadSupply
  <2>2. c \in Calls /\ c.call = "mint" /\ c.name = Called
    BY <1>1, CallsAre DEF Kinds
  <2> HIDE DEF c
  <2>3. /\ Schedule(run)' /\ run' # <<>> /\ Executed(run') = Executed(run)
        /\ run'[1] = c
        /\ \A n : ShipsIn(run', n) <=> ShipsIn(run, n)
        /\ \A n : SuppliesIn(run', n) <=> SuppliesIn(run, n)
    BY <1>1, <2>1, <2>2, ScheduleReplaced DEF DeployerInv
  <2>4. Called' = Called
    <3>1. Head(run') = run'[1]
      BY <2>3, FirstAndRest DEF Schedule
    <3> QED
      BY <2>2, <2>3, <3>1 DEF Called
  <2>5. RecordInv'
    BY <2>2, <2>3, MakesNext DEF RecordInv
  <2>6. WiredInv'
    BY <1>1, <2>3, UnchangedUpToDate, WiredAfterChange DEF DeployerInv
  <2>7. SupplyInv'
    BY <1>1, <1>5, <2>3, <2>4 DEF SupplyInv, DeployerInv
  <2> QED
    BY <1>1, <2>3, <2>5, <2>6, <2>7, UnchangedUpToDate DEF DeployerInv
<1>6. CASE contracts[records[Called]].mints # 0
  <2>1. run' = Tail(run)
    <3>1. run' = <<>> \o Tail(run)
      BY <1>6 DEF ReadSupply
    <3> QED
      BY <1>1, <3>1, ConcatEmptySeq
  <2>2. contracts[records[Called]].mints = 1
    BY <1>4, <1>6, ContractsAre DEF DeployerInv
  <2>3. /\ Schedule(run)' /\ run' # <<>> /\ Executed(run') = Executed(run)
        /\ run'[1].call \notin {"record", "mint"}
        /\ \A n : ShipsIn(run', n) => ShipsIn(run, n)
        /\ \A n : SuppliesIn(run, n) => SuppliesIn(run', n) \/ n = Called
    BY <1>1, <1>2, <2>1, ScheduleTail DEF DeployerInv
  <2>4. RecordInv' /\ ~Makes("mint")'
    BY <2>3, MakesNext DEF RecordInv
  <2>5. WiredInv'
    BY <1>1, <1>2, <2>1, UnchangedUpToDate, WiredAfterTail DEF DeployerInv
  <2>6. SupplyInv'
    <3>1. ASSUME NEW n \in Tokens \cap DeployedBy(Executed(run)), ~SuppliesIn(run', n)
          PROVE  ~ShipsIn(run', n) /\ contracts[records[n]].mints = 1
      <4>1. CASE n = Called
        BY <1>3, <2>2, <2>3, <4>1
      <4>2. CASE n # Called
        BY <1>1, <2>3, <3>1, <4>2 DEF DeployerInv, SupplyInv
      <4> QED
        BY <4>1, <4>2
    <3> QED
      BY <1>1, <2>3, <2>4, <3>1 DEF SupplyInv
  <2> QED
    BY <1>1, <2>3, <2>4, <2>5, <2>6, UnchangedUpToDate DEF DeployerInv
<1> QED
  BY <1>5, <1>6

\* A mint changes nothing of a contract but its supply.
LEMMA MintChanges ==
  ASSUME DeployerInv, Mint
  PROVE  /\ records[Called] \in 1..Len(contracts)
         /\ contracts' \in Seq(Contracts)
         /\ Len(contracts') = Len(contracts) /\ Len(contracts) \in Nat
         /\ \A a \in 1..Len(contracts) :
              /\ contracts'[a].name = contracts[a].name
              /\ contracts'[a].version = contracts[a].version
              /\ contracts'[a].args = contracts[a].args
              /\ a # records[Called] => contracts'[a] = contracts[a]
         /\ contracts'[records[Called]].mints = 1
<1> DEFINE i == records[Called]
           minted == [contracts[i] EXCEPT !.mints = 1]
<1>1. /\ run # NoRun /\ run[1].call = "mint" /\ Called = run[1].name
      /\ Supplies(run[1]) /\ Called \in Tokens \cap DeployedBy(Executed(run))
      /\ Executed(run) \in DOMAIN Runs
      /\ Makes("mint")
      /\ contracts' = [contracts EXCEPT ![i].mints = @ + 1]
  BY CalledIs DEF Mint, Makes, DeployerInv, Supplies
<1>2. UpToDate(Called) /\ Called \in Names
  BY <1>1, DealtWithBefore, DeployedByAre DEF DeployerInv
<1>3. i \in 1..Len(contracts)
  BY <1>2, RecordsAre DEF DeployerInv, UpToDate
<1>4. contracts \in Seq(Contracts) /\ Len(contracts) \in Nat
  BY LenProperties DEF DeployerInv, TypeInv
<1>5. contracts[i] \in Contracts /\ contracts[i].mints = 0
  BY <1>1, <1>3, ContractsAre DEF DeployerInv, SupplyInv
<1>6. /\ minted \in Contracts
      /\ minted.name = contracts[i].name /\ minted.version = contracts[i].version
      /\ minted.args = contracts[i].args /\ minted.mints = 1
  BY <1>5 DEF Contracts
<1>7. contracts' = [contracts EXCEPT ![i] = minted]
  BY <1>1, <1>5
<1> HIDE DEF i, minted
<1>8. /\ contracts' \in Seq(Contracts)
      /\ Len(contracts') = Len(contracts)
      /\ \A a \in 1..Len(contracts) : contracts'[a] = IF a = i THEN minted ELSE contracts[a]
  BY <1>3, <1>4, <1>6, <1>7, ExceptSeq
<1> QED
  BY <1>3, <1>4, <1>6, <1>8 DEF i

LEMMA MintDeployer ==
  ASSUME DeployerInv, Mint
  PROVE  DeployerInv'
<1>1. /\ run # NoRun /\ run[1].call = "mint" /\ Called = run[1].name
      /\ Supplies(run[1]) /\ Called \in Tokens \cap DeployedBy(Executed(run))
      /\ Executed(run) \in DOMAIN Runs
      /\ run' = Tail(run)
      /\ UNCHANGED <<records, version>>
  BY CalledIs DEF Mint, Makes, DeployerInv, Supplies
<1>2. ~Ships(run[1]) /\ run[1].call # "finish"
  BY <1>1 DEF Ships
<1>3. ~ShipsIn(run, Called) /\ Called \in Names
  BY <1>1, DealtWithBefore, DeployedByAre DEF DeployerInv
<1>4. /\ Schedule(run)' /\ run' # <<>> /\ Executed(run') = Executed(run)
      /\ run'[1].call \notin {"record", "mint"}
      /\ \A n : ShipsIn(run', n) => ShipsIn(run, n)
      /\ \A n : SuppliesIn(run, n) => SuppliesIn(run', n) \/ n = Called
  BY <1>1, <1>2, ScheduleTail DEF DeployerInv, NoRun
<1>5. RecordInv' /\ ~Makes("mint")'
  BY <1>4, MakesNext DEF RecordInv
<1>6. ASSUME NEW n \in Names
      PROVE  UpToDate(n) => UpToDate(n)'
  <2>1. records[n] # None => records[n] \in 1..Len(contracts)
    BY RecordsAre DEF DeployerInv
  <2> QED
    BY <1>1, <2>1, MintChanges DEF UpToDate, Args
<1>7. \A n \in DeployedBy(Executed(run)) : UpToDate(n) => UpToDate(n)'
  BY <1>1, <1>6, DeployedByAre
<1>8. WiredInv'
  BY <1>1, <1>2, <1>7, WiredAfterTail DEF DeployerInv
<1>9. SupplyInv'
  <2>1. ASSUME NEW n \in Tokens \cap DeployedBy(Executed(run)), ~SuppliesIn(run', n)
        PROVE  ~ShipsIn(run', n) /\ contracts'[records[n]].mints = 1
    <3>1. CASE n = Called
      BY <1>3, <1>4, <3>1, MintChanges
    <3>2. CASE n # Called
      <4>1. ~ShipsIn(run, n) /\ contracts[records[n]].mints = 1
        BY <1>1, <1>4, <2>1, <3>2 DEF DeployerInv, SupplyInv
      <4>2. UpToDate(n) /\ n \in Names
        BY <1>1, <4>1, DeployedByAre DEF DeployerInv, WiredInv
      <4>3. /\ records[n] \in 1..Len(contracts)
            /\ contracts[records[n]].name = n
            /\ contracts[records[Called]].name = Called
        BY <1>3, <4>2, MintChanges, RecordsAre DEF DeployerInv, UpToDate, None
      <4> QED
        BY <1>4, <3>2, <4>1, <4>3, MintChanges
    <3> QED
      BY <3>1, <3>2
  <2> QED
    BY <1>1, <1>4, <1>5, <2>1 DEF SupplyInv
<1>10. TypeInv'
  <2>1. records' \in [Names -> 0..Len(contracts')]
    BY <1>1, MintChanges DEF DeployerInv, TypeInv
  <2>2. \A n \in Names : records'[n] # None => contracts'[records'[n]].name = n
    BY <1>1, MintChanges, RecordsAre DEF DeployerInv
  <2>3. ASSUME NEW a \in 1..Len(contracts'), NEW d \in Dependencies(contracts'[a].name)
        PROVE  /\ contracts'[a].args[d] \in 1..Len(contracts')
               /\ contracts'[contracts'[a].args[d]].name = d
    <3>1. a \in 1..Len(contracts) /\ d \in Dependencies(contracts[a].name)
      BY <2>3, MintChanges
    <3>2. /\ contracts[a].args[d] \in 1..Len(contracts)
          /\ contracts[contracts[a].args[d]].name = d
      BY <3>1 DEF DeployerInv, TypeInv, WellConstructed
    <3> QED
      BY <3>1, <3>2, MintChanges
  <2>4. version' \in [Names \cup {"ACL"} -> Nat]
    BY <1>1 DEF DeployerInv, TypeInv
  <2> QED
    BY <2>1, <2>2, <2>3, <2>4, MintChanges DEF TypeInv, WellConstructed
<1> QED
  BY <1>4, <1>5, <1>8, <1>9, <1>10 DEF DeployerInv

-----------------------------------------------------------------------------
(* The commands *)

\* The contracts keep their names, and the auctions what they were made with.
LEMMA TaskIsKept ==
  ASSUME NEW t, NEW k, TaskIs(t, k), Len(contracts) \in Nat, Len(contracts') \in Nat,
         Len(contracts') >= Len(contracts),
         \A a \in 1..Len(contracts) : contracts'[a].name = contracts[a].name,
         \A x : GetAuction(x) # NoAuction => GetAuction(x)' = GetAuction(x),
         \A x \in DOMAIN auctions : x \in DOMAIN auctions' /\ auctions'[x] = auctions[x]
  PROVE  TaskIs(t, k)'
<1>1. \A a \in 1..Len(contracts) : a \in 1..Len(contracts')
  OBVIOUS
<1>2. \A c, a : MadeAsAsked(c, a) => MadeAsAsked(c, a)'
  BY <1>1 DEF MadeAsAsked
<1>3. Create2(k.cmd, k.ask) # NoAuction
  BY DEF Create2, NoAuction
<1>4. ASSUME k.at = "getNewAuction"
      PROVE  /\ GetAuction(k.ask)' = Create2(k.cmd, k.ask)
             /\ MadeAsAsked(k.cmd, Create2(k.cmd, k.ask))'
  BY <1>2, <1>3, <1>4 DEF TaskIs
<1>5. ASSUME k.at = "successfully created"
      PROVE  /\ k.found = Create2(k.cmd, k.ask)
             /\ MadeAsAsked(k.cmd, Create2(k.cmd, k.ask))'
  BY <1>2, <1>5 DEF TaskIs
<1>6. k.at # "idle" =>
        /\ k.ask.factory \in 1..Len(contracts')
        /\ contracts'[k.ask.factory].name \in AuctionFactoryNames
  BY <1>1 DEF TaskIs
<1> QED
  BY <1>4, <1>5, <1>6 DEF TaskIs, Create2

LEMMA DeployNextTasks ==
  ASSUME DeploymentInv, DeployNext
  PROVE  /\ Len(contracts) \in Nat /\ Len(contracts') \in Nat
         /\ Len(contracts') >= Len(contracts)
         /\ \A a \in 1..Len(contracts) : contracts'[a].name = contracts[a].name
         /\ UNCHANGED <<task, auctionDeployed, auctions>>
<1>1. Len(contracts) \in Nat
  BY LenProperties DEF DeploymentInv, DeployerInv, TypeInv
<1>2. CASE SendContract
  BY <1>1, <1>2, SendContractGrows DEF DeploymentInv, SendContract
<1>3. CASE Mint
  BY <1>1, <1>3, MintChanges DEF DeploymentInv, Mint
<1>4. ASSUME ~SendContract, ~Mint
      PROVE  UNCHANGED <<contracts, task, auctionDeployed, auctions>>
  BY <1>4 DEF DeployNext, StartRun, Edit, Crash, ReadACL, Install, Reuse, Record, ReadSupply,
              Finish, chainVars
<1> QED
  BY <1>1, <1>2, <1>3, <1>4

LEMMA DeployNextInv ==
  ASSUME DeploymentInv, DeployNext
  PROVE  DeploymentInv'
<1>1. DeployerInv'
  BY StartRunDeployer, EditDeployer, CrashDeployer, ReadACLDeployer, InstallDeployer,
     ReuseDeployer, SendContractDeployer, RecordDeployer, ReadSupplyDeployer, MintDeployer
     DEF DeployNext, DeploymentInv
<1>2. TaskInv'
  <2>1. task' = task /\ auctionDeployed' = auctionDeployed /\ auctions' = auctions
    BY DeployNextTasks
  <2>2. \A x : GetAuction(x)' = GetAuction(x)
    BY <2>1 DEF GetAuction
  <2>3. ASSUME NEW t \in Terminals
        PROVE  TaskIs(t, task[t])'
    <3>1. PICK k : k = task[t]
      OBVIOUS
    <3>2. TaskIs(t, k)
      BY <3>1 DEF DeploymentInv, TaskInv
    <3>3. TaskIs(t, k)'
      BY <2>1, <2>2, <3>2, DeployNextTasks, TaskIsKept
    <3> QED
      BY <2>1, <3>1, <3>3
  <2> QED
    BY <2>1, <2>3 DEF DeploymentInv, TaskInv
<1> QED
  BY <1>1, <1>2 DEF DeploymentInv

LEMMA TasksUnchanged ==
  ASSUME UNCHANGED <<contracts, auctionDeployed, auctions>>
  PROVE  \A u, q : TaskIs(u, q) <=> TaskIs(u, q)'
<1>1. \A x : GetAuction(x)' = GetAuction(x)
  BY DEF GetAuction
<1>2. \A c, a : MadeAsAsked(c, a)' <=> MadeAsAsked(c, a)
  BY DEF MadeAsAsked
<1>3. TAKE u, q
<1>4. Create2(q.cmd, q.ask)' = Create2(q.cmd, q.ask)
  BY DEF Create2
<1> QED
  BY <1>1, <1>2, <1>4 DEF TaskIs

\* The steps of a command but the creation itself: the chain is as it was.
LEMMA OwnStepInv ==
  ASSUME DeploymentInv, NEW t \in Terminals, NEW k,
         UNCHANGED deployVars, task' = [task EXCEPT ![t] = k], TaskIs(t, k)
  PROVE  DeploymentInv'
<1>1. /\ UNCHANGED <<contracts, records, version, run, auctionDeployed, auctions>>
  BY DEF deployVars, chainVars
<1>2. DeployerInv'
  BY <1>1, DeployerUnchanged DEF DeploymentInv
<1>3. \A u, q : TaskIs(u, q) <=> TaskIs(u, q)'
  BY <1>1, TasksUnchanged
<1>4. \A u \in Terminals : task'[u] = IF u = t THEN k ELSE task[u]
  BY DEF DeploymentInv, TaskInv
<1>5. DOMAIN task' = Terminals
  BY DEF DeploymentInv, TaskInv
<1>6. ASSUME NEW u \in Terminals
      PROVE  TaskIs(u, task[u])'
  <2>1. PICK q : q = task'[u]
    OBVIOUS
  <2>2. TaskIs(u, q)
    BY <1>4, <2>1 DEF DeploymentInv, TaskInv
  <2>3. TaskIs(u, q)'
    BY <1>3, <2>2
  <2> QED
    BY <2>1, <2>3
<1> QED
  BY <1>2, <1>5, <1>6 DEF DeploymentInv, TaskInv

LEMMA IdleIs ==
  ASSUME NEW t
  PROVE  TaskIs(t, Idle)
BY DEF TaskIs, Idle

LEMMA CommandsAre ==
  ASSUME NEW t \in Terminals, NEW c \in Commands[t]
  PROVE  /\ c.type \in {"erc20", "native"}
         /\ AuctionFactory[c.type] \in AuctionFactoryNames
         /\ AuctionFactory[c.type] \in Names
<1>1. c.type \in {"erc20", "native"}
  BY CommandsAssumption
<1>2. AuctionFactory[c.type] \in AuctionFactoryNames
  BY <1>1 DEF AuctionFactory, AuctionFactoryNames
<1> QED
  BY <1>1, <1>2, NamesAre

LEMMA TaskGoesOn ==
  ASSUME NEW t, NEW k, TaskIs(t, k), NEW at, NEW found
  PROVE  /\ [k EXCEPT !.at = at] = [cmd |-> k.cmd, ask |-> k.ask, at |-> at,
                                    found |-> k.found]
         /\ [[k EXCEPT !.at = at] EXCEPT !.found = found] =
              [cmd |-> k.cmd, ask |-> k.ask, at |-> at, found |-> found]
<1>1. k = [cmd |-> k.cmd, ask |-> k.ask, at |-> k.at, found |-> k.found]
  BY DEF TaskIs
<1>2. PICK q : q = [k EXCEPT !.at = at]
  OBVIOUS
<1>3. PICK r : r = [q EXCEPT !.found = found]
  OBVIOUS
<1>4. q = [cmd |-> k.cmd, ask |-> k.ask, at |-> at, found |-> k.found]
  BY <1>1, <1>2
<1>5. r = [cmd |-> k.cmd, ask |-> k.ask, at |-> at, found |-> found]
  BY <1>3, <1>4
<1> QED
  BY <1>2, <1>3, <1>4, <1>5

LEMMA LaunchInv ==
  ASSUME DeploymentInv, NEW t \in Terminals, NEW c \in Commands[t], Launch(t, c)
  PROVE  DeploymentInv'
<1> DEFINE k == [cmd |-> c, ask |-> Ask(c, records), at |-> "getAuction", found |-> NoAuction]
<1>1. task' = [task EXCEPT ![t] = k]
  <2>1. PICK idle : idle = Idle
    OBVIOUS
  <2>2. PICK launched : launched = [idle EXCEPT !.cmd = c, !.ask = Ask(c, records),
                                                !.at = "getAuction"]
    OBVIOUS
  <2>3. launched = k
    BY <2>1, <2>2 DEF Idle
  <2> HIDE DEF k
  <2> QED
    BY <2>1, <2>2, <2>3 DEF Launch
<1>2. records[AuctionFactory[c.type]] # None
  BY DEF Launch
<1>3. /\ records[AuctionFactory[c.type]] \in 1..Len(contracts)
      /\ contracts[records[AuctionFactory[c.type]]].name \in AuctionFactoryNames
  BY <1>2, CommandsAre, RecordsAre DEF DeploymentInv, DeployerInv
<1>4. Ask(c, records).factory = records[AuctionFactory[c.type]]
  BY DEF Ask
<1>5. TaskIs(t, k)
  BY <1>3, <1>4 DEF TaskIs, Launch
<1> HIDE DEF k
<1> QED
  BY <1>1, <1>5, OwnStepInv DEF Launch

LEMMA LookUpInv ==
  ASSUME DeploymentInv, NEW t \in Terminals, LookUp(t)
  PROVE  DeploymentInv'
<1> DEFINE k == [task[t] EXCEPT !.at = "createNewAuction"]
<1>1. TaskIs(t, task[t]) /\ task[t].at = "getAuction"
  BY DEF LookUp, DeploymentInv, TaskInv
<1>2. k = [cmd |-> task[t].cmd, ask |-> task[t].ask, at |-> "createNewAuction",
           found |-> task[t].found]
  BY <1>1 DEF TaskIs
<1>3. TaskIs(t, k)
  BY <1>1, <1>2 DEF TaskIs
<1>4. task' = [task EXCEPT ![t] = Idle] \/ task' = [task EXCEPT ![t] = k]
  BY DEF LookUp
<1> HIDE DEF k
<1> QED
  BY <1>3, <1>4, IdleIs, OwnStepInv DEF LookUp

LEMMA FindNewInv ==
  ASSUME DeploymentInv, NEW t \in Terminals, FindNew(t)
  PROVE  DeploymentInv'
<1> DEFINE k == [cmd |-> task[t].cmd, ask |-> task[t].ask, at |-> "successfully created",
                 found |-> GetAuction(task[t].ask)]
<1>1. TaskIs(t, task[t]) /\ task[t].at = "getNewAuction" /\ DOMAIN task = Terminals
  BY DEF FindNew, DeploymentInv, TaskInv
<1>2. task' = [task EXCEPT ![t] = k]
  <2>1. task' = [task EXCEPT ![t] = [[task[t] EXCEPT !.at = "successfully created"]
                                       EXCEPT !.found = GetAuction(task[t].ask)]]
    BY <1>1 DEF FindNew
  <2>2. k = [[task[t] EXCEPT !.at = "successfully created"]
               EXCEPT !.found = GetAuction(task[t].ask)]
    BY <1>1, TaskGoesOn
  <2> QED
    BY <2>1, <2>2
<1>3. TaskIs(t, k)
  BY <1>1 DEF TaskIs
<1> HIDE DEF k
<1> QED
  BY <1>2, <1>3, OwnStepInv DEF FindNew

LEMMA EndInv ==
  ASSUME DeploymentInv, NEW t \in Terminals, End(t) \/ CreateFails(t)
  PROVE  DeploymentInv'
<1>1. UNCHANGED deployVars /\ task' = [task EXCEPT ![t] = Idle]
  BY DEF End, CreateFails
<1> QED
  BY <1>1, IdleIs, OwnStepInv

\* What the factory makes, and that it was not there.
LEMMA CreateMakes ==
  ASSUME DeploymentInv, NEW t \in Terminals, Create(t),
         NEW c, NEW ask, c = task[t].cmd, ask = task[t].ask
  PROVE  /\ GetAuction(ask)' = Create2(c, ask)
         /\ \A x : GetAuction(x) # NoAuction => GetAuction(x)' = GetAuction(x)
         /\ \A a \in DOMAIN auctions : a \in DOMAIN auctions' /\ auctions'[a] = auctions[a]
         /\ MadeAsAsked(c, Create2(c, ask))'
<1> DEFINE name == EngineFactories[c.tieBreakingRule + 1]
<1>1. PICK new : new = Create2(c, ask)
  OBVIOUS
<1>2. PICK engine : engine = contracts[ask.factory].args[name]
  OBVIOUS
<1>3. PICK made : made = [owner |-> c.owner, quantity |-> c.quantity, engineFactory |-> engine]
  OBVIOUS
<1>4. /\ GetAuction(ask) = NoAuction /\ new \notin DOMAIN auctions
      /\ auctionDeployed' = [a \in DOMAIN auctionDeployed \cup {ask} |->
                               IF a = ask THEN new ELSE auctionDeployed[a]]
      /\ auctions' = [a \in DOMAIN auctions \cup {new} |->
                        IF a = new THEN made ELSE auctions[a]]
      /\ contracts' = contracts
  BY <1>1, <1>2, <1>3 DEF Create, FactoryAccepts, CreateNewAuction
<1>5. /\ Valid(c) /\ ask.factory \in 1..Len(contracts)
      /\ contracts[ask.factory].name \in AuctionFactoryNames
  BY DEF Create, DeploymentInv, TaskInv, TaskIs
<1>6. engine \in 1..Len(contracts) /\ contracts[engine].name = name
  <2>1. name \in EngineFactoryNames
    <3>1. c.tieBreakingRule \in 0..2
      BY <1>5 DEF Valid
    <3>2. c.tieBreakingRule + 1 \in {1, 2, 3}
      BY <3>1
    <3> QED
      BY <3>2 DEF EngineFactories, EngineFactoryNames
  <2>2. name \in Dependencies(contracts[ask.factory].name)
    BY <1>5, <2>1, DependenciesAre DEF EngineFactoryNames, AuctionFactoryNames
  <2> QED
    BY <1>2, <1>5, <2>2 DEF DeploymentInv, DeployerInv, TypeInv, WellConstructed
<1> HIDE DEF name
<1>7. GetAuction(ask)' = new
  BY <1>4 DEF GetAuction
<1>8. ASSUME NEW x, GetAuction(x) # NoAuction
      PROVE  GetAuction(x)' = GetAuction(x)
  <2>1. x # ask /\ x \in DOMAIN auctionDeployed
    BY <1>4, <1>8 DEF GetAuction
  <2> QED
    BY <1>4, <2>1 DEF GetAuction
<1>9. \A a \in DOMAIN auctions : a \in DOMAIN auctions' /\ auctions'[a] = auctions[a]
  BY <1>4
<1>10. MadeAsAsked(c, new)'
  <2>1. new \in DOMAIN auctions' /\ auctions'[new] = made
    BY <1>4
  <2>2. made.owner = c.owner /\ made.quantity = c.quantity /\ made.engineFactory = engine
    BY <1>3
  <2> QED
    BY <1>4, <1>6, <2>1, <2>2 DEF MadeAsAsked, name
<1> QED
  BY <1>1, <1>7, <1>8, <1>9, <1>10 DEF Create2

LEMMA CreateInv ==
  ASSUME DeploymentInv, NEW t \in Terminals, Create(t)
  PROVE  DeploymentInv'
<1>1. /\ UNCHANGED <<contracts, records, version, run>>
      /\ task' = [task EXCEPT ![t].at = "getNewAuction"]
      /\ DOMAIN task = Terminals /\ TaskIs(t, task[t])
      /\ task[t].at = "createNewAuction"
  BY DEF Create, DeploymentInv, TaskInv
<1>2. DeployerInv'
  BY <1>1, DeployerUnchanged DEF DeploymentInv
<1>3. PICK c, ask, found : c = task[t].cmd /\ ask = task[t].ask /\ found = task[t].found
  OBVIOUS
<1>4. PICK k : k = [cmd |-> c, ask |-> ask, at |-> "getNewAuction", found |-> found]
  OBVIOUS
<1>5. task' = [task EXCEPT ![t] = k]
  <2>1. k = [task[t] EXCEPT !.at = "getNewAuction"]
    BY <1>1, <1>3, <1>4, TaskGoesOn
  <2> QED
    BY <1>1, <2>1
<1>6. /\ GetAuction(ask)' = Create2(c, ask)
      /\ \A x : GetAuction(x) # NoAuction => GetAuction(x)' = GetAuction(x)
      /\ \A a \in DOMAIN auctions : a \in DOMAIN auctions' /\ auctions'[a] = auctions[a]
      /\ MadeAsAsked(c, Create2(c, ask))'
  BY <1>3, CreateMakes
<1>7. Len(contracts) \in Nat
  BY LenProperties DEF DeploymentInv, DeployerInv, TypeInv
<1>8. TaskIs(t, k)'
  <2>1. /\ c \in Commands[t] /\ Valid(c) /\ ask.factory \in 1..Len(contracts)
        /\ contracts[ask.factory].name \in AuctionFactoryNames
    BY <1>1, <1>3 DEF TaskIs
  <2>2. /\ k = [cmd |-> k.cmd, ask |-> k.ask, at |-> k.at, found |-> k.found]
        /\ k.cmd = c /\ k.ask = ask /\ k.at = "getNewAuction"
    BY <1>4
  <2>3. k.at # "idle" /\ k.at # "successfully created"
    BY <2>2
  <2> QED
    BY <1>1, <1>6, <2>1, <2>2, <2>3 DEF TaskIs, Create2
<1>9. ASSUME NEW u \in Terminals
      PROVE  TaskIs(u, task[u])'
  <2>1. CASE u = t
    BY <1>1, <1>5, <1>8, <2>1
  <2>2. CASE u # t
    <3>1. PICK q : q = task[u]
      OBVIOUS
    <3>2. TaskIs(u, q) /\ task'[u] = q
      BY <1>1, <1>5, <2>2, <3>1 DEF DeploymentInv, TaskInv
    <3>3. TaskIs(u, q)'
      BY <1>1, <1>6, <1>7, <3>2, TaskIsKept
    <3> QED
      BY <3>2, <3>3
  <2> QED
    BY <2>1, <2>2
<1>10. DOMAIN task' = Terminals
  BY <1>1, <1>5
<1> QED
  BY <1>2, <1>9, <1>10 DEF DeploymentInv, TaskInv

-----------------------------------------------------------------------------
(* The theorems *)

LEMMA InitInv == Init => DeploymentInv
<1> SUFFICES ASSUME Init
             PROVE  DeploymentInv
  OBVIOUS
<1>1. contracts \in Seq(Contracts) /\ Len(contracts) = 0
  BY EmptySeq DEF Init
<1>2. TypeInv
  <2>1. \A n \in Names : records[n] = 0
    BY DEF Init, None
  <2>2. version \in [Names \cup {"ACL"} -> Nat]
    BY DEF Init
  <2>3. records \in [Names -> 0..Len(contracts)]
    BY <1>1 DEF Init, None
  <2> QED
    BY <1>1, <2>1, <2>2, <2>3 DEF TypeInv, None
<1>3. DeployerInv
  <2>1. run = NoRun /\ Schedule(run)
    BY NothingIsScheduled DEF Init, NoRun
  <2> QED
    BY <1>2, <2>1 DEF DeployerInv, RecordInv, WiredInv, SupplyInv, Makes
<1>4. TaskInv
  BY IdleIs DEF Init, TaskInv
<1> QED
  BY <1>3, <1>4 DEF DeploymentInv

LEMMA NextInv == DeploymentInv /\ [Next]_vars => DeploymentInv'
<1> SUFFICES ASSUME DeploymentInv, [Next]_vars
             PROVE  DeploymentInv'
  OBVIOUS
<1>1. ASSUME NEW t \in Terminals, CreateNext(t)
      PROVE  DeploymentInv'
  BY <1>1, LaunchInv, LookUpInv, CreateInv, EndInv, FindNewInv DEF CreateNext
<1>2. CASE UNCHANGED vars
  <2>1. UNCHANGED <<contracts, records, version, run, auctionDeployed, auctions, task>>
    BY <1>2 DEF vars, deployVars, chainVars
  <2>2. DeployerInv'
    BY <2>1, DeployerUnchanged DEF DeploymentInv
  <2>3. \A t, k : TaskIs(t, k) <=> TaskIs(t, k)'
    BY <2>1, TasksUnchanged
  <2>4. TaskInv'
    BY <2>1, <2>3 DEF DeploymentInv, TaskInv
  <2> QED
    BY <2>2, <2>4 DEF DeploymentInv
<1> QED
  BY <1>1, <1>2, DeployNextInv DEF Next

(* What the scripts have deployed, recorded and minted, at every point where they
   may be interrupted, fits the calls they have left to make, and the commands
   that create auctions know the state of the factory
   (deploy/*.ts, tasks/auctionFactory.ts).                                   *)
THEOREM DeploymentInvHolds == Spec => []DeploymentInv
BY InitInv, NextInv, PTL DEF Spec

(* A script that comes to its end leaves no contract behind that uses one which
   was replaced, and none of an older source (deploy/0_deploy_fhEVM.ts to
   3_deploy_AuctionFactories.ts).                                            *)
THEOREM FinishedRunsAreWiredHolds == Spec => []FinishedRunsAreWired
<1>1. DeploymentInv => FinishedRunsAreWired
  <2>1. SUFFICES ASSUME DeploymentInv, Makes("finish"), NEW n \in DeployedBy(Called)
                 PROVE  UpToDate(n)
    BY DEF FinishedRunsAreWired
  <2>2. /\ run # NoRun /\ run[1].call = "finish" /\ Called = run[1].name /\ 1 \in 1..Len(run)
    BY <2>1, CalledIs DEF Makes, DeploymentInv, DeployerInv
  <2>3. Len(run) = 1 /\ Executed(run) = Called
    BY <2>1, <2>2 DEF DeploymentInv, DeployerInv, Schedule, Executed
  <2>4. ~ShipsIn(run, n)
    BY <2>2, <2>3 DEF ShipsIn, Ships
  <2> QED
    BY <2>1, <2>2, <2>3, <2>4 DEF DeploymentInv, DeployerInv, WiredInv
<1> QED
  BY <1>1, DeploymentInvHolds, PTL

(* No token is ever minted twice, and a script that comes to its end leaves it
   with its supply (deploy/1_deploy_PaymentERC20.ts, 2_deploy_AuctionERC20.ts). *)
THEOREM TokensAreMintedOnceHolds == Spec => []TokensAreMintedOnce
<1>1. DeploymentInv => TokensAreMintedOnce
  <2> SUFFICES ASSUME DeploymentInv
               PROVE  TokensAreMintedOnce
    OBVIOUS
  <2>1. \A a \in 1..Len(contracts) : contracts[a].mints <= 1
    BY ContractsAre DEF DeploymentInv, DeployerInv
  <2>2. ASSUME Makes("finish"), NEW token \in Tokens \cap DeployedBy(Called)
        PROVE  contracts[records[token]].mints = 1
    <3>1. /\ run # NoRun /\ run[1].call = "finish" /\ Called = run[1].name
          /\ 1 \in 1..Len(run)
      BY <2>2, CalledIs DEF Makes, DeploymentInv, DeployerInv
    <3>2. Len(run) = 1 /\ Executed(run) = Called
      BY <2>2, <3>1 DEF DeploymentInv, DeployerInv, Schedule, Executed
    <3>3. ~SuppliesIn(run, token)
      BY <3>1, <3>2 DEF SuppliesIn, Supplies
    <3> QED
      BY <2>2, <3>1, <3>2, <3>3 DEF DeploymentInv, DeployerInv, SupplyInv
  <2> QED
    BY <2>1, <2>2 DEF TokensAreMintedOnce
<1> QED
  BY <1>1, DeploymentInvHolds, PTL

(* An auction reported as created is the one that was asked for
   (tasks/auctionFactory.ts:230).                                            *)
THEOREM CreatedAsAskedHolds == Spec => []CreatedAsAsked
<1>1. DeploymentInv => CreatedAsAsked
  BY DEF DeploymentInv, TaskInv, TaskIs, MadeAsAsked, CreatedAsAsked
<1> QED
  BY <1>1, DeploymentInvHolds, PTL

\* What is recorded next was not up to date, so that nothing that was is replaced.
LEMMA RecordsStay ==
  ASSUME DeploymentInv, [Next]_vars, NEW n \in Names, UpToDate(n)
  PROVE  records'[n] = records[n]
<1>1. CASE Record
  <2>1. records' = [records EXCEPT ![Called] = Len(contracts)] /\ Called # n
    BY <1>1 DEF Record, DeploymentInv, DeployerInv, RecordInv
  <2> QED
    BY <2>1 DEF DeploymentInv, DeployerInv, TypeInv
<1>2. ASSUME NEW t \in Terminals, CreateNext(t)
      PROVE  UNCHANGED records
  BY <1>2 DEF CreateNext, Launch, LookUp, Create, CreateFails, FindNew, End, deployVars
<1>3. ASSUME DeployNext, ~Record
      PROVE  UNCHANGED records
  BY <1>3 DEF DeployNext, StartRun, Edit, Crash, ReadACL, Install, Reuse, SendContract,
              ReadSupply, Mint, Finish
<1>4. CASE UNCHANGED vars
  BY <1>4 DEF vars, deployVars
<1> QED
  BY <1>1, <1>2, <1>3, <1>4 DEF Next

LEMMA AuctionsStay ==
  ASSUME DeploymentInv, [Next]_vars, NEW ask, GetAuction(ask) # NoAuction
  PROVE  GetAuction(ask)' = GetAuction(ask)
<1>1. ASSUME NEW t \in Terminals, Create(t)
      PROVE  GetAuction(ask)' = GetAuction(ask)
  BY <1>1, CreateMakes
<1>2. ASSUME NEW t \in Terminals, CreateNext(t), ~Create(t)
      PROVE  UNCHANGED auctionDeployed
  BY <1>2 DEF CreateNext, Launch, LookUp, CreateFails, FindNew, End, deployVars, chainVars
<1>3. DeployNext => UNCHANGED auctionDeployed
  BY DeployNextTasks
<1>4. UNCHANGED vars => UNCHANGED auctionDeployed
  BY DEF vars, deployVars, chainVars
<1>5. UNCHANGED auctionDeployed => GetAuction(ask)' = GetAuction(ask)
  BY DEF GetAuction
<1> QED
  BY <1>1, <1>2, <1>3, <1>4, <1>5 DEF Next

(* An auction is led to by its salt for ever, as long as the contracts on the way
   to it are up to date (tasks/utils.ts:298).                                 *)
THEOREM AuctionsStayFoundHolds == Spec => AuctionsStayFound
<1> DEFINE Way(c) == Names \ {AuctionFactory[type] : type \in {"erc20", "native"} \ {c.type}}
           Stays == \A c \in UNION Range(Commands) :
                      (\A name \in Way(c) : UpToDate(name))
                        /\ GetAuction(Ask(c, records)) # NoAuction
                        => (GetAuction(Ask(c, records)))' = GetAuction(Ask(c, records))
<1>1. DeploymentInv /\ [Next]_vars => Stays
  <2>1. SUFFICES ASSUME DeploymentInv, [Next]_vars, NEW c \in UNION Range(Commands),
                        \A name \in Way(c) : UpToDate(name),
                        GetAuction(Ask(c, records)) # NoAuction
                 PROVE  (GetAuction(Ask(c, records)))' = GetAuction(Ask(c, records))
    OBVIOUS
  <2>2. c.type \in {"erc20", "native"}
    BY CommandsAssumption DEF Range
  <2>3. /\ AuctionFactory[c.type] \in Way(c)
        /\ "AuctionERC20" \in Way(c) /\ "PaymentERC20" \in Way(c)
    BY <2>2, NamesAre DEF AuctionFactory, AuctionFactoryNames, Tokens
  <2>4. \A name \in Way(c) : records'[name] = records[name]
    BY <2>1, RecordsStay
  <2> HIDE DEF Way
  <2>5. PICK ask : ask = Ask(c, records)
    OBVIOUS
  <2>6. Ask(c, records)' = ask
    BY <2>3, <2>4, <2>5 DEF Ask
  <2>7. GetAuction(ask)' = GetAuction(ask)
    BY <2>1, <2>5, AuctionsStay
  <2> QED
    BY <2>5, <2>6, <2>7 DEF GetAuction
<1>2. Spec => [][Stays]_vars
  BY <1>1, DeploymentInvHolds, PTL DEF Spec
<1> QED
  BY <1>2 DEF AuctionsStayFound
=============================================================================
