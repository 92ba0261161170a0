---------------------------- MODULE MCTokenTasks ----------------------------
EXTENDS TokenTasks, TLC
CONSTANTS deployer, alice, bob

Symmetry == Permutations(Terminals)
MCSigners == <<deployer, alice, bob>>
MCTokens == deployer :> 2 @@ alice :> 1 @@ bob :> 0
MCEther == deployer :> 3 @@ alice :> 1 @@ bob :> 1

Index(i) == [form |-> "index", index |-> i]
Address(a) == [form |-> "address", account |-> a]
Typo == [form |-> "typo"]
Missing == [form |-> "missing"]
Plain(n) == [number |-> n, unit |-> "none"]
Wei(n) == [number |-> n, unit |-> "wei"]
Bid(price, quantity) == [unit |-> "bid", price |-> price, quantity |-> quantity]

MCCommands ==
  [name : {"transfer"}, from : {Missing, Index(1)}, to : {Address(bob)},
   amount : {Bid(Wei(12), 2)}, dryRun : {FALSE}]
    \cup [name : {"transfer-erc20-token"}, to : {Index(2)}, amount : {1}]
    \cup [name : {"set-balance"}, account : {Index(1), Typo},
          amount : {Plain(0), Plain(2)}, dryRun : {FALSE}]
    \cup [name : {"set-balance"}, account : {Address(bob)}, amount : {Plain(1)},
          dryRun : BOOLEAN]
    \cup [name : {"eth-transfer"}, from : {Index(1)}, to : {Address(bob)},
          amount : {Wei(10), Wei(9)}]
    \cup [name : {"eth-transfer"}, from : {Missing}, to : {Index(2)}, amount : {Plain(1)}]
    \cup [name : {"set-min-balance"}, account : {Index(1), Address(bob)},
          amount : {Plain(3)}, dryRun : {FALSE}]
=============================================================================
