---------------------------- MODULE MCDeployment ----------------------------
(* Two people who create auctions of one salt while the scripts are run.      *)
EXTENDS Deployment, TLC
CONSTANTS alice, bob

Asked == [type |-> "erc20", owner |-> alice, salt |-> "salt", beneficiary |-> alice,
          quantity |-> 2, maxBidCount |-> 3, tieBreakingRule |-> 0,
          minimumPaymentDeposit |-> 1, dryRun |-> FALSE]

\* Bob asks for the same auction with another owner and deposit; Alice also
\* for one that cannot be encoded.
MCCommands ==
  alice :> {Asked, [Asked EXCEPT !.type = "native"]} @@
  bob :> {[Asked EXCEPT !.owner = bob, !.tieBreakingRule = 2,
                        !.minimumPaymentDeposit = 2]}
=============================================================================
