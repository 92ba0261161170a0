-------------------------- MODULE AuctionLifecycle --------------------------
(***************************************************************************)
(* What TimedAuction.sol promises about the life of an auction: the state  *)
(* graph drawn in the comment at the top of the contract, as an abstract   *)
(* specification over the single number returned by statusCode().          *)
(* TimedAuction.tla is shown to implement it.                              *)
(***************************************************************************)
EXTENDS Naturals

VARIABLE status

\* The status codes, bit by bit: 1 initialized, 2 started, 4 ended,
\* 8 terminated.
UNINITIALIZED == 0
INITIALIZED == 1
INITIALIZED_TERMINATED == 9
INITIALIZED_STARTED == 3
INITIALIZED_STARTED_ENDED == 7
INITIALIZED_STARTED_ENDED_TERMINATED == 15

StatusCodes == {UNINITIALIZED, INITIALIZED, INITIALIZED_TERMINATED,
                INITIALIZED_STARTED, INITIALIZED_STARTED_ENDED,
                INITIALIZED_STARTED_ENDED_TERMINATED}

\* The arrows of the graph, in the order of the comment.
Successors(s) ==
  CASE s = UNINITIALIZED             -> {INITIALIZED}
    [] s = INITIALIZED               -> {INITIALIZED_TERMINATED,
                                         INITIALIZED_STARTED}
    [] s = INITIALIZED_STARTED       -> {INITIALIZED_STARTED_ENDED,
                                         INITIALIZED_STARTED_ENDED_TERMINATED}
    [] s = INITIALIZED_STARTED_ENDED -> {INITIALIZED_STARTED_ENDED_TERMINATED}
    [] OTHER                         -> {}

LifecycleInit == status = UNINITIALIZED

LifecycleNext == status' \in Successors(status)

LifecycleSpec == LifecycleInit /\ [][LifecycleNext]_status
=============================================================================
