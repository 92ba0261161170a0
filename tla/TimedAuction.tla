---------------------------- MODULE TimedAuction ----------------------------
(***************************************************************************)
(* contracts/TimedAuction.sol: the status flags and the schedule of an     *)
(* auction.  The contract stores only `flags'; that an auction has ended   *)
(* because its time is over is never written anywhere, it is recomputed    *)
(* from the block timestamp by _state() on every call (State below).       *)
(*                                                                         *)
(* The virtual function _canTerminateAfterStart() is the boolean argument  *)
(* of the operators that call it: FHEAuction.tla supplies its value, the   *)
(* specification of this module lets it be anything.                       *)
(***************************************************************************)
EXTENDS Naturals

CONSTANTS
  Durations,   \* the durations in seconds that start() is called with
  MaxTime      \* bound on the block timestamp

ASSUME DurationsAssumption == Durations \subseteq Nat
ASSUME MaxTimeAssumption == MaxTime \in Nat

VARIABLES
  flags,       \* _flags
  startTime,   \* _startTime
  endTime,     \* _endTime
  stoppable,   \* _stoppable
  now          \* block.timestamp

timedVars == <<flags, startTime, endTime, stoppable, now>>

UNINITIALIZED == 0
INITIALIZED == 1
INITIALIZED_TERMINATED == 9
INITIALIZED_STARTED == 3
INITIALIZED_STARTED_ENDED == 7
INITIALIZED_STARTED_ENDED_TERMINATED == 15

StatusCodes == {UNINITIALIZED, INITIALIZED, INITIALIZED_TERMINATED,
                INITIALIZED_STARTED, INITIALIZED_STARTED_ENDED,
                INITIALIZED_STARTED_ENDED_TERMINATED}

-----------------------------------------------------------------------------
(* Views *)

\* Mutant of State: the clock is not looked at.
StateIgnoringClock == flags

\* _state(): the stored flags, plus the ended bit once the time is over.
State == IF flags = INITIALIZED_STARTED /\ now >= endTime
         THEN INITIALIZED_STARTED_ENDED
         ELSE flags

\* Mutant of CanStart: only the started bit is looked at.
CanStartAgain == flags \in {INITIALIZED, INITIALIZED_TERMINATED}

CanStart == flags = INITIALIZED
CanStop == flags = INITIALIZED_STARTED /\ stoppable

\* Mutant of IsOpen: the stored flags are looked at, as in canStop().
IsOpenByFlags == flags = INITIALIZED_STARTED

IsOpen == State = INITIALIZED_STARTED
Closed == State = INITIALIZED_STARTED_ENDED
Terminated == flags \in {INITIALIZED_TERMINATED,
                         INITIALIZED_STARTED_ENDED_TERMINATED}

\* canTerminate(), with the value returned by _canTerminateAfterStart().
CanTerminate(canTerminateAfterStart) ==
  /\ flags \in {INITIALIZED, INITIALIZED_STARTED, INITIALIZED_STARTED_ENDED}
  /\ State \in {INITIALIZED_STARTED, INITIALIZED_STARTED_ENDED}
       => canTerminateAfterStart

\* The modifier whenStarted as it is written: it lets a call through exactly
\* when FLAGS_STARTED is not set.
WhenStarted == State \notin {INITIALIZED_STARTED, INITIALIZED_STARTED_ENDED,
                             INITIALIZED_STARTED_ENDED_TERMINATED}

-----------------------------------------------------------------------------
(* Operations *)

TimedInit ==
  /\ flags = UNINITIALIZED
  /\ startTime = 0
  /\ endTime = 0
  /\ stoppable = FALSE
  /\ now \in 0..MaxTime

TimedInitialize ==
  /\ flags = UNINITIALIZED
  /\ flags' = INITIALIZED
  /\ UNCHANGED <<startTime, endTime, stoppable, now>>

\* Mutant of TimedStart: no InvalidDuration().
TimedStartForAnyDuration(duration, isStoppable) ==
  /\ CanStart
  /\ now + duration <= MaxTime
  /\ flags' = INITIALIZED_STARTED
  /\ startTime' = now
  /\ endTime' = now + duration
  /\ stoppable' = isStoppable
  /\ UNCHANGED now

\* The upper bound on `now + duration' only keeps the deadline within reach of
\* the bounded clock.
TimedStart(duration, isStoppable) ==
  /\ CanStart
  /\ duration # 0
  /\ now + duration <= MaxTime
  /\ flags' = INITIALIZED_STARTED
  /\ startTime' = now
  /\ endTime' = now + duration
  /\ stoppable' = isStoppable
  /\ UNCHANGED now

\* canStop() looks at the stored flags only: an auction whose time is over can
\* still be stopped.
TimedStop ==
  /\ CanStop
  /\ flags' = INITIALIZED_STARTED_ENDED
  /\ UNCHANGED <<startTime, endTime, stoppable, now>>

TimedTerminate(canTerminateAfterStart) ==
  /\ CanTerminate(canTerminateAfterStart)
  /\ flags' = IF flags = INITIALIZED
              THEN INITIALIZED_TERMINATED
              ELSE INITIALIZED_STARTED_ENDED_TERMINATED
  /\ UNCHANGED <<startTime, endTime, stoppable, now>>

\* The chain produces a block with a later timestamp.
Tick ==
  /\ now < MaxTime
  /\ now' = now + 1
  /\ UNCHANGED <<flags, startTime, endTime, stoppable>>

TimedNext ==
  \/ TimedInitialize
  \/ \E d \in Durations, b \in BOOLEAN : TimedStart(d, b)
  \/ TimedStop
  \/ \E b \in BOOLEAN : TimedTerminate(b)
  \/ Tick

TimedSpec == TimedInit /\ [][TimedNext]_timedVars

-----------------------------------------------------------------------------
(* Properties *)

\* Types, and what the schedule looks like in each status: a started auction has
\* a non-empty window that began in the past and a deadline that is fixed.
TimedTypeOK ==
  /\ flags \in StatusCodes
  /\ startTime \in 0..MaxTime
  /\ endTime \in 0..MaxTime
  /\ stoppable \in BOOLEAN
  /\ now \in 0..MaxTime
  /\ flags \in {INITIALIZED_STARTED, INITIALIZED_STARTED_ENDED,
                INITIALIZED_STARTED_ENDED_TERMINATED}
       => startTime <= now /\ startTime < endTime

\* The status code seen by callers, computed from the flags and the clock,
\* follows the state graph of the contract's comment, one arrow per step.
Lifecycle == INSTANCE AuctionLifecycle WITH status <- State
FollowsStateGraph == Lifecycle!LifecycleSpec

\* No auction stays open for ever: with blocks being produced, an open auction
\* stops accepting bids without anybody calling stop().
OpenAuctionEnds == IsOpen ~> ~IsOpen
=============================================================================
