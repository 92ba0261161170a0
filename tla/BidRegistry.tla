---------------------------- MODULE BidRegistry ----------------------------
(***************************************************************************)
(* The bids of contracts/engines/FHEAuctionEngine.sol while the auction is *)
(* open: addBid(), removeBid() and _close().  Four mappings must agree:    *)
(* bidder <-> id (an id is never used twice) and index <-> id (the indices *)
(* 1..bidCount stay dense because removeBid() moves the last bid into the  *)
(* hole).  The computation walks the indices, the settlement the ids.      *)
(*                                                                         *)
(* A ciphertext is represented by its cleartext: no operation of the       *)
(* engine branches on one.                                                 *)
(***************************************************************************)
EXTENDS Integers, FiniteSets

CONSTANTS
  Bidders,
  NoBidder,       \* address(0)
  TotalQuantity,  \* _totalQuantity, the quantity for sale
  MaxBidCount,    \* _maxBidCount
  UInt16Max,      \* the largest uint16
  UInt256Max,     \* the largest uint256
  Offers          \* the [price, quantity] pairs that bidders send

ASSUME NoBidderAssumption == NoBidder \notin Bidders
ASSUME QuantityAssumption ==
  TotalQuantity \in Nat \ {0} /\ UInt256Max \in Nat /\ TotalQuantity <= UInt256Max
ASSUME CountAssumption ==
  UInt16Max \in Nat \ {0} /\ MaxBidCount \in 0..UInt16Max
ASSUME OffersAssumption == Offers \subseteq [price : Nat, quantity : Nat]

Ids == 1..UInt16Max
Indices == 1..UInt16Max

VARIABLES
  bidderToId,     \* _bidderToId, 0 for a bidder who has no bid
  idToBidder,     \* _idToBidder
  idxToId,        \* _indexPlusOneToId
  idToIdx,        \* _idToIndexPlusOne
  idToBid,        \* _idToBid
  bidCount,       \* _bidCount
  nextId,         \* _nextId
  auctionIsClosed \* _auctionIsClosed

registryVars == <<bidderToId, idToBidder, idxToId, idToIdx, idToBid, bidCount,
                  nextId, auctionIsClosed>>

EmptyBid == [price |-> 0, quantity |-> 0]

\* maximumPrice(): above it price * quantity may not fit into 256 bits.
MaximumPrice == UInt256Max \div TotalQuantity

\* Mutant of NormalisedBid: the price is not compared with maximumPrice().
NormalisedBidAtAnyPrice(offer) ==
  LET quantity == IF offer.quantity > TotalQuantity THEN TotalQuantity
                                                    ELSE offer.quantity
  IN  [price    |-> IF quantity = 0 THEN 0 ELSE offer.price,
       quantity |-> IF offer.price = 0 THEN 0 ELSE quantity]

\* The three corrections that addBid() makes to what the bidder sent, in its
\* order: a price that is too high counts as zero, the quantity is capped, and a
\* bid without price or quantity has neither.
NormalisedBid(offer) ==
  LET price    == IF offer.price > MaximumPrice THEN 0 ELSE offer.price
      quantity == IF offer.quantity > TotalQuantity THEN TotalQuantity
                                                    ELSE offer.quantity
  IN  [price    |-> IF quantity = 0 THEN 0 ELSE price,
       quantity |-> IF price = 0 THEN 0 ELSE quantity]

-----------------------------------------------------------------------------
RegistryInit ==
  /\ bidderToId = [b \in Bidders |-> 0]
  /\ idToBidder = [id \in Ids |-> NoBidder]
  /\ idxToId = [i \in Indices |-> 0]
  /\ idToIdx = [id \in Ids |-> 0]
  /\ idToBid = [id \in Ids |-> EmptyBid]
  /\ bidCount = 0
  /\ nextId = 1
  /\ auctionIsClosed = FALSE

\* Mutants of AddBid: nextId is not checked; a bid takes the first id after the
\* number of bids; a bidder may bid again.
EnterWithId(bidder, offer, id) ==
  /\ ~auctionIsClosed
  /\ bidCount # MaxBidCount
  /\ nextId' = nextId + 1
  /\ bidCount' = bidCount + 1
  /\ idxToId' = [idxToId EXCEPT ![bidCount + 1] = id]
  /\ idToIdx' = [idToIdx EXCEPT ![id] = bidCount + 1]
  /\ bidderToId' = [bidderToId EXCEPT ![bidder] = id]
  /\ idToBidder' = [idToBidder EXCEPT ![id] = bidder]
  /\ idToBid' = [idToBid EXCEPT ![id] = NormalisedBid(offer)]
  /\ UNCHANGED auctionIsClosed

AddBidWithoutIdLimit(bidder, offer) ==
  bidderToId[bidder] = 0 /\ EnterWithId(bidder, offer, nextId)

AddBidReusingIds(bidder, offer) ==
  /\ bidderToId[bidder] = 0 /\ nextId < UInt16Max
  /\ EnterWithId(bidder, offer, bidCount + 1)

AddBidAgain(bidder, offer) ==
  nextId < UInt16Max /\ EnterWithId(bidder, offer, nextId)

\* nextId + 1 is a checked uint16 addition: when the ids are used up addBid()
\* reverts.
AddBid(bidder, offer) ==
  /\ ~auctionIsClosed
  /\ bidderToId[bidder] = 0
  /\ bidCount # MaxBidCount
  /\ nextId < UInt16Max
  /\ nextId' = nextId + 1
  /\ bidCount' = bidCount + 1
  /\ idxToId' = [idxToId EXCEPT ![bidCount + 1] = nextId]
  /\ idToIdx' = [idToIdx EXCEPT ![nextId] = bidCount + 1]
  /\ bidderToId' = [bidderToId EXCEPT ![bidder] = nextId]
  /\ idToBidder' = [idToBidder EXCEPT ![nextId] = bidder]
  /\ idToBid' = [idToBid EXCEPT ![nextId] = NormalisedBid(offer)]
  /\ UNCHANGED auctionIsClosed

\* The checks that removeBid() makes with DebugEngineError(4), (5) and (6).
DebugChecks(bidder) ==
  LET idx == idToIdx[bidderToId[bidder]]
  IN  /\ bidCount > 0
      /\ idx > 0
      /\ idx < bidCount => idxToId[bidCount] > 0

\* Mutant of RemoveBid: the index of the bid is cleared, the last bid stays.
RemoveBidLeavingHole(bidder) ==
  LET id == bidderToId[bidder]
  IN  /\ ~auctionIsClosed
      /\ id # 0
      /\ DebugChecks(bidder)
      /\ bidderToId' = [bidderToId EXCEPT ![bidder] = 0]
      /\ idToBidder' = [idToBidder EXCEPT ![id] = NoBidder]
      /\ idxToId' = [idxToId EXCEPT ![idToIdx[id]] = 0]
      /\ idToIdx' = [idToIdx EXCEPT ![id] = 0]
      /\ idToBid' = [idToBid EXCEPT ![id] = EmptyBid]
      /\ bidCount' = bidCount - 1
      /\ UNCHANGED <<nextId, auctionIsClosed>>

\* A bidder without a bid is a no-op.
RemoveBid(bidder) ==
  LET id     == bidderToId[bidder]
      idx    == idToIdx[id]
      lastId == idxToId[bidCount]
      moved  == idx < bidCount
  IN  /\ ~auctionIsClosed
      /\ id # 0
      /\ DebugChecks(bidder)
      /\ bidderToId' = [bidderToId EXCEPT ![bidder] = 0]
      /\ idToBidder' = [idToBidder EXCEPT ![id] = NoBidder]
      /\ idxToId' = [i \in Indices |-> IF i = bidCount THEN 0
                                       ELSE IF moved /\ i = idx THEN lastId
                                       ELSE idxToId[i]]
      /\ idToIdx' = [k \in Ids |-> IF k = id THEN 0
                                   ELSE IF moved /\ k = lastId THEN idx
                                   ELSE idToIdx[k]]
      /\ idToBid' = [idToBid EXCEPT ![id] = EmptyBid]
      /\ bidCount' = bidCount - 1
      /\ UNCHANGED <<nextId, auctionIsClosed>>

\* initializeFourSteps() computes bidCount * bidCount and
\* bidCount * (bidCount - 1) in uint16: beyond that _close() reverts.
SizesFit(n) == n * n <= UInt16Max /\ (n >= 3 => n * (n - 1) <= UInt16Max)

Close ==
  /\ ~auctionIsClosed
  /\ SizesFit(bidCount)
  /\ auctionIsClosed' = TRUE
  /\ UNCHANGED <<bidderToId, idToBidder, idxToId, idToIdx, idToBid, bidCount,
                 nextId>>

RegistryNext ==
  \/ \E b \in Bidders, o \in Offers : AddBid(b, o)
  \/ \E b \in Bidders : RemoveBid(b)
  \/ Close

RegistrySpec == RegistryInit /\ [][RegistryNext]_registryVars

-----------------------------------------------------------------------------
(* Properties *)

RegistryTypeOK ==
  /\ bidderToId \in [Bidders -> 0..UInt16Max]
  /\ idToBidder \in [Ids -> Bidders \cup {NoBidder}]
  /\ idxToId \in [Indices -> 0..UInt16Max]
  /\ idToIdx \in [Ids -> 0..UInt16Max]
  /\ idToBid \in [Ids -> [price : Nat, quantity : Nat]]
  /\ bidCount \in 0..UInt16Max
  /\ nextId \in Ids
  /\ auctionIsClosed \in BOOLEAN

\* bidder <-> id: each mapping is the inverse of the other where it is defined.
BiddersMatchIds ==
  /\ \A b \in Bidders : bidderToId[b] # 0 => idToBidder[bidderToId[b]] = b
  /\ \A id \in Ids : idToBidder[id] # NoBidder => bidderToId[idToBidder[id]] = id

\* index <-> id: the indices 1..bidCount enumerate each registered id once, after
\* any sequence of bids and cancellations (removeBid() moves the last bid).
IndicesMatchIds ==
  /\ \A i \in Indices :
       IF i <= bidCount THEN idxToId[i] # 0 /\ idToIdx[idxToId[i]] = i
                        ELSE idxToId[i] = 0
  /\ \A id \in Ids :
       /\ idToIdx[id] # 0 => idToIdx[id] <= bidCount /\ idxToId[idToIdx[id]] = id
       /\ idToIdx[id] # 0 <=> idToBidder[id] # NoBidder

\* The four mappings agree.
MappingsMatch == BiddersMatchIds /\ IndicesMatchIds

\* The debug errors of removeBid() and of the computation (DebugEngineError 4 to
\* 7) are unreachable: a registered bidder can always cancel, and every index
\* that step 1 visits carries an id.
NoDebugError ==
  /\ \A b \in Bidders : bidderToId[b] # 0 => DebugChecks(b)
  /\ \A i \in 1..bidCount : idxToId[i] > 0

\* What maximumPrice() is for: the product price * quantity of a stored bid never
\* overflows in step 1, and a bid is zero in both parts or in neither.
ProductsFit ==
  \A id \in Ids :
    /\ idToBid[id].price * idToBid[id].quantity <= UInt256Max
    /\ idToBid[id].quantity <= TotalQuantity
    /\ idToBid[id].price = 0 <=> idToBid[id].quantity = 0

\* What addBid() has let in needs no check later on.
ChecksHold == NoDebugError /\ ProductsFit

\* Time priority: a bid gets an id above every id in use, so a bidder who cancels
\* and bids again goes to the end of the queue of equal bids.
LaterBidsGetLargerIds ==
  [][\A b \in Bidders :
       (bidderToId'[b] # 0 /\ bidderToId'[b] # bidderToId[b])
         => \A c \in Bidders \ {b} : bidderToId[c] < bidderToId'[b]]_registryVars

\* The registry implements a book with one bid per bidder: a bid is found under
\* its bidder's id until that bidder cancels it, whatever the others do.
TheBook == [b \in {c \in Bidders : bidderToId[c] # 0} |-> idToBid[bidderToId[b]]]
Book == INSTANCE BidBook WITH
          Bids <- {NormalisedBid(o) : o \in Offers},
          book <- TheBook, sealed <- auctionIsClosed
ImplementsBook == Book!BookSpec
=============================================================================
