-------------------------- MODULE BidRegistryProofs --------------------------
(***************************************************************************)
(* Proofs about BidRegistry.tla, for any set of bidders and any limits:    *)
(* the four mappings of the engine agree, its debug errors are unreachable *)
(* and the registry implements BidBook.tla.                                *)
(***************************************************************************)
EXTENDS BidRegistry, TLAPS

\* What keeps the mappings inverse to each other: ids are handed out in
\* increasing order and an id at or above nextId is nowhere in use.
FreshIds ==
  /\ \A id \in Ids : id >= nextId => idToBidder[id] = NoBidder
  /\ bidCount <= MaxBidCount

RegistryInv ==
  RegistryTypeOK /\ BiddersMatchIds /\ IndicesMatchIds /\ FreshIds

LEMMA NormalisedBidType ==
  ASSUME NEW offer \in Offers
  PROVE  NormalisedBid(offer) \in [price : Nat, quantity : Nat]
BY OffersAssumption, QuantityAssumption DEF NormalisedBid

LEMMA RegistryInvInit == RegistryInit => RegistryInv
<1> SUFFICES ASSUME RegistryInit PROVE RegistryInv
  OBVIOUS
<1>1. auctionIsClosed \in BOOLEAN
  BY DEF RegistryInit
<1>2. RegistryTypeOK
  BY <1>1, CountAssumption
     DEF RegistryInit, RegistryTypeOK, EmptyBid, Ids, Indices
<1>3. BiddersMatchIds /\ IndicesMatchIds /\ FreshIds
  BY CountAssumption, NoBidderAssumption
     DEF RegistryInit, BiddersMatchIds, IndicesMatchIds, FreshIds, Ids, Indices
<1> QED
  BY <1>2, <1>3 DEF RegistryInv

LEMMA AddBidPreserves ==
  ASSUME RegistryInv, NEW b \in Bidders, NEW o \in Offers, AddBid(b, o)
  PROVE  RegistryInv'
<1> USE DEF RegistryInv
<1>1. /\ nextId \in Ids /\ nextId + 1 \in Ids /\ nextId \in Nat
      /\ bidCount + 1 \in Indices /\ bidCount + 1 <= MaxBidCount
      /\ bidCount \in Nat
  BY CountAssumption DEF AddBid, RegistryTypeOK, FreshIds, Ids, Indices
<1>2. RegistryTypeOK'
  <2>1. auctionIsClosed' \in BOOLEAN
    BY DEF AddBid, RegistryTypeOK
  <2>2. idToBid' \in [Ids -> [price : Nat, quantity : Nat]]
    BY NormalisedBidType DEF AddBid, RegistryTypeOK
  <2>3. bidderToId' \in [Bidders -> 0..UInt16Max]
    BY <1>1 DEF AddBid, RegistryTypeOK, Ids
  <2>4. idToBidder' \in [Ids -> Bidders \cup {NoBidder}]
    BY <1>1 DEF AddBid, RegistryTypeOK
  <2>5. idxToId' \in [Indices -> 0..UInt16Max] /\ idToIdx' \in [Ids -> 0..UInt16Max]
    BY <1>1 DEF AddBid, RegistryTypeOK, Ids, Indices
  <2>6. bidCount' \in 0..UInt16Max /\ nextId' \in Ids
    BY <1>1 DEF AddBid, Indices
  <2> QED
    BY <2>1, <2>2, <2>3, <2>4, <2>5, <2>6 DEF RegistryTypeOK
<1>3. idToBidder[nextId] = NoBidder /\ idToIdx[nextId] = 0
  BY <1>1 DEF FreshIds, IndicesMatchIds
<1>4. BiddersMatchIds'
  BY <1>1, <1>3, NoBidderAssumption
     DEF AddBid, BiddersMatchIds, RegistryTypeOK, Ids
<1>5. IndicesMatchIds'
  <2>1. /\ idxToId' = [idxToId EXCEPT ![bidCount + 1] = nextId]
        /\ idToIdx' = [idToIdx EXCEPT ![nextId] = bidCount + 1]
        /\ idToBidder' = [idToBidder EXCEPT ![nextId] = b]
        /\ bidCount' = bidCount + 1
    BY DEF AddBid
  <2>2. /\ idxToId \in [Indices -> 0..UInt16Max]
        /\ idToIdx \in [Ids -> 0..UInt16Max]
        /\ idToBidder \in [Ids -> Bidders \cup {NoBidder}]
    BY DEF RegistryTypeOK
  <2>3. ASSUME NEW i \in Indices
        PROVE  IF i <= bidCount' THEN idxToId'[i] # 0 /\ idToIdx'[idxToId'[i]] = i
                                 ELSE idxToId'[i] = 0
    <3>1. CASE i = bidCount + 1
      BY <3>1, <1>1, <2>1, <2>2 DEF Ids
    <3>2. CASE i <= bidCount
      <4>1. idxToId[i] # 0 /\ idToIdx[idxToId[i]] = i /\ idxToId[i] \in Ids
        BY <3>2, <2>2, CountAssumption DEF IndicesMatchIds, Ids
      <4>2. idxToId[i] # nextId
        BY <3>2, <4>1, <1>3 DEF Indices
      <4> QED
        BY <3>2, <4>1, <4>2, <1>1, <2>1, <2>2 DEF Indices
    <3>3. CASE i > bidCount + 1
      BY <3>3, <1>1, <2>1, <2>2 DEF IndicesMatchIds, Indices
    <3> QED
      BY <3>1, <3>2, <3>3, <1>1 DEF Indices
  <2>4. ASSUME NEW k \in Ids
        PROVE  /\ idToIdx'[k] # 0 => /\ idToIdx'[k] <= bidCount'
                                     /\ idxToId'[idToIdx'[k]] = k
               /\ idToIdx'[k] # 0 <=> idToBidder'[k] # NoBidder
    <3>1. CASE k = nextId
      BY <3>1, <1>1, <2>1, <2>2, NoBidderAssumption DEF Indices
    <3>2. CASE k # nextId
      <4>1. idToIdx'[k] = idToIdx[k] /\ idToBidder'[k] = idToBidder[k]
        BY <3>2, <2>1, <2>2
      <4>2. ASSUME idToIdx[k] # 0
            PROVE  idToIdx[k] <= bidCount' /\ idxToId'[idToIdx[k]] = k
        <5>1. /\ idToIdx[k] <= bidCount /\ idxToId[idToIdx[k]] = k
              /\ idToIdx[k] \in Indices
          BY <4>2, <2>2, CountAssumption DEF IndicesMatchIds, Indices
        <5> QED
          BY <5>1, <1>1, <2>1, <2>2 DEF Indices
      <4> QED
        BY <4>1, <4>2 DEF IndicesMatchIds
    <3> QED
      BY <3>1, <3>2
  <2> QED
    BY <2>3, <2>4 DEF IndicesMatchIds
<1>6. FreshIds'
  BY <1>1 DEF AddBid, FreshIds, RegistryTypeOK, Ids
<1> QED
  BY <1>2, <1>4, <1>5, <1>6

LEMMA RemoveBidPreserves ==
  ASSUME RegistryInv, NEW b \in Bidders, RemoveBid(b)
  PROVE  RegistryInv'
<1> USE DEF RegistryInv
<1> DEFINE id == bidderToId[b]
           idx == idToIdx[id]
           lastId == idxToId[bidCount]
           moved == idx < bidCount
<1>1. /\ id \in Ids /\ id \in Nat /\ idToBidder[id] = b
      /\ idx \in Indices /\ idx <= bidCount /\ idxToId[idx] = id
      /\ bidCount \in Indices /\ bidCount \in Nat /\ idx \in Nat
  <2>1. id \in Ids /\ id \in Nat
    BY CountAssumption DEF RemoveBid, RegistryTypeOK, Ids
  <2>2. idToBidder[id] = b
    BY <2>1 DEF BiddersMatchIds, Ids
  <2>3. idx \in Indices /\ idx \in Nat
    BY <2>1, CountAssumption DEF RemoveBid, DebugChecks, RegistryTypeOK, Indices
  <2>4. idx <= bidCount /\ idxToId[idx] = id
    BY <2>1, <2>3 DEF IndicesMatchIds, Indices
  <2>5. bidCount \in Indices /\ bidCount \in Nat
    BY CountAssumption DEF RemoveBid, DebugChecks, RegistryTypeOK, Indices
  <2> QED
    BY <2>1, <2>2, <2>3, <2>4, <2>5
<1>2. /\ lastId \in Ids /\ idToIdx[lastId] = bidCount
      /\ moved => lastId # id
      /\ ~moved => lastId = id /\ idx = bidCount
  BY <1>1 DEF RegistryTypeOK, IndicesMatchIds, Ids, Indices
<1>3. /\ bidderToId' = [bidderToId EXCEPT ![b] = 0]
      /\ idToBidder' = [idToBidder EXCEPT ![id] = NoBidder]
      /\ idxToId' = [i \in Indices |-> IF i = bidCount THEN 0
                                       ELSE IF moved /\ i = idx THEN lastId
                                       ELSE idxToId[i]]
      /\ idToIdx' = [k \in Ids |-> IF k = id THEN 0
                                   ELSE IF moved /\ k = lastId THEN idx
                                   ELSE idToIdx[k]]
      /\ idToBid' = [idToBid EXCEPT ![id] = EmptyBid]
      /\ bidCount' = bidCount - 1
      /\ nextId' = nextId /\ auctionIsClosed' = auctionIsClosed
  BY DEF RemoveBid
<1> HIDE DEF id, idx, lastId, moved
<1>4. RegistryTypeOK'
  <2>1. auctionIsClosed' \in BOOLEAN
    BY <1>3 DEF RegistryTypeOK
  <2>2. idToBid' \in [Ids -> [price : Nat, quantity : Nat]]
    BY <1>3 DEF RegistryTypeOK, EmptyBid
  <2>3. bidderToId' \in [Bidders -> 0..UInt16Max]
    BY <1>3, CountAssumption DEF RegistryTypeOK
  <2>4. idToBidder' \in [Ids -> Bidders \cup {NoBidder}]
    BY <1>3 DEF RegistryTypeOK
  <2>5. idxToId' \in [Indices -> 0..UInt16Max]
    BY <1>2, <1>3, CountAssumption DEF RegistryTypeOK, Ids
  <2>6. idToIdx' \in [Ids -> 0..UInt16Max]
    BY <1>1, <1>3, CountAssumption DEF RegistryTypeOK, Indices
  <2>7. bidCount' \in 0..UInt16Max /\ nextId' \in Ids
    BY <1>1, <1>3, CountAssumption DEF RegistryTypeOK, Indices
  <2> QED
    BY <2>1, <2>2, <2>3, <2>4, <2>5, <2>6, <2>7 DEF RegistryTypeOK
<1>5. BiddersMatchIds'
  BY <1>1, <1>3, NoBidderAssumption
     DEF BiddersMatchIds, RegistryTypeOK, Ids, id
<1>6. ASSUME NEW i \in Indices
      PROVE  IF i <= bidCount' THEN idxToId'[i] # 0 /\ idToIdx'[idxToId'[i]] = i
                               ELSE idxToId'[i] = 0
  <2>1. CASE i = bidCount
    BY <2>1, <1>1, <1>3
  <2>2. CASE i > bidCount
    BY <2>2, <1>1, <1>3 DEF IndicesMatchIds, Indices
  <2>3. CASE i < bidCount /\ moved /\ i = idx
    BY <2>3, <1>1, <1>2, <1>3 DEF Ids, Indices
  <2>4. CASE i < bidCount /\ ~(moved /\ i = idx)
    <3>1. i # idx
      <4>1. CASE moved
        BY <2>4, <4>1
      <4>2. CASE ~moved
        BY <2>4, <4>2, <1>1, <1>2 DEF Indices
      <4> QED
        BY <4>1, <4>2
    <3>2. idxToId[i] \in Ids /\ idToIdx[idxToId[i]] = i
      <4>1. idxToId[i] # 0 /\ idToIdx[idxToId[i]] = i
        BY <2>4, <1>1 DEF IndicesMatchIds, Indices
      <4> QED
        BY <4>1, CountAssumption DEF RegistryTypeOK, Ids
    <3>3. idxToId[i] # id /\ idxToId[i] # lastId
      BY <2>4, <3>1, <3>2, <1>2, <1>1 DEF idx, Indices
    <3> QED
      BY <2>4, <3>2, <3>3, <1>1, <1>3 DEF Ids, Indices
  <2> QED
    BY <2>1, <2>2, <2>3, <2>4, <1>1 DEF Indices
<1>7. ASSUME NEW k \in Ids
      PROVE  /\ idToIdx'[k] # 0 => /\ idToIdx'[k] <= bidCount'
                                   /\ idxToId'[idToIdx'[k]] = k
             /\ idToIdx'[k] # 0 <=> idToBidder'[k] # NoBidder
  <2>1. CASE k = id
    BY <2>1, <1>1, <1>3 DEF RegistryTypeOK
  <2>2. CASE k # id /\ moved /\ k = lastId
    <3>1. idToIdx'[k] = idx /\ idx < bidCount /\ idx # 0
      BY <2>2, <1>1, <1>3 DEF moved, Indices
    <3>2. idxToId'[idx] = k
      BY <2>2, <3>1, <1>1, <1>3 DEF Indices
    <3>3. idToBidder[lastId] # NoBidder /\ idToBidder'[k] = idToBidder[k]
      BY <2>2, <1>1, <1>2, <1>3 DEF IndicesMatchIds, RegistryTypeOK, Indices
    <3> QED
      BY <2>2, <3>1, <3>2, <3>3, <1>1, <1>3
  <2>3. CASE k # id /\ ~(moved /\ k = lastId)
    <3>1. idToIdx'[k] = idToIdx[k] /\ idToBidder'[k] = idToBidder[k]
      BY <2>3, <1>3 DEF RegistryTypeOK
    <3>2. ASSUME idToIdx[k] # 0
          PROVE  idToIdx[k] <= bidCount' /\ idxToId'[idToIdx[k]] = k
      <4>1. /\ idToIdx[k] \in Indices /\ idToIdx[k] <= bidCount
            /\ idxToId[idToIdx[k]] = k
        BY <3>2, CountAssumption DEF IndicesMatchIds, RegistryTypeOK, Indices
      <4>2. k # lastId
        BY <2>3, <1>2
      <4>3. idToIdx[k] # bidCount /\ idToIdx[k] # idx
        BY <4>1, <4>2, <2>3, <1>1 DEF lastId
      <4> QED
        BY <4>1, <4>3, <1>1, <1>3 DEF Indices
    <3> QED
      BY <3>1, <3>2 DEF IndicesMatchIds
  <2> QED
    BY <2>1, <2>2, <2>3
<1>8. IndicesMatchIds'
  BY <1>6, <1>7 DEF IndicesMatchIds
<1>9. FreshIds'
  BY <1>1, <1>3, CountAssumption DEF FreshIds, RegistryTypeOK, Indices
<1> QED
  BY <1>4, <1>5, <1>8, <1>9

LEMMA ClosePreserves ==
  ASSUME RegistryInv, Close
  PROVE  RegistryInv'
<1>1. auctionIsClosed' \in BOOLEAN
  BY DEF Close
<1> QED
  BY <1>1 DEF RegistryInv, RegistryTypeOK, BiddersMatchIds, IndicesMatchIds,
              FreshIds, Close

LEMMA RegistryInvariant == RegistrySpec => []RegistryInv
<1>1. RegistryInv /\ [RegistryNext]_registryVars => RegistryInv'
  <2> SUFFICES ASSUME RegistryInv, [RegistryNext]_registryVars
               PROVE  RegistryInv'
    OBVIOUS
  <2>1. ASSUME NEW b \in Bidders, NEW o \in Offers, AddBid(b, o)
        PROVE  RegistryInv'
    BY <2>1, AddBidPreserves
  <2>2. ASSUME NEW b \in Bidders, RemoveBid(b)
        PROVE  RegistryInv'
    BY <2>2, RemoveBidPreserves
  <2>3. CASE Close
    BY <2>3, ClosePreserves
  <2>4. CASE UNCHANGED registryVars
    BY <2>4 DEF registryVars, RegistryInv, RegistryTypeOK, BiddersMatchIds,
                IndicesMatchIds, FreshIds
  <2> QED
    BY <2>1, <2>2, <2>3, <2>4 DEF RegistryNext
<1> QED
  BY <1>1, RegistryInvInit, PTL DEF RegistrySpec

-----------------------------------------------------------------------------
(* Stored bids *)

LEMMA QuotientTimes ==
  ASSUME NEW a \in Nat, NEW b \in Nat \ {0}, NEW p \in Nat, NEW q \in Nat,
         p <= a \div b, q <= b
  PROVE  p * q <= a
<1>1. a \div b \in Nat /\ (a \div b) * b <= a
  OBVIOUS
<1> DEFINE m == a \div b
<1> HIDE DEF m
<1>2. m \in Nat /\ m * b <= a /\ p <= m
  BY <1>1 DEF m
<1>3. p * q <= m * q
  BY <1>2
<1>4. m * q <= m * b
  BY <1>2
<1>5. p * q \in Nat /\ m * q \in Nat /\ m * b \in Nat
  BY <1>2
<1> QED
  BY <1>2, <1>3, <1>4, <1>5

BidFits(bid) == /\ bid.price * bid.quantity <= UInt256Max
                /\ bid.quantity <= TotalQuantity
                /\ bid.price = 0 <=> bid.quantity = 0

LEMMA NormalisedBidFits ==
  ASSUME NEW offer \in Offers
  PROVE  BidFits(NormalisedBid(offer))
<1> DEFINE bid == NormalisedBid(offer)
<1>1. /\ bid.price \in Nat /\ bid.quantity \in Nat
      /\ bid.quantity <= TotalQuantity
      /\ bid.price = 0 <=> bid.quantity = 0
      /\ bid.price = 0 \/ bid.price <= MaximumPrice
  <2>1. /\ offer.price \in Nat /\ offer.quantity \in Nat
        /\ MaximumPrice \in Nat /\ TotalQuantity \in Nat \ {0}
    BY OffersAssumption, QuantityAssumption DEF MaximumPrice
  <2> DEFINE p == IF offer.price > MaximumPrice THEN 0 ELSE offer.price
             q == IF offer.quantity > TotalQuantity THEN TotalQuantity
                                                    ELSE offer.quantity
  <2>2. /\ p \in Nat /\ q \in Nat /\ q <= TotalQuantity
        /\ p = 0 \/ p <= MaximumPrice
    BY <2>1
  <2>3. /\ bid.price = IF q = 0 THEN 0 ELSE p
        /\ bid.quantity = IF p = 0 THEN 0 ELSE q
    BY DEF NormalisedBid
  <2> HIDE DEF p, q, bid
  <2> QED
    BY <2>1, <2>2, <2>3
<1> HIDE DEF bid
<1>2. CASE bid.price = 0
  BY <1>1, <1>2, QuantityAssumption DEF BidFits, bid
<1>3. CASE bid.price <= MaximumPrice
  <2>1. bid.price * bid.quantity <= UInt256Max
    BY <1>1, <1>3, QuantityAssumption, QuotientTimes DEF MaximumPrice
  <2> QED
    BY <1>1, <2>1 DEF BidFits, bid
<1> QED
  BY <1>1, <1>2, <1>3

-----------------------------------------------------------------------------
(* Theorems *)

\* The storage of addBid() and removeBid() stays in its types.
THEOREM RegistryTypeCorrect == RegistrySpec => []RegistryTypeOK
BY RegistryInvariant, PTL DEF RegistryInv

\* After any sequence of bids and cancellations the bidder <-> id and the
\* index <-> id mappings of the engine are inverse to each other, and the
\* indices are dense.
THEOREM MappingsAgree == RegistrySpec => []MappingsMatch
BY RegistryInvariant, PTL DEF RegistryInv, MappingsMatch

\* DebugEngineError(4) to (7) are unreachable: every registered bidder can cancel
\* and the computation finds an id at every index.
THEOREM DebugErrorsUnreachable == RegistrySpec => []NoDebugError
<1>1. RegistryInv => NoDebugError
  <2> SUFFICES ASSUME RegistryInv PROVE NoDebugError
    OBVIOUS
  <2> USE DEF RegistryInv
  <2>1. ASSUME NEW i \in 1..bidCount
        PROVE  i \in Indices /\ idxToId[i] > 0
    BY CountAssumption DEF RegistryTypeOK, IndicesMatchIds, Indices
  <2>2. ASSUME NEW b \in Bidders, bidderToId[b] # 0
        PROVE  DebugChecks(b)
    <3>1. bidderToId[b] \in Ids /\ idToBidder[bidderToId[b]] # NoBidder
      BY <2>2, CountAssumption, NoBidderAssumption
         DEF RegistryTypeOK, BiddersMatchIds, Ids
    <3>2. /\ idToIdx[bidderToId[b]] \in 1..bidCount
          /\ bidCount \in Nat
      BY <3>1, CountAssumption DEF RegistryTypeOK, IndicesMatchIds
    <3>3. bidCount \in 1..bidCount
      BY <3>2
    <3> QED
      BY <3>2, <3>3, <2>1 DEF DebugChecks
  <2> QED
    BY <2>1, <2>2 DEF NoDebugError
<1> QED
  BY <1>1, RegistryInvariant, PTL

\* The clamping in addBid() keeps price * quantity of every stored bid within 256
\* bits, whatever the bidder sent and whatever is for sale.
THEOREM StoredProductsFit == RegistrySpec => []ProductsFit
<1> DEFINE Fits == \A id \in Ids : BidFits(idToBid[id])
<1>1. RegistryInit => Fits
  BY QuantityAssumption DEF RegistryInit, EmptyBid, BidFits
<1>2. RegistryInv /\ Fits /\ [RegistryNext]_registryVars => Fits'
  <2> SUFFICES ASSUME RegistryInv, Fits, [RegistryNext]_registryVars
               PROVE  Fits'
    OBVIOUS
  <2> USE DEF RegistryInv
  <2>1. ASSUME NEW b \in Bidders, NEW o \in Offers, AddBid(b, o)
        PROVE  Fits'
    <3>1. BidFits(NormalisedBid(o))
      BY NormalisedBidFits
    <3>2. /\ idToBid' = [idToBid EXCEPT ![nextId] = NormalisedBid(o)]
          /\ DOMAIN idToBid = Ids
      BY <2>1 DEF AddBid, RegistryTypeOK
    <3>3. ASSUME NEW id \in Ids PROVE BidFits(idToBid'[id])
      BY <3>1, <3>2
    <3> QED
      BY <3>3
  <2>2. ASSUME NEW b \in Bidders, RemoveBid(b)
        PROVE  Fits'
    <3>1. BidFits(EmptyBid)
      BY QuantityAssumption DEF BidFits, EmptyBid
    <3>2. /\ idToBid' = [idToBid EXCEPT ![bidderToId[b]] = EmptyBid]
          /\ DOMAIN idToBid = Ids
      BY <2>2 DEF RemoveBid, RegistryTypeOK
    <3>3. ASSUME NEW id \in Ids PROVE BidFits(idToBid'[id])
      BY <3>1, <3>2
    <3> QED
      BY <3>3
  <2>3. CASE Close
    BY <2>3 DEF Close
  <2>4. CASE UNCHANGED registryVars
    BY <2>4 DEF registryVars
  <2> QED
    BY <2>1, <2>2, <2>3, <2>4 DEF RegistryNext
<1>3. Fits => ProductsFit
  BY DEF ProductsFit, BidFits
<1> QED
  BY <1>1, <1>2, <1>3, RegistryInvariant, PTL DEF RegistrySpec

\* Both together: what addBid() has let in needs no check later on, for any
\* bidders, offers and widths of the integers.
THEOREM ChecksAlwaysHold == RegistrySpec => []ChecksHold
BY DebugErrorsUnreachable, StoredProductsFit, PTL DEF ChecksHold

-----------------------------------------------------------------------------
(* Refinement *)

LEMMA BookAfterAdd ==
  ASSUME RegistryInv, NEW b \in Bidders, NEW o \in Offers, AddBid(b, o)
  PROVE  Book!Enter(b, NormalisedBid(o))
<1>1. /\ bidderToId \in [Bidders -> 0..UInt16Max] /\ nextId \in Ids
      /\ idToBid \in [Ids -> [price : Nat, quantity : Nat]]
      /\ nextId # 0
  BY DEF RegistryInv, RegistryTypeOK, Ids
<1>2. /\ bidderToId' = [bidderToId EXCEPT ![b] = nextId]
      /\ idToBid' = [idToBid EXCEPT ![nextId] = NormalisedBid(o)]
      /\ bidderToId[b] = 0 /\ ~auctionIsClosed
      /\ auctionIsClosed' = auctionIsClosed
  BY DEF AddBid
<1>3. ASSUME NEW c \in Bidders, c # b, bidderToId[c] # 0
      PROVE  bidderToId[c] # nextId
  <2>1. idToBidder[nextId] = NoBidder
    BY DEF RegistryInv, FreshIds, RegistryTypeOK, Ids
  <2> QED
    BY <1>3, <2>1, NoBidderAssumption DEF RegistryInv, BiddersMatchIds
<1>4. {c \in Bidders : bidderToId'[c] # 0}
        = {c \in Bidders : bidderToId[c] # 0} \cup {b}
  BY <1>1, <1>2
<1>5. ASSUME NEW c \in Bidders, bidderToId'[c] # 0
      PROVE  idToBid'[bidderToId'[c]]
               = IF c = b THEN NormalisedBid(o) ELSE idToBid[bidderToId[c]]
  <2>1. CASE c = b
    BY <2>1, <1>1, <1>2
  <2>2. CASE c # b
    <3>1. bidderToId'[c] = bidderToId[c] /\ bidderToId[c] # nextId
      BY <2>2, <1>1, <1>2, <1>3, <1>5
    <3>2. bidderToId[c] \in Ids
      BY <3>1, <1>1, <1>5, CountAssumption DEF Ids
    <3> QED
      BY <2>2, <3>1, <3>2, <1>1, <1>2
  <2> QED
    BY <2>1, <2>2
<1>6. TheBook' = [c \in DOMAIN TheBook \cup {b} |->
                    IF c = b THEN NormalisedBid(o) ELSE TheBook[c]]
  <2>1. DOMAIN TheBook = {c \in Bidders : bidderToId[c] # 0}
    BY DEF TheBook
  <2>2. ASSUME NEW c \in {d \in Bidders : bidderToId'[d] # 0}
        PROVE  idToBid'[bidderToId'[c]]
                 = IF c = b THEN NormalisedBid(o) ELSE TheBook[c]
    BY <1>4, <1>5 DEF TheBook
  <2> QED
    BY <1>4, <2>1, <2>2 DEF TheBook
<1>7. b \notin DOMAIN TheBook
  BY <1>2 DEF TheBook
<1> QED
  BY <1>2, <1>6, <1>7 DEF Book!Enter

LEMMA BookAfterRemove ==
  ASSUME RegistryInv, NEW b \in Bidders, RemoveBid(b)
  PROVE  Book!Leave(b)
<1>1. /\ bidderToId \in [Bidders -> 0..UInt16Max]
      /\ idToBid \in [Ids -> [price : Nat, quantity : Nat]]
  BY DEF RegistryInv, RegistryTypeOK
<1>2. /\ bidderToId' = [bidderToId EXCEPT ![b] = 0]
      /\ idToBid' = [idToBid EXCEPT ![bidderToId[b]] = EmptyBid]
      /\ bidderToId[b] # 0 /\ ~auctionIsClosed
      /\ auctionIsClosed' = auctionIsClosed
  BY DEF RemoveBid
<1>3. {c \in Bidders : bidderToId'[c] # 0}
        = {c \in Bidders : bidderToId[c] # 0} \ {b}
  BY <1>1, <1>2
<1>4. ASSUME NEW c \in Bidders, bidderToId'[c] # 0
      PROVE  idToBid'[bidderToId'[c]] = idToBid[bidderToId[c]]
  <2>1. c # b /\ bidderToId'[c] = bidderToId[c]
    BY <1>1, <1>2, <1>4
  <2>2. bidderToId[c] # bidderToId[b]
    BY <2>1, <1>2, <1>4 DEF RegistryInv, BiddersMatchIds
  <2>3. bidderToId[c] \in Ids
    BY <2>1, <1>1, <1>4, CountAssumption DEF Ids
  <2> QED
    BY <2>1, <2>2, <2>3, <1>1, <1>2
<1>5. TheBook' = [c \in DOMAIN TheBook \ {b} |-> TheBook[c]]
  <2>1. DOMAIN TheBook = {c \in Bidders : bidderToId[c] # 0}
    BY DEF TheBook
  <2>2. ASSUME NEW c \in {d \in Bidders : bidderToId'[d] # 0}
        PROVE  idToBid'[bidderToId'[c]] = TheBook[c]
    BY <1>3, <1>4 DEF TheBook
  <2> QED
    BY <1>3, <2>1, <2>2 DEF TheBook
<1>6. b \in DOMAIN TheBook
  BY <1>2 DEF TheBook
<1> QED
  BY <1>2, <1>5, <1>6 DEF Book!Leave

\* The engine's registry implements the bid book: entering and cancelling a bid
\* touches that bid only, although removeBid() moves another bid's index.
THEOREM RegistryImplementsBook == RegistrySpec => ImplementsBook
<1>1. RegistryInit => Book!BookInit
  <2> SUFFICES ASSUME RegistryInit PROVE Book!BookInit
    OBVIOUS
  <2>1. {c \in Bidders : bidderToId[c] # 0} = {} /\ auctionIsClosed = FALSE
    BY DEF RegistryInit
  <2>2. TheBook = [b \in {} |-> {}]
    BY <2>1 DEF TheBook
  <2> QED
    BY <2>1, <2>2 DEF Book!BookInit
<1>2. RegistryInv /\ [RegistryNext]_registryVars
        => [Book!BookNext]_<<TheBook, auctionIsClosed>>
  <2> SUFFICES ASSUME RegistryInv, [RegistryNext]_registryVars
               PROVE  [Book!BookNext]_<<TheBook, auctionIsClosed>>
    OBVIOUS
  <2>1. ASSUME NEW b \in Bidders, NEW o \in Offers, AddBid(b, o)
        PROVE  Book!BookNext
    BY <2>1, BookAfterAdd DEF Book!BookNext
  <2>2. ASSUME NEW b \in Bidders, RemoveBid(b)
        PROVE  Book!BookNext
    BY <2>2, BookAfterRemove DEF Book!BookNext
  <2>3. CASE Close
    BY <2>3 DEF Close, TheBook, Book!BookNext, Book!Seal
  <2>4. CASE UNCHANGED registryVars
    BY <2>4 DEF registryVars, TheBook
  <2> QED
    BY <2>1, <2>2, <2>3, <2>4 DEF RegistryNext
<1> QED
  BY <1>1, <1>2, RegistryInvariant, PTL
     DEF RegistrySpec, ImplementsBook, Book!BookSpec

LEMMA IdsBelowNext ==
  ASSUME RegistryInv, NEW c \in Bidders
  PROVE  bidderToId[c] \in Nat /\ bidderToId[c] < nextId
<1>1. bidderToId[c] \in 0..UInt16Max /\ nextId \in 1..UInt16Max
  BY DEF RegistryInv, RegistryTypeOK, Ids
<1>2. CASE bidderToId[c] = 0
  BY <1>1, <1>2, CountAssumption
<1>3. CASE bidderToId[c] # 0
  <2>1. bidderToId[c] \in Ids /\ idToBidder[bidderToId[c]] # NoBidder
    BY <1>1, <1>3, CountAssumption, NoBidderAssumption
       DEF RegistryInv, BiddersMatchIds, Ids
  <2> QED
    BY <2>1, <1>1, CountAssumption DEF RegistryInv, FreshIds, Ids
<1> QED
  BY <1>2, <1>3

\* Time priority, for any number of bids and cancellations: a bid gets an id above
\* all ids in use, so that a bidder who bids again goes behind equal bids.
THEOREM LaterBidsWait == RegistrySpec => LaterBidsGetLargerIds
<1> DEFINE Later == \A b \in Bidders :
             (bidderToId'[b] # 0 /\ bidderToId'[b] # bidderToId[b])
               => \A c \in Bidders \ {b} : bidderToId[c] < bidderToId'[b]
<1>1. RegistryInv /\ [RegistryNext]_registryVars => [Later]_registryVars
  <2> SUFFICES ASSUME RegistryInv, RegistryNext PROVE Later
    OBVIOUS
  <2>1. bidderToId \in [Bidders -> 0..UInt16Max]
    BY DEF RegistryInv, RegistryTypeOK
  <2>2. ASSUME NEW b \in Bidders, NEW o \in Offers, AddBid(b, o)
        PROVE  Later
    <3>1. bidderToId' = [bidderToId EXCEPT ![b] = nextId]
      BY <2>2 DEF AddBid
    <3> QED
      BY <3>1, <2>1, IdsBelowNext
  <2>3. ASSUME NEW b \in Bidders, RemoveBid(b)
        PROVE  Later
    <3>1. bidderToId' = [bidderToId EXCEPT ![b] = 0]
      BY <2>3 DEF RemoveBid
    <3> QED
      BY <3>1, <2>1
  <2>4. CASE Close
    BY <2>4 DEF Close
  <2> QED
    BY <2>2, <2>3, <2>4 DEF RegistryNext
<1> QED
  BY <1>1, RegistryInvariant, PTL DEF RegistrySpec, LaterBidsGetLargerIds
=============================================================================
