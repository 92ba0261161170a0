----------------------------- MODULE Settlement -----------------------------
(***************************************************************************)
(* What the auction contract promises about money, without contracts,      *)
(* engines or gateways: there is a book of members that changes only while *)
(* bids are taken, then every member is paid exactly once, in any order,   *)
(* and the auction is over only when everybody in the book has been paid.  *)
(***************************************************************************)
CONSTANT Members

VARIABLES
  stage,     \* "bidding", "settling" or "over"
  book,      \* who has a bid
  paid       \* who has been paid

settlementVars == <<stage, book, paid>>

SettlementInit ==
  /\ stage = "bidding"
  /\ book = {}
  /\ paid = {}

Enter(m) ==
  /\ stage = "bidding"
  /\ m \notin book
  /\ book' = book \cup {m}
  /\ UNCHANGED <<stage, paid>>

Leave(m) ==
  /\ stage = "bidding"
  /\ m \in book
  /\ book' = book \ {m}
  /\ UNCHANGED <<stage, paid>>

CloseBook ==
  /\ stage = "bidding"
  /\ stage' = "settling"
  /\ UNCHANGED <<book, paid>>

Pay(m) ==
  /\ stage = "settling"
  /\ m \in book \ paid
  /\ paid' = paid \cup {m}
  /\ UNCHANGED <<stage, book>>

\* An empty book can be given up while it is open.
Finish ==
  /\ stage # "over"
  /\ paid = book
  /\ stage' = "over"
  /\ UNCHANGED <<book, paid>>

SettlementNext ==
  \/ \E m \in Members : Enter(m) \/ Leave(m) \/ Pay(m)
  \/ CloseBook
  \/ Finish

SettlementSpec == SettlementInit /\ [][SettlementNext]_settlementVars
=============================================================================
