SPECIFICATION Spec
CONSTANTS
  alice = alice
  bob = bob
  Network = "localhost"
  Tags = {"all", "AuctionFactories"}
  Terminals = {alice, bob}
  Commands <- MCCommands
  ShortSalts = {"short"}
  Editable = {"FHEAuctionEngineIteratorFactory"}
  MaxEdits = 1
  MaxCrashes = 1
INVARIANTS
  FinishedRunsAreWired
  TokensAreMintedOnce
  CreatedAsAsked
PROPERTY AuctionsStayFound
CHECK_DEADLOCK FALSE
