SPECIFICATION WebFairSpec
CONSTANTS
  Parts = {"pool", "positions", "market", "draft", "creation", "filters", "list", "deploy",
           "chart", "signals"}
  Nothing = nothing
  NoSymbol = nosymbol
  Absent = absent
  User = {u1, u2, u3}
  Value = {1, 2}
  MaxStake = 3
  Visitor = {u1, u2}
  NoUser = nobody
  Category = {"crypto", "weather"}
  Token = {"eth", "btc"}
  Ether = "eth"
  Bitcoin = "btc"
  Place = {"here"}
  Field = {"date"}
  Question = {"rain", "snow"}
  MaxMarkets = 2
  MaxSubmits = 2
  MaxSeeds = 1
  MaxRuns = 1
  Text = {"", "a", "b"}
  Empty = ""
  Choice = {"all", "open"}
  Default = "all"
  MaxLinks = 2
  MaxStarts = 2
  MaxUpkeeps = 1
  Symbol = {"btc", "eth"}
  Timeframe = {"1h", "4h"}
  MaxAnswers = 2
  MaxTimers = 1
  Asset = {"btc", "eth"}
  Source = {"binance", "chainlink"}
  Shared = {"chainlink"}
  Order <- Cards
  MaxPoints = 2
  Row = {1, 2}
  ChainIds <- Numberings
  MaxEdits = 1
  PageSize = 1
  MaxChanges = 2
  MaxFails = 1
INVARIANTS
  WebTypeOK
  PaysOut
  ClaimedShownIsPaid
  SymbolIsOfToken
  ChainIsRegistered
  RestIsConsistent
  PathsAreOpen
  ShownIsSelected
  SignalsOfAsset
PROPERTIES
  PageCatchesUp
  ListCatchesUp
CHECK_DEADLOCK FALSE
