SPECIFICATION ServicesSpec
CONSTANTS
  Services = {"weather", "list", "login", "predictions", "deletions"}
  Place = {p1, p2}
  NoPlace = NoPlace
  MaxPoints = 2
  MaxVisits = 3
  MaxAsked = 5
  Tab = {t1, t2}
  Guest = t2
  PrivateId = {m1, m2}
  FirstId = m1
  KnownIds = {}
  NoId = NoId
  Holder = {a, b}
  NoHolder = NoHolder
  AccessKey = {k1, k2}
  FirstKey = k1
  NoKey = NoKey
  MaxChecks = 1
  MaxRegs = 2
  MarketRow = {1, 2}
  MarketIdOf <- ChainIdsOfRows
  OpenRow = 1
  NoMarket = NoMarket
  Series = {s1, s2}
  NoSeries = NoSeries
  Call = {c1, c2}
  Ttl = 1
  MaxClock = 1
  Signer = {w1, w2}
  Login = {l1, l2, l3}
  NoEntry = NoEntry
  NonceTtl = 1
  MaxNonce = 2
  MaxSecs = 2
INVARIANTS
  ChartShowsAnswers
  ListIsOfAccount
  TokensAreEarned
  FromPostedInContext
PROPERTIES
  LatestStays
CHECK_DEADLOCK FALSE
