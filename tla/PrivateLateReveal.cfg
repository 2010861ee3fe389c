SPECIFICATION PayoutsSpec
CONSTANTS
  Parts = {"direct"}
  Addr = {alice, bob}
  NoAddr = nobody
  Owner = alice
  Deployed = alice
  Payable = {alice, bob}
  Appointable = {bob}
  Value = {1, 2}
  Opening <- AnyOpening
  NoHash = nothing
  Window <- OneWindow
  MaxCommits = 2
  MaxMarkets = 1
  MaxTime = 2
  User = bob
  Here = 1
  Bets <- WebBets
  None = nothing
INVARIANTS
  RevealedWinnerCovered
CHECK_DEADLOCK FALSE
