SPECIFICATION BooksSpec
CONSTANTS
  Addr = {alice, bob}
  NoAddr = none
  Owner = alice
  Deployed = alice
  Payable = {bob}
  Appointable = {alice}
  Value = {1}
  Window <- OneWindow
  MaxStake = 1
  MaxMarkets = 2
  MaxDepth = 2
  MaxTime = 2
  Contracts = {bob}
  Base = {"rain", "snow"}
  Conditions <- Forecasts
INVARIANTS
  OutcomeIsConjunction
  PaidByStakeOnly
  BookCoversClaims
PROPERTIES
  BookKeepsPromise
CHECK_DEADLOCK FALSE
