SPECIFICATION MCSpec
CONSTANTS
  Owner = alice
  Deployed = alice
  Addr = {alice, bob, carol}
  NoAddr = none
  Payable = {bob, carol}
  This = pm
  Appointable = {alice, bob}
  RepAddr = {repsys}
  Value = {1, 2}
  MaxStake = 2
  Window <- Windows
  MaxMarkets = 2
  MaxTime = 2
  Bettors = {alice, bob}
INVARIANTS
  TypeOK
  TotalsMatchStakes
  ReputationCountsMarkets
  BalanceIsWhatIsLeft
  NextClaimCovered
PROPERTIES
  KeepsPromise
CHECK_DEADLOCK FALSE
