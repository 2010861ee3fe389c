----------------------------- MODULE Parimutuel -----------------------------
(***************************************************************************)
(* The arithmetic every market contract of PraesagiumChain shares: the two *)
(* sides of a binary market, what the stakes of a side add up to, and the  *)
(* share of the pool a winning stake is worth.                             *)
(***************************************************************************)
EXTENDS Integers, FiniteSets

\* IPredictionMarket.Outcome without Undecided: what one can bet on.
Sides == {"Yes", "No"}

Other(o) == IF o = "Yes" THEN "No" ELSE "Yes"

\* The wei held in f, one element for each: <<u, k>> is the k-th wei of u.
\* Counting them sums f without recursion, which keeps the sum provable.
Coins(f) == UNION { {u} \X (1 .. f[u]) : u \in DOMAIN f }

Total(f) == Cardinality(Coins(f))

\* The share rounded up.
MutantShareUp(amount, pool, winning) == (amount * pool + winning - 1) \div winning
\* The claimant's part of the pool, in Solidity's integer division.
Share(amount, pool, winning) == (amount * pool) \div winning

\* won[u] is what u staked on the winning side, done[u] that u has claimed.
ShareOf(won, u, pool) ==
  IF won[u] = 0 THEN 0 ELSE Share(won[u], pool, Total(won))

PaidStake(won, done) == [u \in DOMAIN won |-> IF done[u] THEN won[u] ELSE 0]

\* What was sent is at most what the stakes of those who claimed are worth.
InProportion(won, done, sent, pool) ==
  /\ Total(sent) * Total(won) <= pool * Total(PaidStake(won, done))
  /\ Total(won) = 0 => Total(sent) = 0
=============================================================================
