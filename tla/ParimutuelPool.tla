--------------------------- MODULE ParimutuelPool ---------------------------
(***************************************************************************)
(* What one market promises to its bettors, whichever contract holds it:   *)
(* money is only taken while betting is open, betting is over before the   *)
(* outcome is set, the outcome is set once, and each bettor then takes,    *)
(* once, the share of the pool that the final stakes give.  Contracts,     *)
(* market ids, clocks, senders and callbacks are left to the modules that  *)
(* implement it.                                                           *)
(***************************************************************************)
EXTENDS Parimutuel

CONSTANTS User,     \* the addresses that may bet
          Value,    \* the amounts of wei a bet may carry
          MaxStake  \* bound: what one address may stake on one side

ASSUME UserFinite == IsFiniteSet(User)
ASSUME ValuePositive == Value \subseteq Nat \ {0}
ASSUME MaxStakeNat == MaxStake \in Nat

VARIABLES phase,     \* "Betting", "Closed" or "Settled"
          outcome,   \* the winning side, "Undecided" until it is settled
          stake,     \* stake[o][u]: what u has staked on side o
          claimed,   \* claimed[u]: u has taken its payout
          received   \* received[u]: what the market has sent to u

vars == <<phase, outcome, stake, claimed, received>>

TypeOK == /\ phase \in {"Betting", "Closed", "Settled"}
          /\ outcome \in Sides \cup {"Undecided"}
          /\ stake \in [Sides -> [User -> Nat]]
          /\ claimed \in [User -> BOOLEAN]
          /\ received \in [User -> Nat]

Pool == Total(stake["Yes"]) + Total(stake["No"])

Payout(u) == ShareOf(stake[outcome], u, Pool)

Init == /\ phase = "Betting"
        /\ outcome = "Undecided"
        /\ stake = [o \in Sides |-> [u \in User |-> 0]]
        /\ claimed = [u \in User |-> FALSE]
        /\ received = [u \in User |-> 0]

MutantBet(u, o, v) == /\ stake[o][u] + v <= MaxStake
                      /\ stake' = [stake EXCEPT ![o][u] = @ + v]
                      /\ UNCHANGED <<phase, outcome, claimed, received>>
Bet(u, o, v) == /\ phase = "Betting"
                /\ stake[o][u] + v <= MaxStake
                /\ stake' = [stake EXCEPT ![o][u] = @ + v]
                /\ UNCHANGED <<phase, outcome, claimed, received>>

Close == /\ phase = "Betting"
         /\ phase' = "Closed"
         /\ UNCHANGED <<outcome, stake, claimed, received>>

Settle(o) == /\ phase = "Closed"
             /\ phase' = "Settled"
             /\ outcome' = o
             /\ UNCHANGED <<stake, claimed, received>>

Pay(u) == /\ phase = "Settled"
          /\ ~claimed[u]
          /\ claimed' = [claimed EXCEPT ![u] = TRUE]
          /\ received' = [received EXCEPT ![u] = @ + Payout(u)]
          /\ UNCHANGED <<phase, outcome, stake>>

Next == \/ \E u \in User, o \in Sides, v \in Value : Bet(u, o, v)
        \/ Close
        \/ \E o \in Sides : Settle(o)
        \/ \E u \in User : Pay(u)

Spec == Init /\ [][Next]_vars

-----------------------------------------------------------------------------
\* The market never sends out more than was staked in it.
Solvent == Total(received) <= Pool

\* Until the outcome is set nobody is paid; from then on the market has sent
\* no more, per wei of winning stake, than the pool is worth.
PaidInProportion ==
  IF outcome = "Undecided"
  THEN /\ phase # "Settled"
       /\ \A u \in User : received[u] = 0 /\ ~claimed[u]
  ELSE /\ phase = "Settled"
       /\ InProportion(stake[outcome], claimed, received, Pool)

\* Everybody has exactly the share that the final stakes give, or nothing yet.
ExactShares ==
  \A u \in User :
    received[u] = IF claimed[u] THEN Payout(u) ELSE 0

\* What the market promises its bettors: their shares, out of their stakes.
PaysOut == Solvent /\ ExactShares
=============================================================================
