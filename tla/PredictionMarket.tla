-------------------------- MODULE PredictionMarket --------------------------
(***************************************************************************)
(* PredictionMarket.sol with the ReputationSystem it reports to.  A step   *)
(* is one transaction, except that a claim hands control to the receiver   *)
(* of the payout: until ClaimReturn the receiver is running inside the     *)
(* claim and may call the contract again.  A call that reverts leaves no   *)
(* trace, so it is no step at all.                                         *)
(***************************************************************************)
EXTENDS Parimutuel

CONSTANTS Addr,        \* the accounts that call the contract
          NoAddr,      \* address(0)
          Owner,       \* the deployer
          Deployed,    \* the resolver given to the constructor
          Payable,     \* the accounts that accept a transfer
          This,        \* the contract's own address
          Appointable, \* the resolvers the owner may appoint
          RepAddr,     \* reputation contracts the owner may set (at most one)
          Value,       \* amounts of wei a bet may carry
          MaxStake,    \* bound: what one account may stake on one side
          Window,      \* <<closeTime, resolveTime>> asked for, legal or not
          MaxMarkets,  \* bound: markets that are created
          MaxTime      \* bound: the last block.timestamp

Id == 1 .. MaxMarkets
Time == 0 .. MaxTime

ASSUME AddrFinite == IsFiniteSet(Addr) /\ NoAddr \notin Addr /\ Payable \subseteq Addr
ASSUME ResolverAddr == Deployed \in Addr /\ Appointable \subseteq Addr
ASSUME ValuePositive == Value \subseteq Nat \ {0}
ASSUME WindowNat == Window \subseteq Nat \X Nat
ASSUME BoundsNat == MaxStake \in Nat /\ MaxMarkets \in Nat /\ MaxTime \in Nat

VARIABLES
  now,               \* block.timestamp
  nextMarketId,
  market,            \* market[id]: status, outcome, times and creator
  total,             \* total[id][o]: totalYesStake and totalNoStake
  stake,             \* stake[id][o][u]: _yesStakes and _noStakes
  claimed,           \* claimed[id][u]
  resolver,
  reputationSystem,  \* NoAddr while none is set
  balance,           \* the ether the contract holds
  received,          \* received[id][u]: the ether sent to u for market id
  callee,            \* who runs inside a claim (the guard is entered), or NoAddr
  authorizedCallers, marketCreator, stats

Rep == INSTANCE ReputationSystem
         WITH Caller <- {This}, Creator <- Addr

core == <<now, nextMarketId, market, total, stake, claimed, balance, received>>
admin == <<resolver, reputationSystem>>
rep == <<authorizedCallers, marketCreator, stats>>
vars == <<core, admin, rep, callee>>

Unset == [status |-> "Open", outcome |-> "Undecided", closeTime |-> 0,
          resolveTime |-> 0, creator |-> NoAddr]

Market == [status : {"Open", "Locked", "Resolved"},
           outcome : Sides \cup {"Undecided"},
           closeTime : Nat, resolveTime : Nat, creator : Addr \cup {NoAddr}]

TypeOK ==
  /\ now \in Time
  /\ nextMarketId \in 1 .. MaxMarkets + 1
  /\ market \in [Id -> Market]
  /\ total \in [Id -> [Sides -> Nat]]
  /\ stake \in [Id -> [Sides -> [Addr -> Nat]]]
  /\ claimed \in [Id -> [Addr -> BOOLEAN]]
  /\ received \in [Id -> [Addr -> Nat]]
  /\ balance \in Nat
  /\ resolver \in Addr
  /\ reputationSystem \in RepAddr \cup {NoAddr}
  /\ callee \in Addr \cup {NoAddr}
  /\ Rep!RepTypeOK

\* The first id given out: 0 is kept for "no market".
MutantFirstId == 0
FirstId == 1

Init ==
  /\ now = 0
  /\ nextMarketId = FirstId
  /\ market = [id \in Id |-> Unset]
  /\ total = [id \in Id |-> [o \in Sides |-> 0]]
  /\ stake = [id \in Id |-> [o \in Sides |-> [u \in Addr |-> 0]]]
  /\ claimed = [id \in Id |-> [u \in Addr |-> FALSE]]
  /\ received = [id \in Id |-> [u \in Addr |-> 0]]
  /\ balance = 0
  /\ resolver = Deployed
  /\ reputationSystem = NoAddr
  /\ callee = NoAddr
  /\ Rep!RepInit

-----------------------------------------------------------------------------
\* bytes(m.question).length > 0
Exists(id) == id < nextMarketId

\* While a payout is being received the transaction belongs to its receiver.
MayCall(s) == callee \in {NoAddr, s}

Pool(id) == total[id]["Yes"] + total[id]["No"]

Payout(id, u) ==
  LET o == market[id].outcome
  IN  IF stake[id][o][u] = 0 \/ total[id][o] = 0
      THEN 0
      ELSE Share(stake[id][o][u], Pool(id), total[id][o])

\* Bets are taken until closeTime, unless the resolver locked the market before.
MutantBettingOpen(id) == Exists(id) /\ market[id].status = "Open"
BettingOpen(id) ==
  /\ Exists(id)
  /\ market[id].status = "Open"
  /\ now < market[id].closeTime

\* What a bet of v by s on side o changes.
MutantAddStake(s, id, o, v) ==
  /\ stake' = [stake EXCEPT ![id][o][s] = v]
  /\ total' = [total EXCEPT ![id][o] = @ + v]
MutantAddStakeYes(s, id, o, v) ==
  /\ stake' = [stake EXCEPT ![id][o][s] = @ + v]
  /\ total' = [total EXCEPT ![id]["Yes"] = IF o = "Yes" THEN @ + v ELSE @]
AddStake(s, id, o, v) ==
  /\ stake' = [stake EXCEPT ![id][o][s] = @ + v]
  /\ total' = [total EXCEPT ![id][o] = @ + v]

MutantResolvable(id) == Exists(id) /\ now >= market[id].resolveTime
Resolvable(id) ==
  /\ Exists(id)
  /\ market[id].status # "Resolved"
  /\ now >= market[id].resolveTime

MutantMayClaim(s, id) == Exists(id) /\ market[id].status = "Resolved"
MayClaim(s, id) ==
  /\ Exists(id)
  /\ market[id].status = "Resolved"
  /\ ~claimed[id][s]

CreateMarket(s, close, resolve) ==
  /\ MayCall(s)
  /\ nextMarketId <= MaxMarkets
  /\ now < close
  /\ close < resolve
  /\ market' = [market EXCEPT ![nextMarketId] =
                  [status |-> "Open", outcome |-> "Undecided",
                   closeTime |-> close, resolveTime |-> resolve, creator |-> s]]
  /\ nextMarketId' = nextMarketId + 1
  /\ IF reputationSystem # NoAddr
     THEN Rep!TryOnMarketCreated(This, nextMarketId, s)
     ELSE UNCHANGED rep
  /\ UNCHANGED <<now, total, stake, claimed, balance, received, admin, callee>>

PlaceBet(s, id, o, v) ==
  /\ MayCall(s)
  /\ BettingOpen(id)
  /\ stake[id][o][s] + v <= MaxStake
  /\ AddStake(s, id, o, v)
  /\ balance' = balance + v
  /\ UNCHANGED <<now, nextMarketId, market, claimed, received, admin, rep, callee>>

LockMarket(s, id) ==
  /\ MayCall(s)
  /\ s = resolver
  /\ Exists(id)
  /\ market[id].status = "Open"
  /\ market' = [market EXCEPT ![id].status = "Locked"]
  /\ UNCHANGED <<now, nextMarketId, total, stake, claimed, balance, received,
                 admin, rep, callee>>

ResolveMarket(s, id, o) ==
  /\ MayCall(s)
  /\ s = resolver
  /\ Resolvable(id)
  /\ market' = [market EXCEPT ![id].status = "Resolved", ![id].outcome = o]
  /\ IF reputationSystem # NoAddr
     THEN Rep!TryOnMarketResolved(This, id, market[id].creator)
     ELSE UNCHANGED rep
  /\ UNCHANGED <<now, nextMarketId, total, stake, claimed, balance, received,
                 admin, callee>>

\* nonReentrant, so nobody is inside another claim.  A payout of zero is
\* recorded as claimed and makes no call.
ClaimPayout(s, id) ==
  LET payout == Payout(id, s)
  IN  /\ callee = NoAddr
      /\ MayClaim(s, id)
      /\ payout > 0 => s \in Payable /\ payout <= balance
      /\ claimed' = [claimed EXCEPT ![id][s] = TRUE]
      /\ received' = [received EXCEPT ![id][s] = @ + payout]
      /\ balance' = balance - payout
      /\ callee' = IF payout > 0 THEN s ELSE NoAddr
      /\ UNCHANGED <<now, nextMarketId, market, total, stake, admin, rep>>

MutantClaimReturn == callee # NoAddr /\ UNCHANGED vars

\* The receiver returns, the guard is released and the transaction ends.
ClaimReturn ==
  /\ callee # NoAddr
  /\ callee' = NoAddr
  /\ UNCHANGED <<core, admin, rep>>

SetResolver(s, a) ==
  /\ MayCall(s)
  /\ s = Owner
  /\ resolver' = a
  /\ UNCHANGED <<core, reputationSystem, rep, callee>>

SetReputationSystem(s, a) ==
  /\ MayCall(s)
  /\ s = Owner
  /\ reputationSystem' = a
  /\ UNCHANGED <<core, resolver, rep, callee>>

\* The owner of the reputation contract allows this market to report, or not.
Authorize(allowed) ==
  /\ callee = NoAddr
  /\ RepAddr # {}
  /\ Rep!SetAuthorizedCaller(This, allowed)
  /\ UNCHANGED <<core, admin, callee>>

\* All calls of one transaction see the same block.timestamp.
Tick ==
  /\ callee = NoAddr
  /\ now < MaxTime
  /\ now' = now + 1
  /\ UNCHANGED <<nextMarketId, market, total, stake, claimed, balance, received,
                 admin, rep, callee>>

Next ==
  \/ \E s \in Addr, w \in Window : CreateMarket(s, w[1], w[2])
  \/ \E s \in Addr, id \in Id, o \in Sides, v \in Value : PlaceBet(s, id, o, v)
  \/ \E s \in Addr, id \in Id : LockMarket(s, id)
  \/ \E s \in Addr, id \in Id, o \in Sides : ResolveMarket(s, id, o)
  \/ \E s \in Addr, id \in Id : ClaimPayout(s, id)
  \/ ClaimReturn
  \/ \E s \in Addr, a \in Appointable : SetResolver(s, a)
  \/ \E s \in Addr, a \in RepAddr \cup {NoAddr} : SetReputationSystem(s, a)
  \/ \E allowed \in BOOLEAN : Authorize(allowed)
  \/ Tick

Spec == Init /\ [][Next]_vars

\* A transaction ends (its gas is finite), and winners keep trying to claim.
Fairness == /\ WF_vars(ClaimReturn)
            /\ \A u \in Addr, id \in Id : WF_vars(ClaimPayout(u, id))

FairSpec == Spec /\ Fairness

-----------------------------------------------------------------------------
\* The totals that every share is divided by are what the accounts staked.
TotalsMatchStakes ==
  \A id \in Id, o \in Sides : total[id][o] = Total(stake[id][o])

\* The contract holds exactly what is left of every market's pool: a market
\* is never paid with the money of another one.
Left(id) == Pool(id) - Total(received[id])
BalanceIsWhatIsLeft == balance = Total([id \in Id |-> Left(id)])

\* Whoever claims next on a resolved market, the contract can pay: whichever
\* claims came before, and on whichever markets.
NextClaimCovered ==
  \A id \in Id, u \in Addr : MayClaim(u, id) => Payout(id, u) <= balance

\* An account is never credited with more than the markets it created and
\* those of them that were resolved, however often a call is repeated.
Of(c) == {id \in Id : Exists(id) /\ market[id].creator = c}
ReputationCountsMarkets ==
  \A c \in Addr :
    /\ stats[c].created <= Cardinality(Of(c))
    /\ stats[c].resolved
         <= Cardinality({id \in Of(c) : market[id].status = "Resolved"})

\* Each market keeps the promise of ParimutuelPool.
Phase(id) == IF market[id].status = "Resolved" THEN "Settled"
             ELSE IF Exists(id) /\ (market[id].status = "Locked"
                                      \/ now >= market[id].closeTime)
             THEN "Closed" ELSE "Betting"

Promise(id) == INSTANCE ParimutuelPool
                 WITH User <- Addr, phase <- Phase(id),
                      outcome <- market[id].outcome, stake <- stake[id],
                      claimed <- claimed[id], received <- received[id]

KeepsPromise ==
  /\ \A id \in Id : Promise(id)!Init
  /\ [][\A id \in Id : [Promise(id)!Next]_(Promise(id)!vars)]_vars

\* A winner that accepts ether and keeps claiming is paid, even if others
\* refuse their transfers or call back while they are being paid.
PatientWinnerPaid ==
  \A u \in Payable, id \in Id :
    (market[id].status = "Resolved" /\ Payout(id, u) > 0) ~> (received[id][u] > 0)
=============================================================================
