----------------------- MODULE PredictionMarketProofs -----------------------
(***************************************************************************)
(* For every set of accounts, amounts and markets: the state of the        *)
(* contract is well typed, its totals are the stakes, whoever claims next  *)
(* can be paid, each market keeps the promise of ParimutuelPool, and the   *)
(* reputation contract credits nobody with more than happened.             *)
(***************************************************************************)
EXTENDS PredictionMarket, ParimutuelProofs

USE AddrFinite, ResolverAddr, ValuePositive, WindowNat, BoundsNat

\* A market that was not created is untouched; one that was has its times in
\* order; the outcome is set exactly when it is resolved.
WellFormed ==
  \A id \in Id :
    /\ ~Exists(id) => market[id] = Unset
    /\ Exists(id) => /\ market[id].closeTime < market[id].resolveTime
                     /\ market[id].creator \in Addr
    /\ market[id].outcome = "Undecided" <=> market[id].status # "Resolved"

\* What each market has sent is in proportion to the claims made on it.
Proportional ==
  \A id \in Id :
    IF market[id].status = "Resolved"
    THEN InProportion(stake[id][market[id].outcome], claimed[id], received[id],
                      Pool(id))
    ELSE \A u \in Addr : received[id][u] = 0 /\ ~claimed[id][u]

\* The inductive invariant.  The balance alone says nothing of what is owed:
\* that each market's part of it suffices is what Proportional adds.
IInv == /\ TypeOK
        /\ WellFormed
        /\ TotalsMatchStakes
        /\ Proportional
        /\ BalanceIsWhatIsLeft

LEMMA IdFinite == IsFiniteSet(Id)
<1>1. 1 \in Int /\ MaxMarkets \in Int
  OBVIOUS
<1> QED  BY <1>1, FS_Interval DEF Id

-----------------------------------------------------------------------------
(* The reputation reports.                                                 *)

LEMMA ReportTypes ==
  ASSUME Rep!RepTypeOK, NEW id \in Id, NEW c \in Addr,
         \/ Rep!TryOnMarketCreated(This, id, c)
         \/ Rep!TryOnMarketResolved(This, id, c)
  PROVE  Rep!RepTypeOK'
<1> USE DEF Rep!RepTypeOK
<1>1. stats[c] \in [created : Nat, resolved : Nat, score : Nat]
  OBVIOUS
<1>2. CASE Rep!OnMarketCreated(This, id, c)
  <2>1. stats' = [stats EXCEPT ![c] = [stats[c] EXCEPT !.created = @ + 1]]
    BY <1>2 DEF Rep!OnMarketCreated
  <2>2. [stats[c] EXCEPT !.created = @ + 1]
          \in [created : Nat, resolved : Nat, score : Nat]
    BY <1>1
  <2> QED  BY <1>2, <2>1, <2>2 DEF Rep!OnMarketCreated
<1>3. CASE Rep!OnMarketResolved(This, id, c)
  BY <1>1, <1>3 DEF Rep!OnMarketResolved
<1>4. CASE UNCHANGED Rep!repVars
  BY <1>4 DEF Rep!repVars
<1> QED
  BY <1>2, <1>3, <1>4 DEF Rep!TryOnMarketCreated, Rep!TryOnMarketResolved

-----------------------------------------------------------------------------
(* Payouts.                                                                *)

LEMMA SumsAreNat ==
  ASSUME TypeOK, NEW id \in Id
  PROVE  /\ Pool(id) \in Nat
         /\ \A o \in Sides : stake[id][o] \in [Addr -> Nat]
         /\ claimed[id] \in [Addr -> BOOLEAN]
         /\ received[id] \in [Addr -> Nat]
         /\ Total(received[id]) \in Nat
<1>1. /\ Pool(id) \in Nat
      /\ \A o \in Sides : stake[id][o] \in [Addr -> Nat]
      /\ claimed[id] \in [Addr -> BOOLEAN]
      /\ received[id] \in [Addr -> Nat]
  BY DEF TypeOK, Pool, Sides
<1> QED  BY <1>1, CoinsFinite

\* The payout computed from the recorded totals is the share of the stakes.
LEMMA PayoutIsShare ==
  ASSUME TypeOK, TotalsMatchStakes, NEW id \in Id, NEW u \in Addr,
         market[id].outcome \in Sides
  PROVE  /\ Payout(id, u)
              = ShareOf(stake[id][market[id].outcome], u, Pool(id))
         /\ Payout(id, u) \in Nat
<1> DEFINE won == stake[id][market[id].outcome]
<1>1. won \in [Addr -> Nat] /\ Pool(id) \in Nat
  BY SumsAreNat
<1>2. total[id][market[id].outcome] = Total(won)
  BY DEF TotalsMatchStakes
<1>3. won[u] \in Nat /\ won[u] <= Total(won) /\ Total(won) \in Nat
  BY <1>1, CoinsFinite, EntryBelowTotal
<1>4. won[u] # 0 => Total(won) # 0
  BY <1>3
<1>5. Payout(id, u) = ShareOf(won, u, Pool(id))
  BY <1>2, <1>4 DEF Payout, ShareOf
<1>6. ShareOf(won, u, Pool(id)) \in Nat
  BY <1>1, ShareOfBounds
<1> QED  BY <1>5, <1>6

\* Each market has sent at most what was staked in it.
LEMMA LeftIsNat ==
  TypeOK /\ WellFormed /\ Proportional
    => \A i \in Id : Left(i) \in Nat /\ Total(received[i]) <= Pool(i)
<1> SUFFICES ASSUME TypeOK, WellFormed, Proportional, NEW id \in Id
    PROVE  Left(id) \in Nat /\ Total(received[id]) <= Pool(id)
  OBVIOUS
<1>1. /\ Pool(id) \in Nat /\ claimed[id] \in [Addr -> BOOLEAN]
      /\ received[id] \in [Addr -> Nat] /\ Total(received[id]) \in Nat
  BY SumsAreNat
<1>2. Total(received[id]) <= Pool(id)
  <2>1. CASE market[id].status = "Resolved"
    <3>1. market[id].outcome \in Sides
      BY <2>1 DEF TypeOK, Market, WellFormed
    <3>2. stake[id][market[id].outcome] \in [Addr -> Nat]
      BY <3>1, SumsAreNat
    <3>3. InProportion(stake[id][market[id].outcome], claimed[id],
                       received[id], Pool(id))
      BY <2>1 DEF Proportional
    <3> QED  BY <1>1, <3>2, <3>3, ProportionSolvent
  <2>2. CASE market[id].status # "Resolved"
    <3>1. \A u \in Addr : received[id][u] = 0
      BY <2>2 DEF Proportional
    <3>2. Total(received[id]) = 0
      BY <1>1, <3>1, TotalZero
    <3> QED  BY <1>1, <3>2
  <2> QED  BY <2>1, <2>2
<1> QED  BY <1>1, <1>2 DEF Left

-----------------------------------------------------------------------------
(* The invariant is kept by every step.                                    *)

LEMMA InitInv == ASSUME Init PROVE IInv
<1>1. Rep!RepTypeOK
  BY DEF Init, Rep!RepInit, Rep!RepTypeOK
<1>2. TypeOK
  BY <1>1 DEF Init, TypeOK, Market, FirstId, Unset, Time
<1>3. WellFormed
  BY DEF Init, WellFormed, Exists, FirstId, Unset, Id
<1>4. \A id \in Id, o \in Sides : stake[id][o] \in [Addr -> Nat]
                                 /\ \A u \in Addr : stake[id][o][u] = 0
  BY DEF Init
<1>5. TotalsMatchStakes
  BY <1>4, TotalZero DEF Init, TotalsMatchStakes
<1>6. Proportional
  BY DEF Init, Proportional, Unset
<1>7. BalanceIsWhatIsLeft
  <2> DEFINE L == [id \in Id |-> Left(id)]
  <2>1. \A id \in Id : Left(id) = 0
    <3> SUFFICES ASSUME NEW id \in Id PROVE Left(id) = 0
      OBVIOUS
    <3>1. Pool(id) = 0
      BY DEF Init, Pool, Sides
    <3>2. Total(received[id]) = 0
      <4>1. /\ received[id] \in [Addr -> Nat]
            /\ \A u \in Addr : received[id][u] = 0
        BY DEF Init
      <4> QED  BY <4>1, TotalZero
    <3> QED  BY <3>1, <3>2 DEF Left
  <2>2. L \in [Id -> Nat] /\ \A id \in Id : L[id] = 0
    BY <2>1
  <2>3. Total(L) = 0
    BY <2>2, TotalZero
  <2> QED  BY <2>3 DEF Init, BalanceIsWhatIsLeft
<1> QED  BY <1>2, <1>3, <1>5, <1>6, <1>7 DEF IInv

\* A step that moves no money keeps the sums, if it neither resolves a market
\* nor changes the outcome of one.
LEMMA SameMoney ==
  ASSUME IInv, UNCHANGED <<total, stake, claimed, balance, received>>,
         \A id \in Id : /\ market'[id].outcome = market[id].outcome
                        /\ market'[id].status = "Resolved"
                             <=> market[id].status = "Resolved"
  PROVE  TotalsMatchStakes' /\ Proportional' /\ BalanceIsWhatIsLeft'
<1>1. TotalsMatchStakes'
  BY DEF IInv, TotalsMatchStakes
<1>2. Proportional'
  BY DEF IInv, Proportional, Pool
<1>3. BalanceIsWhatIsLeft'
  BY DEF IInv, BalanceIsWhatIsLeft, Left, Pool
<1> QED  BY <1>1, <1>2, <1>3

LEMMA CreateMarketInv ==
  ASSUME IInv, NEW s \in Addr, NEW w \in Window, CreateMarket(s, w[1], w[2])
  PROVE  IInv'
<1>0. PICK n \in Id : n = nextMarketId
  BY DEF IInv, TypeOK, CreateMarket, Id
<1>1. w[1] \in Nat /\ w[2] \in Nat /\ w[1] < w[2]
  BY DEF CreateMarket
<1>2. ~Exists(n)
  BY <1>0 DEF Exists, Id
<1>3. market[n] = Unset
  BY <1>2 DEF IInv, WellFormed
<1>4. Rep!RepTypeOK'
  <2>1. CASE UNCHANGED rep
    BY <2>1 DEF IInv, TypeOK, rep, Rep!RepTypeOK
  <2>2. CASE Rep!TryOnMarketCreated(This, n, s)
    BY <2>2, ReportTypes DEF IInv, TypeOK
  <2> QED  BY <1>0, <2>1, <2>2 DEF CreateMarket
<1>5. TypeOK'
  <2>1. nextMarketId' \in 1 .. MaxMarkets + 1
    BY <1>0 DEF CreateMarket, Id
  <2>2. market' \in [Id -> Market]
    BY <1>0, <1>1 DEF IInv, TypeOK, CreateMarket, Market
  <2> QED  BY <1>4, <2>1, <2>2 DEF IInv, TypeOK, CreateMarket, admin
<1>6. /\ \A id \in Id \ {n} :
           market'[id] = market[id] /\ (Exists(id)' <=> Exists(id))
      /\ Exists(n)'
      /\ market'[n]
           = [status |-> "Open", outcome |-> "Undecided",
              closeTime |-> w[1], resolveTime |-> w[2], creator |-> s]
  <2>1. n \in Nat /\ nextMarketId = n /\ nextMarketId' = n + 1
    BY <1>0 DEF CreateMarket, Id
  <2>2. /\ \A id \in Id \ {n} : Exists(id)' <=> Exists(id)
        /\ Exists(n)'
    BY <2>1 DEF Exists, Id
  <2>3. market' = [market EXCEPT ![n] =
                     [status |-> "Open", outcome |-> "Undecided",
                      closeTime |-> w[1], resolveTime |-> w[2], creator |-> s]]
    BY <1>0 DEF CreateMarket
  <2> QED  BY <1>1, <2>2, <2>3 DEF IInv, TypeOK
<1>7. WellFormed'
  <2> SUFFICES ASSUME NEW id \in Id
      PROVE  /\ ~Exists(id)' => market'[id] = Unset
             /\ Exists(id)' => /\ market'[id].closeTime < market'[id].resolveTime
                               /\ market'[id].creator \in Addr
             /\ market'[id].outcome = "Undecided"
                  <=> market'[id].status # "Resolved"
    BY DEF WellFormed, Unset
  <2>1. CASE id = n
    BY <1>1, <1>6, <2>1
  <2>2. CASE id # n
    BY <1>6, <2>2 DEF IInv, WellFormed
  <2> QED  BY <2>1, <2>2
<1>8. \A id \in Id : /\ market'[id].outcome = market[id].outcome
                     /\ market'[id].status = "Resolved"
                          <=> market[id].status = "Resolved"
  BY <1>3, <1>6 DEF Unset
<1> QED  BY <1>5, <1>7, <1>8, SameMoney DEF IInv, CreateMarket

LEMMA PlaceBetInv ==
  ASSUME IInv, NEW s \in Addr, NEW id \in Id, NEW o \in Sides, NEW v \in Value,
         PlaceBet(s, id, o, v)
  PROVE  IInv'
<1> USE DEF PlaceBet, AddStake, BettingOpen
<1>1. v \in Nat /\ stake[id][o] \in [Addr -> Nat] /\ total[id][o] \in Nat
  BY DEF IInv, TypeOK
<1>2. /\ stake' \in [Id -> [Sides -> [Addr -> Nat]]]
      /\ stake'[id][o] \in [Addr -> Nat]
      /\ stake'[id][o][s] = stake[id][o][s] + v
      /\ \A u \in Addr \ {s} : stake'[id][o][u] = stake[id][o][u]
      /\ \A i \in Id, p \in Sides :
           i # id \/ p # o => stake'[i][p] = stake[i][p]
  BY <1>1 DEF IInv, TypeOK
<1>3. /\ total' \in [Id -> [Sides -> Nat]]
      /\ total'[id][o] = total[id][o] + v
      /\ \A i \in Id, p \in Sides :
           i # id \/ p # o => total'[i][p] = total[i][p]
  BY <1>1 DEF IInv, TypeOK
<1>4. TypeOK'
  <2>1. Rep!RepTypeOK'
    BY DEF IInv, TypeOK, rep, Rep!RepTypeOK
  <2>2. balance' \in Nat
    BY <1>1 DEF IInv, TypeOK
  <2> QED  BY <1>2, <1>3, <2>1, <2>2 DEF IInv, TypeOK, admin
<1>5. WellFormed'
  BY DEF IInv, WellFormed, Exists
<1>6. TotalsMatchStakes'
  <2> DEFINE f == stake[id][o]
             h == stake'[id][o]
  <2>1. /\ f \in [Addr -> Nat] /\ h \in [Addr -> Nat] /\ h[s] = f[s] + v
        /\ \A u \in Addr \ {s} : h[u] = f[u]
    BY <1>1, <1>2
  <2>2. Total(h) = Total(f) + v
    <3> HIDE DEF f, h, PlaceBet, AddStake, BettingOpen
    <3> QED  BY <1>1, <2>1, TotalAdd
  <2> QED  BY <1>2, <1>3, <2>2 DEF IInv, TotalsMatchStakes
<1>7. /\ \A i \in Id \ {id} : Pool(i)' = Pool(i)
      /\ Pool(id)' = Pool(id) + v
  BY <1>1, <1>3 DEF Pool, Sides, IInv, TypeOK
<1>8. Proportional'
  BY <1>2, <1>7 DEF IInv, Proportional, WellFormed, TypeOK, Sides
<1>9. BalanceIsWhatIsLeft'
  <2> DEFINE L == [i \in Id |-> Left(i)]
             M == [i \in Id |-> Left(i)']
  <2>1. \A i \in Id : Left(i) \in Nat /\ Left(i)' \in Nat
    <3>1. (\A i \in Id : Left(i) \in Nat /\ Total(received[i]) <= Pool(i))'
      BY <1>4, <1>5, <1>8, LeftIsNat, PTL
    <3> QED  BY <3>1, LeftIsNat DEF IInv
  <2>2. /\ \A i \in Id \ {id} : Left(i)' = Left(i)
        /\ Left(id)' = Left(id) + v
    <3>1. Total(received[id]) \in Nat /\ Pool(id) \in Nat
      BY SumsAreNat DEF IInv
    <3> QED  BY <1>1, <1>7, <3>1 DEF Left
  <2>3. /\ L \in [Id -> Nat] /\ M \in [Id -> Nat] /\ M[id] = L[id] + v
        /\ \A i \in Id \ {id} : M[i] = L[i]
    BY <2>1, <2>2
  <2>5. Total(M) = Total(L) + v
    <3> HIDE DEF L, M
    <3> QED  BY <1>1, <2>3, IdFinite, TotalAdd
  <2>6. balance = Total(L)
    BY DEF IInv, BalanceIsWhatIsLeft
  <2>7. balance' = Total(M)
    BY <2>5, <2>6
  <2> QED  BY <2>7 DEF BalanceIsWhatIsLeft
<1> QED  BY <1>4, <1>5, <1>6, <1>8, <1>9 DEF IInv

LEMMA LockMarketInv ==
  ASSUME IInv, NEW s \in Addr, NEW id \in Id, LockMarket(s, id)
  PROVE  IInv'
<1>1. /\ \A i \in Id \ {id} : market'[i] = market[i]
      /\ market[id].status = "Open"
      /\ market'[id] = [market[id] EXCEPT !.status = "Locked"]
  BY DEF IInv, TypeOK, LockMarket
<1>2. TypeOK'
  <2>1. Rep!RepTypeOK'
    BY DEF IInv, TypeOK, LockMarket, rep, Rep!RepTypeOK
  <2>2. market' \in [Id -> Market]
    <3>1. [market[id] EXCEPT !.status = "Locked"] \in Market
      <4>1. PICK m \in Market : m = market[id]
        BY DEF IInv, TypeOK
      <4>2. [m EXCEPT !.status = "Locked"] \in Market
        BY DEF Market
      <4> QED  BY <4>1, <4>2
    <3>2. market' = [market EXCEPT ![id] = [market[id] EXCEPT !.status = "Locked"]]
      BY DEF IInv, TypeOK, LockMarket
    <3> QED  BY <3>1, <3>2 DEF IInv, TypeOK
  <2> QED  BY <2>1, <2>2 DEF IInv, TypeOK, LockMarket, admin
<1>3. WellFormed'
  BY <1>1 DEF IInv, TypeOK, WellFormed, LockMarket, Exists
<1>4. \A i \in Id : /\ market'[i].outcome = market[i].outcome
                    /\ market'[i].status = "Resolved"
                         <=> market[i].status = "Resolved"
  <2>1. \A i \in Id : market[i] \in Market
    BY DEF IInv, TypeOK
  <2>2. /\ market'[id].outcome = market[id].outcome
        /\ market'[id].status = "Locked"
    BY <1>1, <2>1 DEF Market
  <2> QED  BY <1>1, <2>2
<1> QED  BY <1>2, <1>3, <1>4, SameMoney DEF IInv, LockMarket

LEMMA ResolveMarketInv ==
  ASSUME IInv, NEW s \in Addr, NEW id \in Id, NEW o \in Sides,
         ResolveMarket(s, id, o)
  PROVE  IInv'
<1>1. /\ \A i \in Id \ {id} : market'[i] = market[i]
      /\ market[id].status # "Resolved" /\ Exists(id)
      /\ market'[id] = [market[id] EXCEPT !.status = "Resolved", !.outcome = o]
  BY DEF IInv, TypeOK, ResolveMarket, Resolvable
<1>2. market[id].creator \in Addr
  BY <1>1 DEF IInv, TypeOK, WellFormed, ResolveMarket
<1>3. Rep!RepTypeOK'
  <2>1. CASE UNCHANGED rep
    BY <2>1 DEF IInv, TypeOK, rep, Rep!RepTypeOK
  <2>2. CASE Rep!TryOnMarketResolved(This, id, market[id].creator)
    BY <1>2, <2>2, ReportTypes DEF IInv, TypeOK
  <2> QED  BY <2>1, <2>2 DEF ResolveMarket
<1>4. TypeOK'
  <2>1. market' \in [Id -> Market]
    <3>1. [market[id] EXCEPT !.status = "Resolved", !.outcome = o] \in Market
      <4>1. PICK m \in Market : m = market[id]
        BY DEF IInv, TypeOK
      <4>2. [m EXCEPT !.status = "Resolved", !.outcome = o] \in Market
        BY DEF Market
      <4> QED  BY <4>1, <4>2
    <3>2. market' = [market EXCEPT ![id] =
                       [market[id] EXCEPT !.status = "Resolved", !.outcome = o]]
      BY DEF IInv, TypeOK, ResolveMarket
    <3> QED  BY <3>1, <3>2 DEF IInv, TypeOK
  <2> QED  BY <1>3, <2>1 DEF IInv, TypeOK, ResolveMarket, admin
<1>5. WellFormed'
  BY <1>1 DEF IInv, TypeOK, WellFormed, ResolveMarket, Exists, Sides
<1>6. TotalsMatchStakes'
  BY DEF IInv, TotalsMatchStakes, ResolveMarket
<1>7. Proportional'
  <2>1. \A u \in Addr : received[id][u] = 0 /\ ~claimed[id][u]
    BY <1>1 DEF IInv, Proportional
  <2>2. /\ Pool(id) \in Nat /\ stake[id][o] \in [Addr -> Nat]
        /\ claimed[id] \in [Addr -> BOOLEAN] /\ received[id] \in [Addr -> Nat]
    BY SumsAreNat DEF IInv
  <2>3. InProportion(stake[id][o], claimed[id], received[id], Pool(id))
    BY <2>1, <2>2, NothingPaidInProportion
  <2>4. market'[id].outcome = o /\ market'[id].status = "Resolved"
    BY <1>1 DEF IInv, TypeOK
  <2>5. UNCHANGED <<total, stake, claimed, received>>
    BY DEF ResolveMarket
  <2>6. \A i \in Id : Pool(i)' = Pool(i)
    BY <2>5 DEF Pool
  <2>7. Proportional
    BY DEF IInv
  <2> SUFFICES ASSUME NEW i \in Id
               PROVE  IF market'[i].status = "Resolved"
                      THEN InProportion(stake[i][market'[i].outcome], claimed[i],
                                        received[i], Pool(i))
                      ELSE \A u \in Addr : received[i][u] = 0 /\ ~claimed[i][u]
    BY <2>5, <2>6 DEF Proportional
  <2>8. CASE i = id
    BY <2>3, <2>4, <2>8
  <2>9. CASE i # id
    BY <1>1, <2>7, <2>9 DEF Proportional
  <2> QED  BY <2>8, <2>9
<1>8. BalanceIsWhatIsLeft'
  BY DEF IInv, BalanceIsWhatIsLeft, Left, Pool, ResolveMarket
<1> QED  BY <1>4, <1>5, <1>6, <1>7, <1>8 DEF IInv

LEMMA ClaimPayoutInv ==
  ASSUME IInv, NEW s \in Addr, NEW id \in Id, ClaimPayout(s, id)
  PROVE  IInv'
<1> DEFINE won == stake[id][market[id].outcome]
           payout == Payout(id, s)
<1>1. market[id].status = "Resolved" /\ market[id].outcome \in Sides
      /\ ~claimed[id][s]
  BY DEF IInv, TypeOK, Market, WellFormed, ClaimPayout, MayClaim
<1>2. payout = ShareOf(won, s, Pool(id)) /\ payout \in Nat
  BY <1>1, PayoutIsShare DEF IInv
<1>3. /\ Pool(id) \in Nat /\ won \in [Addr -> Nat]
      /\ claimed[id] \in [Addr -> BOOLEAN] /\ received[id] \in [Addr -> Nat]
      /\ Total(received[id]) \in Nat
  BY <1>1, SumsAreNat DEF IInv
<1>4. /\ claimed'[id] = [claimed[id] EXCEPT ![s] = TRUE]
      /\ received'[id] = [received[id] EXCEPT ![s] = received[id][s] + payout]
      /\ \A i \in Id \ {id} : /\ claimed'[i] = claimed[i]
                              /\ received'[i] = received[i]
      /\ UNCHANGED <<now, nextMarketId, market, total, stake, resolver,
                     reputationSystem, authorizedCallers, marketCreator, stats>>
  BY DEF IInv, TypeOK, ClaimPayout, admin, rep
<1> HIDE DEF payout
<1>5. balance' = balance - payout /\ balance' \in Nat
  <2>1. payout > 0 => payout <= balance
    BY DEF ClaimPayout, payout
  <2>2. balance' = balance - payout /\ balance \in Nat
    BY DEF IInv, TypeOK, ClaimPayout, payout
  <2> QED  BY <1>2, <2>1, <2>2
<1>6. TypeOK'
  <2>1. Rep!RepTypeOK'
    BY <1>4 DEF IInv, TypeOK, Rep!RepTypeOK
  <2>2. /\ claimed' \in [Id -> [Addr -> BOOLEAN]]
        /\ received' \in [Id -> [Addr -> Nat]]
    BY <1>2 DEF IInv, TypeOK, ClaimPayout, payout
  <2>3. callee' \in Addr \cup {NoAddr}
    BY DEF ClaimPayout
  <2> QED  BY <1>4, <1>5, <2>1, <2>2, <2>3 DEF IInv, TypeOK
<1>7. WellFormed'
  BY <1>4 DEF IInv, WellFormed, Exists
<1>8. TotalsMatchStakes'
  BY <1>4 DEF IInv, TotalsMatchStakes
<1>9. \A i \in Id : Pool(i)' = Pool(i)
  BY <1>4 DEF Pool
<1>10. Proportional'
  <2>1. InProportion(won, claimed[id], received[id], Pool(id))
    BY <1>1 DEF IInv, Proportional
  <2>2. InProportion(won, claimed'[id], received'[id], Pool(id))
    <3> DEFINE done == claimed[id]
               sent == received[id]
               done2 == claimed'[id]
               sent2 == received'[id]
               pool == Pool(id)
    <3>1. /\ done \in [Addr -> BOOLEAN] /\ sent \in [Addr -> Nat]
          /\ done2 \in [Addr -> BOOLEAN] /\ sent2 \in [Addr -> Nat]
          /\ done2[s] /\ ~done[s] /\ sent2[s] = sent[s] + ShareOf(won, s, pool)
          /\ \A x \in Addr \ {s} : done2[x] = done[x] /\ sent2[x] = sent[x]
          /\ won \in [Addr -> Nat] /\ pool \in Nat
      BY <1>1, <1>2, <1>3, <1>4
    <3> HIDE DEF won, done, sent, done2, sent2, pool
    <3>2. InProportion(won, done, sent, pool)
      BY <2>1 DEF done, sent, pool
    <3>3. InProportion(won, done2, sent2, pool)
      BY <3>1, <3>2, PaymentInProportion
    <3> QED  BY <3>3 DEF done2, sent2, pool
  <2>3. \A i \in Id \ {id} :
          IF market[i].status = "Resolved"
          THEN InProportion(stake[i][market[i].outcome], claimed'[i],
                            received'[i], Pool(i)')
          ELSE \A u \in Addr : received'[i][u] = 0 /\ ~claimed'[i][u]
    BY <1>4, <1>9 DEF IInv, Proportional
  <2> QED  BY <1>1, <1>4, <1>9, <2>2, <2>3 DEF Proportional
<1>11. BalanceIsWhatIsLeft'
  <2> DEFINE L == [i \in Id |-> Left(i)]
             M == [i \in Id |-> Left(i)']
  <2>1. \A i \in Id : Left(i) \in Nat /\ Left(i)' \in Nat
    <3>1. (\A i \in Id : Left(i) \in Nat /\ Total(received[i]) <= Pool(i))'
      BY <1>6, <1>7, <1>10, LeftIsNat, PTL
    <3> QED  BY <3>1, LeftIsNat DEF IInv
  <2>2. Total(received'[id]) = Total(received[id]) + payout
    <3> DEFINE f == received[id]
               h == received'[id]
    <3>1. /\ f \in [Addr -> Nat] /\ h \in [Addr -> Nat]
          /\ h[s] = f[s] + payout /\ \A u \in Addr \ {s} : h[u] = f[u]
      BY <1>2, <1>3, <1>4
    <3> HIDE DEF f, h
    <3>2. Total(h) = Total(f) + payout
      BY <1>2, <3>1, TotalAdd
    <3> QED  BY <3>2 DEF f, h
  <2>3. /\ \A i \in Id \ {id} : Left(i) = Left(i)'
        /\ Left(id) = Left(id)' + payout
    BY <1>2, <1>3, <1>4, <1>9, <2>2 DEF Left
  <2>4. /\ L \in [Id -> Nat] /\ M \in [Id -> Nat] /\ L[id] = M[id] + payout
        /\ \A i \in Id \ {id} : L[i] = M[i]
    BY <2>1, <2>3
  <2>5. Total(L) = Total(M) + payout /\ Total(M) \in Nat
    <3> HIDE DEF L, M
    <3> QED  BY <1>2, <2>4, IdFinite, TotalAdd, CoinsFinite
  <2>6. balance = Total(L)
    BY DEF IInv, BalanceIsWhatIsLeft
  <2>7. balance' = Total(M)
    <3> HIDE DEF L, M
    <3> QED  BY <1>2, <1>5, <2>5, <2>6
  <2> QED  BY <2>7 DEF BalanceIsWhatIsLeft
<1> QED  BY <1>6, <1>7, <1>8, <1>10, <1>11 DEF IInv

LEMMA OtherInv ==
  ASSUME IInv,
         \/ ClaimReturn
         \/ \E s \in Addr, a \in Appointable : SetResolver(s, a)
         \/ \E s \in Addr, a \in RepAddr \cup {NoAddr} : SetReputationSystem(s, a)
         \/ \E allowed \in BOOLEAN : Authorize(allowed)
         \/ Tick
         \/ UNCHANGED vars
  PROVE  IInv'
<1>1. UNCHANGED <<nextMarketId, market, total, stake, claimed, balance, received>>
  BY DEF ClaimReturn, SetResolver, SetReputationSystem, Authorize, Tick, vars,
         core
<1>2. Rep!RepTypeOK'
  BY DEF IInv, TypeOK, ClaimReturn, SetResolver, SetReputationSystem, Authorize,
         Tick, vars, core, rep, Rep!RepTypeOK, Rep!SetAuthorizedCaller
<1>3. now' \in Time
  BY DEF IInv, TypeOK, ClaimReturn, SetResolver, SetReputationSystem, Authorize,
         Tick, vars, core, Time
<1>4. /\ resolver' \in Addr /\ reputationSystem' \in RepAddr \cup {NoAddr}
      /\ callee' \in Addr \cup {NoAddr}
  BY DEF IInv, TypeOK, ClaimReturn, SetResolver, SetReputationSystem, Authorize,
         Tick, vars, admin
<1>5. TypeOK'
  BY <1>1, <1>2, <1>3, <1>4 DEF IInv, TypeOK
<1>6. WellFormed'
  BY <1>1 DEF IInv, WellFormed, Exists
<1> QED  BY <1>1, <1>5, <1>6, SameMoney DEF IInv

LEMMA NextInv == IInv /\ [Next]_vars => IInv'
  BY CreateMarketInv, PlaceBetInv, LockMarketInv, ResolveMarketInv,
     ClaimPayoutInv, OtherInv DEF Next

LEMMA Invariance == Spec => []IInv
<1>1. Init => IInv
  BY InitInv
<1> QED  BY <1>1, NextInv, PTL DEF Spec

\* If u were paid now the market would still have sent at most its pool, so
\* its part of the balance is at least the payout.
LEMMA InvClaimCovered == IInv => NextClaimCovered
<1> SUFFICES ASSUME IInv, NEW id \in Id, NEW u \in Addr, MayClaim(u, id)
    PROVE  Payout(id, u) <= balance
  BY DEF NextClaimCovered
<1> DEFINE won == stake[id][market[id].outcome]
           pool == Pool(id)
           done == claimed[id]
           sent == received[id]
           payout == Payout(id, u)
           done2 == [done EXCEPT ![u] = TRUE]
           sent2 == [sent EXCEPT ![u] = sent[u] + payout]
           L == [i \in Id |-> Left(i)]
<1>1. market[id].status = "Resolved" /\ market[id].outcome \in Sides
  BY DEF IInv, TypeOK, Market, WellFormed, MayClaim
<1>2. payout = ShareOf(won, u, pool) /\ payout \in Nat
  BY <1>1, PayoutIsShare DEF IInv
<1>3. /\ pool \in Nat /\ won \in [Addr -> Nat] /\ done \in [Addr -> BOOLEAN]
      /\ sent \in [Addr -> Nat] /\ Total(sent) \in Nat
  BY <1>1, SumsAreNat DEF IInv
<1>4. ~done[u] /\ InProportion(won, done, sent, pool)
  BY <1>1 DEF IInv, Proportional, MayClaim
<1>5. /\ L \in [Id -> Nat] /\ L[id] = pool - Total(sent)
      /\ balance = Total(L)
  BY LeftIsNat DEF IInv, Left, BalanceIsWhatIsLeft
<1> HIDE DEF won, pool, done, sent, payout, L
<1>6. /\ done2 \in [Addr -> BOOLEAN] /\ sent2 \in [Addr -> Nat]
      /\ done2[u] /\ sent2[u] = sent[u] + payout
      /\ \A x \in Addr \ {u} : done2[x] = done[x] /\ sent2[x] = sent[x]
  BY <1>2, <1>3
<1> HIDE DEF done2, sent2
<1>7. InProportion(won, done2, sent2, pool)
  BY <1>2, <1>3, <1>4, <1>6, PaymentInProportion
<1>8. Total(sent2) <= pool
  BY <1>3, <1>6, <1>7, ProportionSolvent
<1>9. Total(sent2) = Total(sent) + payout
  BY <1>2, <1>3, <1>6, TotalAdd
<1>10. L[id] <= Total(L) /\ Total(L) \in Nat
  BY <1>5, IdFinite, EntryBelowTotal, CoinsFinite
<1>11. payout <= Total(L)
  BY <1>2, <1>3, <1>5, <1>8, <1>9, <1>10
<1> QED  BY <1>5, <1>11 DEF payout

-----------------------------------------------------------------------------
(* Each market keeps the promise of ParimutuelPool.                        *)

\* The pool of the promise is counted from the stakes, that of the contract
\* from its totals: where they agree the payouts do.
LEMMA SamePayout ==
  ASSUME TypeOK, TotalsMatchStakes, NEW id \in Id, NEW u \in Addr,
         market[id].outcome \in Sides
  PROVE  Promise(id)!Payout(u) = Payout(id, u)
<1>1. \A f : Promise(id)!Total(f) = Total(f)
  BY DEF Promise!Total, Total, Promise!Coins, Coins, Promise!Cardinality, Cardinality,
         Promise!IsFiniteSet, IsFiniteSet
<1>2. \A a, p, w : Promise(id)!Share(a, p, w) = Share(a, p, w)
  BY DEF Promise!Share, Share
<1>3. Promise(id)!Pool = Pool(id)
  BY <1>1 DEF Promise!Pool, Pool, TotalsMatchStakes, Sides
<1>4. Promise(id)!Payout(u) = ShareOf(stake[id][market[id].outcome], u, Pool(id))
  BY <1>1, <1>2, <1>3 DEF Promise!Payout, Promise!ShareOf, ShareOf
<1> QED  BY <1>4, PayoutIsShare

Kept(id) == [Promise(id)!Next]_(Promise(id)!vars)

\* A step that leaves stakes, claims, payments and outcomes alone may only
\* close the betting.
LEMMA QuietStep ==
  ASSUME UNCHANGED <<stake, claimed, received>>, NEW id \in Id,
         market'[id].outcome = market[id].outcome,
         \/ Phase(id)' = Phase(id)
         \/ Phase(id) = "Betting" /\ Phase(id)' = "Closed"
  PROVE  Kept(id)
  BY DEF Kept, Promise!Next, Promise!Close, Promise!vars

LEMMA CreateMarketKept ==
  ASSUME IInv, NEW s \in Addr, NEW w \in Window, CreateMarket(s, w[1], w[2]),
         NEW id \in Id
  PROVE  Kept(id)
<1>0. PICK n \in Id : n = nextMarketId
  BY DEF IInv, TypeOK, CreateMarket, Id
<1>1. market[n] = Unset /\ ~Exists(n)
  BY <1>0 DEF IInv, WellFormed, Exists, Id
<1>2. market' = [market EXCEPT ![n] =
                   [status |-> "Open", outcome |-> "Undecided",
                    closeTime |-> w[1], resolveTime |-> w[2], creator |-> s]]
  BY <1>0 DEF CreateMarket
<1>3. w[1] \in Nat /\ now < w[1] /\ now \in Nat /\ now' = now
  BY DEF CreateMarket, IInv, TypeOK, Time
<1>4. nextMarketId' = n + 1
  BY <1>0 DEF CreateMarket
<1>5. CASE id = n
  <2>1. /\ market'[id].status = "Open" /\ market'[id].outcome = "Undecided"
        /\ market'[id].closeTime = w[1]
    BY <1>2, <1>5 DEF IInv, TypeOK
  <2>2. Phase(id)' = "Betting"
    BY <1>3, <2>1 DEF Phase
  <2>3. Phase(id) = "Betting" /\ market[id].outcome = "Undecided"
    BY <1>1, <1>5 DEF Phase, Unset
  <2> QED  BY <2>1, <2>2, <2>3, QuietStep DEF CreateMarket
<1>6. CASE id # n
  <2>1. market'[id] = market[id]
    BY <1>2, <1>6 DEF IInv, TypeOK
  <2>2. Exists(id)' <=> Exists(id)
    BY <1>0, <1>4, <1>6 DEF Exists, Id
  <2>3. Phase(id)' = Phase(id)
    BY <1>3, <2>1, <2>2 DEF Phase
  <2> QED  BY <2>1, <2>3, QuietStep DEF CreateMarket
<1> QED  BY <1>5, <1>6

LEMMA PlaceBetKept ==
  ASSUME IInv, NEW s \in Addr, NEW m \in Id, NEW o \in Sides, NEW v \in Value,
         PlaceBet(s, m, o, v), NEW id \in Id
  PROVE  Kept(id)
<1> USE DEF PlaceBet, AddStake, BettingOpen
<1>1. Phase(id)' = Phase(id)
  BY DEF Phase, Exists
<1>2. CASE id # m
  <2>1. stake'[id] = stake[id]
    BY <1>2 DEF IInv, TypeOK
  <2> QED  BY <1>1, <2>1 DEF Kept, Promise!vars
<1>3. CASE id = m
  <2>1. Phase(id) = "Betting"
    <3>1. now \in Nat /\ market[id].closeTime \in Nat
      BY DEF IInv, TypeOK, Market, Time
    <3> QED  BY <1>3, <3>1 DEF Phase
  <2>2. stake'[id] = [stake[id] EXCEPT ![o][s] = @ + v]
    BY <1>3 DEF IInv, TypeOK
  <2>3. Promise(id)!Bet(s, o, v)
    BY <1>1, <1>3, <2>1, <2>2 DEF Promise!Bet
  <2>4. Promise(id)!Sides = Sides
    BY DEF Promise!Sides, Sides
  <2> QED  BY <2>3, <2>4 DEF Kept, Promise!Next
<1> QED  BY <1>2, <1>3

LEMMA LockMarketKept ==
  ASSUME IInv, NEW s \in Addr, NEW m \in Id, LockMarket(s, m), NEW id \in Id
  PROVE  Kept(id)
<1>1. /\ market[m].status = "Open" /\ market'[m].status = "Locked"
      /\ market'[m].outcome = market[m].outcome
      /\ \A i \in Id \ {m} : market'[i] = market[i]
      /\ Exists(m)
  BY DEF IInv, TypeOK, Market, LockMarket
<1>2. \A i \in Id : Exists(i)' <=> Exists(i)
  BY DEF LockMarket, Exists
<1>3. CASE id = m
  <2>1. Phase(id)' = "Closed"
    BY <1>1, <1>2, <1>3 DEF Phase
  <2>2. Phase(id) \in {"Betting", "Closed"}
    BY <1>1, <1>3 DEF Phase
  <2> QED  BY <1>1, <1>3, <2>1, <2>2, QuietStep DEF LockMarket
<1>4. CASE id # m
  <2>1. Phase(id)' = Phase(id)
    BY <1>1, <1>2, <1>4 DEF Phase, LockMarket
  <2> QED  BY <1>1, <1>4, <2>1, QuietStep DEF LockMarket
<1> QED  BY <1>3, <1>4

\* closeTime < resolveTime: when a market may be resolved betting is over.
LEMMA ResolveMarketKept ==
  ASSUME IInv, NEW s \in Addr, NEW m \in Id, NEW o \in Sides,
         ResolveMarket(s, m, o), NEW id \in Id
  PROVE  Kept(id)
<1>1. /\ market[m].status # "Resolved" /\ market'[m].status = "Resolved"
      /\ market'[m].outcome = o
      /\ \A i \in Id \ {m} : market'[i] = market[i]
      /\ Exists(m) /\ now >= market[m].resolveTime
  BY DEF IInv, TypeOK, Market, ResolveMarket, Resolvable
<1>2. \A i \in Id : Exists(i)' <=> Exists(i)
  BY DEF ResolveMarket, Exists
<1>3. CASE id = m
  <2>1. now >= market[id].closeTime
    <3>1. /\ now \in Nat /\ market[id].closeTime \in Nat
          /\ market[id].resolveTime \in Nat
          /\ market[id].closeTime < market[id].resolveTime
      BY <1>1, <1>3 DEF IInv, TypeOK, Market, WellFormed, Time
    <3> QED  BY <1>1, <1>3, <3>1
  <2>2. Phase(id) = "Closed" /\ Phase(id)' = "Settled"
    BY <1>1, <1>3, <2>1 DEF Phase
  <2>3. Promise(id)!Settle(o)
    BY <1>1, <1>3, <2>2 DEF Promise!Settle, ResolveMarket
  <2>4. Promise(id)!Sides = Sides
    BY DEF Promise!Sides, Sides
  <2> QED  BY <2>3, <2>4 DEF Kept, Promise!Next
<1>4. CASE id # m
  <2>1. Phase(id)' = Phase(id)
    BY <1>1, <1>2, <1>4 DEF Phase, ResolveMarket
  <2> QED  BY <1>1, <1>4, <2>1, QuietStep DEF ResolveMarket
<1> QED  BY <1>3, <1>4

LEMMA ClaimPayoutKept ==
  ASSUME IInv, NEW s \in Addr, NEW m \in Id, ClaimPayout(s, m), NEW id \in Id
  PROVE  Kept(id)
<1>1. Phase(id)' = Phase(id) /\ UNCHANGED <<market, stake>>
  BY DEF ClaimPayout, Phase, Exists
<1>2. CASE id # m
  <2>1. claimed'[id] = claimed[id] /\ received'[id] = received[id]
    BY <1>2 DEF IInv, TypeOK, ClaimPayout
  <2> QED  BY <1>1, <2>1 DEF Kept, Promise!vars
<1>3. CASE id = m
  <2>1. /\ market[id].status = "Resolved" /\ market[id].outcome \in Sides
        /\ ~claimed[id][s]
    BY <1>3 DEF IInv, TypeOK, Market, WellFormed, ClaimPayout, MayClaim
  <2>2. Phase(id) = "Settled"
    BY <2>1 DEF Phase
  <2>3. Promise(id)!Payout(s) = Payout(id, s)
    BY <2>1, SamePayout DEF IInv
  <2>4. /\ claimed'[id] = [claimed[id] EXCEPT ![s] = TRUE]
        /\ received'[id] = [received[id] EXCEPT ![s] = @ + Payout(id, s)]
    BY <1>3 DEF IInv, TypeOK, ClaimPayout
  <2>5. Promise(id)!Pay(s)
    BY <1>1, <2>1, <2>2, <2>3, <2>4 DEF Promise!Pay
  <2> QED  BY <2>5 DEF Kept, Promise!Next
<1> QED  BY <1>2, <1>3

\* Time only moves forward, so only closeTime can be passed.
LEMMA TickKept ==
  ASSUME IInv, Tick, NEW id \in Id
  PROVE  Kept(id)
<1>1. \/ Phase(id)' = Phase(id)
      \/ Phase(id) = "Betting" /\ Phase(id)' = "Closed"
  <2>1. /\ now \in Nat /\ now' = now + 1 /\ market[id].closeTime \in Nat
        /\ market' = market /\ nextMarketId' = nextMarketId
    BY DEF IInv, TypeOK, Market, Time, Tick
  <2> QED  BY <2>1 DEF Phase, Exists
<1> QED  BY <1>1, QuietStep DEF Tick

LEMMA OtherKept ==
  ASSUME \/ ClaimReturn
         \/ \E s \in Addr, a \in Appointable : SetResolver(s, a)
         \/ \E s \in Addr, a \in RepAddr \cup {NoAddr} : SetReputationSystem(s, a)
         \/ \E allowed \in BOOLEAN : Authorize(allowed)
         \/ UNCHANGED vars,
         NEW id \in Id
  PROVE  Kept(id)
<1>1. UNCHANGED core
  BY DEF ClaimReturn, SetResolver, SetReputationSystem, Authorize, vars
<1>2. Phase(id)' = Phase(id)
  BY <1>1 DEF core, Phase, Exists
<1> QED  BY <1>1, <1>2, QuietStep DEF core

LEMMA StepKept == IInv /\ [Next]_vars => \A id \in Id : Kept(id)
  BY CreateMarketKept, PlaceBetKept, LockMarketKept, ResolveMarketKept,
     ClaimPayoutKept, TickKept, OtherKept DEF Next

LEMMA InitKept == Init => \A id \in Id : Promise(id)!Init
<1> SUFFICES ASSUME Init, NEW id \in Id PROVE Promise(id)!Init
  OBVIOUS
<1>1. Phase(id) = "Betting"
  BY DEF Init, Phase, Exists, FirstId, Unset, Id
<1>2. Promise(id)!Sides = Sides
  BY DEF Promise!Sides, Sides
<1> QED  BY <1>1, <1>2 DEF Init, Promise!Init, Unset

-----------------------------------------------------------------------------
(* The reputation contract counts markets.                                 *)

ResolvedOf(c) == {id \in Of(c) : market[id].status = "Resolved"}

LEMMA CountsAreNat ==
  ASSUME NEW c
  PROVE  /\ IsFiniteSet(Of(c)) /\ Cardinality(Of(c)) \in Nat
         /\ IsFiniteSet(ResolvedOf(c)) /\ Cardinality(ResolvedOf(c)) \in Nat
<1>1. IsFiniteSet(Of(c)) /\ IsFiniteSet(ResolvedOf(c))
  BY IdFinite, FS_Subset DEF Of, ResolvedOf
<1> QED  BY <1>1, FS_CardinalityType

\* A report is heard or not: at most one market more is counted, for its creator.
LEMMA ReportCounts ==
  ASSUME TypeOK, NEW id \in Id, NEW s \in Addr, NEW c \in Addr
  PROVE  /\ Rep!TryOnMarketCreated(This, id, s) =>
              /\ stats'[c].created \in {stats[c].created,
                                        stats[c].created + (IF c = s THEN 1 ELSE 0)}
              /\ stats'[c].resolved = stats[c].resolved
         /\ Rep!TryOnMarketResolved(This, id, s) =>
              /\ stats'[c].created = stats[c].created
              /\ stats'[c].resolved \in {stats[c].resolved,
                                         stats[c].resolved + (IF c = s THEN 1 ELSE 0)}
<1>1. /\ stats \in [Addr -> [created : Nat, resolved : Nat, score : Nat]]
      /\ stats[s] \in [created : Nat, resolved : Nat, score : Nat]
      /\ stats[c] \in [created : Nat, resolved : Nat, score : Nat]
  BY DEF TypeOK, Rep!RepTypeOK
<1>2. ASSUME Rep!OnMarketCreated(This, id, s)
      PROVE  /\ stats'[c].created = stats[c].created + (IF c = s THEN 1 ELSE 0)
             /\ stats'[c].resolved = stats[c].resolved
  <2> DEFINE r == [stats[s] EXCEPT !.created = stats[s].created + 1]
  <2>1. stats' = [stats EXCEPT ![s] = r]
    BY <1>1, <1>2 DEF Rep!OnMarketCreated
  <2>2. r.created = stats[s].created + 1 /\ r.resolved = stats[s].resolved
    BY <1>1
  <2> HIDE DEF r
  <2> QED  BY <1>1, <2>1, <2>2
<1>3. ASSUME Rep!OnMarketResolved(This, id, s)
      PROVE  /\ stats'[c].resolved = stats[c].resolved + (IF c = s THEN 1 ELSE 0)
             /\ stats'[c].created = stats[c].created
  BY <1>1, <1>3 DEF Rep!OnMarketResolved
<1>4. UNCHANGED Rep!repVars => stats' = stats
  BY DEF Rep!repVars
<1> QED  BY <1>2, <1>3, <1>4 DEF Rep!TryOnMarketCreated, Rep!TryOnMarketResolved

LEMMA CreateMarketCounts ==
  ASSUME IInv, ReputationCountsMarkets,
         NEW s \in Addr, NEW w \in Window, CreateMarket(s, w[1], w[2])
  PROVE  ReputationCountsMarkets'
<1>1. PICK n \in Id : n = nextMarketId
  BY DEF IInv, TypeOK, CreateMarket, Id
<1>2. /\ market' = [market EXCEPT ![n] =
                      [status |-> "Open", outcome |-> "Undecided",
                       closeTime |-> w[1], resolveTime |-> w[2], creator |-> s]]
      /\ nextMarketId' = n + 1 /\ market \in [Id -> Market]
  BY <1>1 DEF CreateMarket, IInv, TypeOK
<1>3. n \notin Of(s) /\ \A c \in Addr : Of(c)' = IF c = s THEN Of(s) \cup {n} ELSE Of(c)
  <2>1. \A id \in Id : Exists(id)' <=> Exists(id) \/ id = n
    BY <1>1, <1>2 DEF Exists, Id
  <2>2. ~Exists(n)
    BY <1>1 DEF Exists, Id
  <2>3. market'[n].creator = s /\ \A id \in Id \ {n} : market'[id] = market[id]
    BY <1>2
  <2> QED  BY <2>1, <2>2, <2>3 DEF Of
<1>4. ASSUME NEW c \in Addr PROVE ResolvedOf(c)' = ResolvedOf(c)
  <2>1. market'[n].status = "Open" /\ \A id \in Id \ {n} : market'[id] = market[id]
    BY <1>2
  <2>2. ~Exists(n)
    BY <1>1 DEF Exists, Id
  <2> QED  BY <1>3, <2>1, <2>2 DEF ResolvedOf, Of
<1>5. ASSUME NEW c \in Addr
      PROVE  /\ stats'[c].created \in {stats[c].created,
                                       stats[c].created + (IF c = s THEN 1 ELSE 0)}
             /\ stats'[c].resolved = stats[c].resolved
  <2>1. Rep!TryOnMarketCreated(This, n, s) \/ stats' = stats
    BY <1>1 DEF CreateMarket, rep
  <2> QED  BY <2>1, ReportCounts DEF IInv
<1>6. ASSUME NEW c \in Addr
      PROVE  /\ stats'[c].created <= Cardinality(Of(c)')
             /\ stats'[c].resolved <= Cardinality(ResolvedOf(c)')
  <2>1. /\ stats[c].created <= Cardinality(Of(c)) /\ Cardinality(Of(c)) \in Nat
        /\ stats[c].resolved <= Cardinality(ResolvedOf(c))
    BY CountsAreNat DEF ReputationCountsMarkets, ResolvedOf
  <2>2. stats[c].created \in Nat
    BY DEF IInv, TypeOK, Rep!RepTypeOK
  <2>3. Cardinality(Of(c)') = Cardinality(Of(c)) + (IF c = s THEN 1 ELSE 0)
    <3>1. CASE c = s
      <4>1. Of(c)' = Of(c) \cup {n} /\ n \notin Of(c)
        BY <1>3, <3>1
      <4>2. IsFiniteSet(Of(c))
        BY CountsAreNat
      <4> QED  BY <3>1, <4>1, <4>2, FS_AddElement
    <3>2. CASE c # s
      BY <1>3, <2>1, <3>2
    <3> QED  BY <3>1, <3>2
  <2> QED  BY <1>4, <1>5, <2>1, <2>2, <2>3
<1> QED  BY <1>6 DEF ReputationCountsMarkets, ResolvedOf

LEMMA ResolveMarketCounts ==
  ASSUME IInv, ReputationCountsMarkets,
         NEW s \in Addr, NEW id \in Id, NEW o \in Sides, ResolveMarket(s, id, o)
  PROVE  ReputationCountsMarkets'
<1> DEFINE k == market[id].creator
           r == [market[id] EXCEPT !.status = "Resolved", !.outcome = o]
<1>1. /\ market' = [market EXCEPT ![id] = r] /\ nextMarketId' = nextMarketId
      /\ market \in [Id -> Market] /\ Exists(id) /\ market[id].status # "Resolved"
  BY DEF ResolveMarket, Resolvable, IInv, TypeOK
<1>2. k \in Addr
  BY <1>1 DEF IInv, WellFormed
<1>3. /\ \A i \in Id : Exists(i)' <=> Exists(i)
      /\ market'[id].status = "Resolved" /\ market'[id].creator = k
      /\ \A i \in Id \ {id} : market'[i] = market[i]
  <2>1. r.status = "Resolved" /\ r.creator = k
    BY <1>1 DEF Market
  <2> HIDE DEF r, k
  <2> QED  BY <1>1, <2>1 DEF Exists
<1> HIDE DEF r
<1>4. /\ \A c \in Addr : Of(c)' = Of(c)
      /\ id \in Of(k) /\ id \notin ResolvedOf(k)
      /\ \A c \in Addr : ResolvedOf(c)' = IF c = k THEN ResolvedOf(k) \cup {id}
                                           ELSE ResolvedOf(c)
  <2>1. \A c \in Addr : Of(c)' = Of(c)
    BY <1>3 DEF Of
  <2> QED  BY <1>1, <1>3, <2>1 DEF ResolvedOf, Of
<1>5. ASSUME NEW c \in Addr
      PROVE  /\ stats'[c].created = stats[c].created
             /\ stats'[c].resolved \in {stats[c].resolved,
                                        stats[c].resolved + (IF c = k THEN 1 ELSE 0)}
  <2>1. Rep!TryOnMarketResolved(This, id, k) \/ stats' = stats
    BY DEF ResolveMarket, rep
  <2> QED  BY <1>2, <2>1, ReportCounts DEF IInv
<1>6. ASSUME NEW c \in Addr
      PROVE  /\ stats'[c].created <= Cardinality(Of(c)')
             /\ stats'[c].resolved <= Cardinality(ResolvedOf(c)')
  <2>1. /\ stats[c].created <= Cardinality(Of(c))
        /\ stats[c].resolved <= Cardinality(ResolvedOf(c))
        /\ Cardinality(ResolvedOf(c)) \in Nat
    BY CountsAreNat DEF ReputationCountsMarkets, ResolvedOf
  <2>2. stats[c].resolved \in Nat
    BY DEF IInv, TypeOK, Rep!RepTypeOK
  <2>3. Cardinality(ResolvedOf(c)')
          = Cardinality(ResolvedOf(c)) + (IF c = k THEN 1 ELSE 0)
    <3>1. CASE c = k
      <4>1. ResolvedOf(c)' = ResolvedOf(c) \cup {id} /\ id \notin ResolvedOf(c)
        BY <1>4, <3>1
      <4>2. IsFiniteSet(ResolvedOf(c))
        BY CountsAreNat
      <4> QED  BY <3>1, <4>1, <4>2, FS_AddElement
    <3>2. CASE c # k
      BY <1>4, <2>1, <3>2
    <3> QED  BY <3>1, <3>2
  <2> QED  BY <1>4, <1>5, <2>1, <2>2, <2>3
<1> QED  BY <1>6 DEF ReputationCountsMarkets, ResolvedOf

LEMMA LockMarketCounts ==
  ASSUME IInv, ReputationCountsMarkets, NEW s \in Addr, NEW id \in Id, LockMarket(s, id)
  PROVE  ReputationCountsMarkets'
<1>1. /\ \A i \in Id : /\ market'[i].creator = market[i].creator
                       /\ market'[i].status = "Resolved" <=> market[i].status = "Resolved"
      /\ UNCHANGED <<nextMarketId, stats>>
  BY DEF LockMarket, rep, IInv, TypeOK, Market
<1>2. \A c \in Addr : Of(c)' = Of(c) /\ ResolvedOf(c)' = ResolvedOf(c)
  BY <1>1 DEF Of, ResolvedOf, Exists
<1>3. \A c \in Addr : stats'[c].created <= Cardinality(Of(c)')
                     /\ stats'[c].resolved <= Cardinality(ResolvedOf(c)')
  BY <1>1, <1>2 DEF ReputationCountsMarkets, ResolvedOf
<1> QED  BY <1>3 DEF ReputationCountsMarkets, ResolvedOf

LEMMA NextCounts == IInv /\ ReputationCountsMarkets /\ [Next]_vars => ReputationCountsMarkets'
<1> SUFFICES ASSUME IInv, ReputationCountsMarkets, [Next]_vars
    PROVE  ReputationCountsMarkets'
  OBVIOUS
<1>1. CASE UNCHANGED <<nextMarketId, market, stats>>
  BY <1>1 DEF ReputationCountsMarkets, Of, Exists
<1>2. ASSUME \/ \E s \in Addr, id \in Id, o \in Sides, v \in Value : PlaceBet(s, id, o, v)
             \/ \E s \in Addr, id \in Id : ClaimPayout(s, id)
             \/ ClaimReturn
             \/ \E s \in Addr, a \in Appointable : SetResolver(s, a)
             \/ \E s \in Addr, a \in RepAddr \cup {NoAddr} : SetReputationSystem(s, a)
             \/ \E allowed \in BOOLEAN : Authorize(allowed)
             \/ Tick
             \/ UNCHANGED vars
      PROVE  UNCHANGED <<nextMarketId, market, stats>>
  BY <1>2 DEF PlaceBet, ClaimPayout, ClaimReturn, SetResolver, SetReputationSystem,
              Authorize, Tick, vars, core, rep, Rep!SetAuthorizedCaller
<1> QED
  BY <1>1, <1>2, CreateMarketCounts, ResolveMarketCounts, LockMarketCounts DEF Next

LEMMA InitCounts == Init => ReputationCountsMarkets
<1> SUFFICES ASSUME Init, NEW c \in Addr
    PROVE  stats[c].created <= Cardinality(Of(c))
           /\ stats[c].resolved <= Cardinality(ResolvedOf(c))
  BY DEF ReputationCountsMarkets, ResolvedOf
<1>1. stats[c].created = 0 /\ stats[c].resolved = 0
  BY DEF Init, Rep!RepInit
<1> QED  BY <1>1, CountsAreNat

-----------------------------------------------------------------------------
\* The contract's state stays well typed, in particular no balance or sum of
\* payments leaves the natural numbers.
THEOREM TypeCorrect == Spec => []TypeOK
<1>1. IInv => TypeOK
  BY DEF IInv
<1> QED  BY <1>1, Invariance, PTL

\* The totals that payouts are divided by are always the sums of the stakes.
THEOREM TotalsCorrect == Spec => []TotalsMatchStakes
<1>1. IInv => TotalsMatchStakes
  BY DEF IInv
<1> QED  BY <1>1, Invariance, PTL

\* The ether of the contract is exactly what is left of each market's pool.
THEOREM BalanceCorrect == Spec => []BalanceIsWhatIsLeft
<1>1. IInv => BalanceIsWhatIsLeft
  BY DEF IInv
<1> QED  BY <1>1, Invariance, PTL

\* Whoever claims, on whichever resolved market, the contract can pay: for any
\* number of markets and accounts and any amounts.
THEOREM ClaimsCovered == Spec => []NextClaimCovered
  BY Invariance, InvClaimCovered, PTL

\* PredictionMarket implements ParimutuelPool, once for each market id.
THEOREM Refinement == Spec => KeepsPromise
<1>1. Init => \A id \in Id : Promise(id)!Init
  BY InitKept
<1>2. IInv /\ [Next]_vars
        => [\A id \in Id : [Promise(id)!Next]_(Promise(id)!vars)]_vars
  BY StepKept DEF Kept
<1> QED  BY <1>1, <1>2, Invariance, PTL DEF Spec, KeepsPromise

\* Whatever reports are lost, and however often the reputation contract is
\* removed or stops listening in between, no account is credited with more
\* markets than it created, or with more resolved ones than were resolved.
THEOREM CreditsCorrect == Spec => []ReputationCountsMarkets
  BY InitCounts, NextCounts, Invariance, PTL DEF Spec
=============================================================================
