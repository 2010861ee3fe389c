----------------------------- MODULE BooksProofs -----------------------------
(***************************************************************************)
(* For every set of accounts, amounts and conditions, and for calls nested *)
(* to any depth: an unguarded betting book balances, pays each claimant    *)
(* its own share and can pay whoever claims next, and each of its markets  *)
(* keeps the promise of ParimutuelPool.  Both contracts implement the      *)
(* book, and a conditional market ends as the conjunction of its           *)
(* conditions.                                                             *)
(***************************************************************************)
EXTENDS ConditionalMarket, TokenizedMarket, ParimutuelProofs, SequenceTheorems

USE BookAddr, BookValue, BookWindow, BookBounds

\* A market that was not created is untouched; one that was has its times in
\* order; the outcome is set, and claims are made, only once it is resolved.
WellFormed ==
  \A id \in Id :
    /\ Exists(id) <=> id < nextMarketId
    /\ ~Exists(id) => market[id] = Unset
    /\ Exists(id) => market[id].closeTime < market[id].resolveTime
    /\ market[id].outcome = "Undecided" <=> market[id].status # "Resolved"
    /\ market[id].status # "Resolved" => \A u \in Addr : ~claimed[id][u]

TotalsMatchStakes ==
  \A id \in Id, o \in Sides : total[id][o] = Total(stake[id][o])

\* The inductive invariant.  A claim made inside a claim finds the same totals
\* and its own mark: that is PaidByStakeOnly, from which the balance follows.
BookInv == /\ BookTypeOK
           /\ WellFormed
           /\ TotalsMatchStakes
           /\ PaidByStakeOnly
           /\ BookBalanced

Left(id) == Pool(id) - Total(received[id])

LEMMA IdFinite == IsFiniteSet(Id)
<1>1. 1 \in Int /\ MaxMarkets \in Int
  OBVIOUS
<1> QED  BY <1>1, FS_Interval DEF Id

-----------------------------------------------------------------------------
(* Payouts.                                                                *)

LEMMA SumsAreNat ==
  ASSUME BookTypeOK, NEW id \in Id
  PROVE  /\ Pool(id) \in Nat
         /\ \A o \in Sides : /\ stake[id][o] \in [Addr -> Nat]
                             /\ total[id][o] \in Nat
         /\ claimed[id] \in [Addr -> BOOLEAN]
         /\ received[id] \in [Addr -> Nat]
         /\ Total(received[id]) \in Nat
<1>1. /\ \A o \in Sides : stake[id][o] \in [Addr -> Nat] /\ total[id][o] \in Nat
      /\ claimed[id] \in [Addr -> BOOLEAN]
      /\ received[id] \in [Addr -> Nat]
  BY DEF BookTypeOK
<1>2. Pool(id) \in Nat
  BY <1>1 DEF Pool, Sides
<1> QED  BY <1>1, <1>2, CoinsFinite

\* Every payout is a number, and all of them together are within the pool.
LEMMA PayoutsWithinPool ==
  ASSUME BookTypeOK, TotalsMatchStakes, NEW id \in Id,
         market[id].outcome \in Sides
  PROVE  /\ \A u \in Addr : Payout(id, u) \in Nat
         /\ Total([u \in Addr |-> Payout(id, u)]) <= Pool(id)
<1> DEFINE o == market[id].outcome
           won == stake[id][o]
           w == total[id][o]
           pool == Pool(id)
           pay == [u \in Addr |-> Payout(id, u)]
<1>1. /\ won \in [Addr -> Nat] /\ w \in Nat /\ pool \in Nat /\ w = Total(won)
      /\ \A u \in Addr : won[u] \in Nat
  BY SumsAreNat DEF TotalsMatchStakes
<1>2. ASSUME NEW u \in Addr
      PROVE  Payout(id, u) = IF won[u] = 0 \/ w = 0 THEN 0 ELSE Share(won[u], pool, w)
  BY DEF Payout
<1> HIDE DEF won, w, pool
<1>3. ASSUME NEW u \in Addr
      PROVE  Payout(id, u) \in Nat /\ Payout(id, u) * w <= pool * won[u]
  <2>1. CASE won[u] = 0 \/ w = 0
    <3>1. Payout(id, u) = 0
      BY <1>2, <2>1
    <3>2. 0 * w = 0 /\ pool * won[u] \in Nat
      BY <1>1
    <3> QED  BY <3>1, <3>2
  <2>2. CASE won[u] # 0 /\ w # 0
    <3>1. Payout(id, u) = Share(won[u], pool, w)
      BY <1>2, <2>2
    <3>2. w > 0
      BY <1>1, <2>2
    <3>3. Share(won[u], pool, w) \in Nat /\ Share(won[u], pool, w) * w <= won[u] * pool
      BY <1>1, <3>2, ShareRounds
    <3>4. won[u] * pool = pool * won[u]
      BY <1>1
    <3> QED  BY <3>1, <3>3, <3>4
  <2> QED  BY <2>1, <2>2
<1>4. pay \in [Addr -> Nat] /\ \A u \in Addr : pay[u] * w <= pool * won[u]
  BY <1>3
<1>5. CASE w > 0
  <2> HIDE DEF pay
  <2>1. Total(won) <= w
    BY <1>1
  <2>2. Total(pay) <= pool
    BY <1>1, <1>4, <1>5, <2>1, SharesWithinPool
  <2> QED  BY <1>3, <2>2 DEF pay, pool
<1>6. CASE w = 0
  <2>1. \A u \in Addr : pay[u] = 0
    BY <1>2, <1>6
  <2>2. Total(pay) = 0
    <3> HIDE DEF pay
    <3> QED  BY <1>4, <2>1, TotalZero
  <2> QED  BY <1>1, <1>3, <2>2 DEF pool
<1> QED  BY <1>1, <1>5, <1>6

\* Each market has sent at most what was staked in it.
LEMMA LeftIsNat ==
  BookTypeOK /\ WellFormed /\ TotalsMatchStakes /\ PaidByStakeOnly
    => \A i \in Id : Left(i) \in Nat
<1> SUFFICES ASSUME BookTypeOK, WellFormed, TotalsMatchStakes, PaidByStakeOnly,
                    NEW id \in Id
    PROVE  Left(id) \in Nat
  OBVIOUS
<1> DEFINE pay == [u \in Addr |-> Payout(id, u)]
           sent == received[id]
<1>1. /\ Pool(id) \in Nat /\ sent \in [Addr -> Nat] /\ Total(sent) \in Nat
  BY SumsAreNat
<1>2. CASE market[id].status # "Resolved"
  <2>1. \A u \in Addr : sent[u] = 0
    BY <1>2 DEF WellFormed, PaidByStakeOnly
  <2>2. Total(sent) = 0
    <3> HIDE DEF sent
    <3> QED  BY <1>1, <2>1, TotalZero
  <2> QED  BY <1>1, <2>2 DEF Left
<1>3. CASE market[id].status = "Resolved"
  <2>1. market[id].outcome \in Sides
    BY <1>3 DEF BookTypeOK, Market, WellFormed
  <2>2. (\A u \in Addr : Payout(id, u) \in Nat) /\ Total(pay) <= Pool(id)
    BY <2>1, PayoutsWithinPool
  <2>3. pay \in [Addr -> Nat] /\ \A u \in Addr : sent[u] <= pay[u]
    BY <2>2 DEF PaidByStakeOnly
  <2>4. Total(sent) <= Total(pay) /\ Total(pay) \in Nat
    <3> HIDE DEF pay, sent
    <3> QED  BY <1>1, <2>3, TotalMonotone, CoinsFinite
  <2> HIDE DEF pay
  <2> QED  BY <1>1, <2>2, <2>4 DEF Left
<1> QED  BY <1>2, <1>3

\* The markets that were created are those below nextMarketId.
LEMMA NextIsFree ==
  ASSUME BookInv, nextMarketId <= MaxMarkets
  PROVE  nextMarketId \in Id /\ ~Exists(nextMarketId) /\ market[nextMarketId] = Unset
<1>1. nextMarketId \in Id
  BY DEF BookInv, BookTypeOK, Id
<1>2. ~(nextMarketId < nextMarketId)
  BY DEF BookInv, BookTypeOK
<1> QED  BY <1>1, <1>2 DEF BookInv, WellFormed

-----------------------------------------------------------------------------
(* The invariant holds initially and is kept by every operation.           *)

LEMMA InitInv == ASSUME BookInit PROVE BookInv
<1>1. BookTypeOK
  <2>1. stack \in Seq(Addr) /\ Len(stack) <= MaxDepth
    <3>1. << >> \in Seq(Addr) /\ Len(<< >>) = 0
      BY EmptySeq
    <3> QED  BY <3>1 DEF BookInit
  <2>2. market \in [Id -> Market]
    BY DEF BookInit, Market, Unset
  <2> QED  BY <2>1, <2>2 DEF BookInit, BookTypeOK, FirstId
<1>2. WellFormed
  BY DEF BookInit, WellFormed, Exists, FirstId, Unset, Id
<1>3. \A id \in Id : /\ \A o \in Sides : /\ stake[id][o] \in [Addr -> Nat]
                                         /\ \A u \in Addr : stake[id][o][u] = 0
                     /\ received[id] \in [Addr -> Nat]
                     /\ \A u \in Addr : received[id][u] = 0
  BY DEF BookInit
<1>4. TotalsMatchStakes
  BY <1>3, TotalZero DEF BookInit, TotalsMatchStakes
<1>5. PaidByStakeOnly
  BY DEF BookInit, PaidByStakeOnly
<1>6. BookBalanced
  <2> DEFINE L == [id \in Id |-> Pool(id) - Total(received[id])]
  <2>1. \A id \in Id : Pool(id) = 0 /\ Total(received[id]) = 0
    <3>1. \A id \in Id : Pool(id) = 0
      BY DEF BookInit, Pool, Sides
    <3>2. \A id \in Id : Total(received[id]) = 0
      BY <1>3, TotalZero
    <3> QED  BY <3>1, <3>2
  <2>2. L \in [Id -> Nat] /\ \A id \in Id : L[id] = 0
    BY <2>1
  <2>3. Total(L) = 0
    <3> HIDE DEF L
    <3> QED  BY <2>2, TotalZero
  <2> QED  BY <2>3 DEF BookInit, BookBalanced
<1> QED  BY <1>1, <1>2, <1>4, <1>5, <1>6 DEF BookInv

\* A step that moves no money keeps the sums and the payouts, if it changes no
\* market that was resolved.
LEMMA SameMoney ==
  ASSUME BookInv, WellFormed', UNCHANGED money,
         \A id \in Id : market[id].status = "Resolved" => market'[id] = market[id]
  PROVE  TotalsMatchStakes' /\ PaidByStakeOnly' /\ BookBalanced'
<1>1. TotalsMatchStakes'
  BY DEF BookInv, TotalsMatchStakes, money
<1>2. PaidByStakeOnly'
  <2> SUFFICES ASSUME NEW id \in Id, NEW u \in Addr
      PROVE  received'[id][u] = IF claimed'[id][u] THEN Payout(id, u)' ELSE 0
    BY DEF PaidByStakeOnly
  <2>1. received[id][u] = IF claimed[id][u] THEN Payout(id, u) ELSE 0
    BY DEF BookInv, PaidByStakeOnly
  <2>2. CASE market[id].status = "Resolved"
    <3>1. Payout(id, u)' = Payout(id, u)
      BY <2>2 DEF Payout, Pool, money
    <3> QED  BY <2>1, <3>1 DEF money
  <2>3. CASE market[id].status # "Resolved"
    <3>1. ~claimed[id][u]
      BY <2>3 DEF BookInv, WellFormed
    <3> QED  BY <2>1, <3>1 DEF money
  <2> QED  BY <2>2, <2>3
<1>3. BookBalanced'
  BY DEF BookInv, BookBalanced, Pool, money
<1> QED  BY <1>1, <1>2, <1>3

LEMMA CreateInv ==
  ASSUME BookInv, NEW s \in Addr, NEW w \in Window,
         NEW called \in {<< >>, <<s>>}, Create(s, w[1], w[2], called)
  PROVE  BookInv'
<1> DEFINE n == nextMarketId
           new == [status |-> "Open", outcome |-> "Undecided",
                   closeTime |-> w[1], resolveTime |-> w[2], creator |-> s]
<1>1. n \in Id /\ ~Exists(n) /\ market[n] = Unset
  BY NextIsFree DEF Create
<1>2. w[1] \in Nat /\ w[2] \in Nat /\ w[1] < w[2]
  BY DEF Create
<1>3. new \in Market
  BY <1>2 DEF Market
<1>4. /\ market' = [market EXCEPT ![n] = new]
      /\ nextMarketId' = n + 1 /\ stack' = stack \o called
      /\ UNCHANGED <<now, money, resolver>>
  BY DEF Create
<1>5. /\ \A id \in Id \ {n} : market'[id] = market[id]
      /\ market'[n] = new
  BY <1>1, <1>4 DEF BookInv, BookTypeOK
<1>6. BookTypeOK'
  <2>1. stack' \in Seq(Addr) /\ Len(stack') <= MaxDepth
    <3>1. stack \in Seq(Addr)
      BY DEF BookInv, BookTypeOK
    <3>2. called \in Seq(Addr)
      <4>1. << >> \in Seq(Addr) /\ <<s>> \in Seq(Addr)
        OBVIOUS
      <4> QED  BY <4>1
    <3>3. Len(stack) + Len(called) <= MaxDepth
      BY DEF Create
    <3>4. stack \o called \in Seq(Addr)
          /\ Len(stack \o called) = Len(stack) + Len(called)
      BY <3>1, <3>2, ConcatProperties
    <3> QED  BY <1>4, <3>3, <3>4
  <2>2. nextMarketId' \in 1 .. MaxMarkets + 1
    BY <1>1, <1>4 DEF Id
  <2>3. market' \in [Id -> Market]
    BY <1>3, <1>4 DEF BookInv, BookTypeOK
  <2> QED  BY <1>4, <2>1, <2>2, <2>3 DEF BookInv, BookTypeOK, money
<1>7. WellFormed'
  <2>1. n \in Nat
    BY DEF BookInv, BookTypeOK
  <2>2. new.creator = s /\ s # NoAddr
    OBVIOUS
  <2>3. ASSUME NEW id \in Id
        PROVE  /\ Exists(id)' <=> id < nextMarketId'
               /\ ~Exists(id)' => market'[id] = Unset
               /\ Exists(id)' => market'[id].closeTime < market'[id].resolveTime
               /\ market'[id].outcome = "Undecided" <=> market'[id].status # "Resolved"
               /\ market'[id].status # "Resolved" => \A u \in Addr : ~claimed'[id][u]
    <3>1. CASE id = n
      BY <1>1, <1>2, <1>4, <1>5, <2>1, <2>2, <3>1
         DEF BookInv, WellFormed, Exists, Unset, money
    <3>2. CASE id # n
      <4>1. id \in Nat
        BY DEF Id
      <4>2. id < n + 1 <=> id < n
        BY <2>1, <3>2, <4>1
      <4> QED  BY <1>4, <1>5, <3>2, <4>2 DEF BookInv, WellFormed, Exists, money
    <3> QED  BY <3>1, <3>2
  <2> QED  BY <2>3 DEF WellFormed, Unset
<1>8. \A id \in Id : market[id].status = "Resolved" => market'[id] = market[id]
  BY <1>1, <1>5 DEF Unset
<1> QED  BY <1>4, <1>6, <1>7, <1>8, SameMoney DEF BookInv

LEMMA LockMarketInv ==
  ASSUME BookInv, NEW s \in Addr, NEW id \in Id, LockMarket(s, id)
  PROVE  BookInv'
<1>1. /\ market' = [market EXCEPT ![id] = [market[id] EXCEPT !.status = "Locked"]]
      /\ market[id].status = "Open"
      /\ UNCHANGED <<now, nextMarketId, money, resolver, stack>>
  BY DEF LockMarket, BookInv, BookTypeOK
<1>2. [market[id] EXCEPT !.status = "Locked"] \in Market
  <2>1. market[id] \in Market
    BY DEF BookInv, BookTypeOK
  <2> QED  BY <2>1 DEF Market
<1>3. BookTypeOK'
  BY <1>1, <1>2 DEF BookInv, BookTypeOK, money
<1>4. /\ \A i \in Id \ {id} : market'[i] = market[i]
      /\ market'[id] = [market[id] EXCEPT !.status = "Locked"]
      /\ market[id] \in Market
  BY <1>1 DEF BookInv, BookTypeOK
<1>5. /\ market'[id].status = "Locked" /\ market'[id].outcome = market[id].outcome
      /\ market'[id].creator = market[id].creator
      /\ market'[id].closeTime = market[id].closeTime
      /\ market'[id].resolveTime = market[id].resolveTime
  BY <1>4 DEF Market
<1>6. WellFormed'
  <2>1. Exists(id)
    BY DEF LockMarket
  <2> QED  BY <1>1, <1>4, <1>5, <2>1 DEF BookInv, WellFormed, Exists, money, Unset
<1>7. \A i \in Id : market[i].status = "Resolved" => market'[i] = market[i]
  BY <1>1, <1>4
<1> QED  BY <1>1, <1>3, <1>6, <1>7, SameMoney DEF BookInv

LEMMA ResolveInv ==
  ASSUME BookInv, NEW s \in Addr, NEW id \in Id, NEW o \in Sides, Resolve(s, id, o)
  PROVE  BookInv'
<1>1. /\ market' = [market EXCEPT ![id] =
                      [market[id] EXCEPT !.status = "Resolved", !.outcome = o]]
      /\ market[id].status # "Resolved" /\ Exists(id)
      /\ UNCHANGED <<now, nextMarketId, money, resolver, stack>>
  BY DEF Resolve, Resolvable, BookInv, BookTypeOK
<1>2. [market[id] EXCEPT !.status = "Resolved", !.outcome = o] \in Market
  <2>1. market[id] \in Market
    BY DEF BookInv, BookTypeOK
  <2> QED  BY <2>1 DEF Market
<1>3. BookTypeOK'
  BY <1>1, <1>2 DEF BookInv, BookTypeOK, money
<1>4. /\ \A i \in Id \ {id} : market'[i] = market[i]
      /\ market'[id] = [market[id] EXCEPT !.status = "Resolved", !.outcome = o]
      /\ market[id] \in Market
  BY <1>1 DEF BookInv, BookTypeOK
<1>5. /\ market'[id].status = "Resolved" /\ market'[id].outcome = o
      /\ market'[id].creator = market[id].creator
      /\ market'[id].closeTime = market[id].closeTime
      /\ market'[id].resolveTime = market[id].resolveTime
      /\ o # "Undecided"
  BY <1>4 DEF Market, Sides
<1>6. WellFormed'
  BY <1>1, <1>4, <1>5 DEF BookInv, WellFormed, Exists, money, Unset
<1>7. \A i \in Id : market[i].status = "Resolved" => market'[i] = market[i]
  BY <1>1, <1>4
<1> QED  BY <1>1, <1>3, <1>6, <1>7, SameMoney DEF BookInv

LEMMA OtherInv ==
  ASSUME BookInv,
         \/ Return
         \/ \E s \in Addr, a \in Appointable : SetResolver(s, a)
         \/ Tick
         \/ UNCHANGED bookVars
  PROVE  BookInv'
<1>1. UNCHANGED <<nextMarketId, market, money>>
  BY DEF Return, SetResolver, Tick, bookVars
<1>2. BookTypeOK'
  <2>1. now' \in 0 .. MaxTime /\ resolver' \in Addr
    BY DEF BookInv, BookTypeOK, Return, SetResolver, Tick, bookVars
  <2>2. stack' \in Seq(Addr) /\ Len(stack') <= MaxDepth
    <3>1. stack \in Seq(Addr) /\ Len(stack) <= MaxDepth /\ Len(stack) \in Nat
      BY LenProperties DEF BookInv, BookTypeOK
    <3>2. CASE Return
      <4>1. stack # << >> /\ stack' = SubSeq(stack, 1, Len(stack) - 1)
        BY <3>2 DEF Return
      <4>2. Len(stack) - 1 \in Nat
        BY <3>1, <4>1, EmptySeq
      <4>3. \A i \in 1 .. Len(stack) - 1 : stack[i] \in Addr
        BY <3>1, <4>2, ElementOfSeq
      <4>4. SubSeq(stack, 1, Len(stack) - 1) \in Seq(Addr)
            /\ Len(SubSeq(stack, 1, Len(stack) - 1)) = Len(stack) - 1
        <5> DEFINE k == Len(stack) - 1
        <5>0. k \in Nat
          BY <4>2
        <5>2. \A i \in 1 .. k : stack[i] \in Addr
          BY <4>3
        <5> HIDE DEF k
        <5>1. k \in Int /\ (IF 1 <= k THEN k - 1 + 1 ELSE 0) = k /\ 1 \in Int
          BY <5>0
        <5>3. SubSeq(stack, 1, k) \in Seq(Addr) /\ Len(SubSeq(stack, 1, k)) = k
          BY <5>1, <5>2, SubSeqProperties
        <5> QED  BY <5>3 DEF k
      <4> QED  BY <3>1, <4>1, <4>4
    <3>3. CASE UNCHANGED stack
      BY <3>1, <3>3
    <3> QED  BY <3>2, <3>3 DEF SetResolver, Tick, bookVars
  <2> QED  BY <1>1, <2>1, <2>2 DEF BookInv, BookTypeOK, money
<1>3. WellFormed'
  BY <1>1 DEF BookInv, WellFormed, Exists, money
<1> QED  BY <1>1, <1>2, <1>3, SameMoney DEF BookInv

LEMMA PlaceBetInv ==
  ASSUME BookInv, NEW s \in Addr, NEW id \in Id, NEW o \in Sides, NEW v \in Value,
         PlaceBet(s, id, o, v)
  PROVE  BookInv'
<1>1. v \in Nat /\ stake[id][o] \in [Addr -> Nat] /\ total[id][o] \in Nat
  BY SumsAreNat DEF BookInv
<1>2. /\ stake' = [stake EXCEPT ![id][o][s] = @ + v]
      /\ total' = [total EXCEPT ![id][o] = @ + v]
      /\ balance' = balance + v
      /\ market[id].status = "Open"
      /\ UNCHANGED <<now, nextMarketId, market, claimed, received, resolver, stack>>
  BY DEF PlaceBet, AddStake
<1>3. /\ stake' \in [Id -> [Sides -> [Addr -> Nat]]]
      /\ stake'[id][o][s] = stake[id][o][s] + v
      /\ \A u \in Addr \ {s} : stake'[id][o][u] = stake[id][o][u]
      /\ \A i \in Id, p \in Sides : i # id \/ p # o => stake'[i][p] = stake[i][p]
  <2>1. stake \in [Id -> [Sides -> [Addr -> Nat]]]
    BY DEF BookInv, BookTypeOK
  <2> QED  BY <1>1, <1>2, <2>1
<1>4. /\ total' \in [Id -> [Sides -> Nat]]
      /\ total'[id][o] = total[id][o] + v
      /\ \A i \in Id, p \in Sides : i # id \/ p # o => total'[i][p] = total[i][p]
  <2>1. total \in [Id -> [Sides -> Nat]]
    BY DEF BookInv, BookTypeOK
  <2> QED  BY <1>1, <1>2, <2>1
<1>5. BookTypeOK'
  <2>1. balance' \in Nat
    BY <1>1, <1>2 DEF BookInv, BookTypeOK
  <2> QED  BY <1>2, <1>3, <1>4, <2>1 DEF BookInv, BookTypeOK
<1>6. WellFormed'
  BY <1>2 DEF BookInv, WellFormed, Exists
<1>7. TotalsMatchStakes'
  <2> DEFINE f == stake[id][o]
             h == stake'[id][o]
  <2>1. /\ f \in [Addr -> Nat] /\ h \in [Addr -> Nat] /\ h[s] = f[s] + v
        /\ \A u \in Addr \ {s} : h[u] = f[u]
    BY <1>1, <1>3
  <2>2. Total(h) = Total(f) + v
    <3> HIDE DEF f, h
    <3> QED  BY <1>1, <2>1, TotalAdd
  <2>3. ASSUME NEW i \in Id, NEW p \in Sides
        PROVE  total'[i][p] = Total(stake'[i][p])
    <3>1. total[i][p] = Total(stake[i][p])
      BY DEF BookInv, TotalsMatchStakes
    <3>2. CASE i = id /\ p = o
      BY <1>4, <2>2, <3>1, <3>2
    <3>3. CASE ~(i = id /\ p = o)
      BY <1>3, <1>4, <3>1, <3>3
    <3> QED  BY <3>2, <3>3
  <2> QED  BY <2>3 DEF TotalsMatchStakes
<1>8. /\ \A i \in Id \ {id} : Pool(i)' = Pool(i)
      /\ Pool(id)' = Pool(id) + v /\ Pool(id) \in Nat
  <2>1. \A i \in Id : total[i]["Yes"] \in Nat /\ total[i]["No"] \in Nat
    BY SumsAreNat DEF BookInv, Sides
  <2>2. o = "Yes" \/ o = "No"
    BY DEF Sides
  <2> QED  BY <1>1, <1>4, <2>1, <2>2 DEF Pool, Sides
<1>9. PaidByStakeOnly'
  <2> SUFFICES ASSUME NEW i \in Id, NEW u \in Addr
      PROVE  received'[i][u] = IF claimed'[i][u] THEN Payout(i, u)' ELSE 0
    BY DEF PaidByStakeOnly
  <2>1. received[i][u] = IF claimed[i][u] THEN Payout(i, u) ELSE 0
    BY DEF BookInv, PaidByStakeOnly
  <2>2. CASE i = id
    <3>1. ~claimed[i][u]
      BY <1>2, <2>2 DEF BookInv, WellFormed
    <3> QED  BY <1>2, <2>1, <3>1
  <2>3. CASE i # id
    <3>1. CASE claimed[i][u]
      <4>1. market[i].outcome \in Sides
        BY <3>1 DEF BookInv, BookTypeOK, Market, WellFormed
      <4>2. Payout(i, u)' = Payout(i, u)
        BY <1>2, <1>3, <1>4, <1>8, <2>3, <4>1 DEF Payout
      <4> QED  BY <1>2, <2>1, <4>2
    <3>2. CASE ~claimed[i][u]
      BY <1>2, <2>1, <3>2
    <3> QED  BY <3>1, <3>2
  <2> QED  BY <2>2, <2>3
<1>10. BookBalanced'
  <2> DEFINE L == [i \in Id |-> Left(i)]
             M == [i \in Id |-> Left(i)']
  <2>1. \A i \in Id : Left(i) \in Nat /\ Left(i)' \in Nat
    <3>1. (\A i \in Id : Left(i) \in Nat)'
      BY <1>5, <1>6, <1>7, <1>9, LeftIsNat, PTL
    <3> QED  BY <3>1, LeftIsNat DEF BookInv
  <2>2. /\ \A i \in Id \ {id} : Left(i)' = Left(i)
        /\ Left(id)' = Left(id) + v
    <3>1. Total(received[id]) \in Nat
      BY SumsAreNat DEF BookInv
    <3> QED  BY <1>1, <1>2, <1>8, <3>1 DEF Left
  <2>3. /\ L \in [Id -> Nat] /\ M \in [Id -> Nat] /\ M[id] = L[id] + v
        /\ \A i \in Id \ {id} : M[i] = L[i]
    BY <2>1, <2>2
  <2>4. Total(M) = Total(L) + v
    <3> HIDE DEF L, M
    <3> QED  BY <1>1, <2>3, IdFinite, TotalAdd
  <2>5. balance = Total(L)
    BY DEF BookInv, BookBalanced, Left
  <2>6. balance' = Total(M)
    BY <1>2, <2>4, <2>5
  <2> QED  BY <2>6 DEF BookBalanced, Left
<1> QED  BY <1>5, <1>6, <1>7, <1>9, <1>10 DEF BookInv

\* Claims are not guarded, so s may be running inside a claim already; what
\* protects the pool is that its mark is set before it is called.
LEMMA ClaimPayoutInv ==
  ASSUME BookInv, NEW s \in Addr, NEW id \in Id, ClaimPayout(s, id)
  PROVE  BookInv'
<1> DEFINE p == Payout(id, s)
<1>1. market[id].status = "Resolved" /\ market[id].outcome \in Sides
      /\ ~claimed[id][s]
  BY DEF BookInv, BookTypeOK, Market, WellFormed, ClaimPayout, MayClaim
<1>2. p \in Nat
  BY <1>1, PayoutsWithinPool DEF BookInv
<1>3. /\ claimed' = [claimed EXCEPT ![id][s] = TRUE]
      /\ received' = [received EXCEPT ![id][s] = @ + p]
      /\ balance' = balance - p
      /\ p > 0 => p <= balance /\ Len(stack) < MaxDepth
      /\ stack' = IF p > 0 THEN Append(stack, s) ELSE stack
      /\ UNCHANGED <<now, nextMarketId, market, total, stake, resolver>>
  BY DEF ClaimPayout
<1> HIDE DEF p
<1>4. /\ claimed \in [Id -> [Addr -> BOOLEAN]]
      /\ received \in [Id -> [Addr -> Nat]] /\ balance \in Nat
  BY DEF BookInv, BookTypeOK
<1>5. /\ claimed' \in [Id -> [Addr -> BOOLEAN]]
      /\ received' \in [Id -> [Addr -> Nat]]
      /\ claimed'[id][s] /\ received'[id][s] = received[id][s] + p
      /\ \A i \in Id, u \in Addr : i # id \/ u # s =>
           claimed'[i][u] = claimed[i][u] /\ received'[i][u] = received[i][u]
      /\ \A i \in Id \ {id} : received'[i] = received[i]
  <2>1. /\ claimed' \in [Id -> [Addr -> BOOLEAN]] /\ claimed'[id][s]
        /\ \A i \in Id, u \in Addr : i # id \/ u # s => claimed'[i][u] = claimed[i][u]
    BY <1>3, <1>4
  <2>2. /\ received' \in [Id -> [Addr -> Nat]]
        /\ received'[id][s] = received[id][s] + p
        /\ \A i \in Id, u \in Addr :
             i # id \/ u # s => received'[i][u] = received[i][u]
        /\ \A i \in Id \ {id} : received'[i] = received[i]
    BY <1>2, <1>3, <1>4
  <2> QED  BY <2>1, <2>2
<1>6. BookTypeOK'
  <2>1. balance' \in Nat
    BY <1>2, <1>3, <1>4
  <2>2. stack' \in Seq(Addr) /\ Len(stack') <= MaxDepth
    <3>1. stack \in Seq(Addr) /\ Len(stack) <= MaxDepth /\ Len(stack) \in Nat
      BY LenProperties DEF BookInv, BookTypeOK
    <3>2. Append(stack, s) \in Seq(Addr) /\ Len(Append(stack, s)) = Len(stack) + 1
      BY <3>1, AppendProperties
    <3> QED  BY <1>3, <3>1, <3>2
  <2> QED  BY <1>3, <1>5, <2>1, <2>2 DEF BookInv, BookTypeOK
<1>7. WellFormed'
  BY <1>1, <1>3, <1>5 DEF BookInv, WellFormed, Exists
<1>8. TotalsMatchStakes'
  BY <1>3 DEF BookInv, TotalsMatchStakes
<1>9. \A i \in Id, u \in Addr : Payout(i, u)' = Payout(i, u)
  BY <1>3 DEF Payout, Pool
<1>10. PaidByStakeOnly'
  <2>1. received[id][s] = 0
    BY <1>1 DEF BookInv, PaidByStakeOnly
  <2>2. received'[id][s] = Payout(id, s)'
    BY <1>2, <1>5, <1>9, <2>1 DEF p
  <2>3. ASSUME NEW i \in Id, NEW u \in Addr
        PROVE  received'[i][u] = IF claimed'[i][u] THEN Payout(i, u)' ELSE 0
    <3>1. CASE i = id /\ u = s
      BY <1>5, <2>2, <3>1
    <3>2. CASE i # id \/ u # s
      BY <1>5, <1>9, <3>2 DEF BookInv, PaidByStakeOnly
    <3> QED  BY <3>1, <3>2
  <2> QED  BY <2>3 DEF PaidByStakeOnly
<1>11. BookBalanced'
  <2> DEFINE L == [i \in Id |-> Left(i)]
             M == [i \in Id |-> Left(i)']
  <2>1. \A i \in Id : Left(i) \in Nat /\ Left(i)' \in Nat
    <3>1. (\A i \in Id : Left(i) \in Nat)'
      BY <1>6, <1>7, <1>8, <1>10, LeftIsNat, PTL
    <3> QED  BY <3>1, LeftIsNat DEF BookInv
  <2>2. Total(received'[id]) = Total(received[id]) + p
    <3> DEFINE f == received[id]
               h == received'[id]
    <3>1. /\ f \in [Addr -> Nat] /\ h \in [Addr -> Nat] /\ h[s] = f[s] + p
          /\ \A u \in Addr \ {s} : h[u] = f[u]
      BY <1>4, <1>5
    <3> HIDE DEF f, h
    <3>2. Total(h) = Total(f) + p
      BY <1>2, <3>1, TotalAdd
    <3> QED  BY <3>2 DEF f, h
  <2>3. /\ \A i \in Id \ {id} : Left(i)' = Left(i)
        /\ Left(id) = Left(id)' + p
    <3>1. Total(received[id]) \in Nat /\ Pool(id) \in Nat
      BY SumsAreNat DEF BookInv
    <3>2. \A i \in Id : Pool(i)' = Pool(i)
      BY <1>3 DEF Pool
    <3> QED  BY <1>2, <1>5, <2>2, <3>1, <3>2 DEF Left
  <2>4. /\ L \in [Id -> Nat] /\ M \in [Id -> Nat] /\ L[id] = M[id] + p
        /\ \A i \in Id \ {id} : L[i] = M[i]
    BY <2>1, <2>3
  <2>5. Total(L) = Total(M) + p /\ Total(M) \in Nat
    <3> HIDE DEF L, M
    <3> QED  BY <1>2, <2>4, IdFinite, TotalAdd, CoinsFinite
  <2>6. balance = Total(L)
    BY DEF BookInv, BookBalanced, Left
  <2>7. balance' = Total(M)
    <3> HIDE DEF L, M
    <3> QED  BY <1>2, <1>3, <2>5, <2>6
  <2> QED  BY <2>7 DEF BookBalanced, Left
<1> QED  BY <1>6, <1>7, <1>8, <1>10, <1>11 DEF BookInv

LEMMA NextInv == BookInv /\ [BookNext]_bookVars => BookInv'
  BY CreateInv, PlaceBetInv, LockMarketInv, ResolveInv, ClaimPayoutInv, OtherInv
     DEF BookNext

LEMMA Invariance == BookSpec => []BookInv
<1>1. BookInit => BookInv
  BY InitInv
<1> QED  BY <1>1, NextInv, PTL DEF BookSpec

\* If u were paid now its market would still have sent at most its pool, so
\* its part of the balance is at least the payout.
LEMMA InvCoversClaims == BookInv => BookCoversClaims
<1> SUFFICES ASSUME BookInv, NEW id \in Id, NEW u \in Addr, MayClaim(u, id)
    PROVE  Payout(id, u) <= balance
  BY DEF BookCoversClaims
<1> DEFINE sent == received[id]
           pay == [x \in Addr |-> Payout(id, x)]
           sent2 == [sent EXCEPT ![u] = Payout(id, u)]
           L == [i \in Id |-> Left(i)]
<1>1. market[id].status = "Resolved" /\ market[id].outcome \in Sides /\ ~claimed[id][u]
  BY DEF BookInv, BookTypeOK, Market, WellFormed, MayClaim
<1>2. (\A x \in Addr : Payout(id, x) \in Nat) /\ Total(pay) <= Pool(id)
  BY <1>1, PayoutsWithinPool DEF BookInv
<1>3. pay \in [Addr -> Nat] /\ \A x \in Addr : pay[x] = Payout(id, x)
  BY <1>2
<1>4. Pool(id) \in Nat /\ sent \in [Addr -> Nat] /\ Total(sent) \in Nat
  BY SumsAreNat DEF BookInv
<1>5. \A x \in Addr : sent[x] = IF claimed[id][x] THEN pay[x] ELSE 0
  BY <1>3 DEF BookInv, PaidByStakeOnly
<1>6. /\ sent2 \in [Addr -> Nat] /\ sent2[u] = sent[u] + pay[u]
      /\ \A x \in Addr \ {u} : sent2[x] = sent[x]
      /\ \A x \in Addr : sent2[x] <= pay[x]
  <2> HIDE DEF sent, pay
  <2> QED  BY <1>1, <1>3, <1>4, <1>5
<1>7. /\ L \in [Id -> Nat] /\ L[id] = Pool(id) - Total(sent) /\ balance = Total(L)
  BY LeftIsNat DEF BookInv, Left, BookBalanced
<1> HIDE DEF sent, pay, sent2, L
<1>8. Total(sent2) <= Total(pay) /\ Total(sent2) \in Nat /\ Total(pay) \in Nat
  BY <1>3, <1>6, TotalMonotone, CoinsFinite
<1>9. pay[u] \in Nat
  BY <1>3
<1>10. Total(sent2) = Total(sent) + pay[u]
  BY <1>4, <1>6, <1>9, TotalAdd
<1>11. Total(pay) <= Pool(id)
  BY <1>2 DEF pay
<1>12. L[id] <= Total(L) /\ Total(L) \in Nat
  BY <1>7, IdFinite, EntryBelowTotal, CoinsFinite
<1> QED  BY <1>3, <1>4, <1>7, <1>8, <1>9, <1>10, <1>11, <1>12

-----------------------------------------------------------------------------
(* Each market keeps the promise of ParimutuelPool.                        *)

\* The pool of the promise is counted from the stakes, that of the contract
\* from its totals: where they agree the payouts do.
LEMMA SamePayout ==
  ASSUME BookTypeOK, TotalsMatchStakes, NEW id \in Id, NEW u \in Addr,
         market[id].outcome \in Sides
  PROVE  Promise(id)!Payout(u) = Payout(id, u)
<1> DEFINE won == stake[id][market[id].outcome]
<1>1. \A f : Promise(id)!Total(f) = Total(f)
  BY DEF Promise!Total, Total, Promise!Coins, Coins, Promise!Cardinality, Cardinality,
         Promise!IsFiniteSet, IsFiniteSet
<1>2. \A a, p, w : Promise(id)!Share(a, p, w) = Share(a, p, w)
  BY DEF Promise!Share, Share
<1>3. Promise(id)!Pool = Pool(id)
  BY <1>1 DEF Promise!Pool, Pool, TotalsMatchStakes, Sides
<1>4. Promise(id)!Payout(u) = ShareOf(won, u, Pool(id))
  BY <1>1, <1>2, <1>3 DEF Promise!Payout, Promise!ShareOf, ShareOf
<1>5. won \in [Addr -> Nat] /\ total[id][market[id].outcome] = Total(won)
  BY SumsAreNat DEF TotalsMatchStakes
<1>6. won[u] # 0 => Total(won) # 0
  <2> HIDE DEF won
  <2>1. won[u] <= Total(won) /\ Total(won) \in Nat /\ won[u] \in Nat
    BY <1>5, EntryBelowTotal, CoinsFinite
  <2> QED  BY <2>1
<1>7. ShareOf(won, u, Pool(id)) = Payout(id, u)
  BY <1>5, <1>6 DEF Payout, ShareOf
<1> QED  BY <1>4, <1>7

Kept(id) == [Promise(id)!Next]_(Promise(id)!vars)

\* A step that leaves stakes, claims, payments and outcomes alone may only
\* close the betting.
LEMMA QuietStep ==
  ASSUME UNCHANGED <<stake, claimed, received>>, NEW id \in Id,
         market'[id].outcome = market[id].outcome,
         \/ Phase(id)' = Phase(id)
         \/ Phase(id) = "Betting" /\ Phase(id)' = "Closed"
  PROVE  Kept(id)
  BY DEF Kept, Promise!Next, Promise!Close, Promise!vars

LEMMA CreateKept ==
  ASSUME BookInv, NEW s \in Addr, NEW w \in Window,
         NEW called \in {<< >>, <<s>>}, Create(s, w[1], w[2], called), NEW id \in Id
  PROVE  Kept(id)
<1> DEFINE n == nextMarketId
           new == [status |-> "Open", outcome |-> "Undecided",
                   closeTime |-> w[1], resolveTime |-> w[2], creator |-> s]
<1>1. n \in Id /\ market[n] = Unset
  BY NextIsFree DEF Create
<1>2. market' = [market EXCEPT ![n] = new]
      /\ UNCHANGED <<now, stake, claimed, received>>
  BY DEF Create, money
<1>3. w[1] \in Nat /\ now < w[1] /\ now \in Nat
  BY DEF Create, BookInv, BookTypeOK
<1>4. CASE id = n
  <2>1. market'[id] = new
    BY <1>1, <1>2, <1>4 DEF BookInv, BookTypeOK
  <2>2. Phase(id)' = "Betting"
    BY <1>2, <1>3, <2>1 DEF Phase
  <2>3. Phase(id) = "Betting" /\ market[id].outcome = "Undecided"
    BY <1>1, <1>4 DEF Phase, Unset, Exists
  <2>4. market'[id].outcome = "Undecided"
    BY <2>1
  <2> QED  BY <1>2, <2>2, <2>3, <2>4, QuietStep
<1>5. CASE id # n
  <2>1. market'[id] = market[id]
    BY <1>2, <1>5 DEF BookInv, BookTypeOK
  <2>2. Phase(id)' = Phase(id)
    BY <1>2, <2>1 DEF Phase, Exists
  <2> QED  BY <1>2, <2>1, <2>2, QuietStep
<1> QED  BY <1>4, <1>5

LEMMA PlaceBetKept ==
  ASSUME BookInv, NEW s \in Addr, NEW m \in Id, NEW o \in Sides, NEW v \in Value,
         PlaceBet(s, m, o, v), NEW id \in Id
  PROVE  Kept(id)
<1>1. /\ stake' = [stake EXCEPT ![m][o][s] = @ + v]
      /\ stake[m][o][s] + v <= MaxStake
      /\ market[m].status = "Open" /\ now < market[m].closeTime
      /\ UNCHANGED <<now, market, claimed, received>>
  BY DEF PlaceBet, AddStake
<1>2. Phase(id)' = Phase(id)
  BY <1>1 DEF Phase, Exists
<1>3. stake \in [Id -> [Sides -> [Addr -> Nat]]]
  BY DEF BookInv, BookTypeOK
<1>4. CASE id # m
  <2>1. stake'[id] = stake[id]
    BY <1>1, <1>3, <1>4
  <2> QED  BY <1>1, <1>2, <2>1 DEF Kept, Promise!vars
<1>5. CASE id = m
  <2>1. Phase(id) = "Betting"
    <3>1. now \in Nat /\ market[id].closeTime \in Nat
      BY DEF BookInv, BookTypeOK, Market
    <3> QED  BY <1>1, <1>5, <3>1 DEF Phase
  <2>2. stake'[id] = [stake[id] EXCEPT ![o][s] = @ + v]
    BY <1>1, <1>3, <1>5
  <2>3. Promise(id)!Bet(s, o, v)
    BY <1>1, <1>2, <1>5, <2>1, <2>2 DEF Promise!Bet
  <2>4. Promise(id)!Sides = Sides
    BY DEF Promise!Sides, Sides
  <2> QED  BY <2>3, <2>4 DEF Kept, Promise!Next
<1> QED  BY <1>4, <1>5

LEMMA LockMarketKept ==
  ASSUME BookInv, NEW s \in Addr, NEW m \in Id, LockMarket(s, m), NEW id \in Id
  PROVE  Kept(id)
<1>1. /\ market[m].status = "Open" /\ market'[m].status = "Locked"
      /\ market'[m].outcome = market[m].outcome
      /\ market'[m].creator = market[m].creator
      /\ \A i \in Id \ {m} : market'[i] = market[i]
      /\ Exists(m) /\ UNCHANGED <<now, stake, claimed, received>>
  BY DEF BookInv, BookTypeOK, Market, LockMarket, money
<1>2. CASE id = m
  <2>1. Phase(id)' = "Closed"
    BY <1>1, <1>2 DEF Phase, Exists
  <2>2. Phase(id) \in {"Betting", "Closed"}
    BY <1>1, <1>2 DEF Phase
  <2> QED  BY <1>1, <1>2, <2>1, <2>2, QuietStep
<1>3. CASE id # m
  <2>1. Phase(id)' = Phase(id)
    BY <1>1, <1>3 DEF Phase, Exists
  <2> QED  BY <1>1, <1>3, <2>1, QuietStep
<1> QED  BY <1>2, <1>3

\* closeTime < resolveTime: when a market may be resolved betting is over.
LEMMA ResolveKept ==
  ASSUME BookInv, NEW s \in Addr, NEW m \in Id, NEW o \in Sides,
         Resolve(s, m, o), NEW id \in Id
  PROVE  Kept(id)
<1>1. /\ market[m].status # "Resolved" /\ market'[m].status = "Resolved"
      /\ market'[m].outcome = o
      /\ \A i \in Id \ {m} : market'[i] = market[i]
      /\ Exists(m) /\ now >= market[m].resolveTime
      /\ UNCHANGED <<now, stake, claimed, received>>
  BY DEF BookInv, BookTypeOK, Market, Resolve, Resolvable, money
<1>2. CASE id = m
  <2>1. now >= market[id].closeTime
    <3>1. /\ now \in Nat /\ market[id].closeTime \in Nat
          /\ market[id].resolveTime \in Nat
          /\ market[id].closeTime < market[id].resolveTime
      BY <1>1, <1>2 DEF BookInv, BookTypeOK, Market, WellFormed
    <3> QED  BY <1>1, <1>2, <3>1
  <2>2. Phase(id) = "Closed" /\ Phase(id)' = "Settled"
    BY <1>1, <1>2, <2>1 DEF Phase
  <2>3. Promise(id)!Settle(o)
    BY <1>1, <1>2, <2>2 DEF Promise!Settle
  <2>4. Promise(id)!Sides = Sides
    BY DEF Promise!Sides, Sides
  <2> QED  BY <2>3, <2>4 DEF Kept, Promise!Next
<1>3. CASE id # m
  <2>1. Phase(id)' = Phase(id)
    BY <1>1, <1>3 DEF Phase, Exists
  <2> QED  BY <1>1, <1>3, <2>1, QuietStep
<1> QED  BY <1>2, <1>3

LEMMA ClaimPayoutKept ==
  ASSUME BookInv, NEW s \in Addr, NEW m \in Id, ClaimPayout(s, m), NEW id \in Id
  PROVE  Kept(id)
<1>1. Phase(id)' = Phase(id) /\ UNCHANGED <<market, stake>>
  BY DEF ClaimPayout, Phase, Exists
<1>2. /\ claimed' = [claimed EXCEPT ![m][s] = TRUE]
      /\ received' = [received EXCEPT ![m][s] = @ + Payout(m, s)]
      /\ claimed \in [Id -> [Addr -> BOOLEAN]] /\ received \in [Id -> [Addr -> Nat]]
  BY DEF ClaimPayout, BookInv, BookTypeOK
<1>3. CASE id # m
  <2>1. claimed'[id] = claimed[id] /\ received'[id] = received[id]
    BY <1>2, <1>3
  <2> QED  BY <1>1, <2>1 DEF Kept, Promise!vars
<1>4. CASE id = m
  <2>1. /\ market[id].status = "Resolved" /\ market[id].outcome \in Sides
        /\ ~claimed[id][s]
    BY <1>4 DEF BookInv, BookTypeOK, Market, WellFormed, ClaimPayout, MayClaim
  <2>2. Phase(id) = "Settled"
    BY <2>1 DEF Phase
  <2>3. Promise(id)!Payout(s) = Payout(id, s)
    BY <2>1, SamePayout DEF BookInv
  <2>4. /\ claimed'[id] = [claimed[id] EXCEPT ![s] = TRUE]
        /\ received'[id] = [received[id] EXCEPT ![s] = @ + Payout(id, s)]
    BY <1>2, <1>4
  <2>5. Promise(id)!Pay(s)
    BY <1>1, <2>1, <2>2, <2>3, <2>4 DEF Promise!Pay
  <2> QED  BY <2>5 DEF Kept, Promise!Next
<1> QED  BY <1>3, <1>4

\* Time only moves forward, so only closeTime can be passed.
LEMMA OtherKept ==
  ASSUME BookInv,
         \/ Return
         \/ \E s \in Addr, a \in Appointable : SetResolver(s, a)
         \/ Tick
         \/ UNCHANGED bookVars,
         NEW id \in Id
  PROVE  Kept(id)
<1>1. /\ UNCHANGED <<market, stake, claimed, received>>
      /\ now \in Nat /\ now' \in {now, now + 1} /\ market[id].closeTime \in Nat
  BY DEF BookInv, BookTypeOK, Market, Return, SetResolver, Tick, bookVars, money
<1>2. \/ Phase(id)' = Phase(id)
      \/ Phase(id) = "Betting" /\ Phase(id)' = "Closed"
  BY <1>1 DEF Phase, Exists
<1> QED  BY <1>1, <1>2, QuietStep

LEMMA StepKept == BookInv /\ [BookNext]_bookVars => \A id \in Id : Kept(id)
  BY CreateKept, PlaceBetKept, LockMarketKept, ResolveKept, ClaimPayoutKept, OtherKept
     DEF BookNext

LEMMA InitKept == BookInit => \A id \in Id : Promise(id)!Init
<1> SUFFICES ASSUME BookInit, NEW id \in Id PROVE Promise(id)!Init
  OBVIOUS
<1>1. Phase(id) = "Betting"
  BY DEF BookInit, Phase, Exists, Unset
<1>2. Promise(id)!Sides = Sides
  BY DEF Promise!Sides, Sides
<1> QED  BY <1>1, <1>2 DEF BookInit, Promise!Init, Unset

-----------------------------------------------------------------------------
(* Both contracts implement the book.                                      *)

\* Whatever ConditionalMarket does to its book is something BettingBook allows:
\* the conditions only restrict which outcome a resolution may give.
THEOREM ConditionalIsBook == ConditionalSpec => BookSpec
<1>1. ConditionalInit => BookInit
  BY DEF ConditionalInit
<1>2. [ConditionalNext]_conditionalVars => [BookNext]_bookVars
  <2> SUFFICES ASSUME [ConditionalNext]_conditionalVars PROVE [BookNext]_bookVars
    OBVIOUS
  <2>1. ASSUME NEW s \in Addr, NEW w \in Window, NEW c \in Conditions,
               CreateConditionalMarket(s, w[1], w[2], c)
        PROVE  BookNext
    BY <2>1 DEF CreateConditionalMarket, BookNext
  <2>2. ASSUME NEW s \in Addr, NEW id \in Id, NEW o \in Sides, ResolveMarket(s, id, o)
        PROVE  BookNext
    BY <2>2 DEF ResolveMarket, BookNext
  <2>3. ASSUME NEW b \in Base, BaseStep(b) PROVE UNCHANGED bookVars
    BY <2>3 DEF BaseStep
  <2>4. ASSUME UNCHANGED conditionalVars PROVE UNCHANGED bookVars
    BY <2>4 DEF conditionalVars
  <2> QED  BY <2>1, <2>2, <2>3, <2>4 DEF ConditionalNext, BookNext
<1> QED  BY <1>1, <1>2, PTL DEF ConditionalSpec, BookSpec

\* Whatever TokenizedMarket does to its book is something BettingBook allows:
\* a token moves no money.
THEOREM TokenizedIsBook == TokenizedSpec => BookSpec
<1>1. TokenizedInit => BookInit
  BY DEF TokenizedInit
<1>2. [TokenizedNext]_tokenizedVars => [BookNext]_bookVars
  <2> SUFFICES ASSUME [TokenizedNext]_tokenizedVars PROVE [BookNext]_bookVars
    OBVIOUS
  <2>1. ASSUME NEW s \in Addr, NEW w \in Window, CreateMarket(s, w[1], w[2])
        PROVE  BookNext
    <3>1. PICK called \in {<< >>, <<s>>} : Create(s, w[1], w[2], called)
      BY <2>1 DEF CreateMarket
    <3> QED  BY <3>1 DEF BookNext
  <2>2. ASSUME NEW s \in Addr, NEW id \in Id, NEW o \in Sides,
               ResolveTokenizedMarket(s, id, o)
        PROVE  BookNext
    BY <2>2 DEF ResolveTokenizedMarket, BookNext
  <2>3. ASSUME NEW s \in Addr, NEW id \in Id,
               LockTokenizedMarket(s, id) \/ ClaimTokenizedPayout(s, id)
        PROVE  BookNext
    BY <2>3 DEF LockTokenizedMarket, ClaimTokenizedPayout, BookNext
  <2>4. ASSUME NEW s \in Addr, NEW id \in Id, NEW o \in Sides, NEW v \in Value,
               PlaceTokenizedBet(s, id, o, v)
        PROVE  BookNext
    BY <2>4 DEF PlaceTokenizedBet, BookNext
  <2>5. ASSUME NEW s \in Addr, NEW to \in Addr, NEW id \in Id, TransferToken(s, id, to)
        PROVE  UNCHANGED bookVars
    BY <2>5 DEF TransferToken
  <2>6. ASSUME UNCHANGED tokenizedVars PROVE UNCHANGED bookVars
    BY <2>6 DEF tokenizedVars
  <2> QED  BY <2>1, <2>2, <2>3, <2>4, <2>5, <2>6 DEF TokenizedNext, BookNext
<1> QED  BY <1>1, <1>2, PTL DEF TokenizedSpec, BookSpec

-----------------------------------------------------------------------------
\* However claims are nested, the ether of the contract is exactly what is left
\* of each market's pool.
THEOREM BalanceCorrect == BookSpec => []BookBalanced
<1>1. BookInv => BookBalanced
  BY DEF BookInv
<1> QED  BY <1>1, Invariance, PTL

\* Each account has exactly the share that the totals give its stake, once it
\* has claimed, and nothing before: nested claims and tokens change nothing.
THEOREM PaidByStake == BookSpec => []PaidByStakeOnly
<1>1. BookInv => PaidByStakeOnly
  BY DEF BookInv
<1> QED  BY <1>1, Invariance, PTL

\* Whoever claims next, also from inside a claim, can be paid.
THEOREM ClaimsCovered == BookSpec => []BookCoversClaims
  BY Invariance, InvCoversClaims, PTL

\* The unguarded book implements ParimutuelPool, once for each market id.
THEOREM Refinement == BookSpec => BookKeepsPromise
<1>1. BookInit => \A id \in Id : Promise(id)!Init
  BY InitKept
<1>2. BookInv /\ [BookNext]_bookVars
        => [\A id \in Id : [Promise(id)!Next]_(Promise(id)!vars)]_bookVars
  BY StepKept DEF Kept
<1> QED  BY <1>1, <1>2, Invariance, PTL DEF BookSpec, BookKeepsPromise

-----------------------------------------------------------------------------
(* The conjunction of the conditions.                                      *)

\* Every condition that was accepted names a base market and an outcome that it
\* may have.
ConditionsSound ==
  \A id \in Id : \A i \in DOMAIN conditions[id] :
    conditions[id][i].base \in Base /\ conditions[id][i].expected \in Sides

\* A conditional market was settled on base outcomes that are final: "No" on one
\* that is the opposite of what was expected, not merely different from it.
SettledForGood ==
  \A id \in Id :
    market[id].status = "Resolved" =>
      \/ /\ market[id].outcome = "Yes"
         /\ \A i \in DOMAIN conditions[id] :
              base[conditions[id][i].base] = conditions[id][i].expected
      \/ /\ market[id].outcome = "No"
         /\ \E i \in DOMAIN conditions[id] :
              base[conditions[id][i].base] = Other(conditions[id][i].expected)

ConditionalInv == /\ BookInv
                  /\ ConditionalTypeOK
                  /\ ConditionsSound
                  /\ SettledForGood

LEMMA ConditionalInitInv == ASSUME ConditionalInit PROVE ConditionalInv
<1>1. BookInv
  BY InitInv DEF ConditionalInit
<1>2. \A id \in Id : DOMAIN conditions[id] = {} /\ market[id].status # "Resolved"
  <2>1. DOMAIN << >> = {}
    OBVIOUS
  <2>2. \A id \in Id : conditions[id] = << >>
    BY DEF ConditionalInit
  <2>3. \A id \in Id : market[id].status = "Open"
    BY DEF ConditionalInit, BookInit, Unset
  <2> QED  BY <2>1, <2>2, <2>3
<1>3. ConditionalTypeOK
  BY <1>1 DEF BookInv, ConditionalTypeOK, ConditionalInit
<1>4. ConditionsSound /\ SettledForGood
  BY <1>2 DEF ConditionsSound, SettledForGood
<1> QED  BY <1>1, <1>3, <1>4 DEF ConditionalInv

LEMMA BookStepInv ==
  ASSUME BookInv, [ConditionalNext]_conditionalVars
  PROVE  BookInv'
<1>1. [BookNext]_bookVars
  BY DEF ConditionalNext, CreateConditionalMarket, ResolveMarket, BaseStep, BookNext,
         conditionalVars
<1> QED  BY <1>1, NextInv

LEMMA CreateConditionalInv ==
  ASSUME ConditionalInv, BookInv', NEW s \in Addr, NEW w \in Window,
         NEW c \in Conditions, CreateConditionalMarket(s, w[1], w[2], c)
  PROVE  ConditionalInv'
<1> DEFINE n == nextMarketId
<1>1. /\ conditions' = [conditions EXCEPT ![n] = c] /\ base' = base
      /\ \A i \in DOMAIN c : c[i].expected \in Sides
      /\ Create(s, w[1], w[2], << >>)
  BY DEF CreateConditionalMarket
<1>2. n \in Id /\ market[n] = Unset
  BY <1>1, NextIsFree DEF Create, ConditionalInv
<1>3. /\ \A id \in Id \ {n} : market'[id] = market[id] /\ conditions'[id] = conditions[id]
      /\ market'[n].status = "Open" /\ conditions'[n] = c
  BY <1>1, <1>2 DEF Create, ConditionalInv, BookInv, BookTypeOK, ConditionalTypeOK
<1>4. ConditionalTypeOK'
  BY <1>1 DEF ConditionalInv, ConditionalTypeOK, BookInv
<1>5. ConditionsSound'
  <2>1. \A i \in DOMAIN c : c[i].base \in Base
    <3> DEFINE C == [base : Base, expected : Sides \cup {"Undecided"}]
    <3>1. c \in Seq(C)
      BY ConditionsOnBase
    <3>2. \A i \in DOMAIN c : c[i] \in C
      <4> HIDE DEF C
      <4>1. DOMAIN c = 1 .. Len(c)
        BY <3>1, LenProperties
      <4> QED  BY <3>1, <4>1, ElementOfSeq
    <3> QED  BY <3>2
  <2> QED  BY <1>1, <1>3, <2>1 DEF ConditionalInv, ConditionsSound
<1>6. SettledForGood'
  BY <1>1, <1>3 DEF ConditionalInv, SettledForGood
<1> QED  BY <1>4, <1>5, <1>6 DEF ConditionalInv

LEMMA ResolveConditionalInv ==
  ASSUME ConditionalInv, BookInv', NEW s \in Addr, NEW id \in Id, NEW o \in Sides,
         ResolveMarket(s, id, o)
  PROVE  ConditionalInv'
<1>1. UNCHANGED <<base, conditions>> /\ OutcomeOf(conditions[id], o)
  BY DEF ResolveMarket
<1>2. /\ \A i \in Id \ {id} : market'[i] = market[i]
      /\ market'[id].status = "Resolved" /\ market'[id].outcome = o
  BY DEF ResolveMarket, Resolve, ConditionalInv, BookInv, BookTypeOK, Market
<1>3. ConditionalTypeOK'
  BY <1>1 DEF ConditionalInv, ConditionalTypeOK, BookInv
<1>4. ConditionsSound'
  BY <1>1 DEF ConditionalInv, ConditionsSound
<1>5. SettledForGood'
  <2>1. CASE o = "Yes"
    BY <1>1, <1>2, <2>1 DEF ConditionalInv, SettledForGood, OutcomeOf
  <2>2. CASE o = "No"
    BY <1>1, <1>2, <2>2 DEF ConditionalInv, SettledForGood, OutcomeOf
  <2> QED  BY <2>1, <2>2 DEF Sides
<1> QED  BY <1>3, <1>4, <1>5 DEF ConditionalInv

\* A base market that is resolved stays as it is, so no settled outcome is
\* contradicted by one that is resolved later.
LEMMA BaseStepInv ==
  ASSUME ConditionalInv, BookInv', NEW b \in Base, BaseStep(b)
  PROVE  ConditionalInv'
<1>1. UNCHANGED <<bookVars, conditions>>
  BY DEF BaseStep
<1>2. base \in [Base -> {"Missing", "Open"} \cup Sides]
  BY DEF ConditionalInv, ConditionalTypeOK
<1>3. base' \in [Base -> {"Missing", "Open"} \cup Sides]
      /\ \A c \in Base : base[c] \in Sides => base'[c] = base[c]
  BY <1>2 DEF BaseStep, Sides
<1>4. ConditionalTypeOK'
  BY <1>1, <1>3 DEF ConditionalInv, ConditionalTypeOK, BookInv
<1>5. ConditionsSound'
  BY <1>1 DEF ConditionalInv, ConditionsSound
<1>6. SettledForGood'
  <2> SUFFICES ASSUME NEW id \in Id, market[id].status = "Resolved"
      PROVE  \/ /\ market[id].outcome = "Yes"
                /\ \A i \in DOMAIN conditions[id] :
                     base'[conditions[id][i].base] = conditions[id][i].expected
             \/ /\ market[id].outcome = "No"
                /\ \E i \in DOMAIN conditions[id] :
                     base'[conditions[id][i].base] = Other(conditions[id][i].expected)
    BY <1>1 DEF SettledForGood, bookVars
  <2>1. \A i \in DOMAIN conditions[id] : /\ conditions[id][i].base \in Base
                                         /\ conditions[id][i].expected \in Sides
    BY DEF ConditionalInv, ConditionsSound
  <2>2. \A x : Other(x) \in Sides
    BY DEF Other, Sides
  <2>3. \A i \in DOMAIN conditions[id] :
          /\ base[conditions[id][i].base] = conditions[id][i].expected
               => base'[conditions[id][i].base] = conditions[id][i].expected
          /\ base[conditions[id][i].base] = Other(conditions[id][i].expected)
               => base'[conditions[id][i].base] = Other(conditions[id][i].expected)
    BY <1>3, <2>1, <2>2
  <2> QED  BY <2>3 DEF ConditionalInv, SettledForGood
<1> QED  BY <1>4, <1>5, <1>6 DEF ConditionalInv

\* The operations of the book change no outcome that is set.
LEMMA RestConditionalInv ==
  ASSUME ConditionalInv, BookInv', UNCHANGED <<base, conditions>>,
         \/ \E s \in Addr, id \in Id, o \in Sides, v \in Value : PlaceBet(s, id, o, v)
         \/ \E s \in Addr, id \in Id : LockMarket(s, id) \/ ClaimPayout(s, id)
         \/ Return \/ (\E s \in Addr, a \in Appointable : SetResolver(s, a)) \/ Tick
         \/ UNCHANGED bookVars
  PROVE  ConditionalInv'
<1>1. \A i \in Id : market'[i].status = "Resolved" => market'[i] = market[i]
  <2>1. CASE \E s \in Addr, id \in Id : LockMarket(s, id)
    <3> PICK s \in Addr, id \in Id : LockMarket(s, id)
      BY <2>1
    <3>1. /\ \A i \in Id \ {id} : market'[i] = market[i]
          /\ market'[id].status = "Locked"
      BY DEF LockMarket, ConditionalInv, BookInv, BookTypeOK, Market
    <3> QED  BY <3>1
  <2>2. CASE UNCHANGED market
    BY <2>2
  <2> QED  BY <2>1, <2>2 DEF PlaceBet, ClaimPayout, Return, SetResolver, Tick, bookVars
<1>2. SettledForGood'
  BY <1>1 DEF ConditionalInv, SettledForGood
<1>3. ConditionalTypeOK' /\ ConditionsSound'
  BY DEF ConditionalInv, ConditionalTypeOK, ConditionsSound, BookInv
<1> QED  BY <1>2, <1>3 DEF ConditionalInv

LEMMA ConditionalNextInv ==
  ConditionalInv /\ [ConditionalNext]_conditionalVars => ConditionalInv'
<1> SUFFICES ASSUME ConditionalInv, [ConditionalNext]_conditionalVars
    PROVE  ConditionalInv'
  OBVIOUS
<1>1. BookInv'
  BY BookStepInv DEF ConditionalInv
<1> QED  BY <1>1, CreateConditionalInv, ResolveConditionalInv, BaseStepInv,
            RestConditionalInv DEF ConditionalNext, conditionalVars

LEMMA ConditionalInvariance == ConditionalSpec => []ConditionalInv
<1>1. ConditionalInit => ConditionalInv
  BY ConditionalInitInv
<1> QED  BY <1>1, ConditionalNextInv, PTL DEF ConditionalSpec

\* ConditionalMarket's state stays well typed.
THEOREM ConditionalTypeCorrect == ConditionalSpec => []ConditionalTypeOK
<1>1. ConditionalInv => ConditionalTypeOK
  BY DEF ConditionalInv
<1> QED  BY <1>1, ConditionalInvariance, PTL

\* A conditional market that was settled before all its conditions were known
\* still ends as their conjunction, whatever the others turn out to be.
THEOREM OutcomeStays == ConditionalSpec => []OutcomeIsConjunction
<1>1. ConditionalInv => OutcomeIsConjunction
  <2>1. \A x : Other(x) # x
    BY DEF Other
  <2> QED  BY <2>1 DEF ConditionalInv, SettledForGood, OutcomeIsConjunction
<1> QED  BY <1>1, ConditionalInvariance, PTL

\* TokenizedMarket's state stays well typed: a token is held by an account, and
\* only minting gives an id its token.
THEOREM TokenizedTypeCorrect == TokenizedSpec => []TokenizedTypeOK
<1> DEFINE OwnersOK == ownerOf \in [Id -> Addr \cup {NoAddr}]
<1>1. TokenizedInit => OwnersOK
  BY DEF TokenizedInit
<1>2. OwnersOK /\ [TokenizedNext]_tokenizedVars => OwnersOK'
  BY DEF TokenizedNext, CreateMarket, PlaceTokenizedBet, LockTokenizedMarket,
         ResolveTokenizedMarket, ClaimTokenizedPayout, TransferToken, tokenizedVars
<1>3. BookInv /\ OwnersOK => TokenizedTypeOK
  BY DEF BookInv, TokenizedTypeOK
<1> HIDE DEF OwnersOK
<1> QED  BY <1>1, <1>2, <1>3, TokenizedIsBook, Invariance, PTL DEF TokenizedSpec

\* Both contracts pay every claimant its own share and can pay the next one.
COROLLARY ContractsPay ==
  /\ ConditionalSpec => [](PaidByStakeOnly /\ BookCoversClaims)
  /\ TokenizedSpec => [](PaidByStakeOnly /\ BookCoversClaims)
  BY ConditionalIsBook, TokenizedIsBook, PaidByStake, ClaimsCovered, PTL
=============================================================================
