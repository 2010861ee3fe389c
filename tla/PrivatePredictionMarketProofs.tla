-------------------- MODULE PrivatePredictionMarketProofs --------------------
(***************************************************************************)
(* For every set of accounts, amounts and openings: each wei committed to  *)
(* a private market is sealed or counted, ether is neither made nor lost,  *)
(* and what all winners revealed so far may claim together is within the   *)
(* committed pool.  That the contract can still pay it once somebody has   *)
(* claimed is no theorem: RevealedWinnerCovered does not hold.             *)
(*                                                                         *)
(* For every choice of bets and any number of reloads, refusals and lost   *)
(* pages: the wizard's transactions are the contract's, so the same holds  *)
(* behind it; the newest opening is kept until its reveal is sent; and     *)
(* only openings that were asked for are revealed.                         *)
(***************************************************************************)
EXTENDS CommitRevealClient, ParimutuelProofs, SequenceTheorems

USE PrivateAddr, PrivateValue, PrivateWindow, PrivateBounds

OutcomeWhenResolved ==
  \A id \in Id : market[id].status = "Resolved" => market[id].outcome \in Sides

\* What the accounts have revealed on side o, claimed or not.
RevealedOn(id, o) == [u \in Addr |-> revealed[id][u][o].amount]

\* The totals that payouts are divided by are what was revealed.
RevealedIsCounted ==
  \A id \in Id, o \in Sides : total[id][o] = Total(RevealedOn(id, o))

\* The inductive invariant.
IInv == /\ TypeOK
        /\ OutcomeWhenResolved
        /\ CommittedIsSealedOrCounted
        /\ RevealedIsCounted
        /\ EtherConserved

-----------------------------------------------------------------------------
(* The sets that sums are taken over, and the types of what is summed.     *)

LEMMA SlotsFinite ==
  /\ IsFiniteSet(Id)
  /\ IsFiniteSet(Addr \X (1 .. MaxCommits))
<1>1. 1 \in Int /\ MaxMarkets \in Int /\ MaxCommits \in Int
  OBVIOUS
<1>2. IsFiniteSet(Id) /\ IsFiniteSet(1 .. MaxCommits)
  BY <1>1, FS_Interval DEF Id
<1> QED  BY <1>2, FS_Product

LedgersTyped ==
  \A id \in Id : /\ SealedIn(id) \in [Addr \X (1 .. MaxCommits) -> Nat]
                 /\ \A o \in Sides : RevealedOn(id, o) \in [Addr -> Nat]
                 /\ received[id] \in [Addr -> Nat]
                 /\ Sealed(id) \in Nat /\ Total(received[id]) \in Nat
                 /\ [i \in Id |-> Total(received[i])] \in [Id -> Nat]

LEMMA LedgersAreNat == TypeOK => LedgersTyped
<1> SUFFICES ASSUME TypeOK, NEW id \in Id
    PROVE  /\ SealedIn(id) \in [Addr \X (1 .. MaxCommits) -> Nat]
           /\ \A o \in Sides : RevealedOn(id, o) \in [Addr -> Nat]
           /\ received[id] \in [Addr -> Nat]
           /\ Sealed(id) \in Nat /\ Total(received[id]) \in Nat
           /\ [i \in Id |-> Total(received[i])] \in [Id -> Nat]
  BY DEF LedgersTyped
<1>1. SealedIn(id) \in [Addr \X (1 .. MaxCommits) -> Nat]
  <2> SUFFICES ASSUME NEW c \in Addr \X (1 .. MaxCommits),
                      c[2] \in DOMAIN commitments[id][c[1]]
      PROVE  commitments[id][c[1]][c[2]].value \in Nat
    BY DEF SealedIn
  <2>1. commitments[id][c[1]] \in Seq(Commitment)
    BY DEF TypeOK
  <2>2. commitments[id][c[1]][c[2]] \in Commitment
    BY <2>1, LenProperties, ElementOfSeq
  <2>3. \A x \in Commitment : x.value \in Value \cup {0}
    BY DEF Commitment
  <2>4. \A v \in Value \cup {0} : v \in Nat
    OBVIOUS
  <2> QED  BY <2>2, <2>3, <2>4, Zenon
<1>2. \A o \in Sides : RevealedOn(id, o) \in [Addr -> Nat]
  BY DEF TypeOK, RevealedOn
<1>3. \A i \in Id : received[i] \in [Addr -> Nat]
  BY DEF TypeOK
<1>4. \A i \in Id : Total(received[i]) \in Nat
  BY <1>3, CoinsFinite
<1>5. Sealed(id) \in Nat
  BY <1>1, SlotsFinite, CoinsFinite DEF Sealed
<1> QED  BY <1>1, <1>2, <1>3, <1>4, <1>5

-----------------------------------------------------------------------------
(* The invariant holds initially and is kept by every step.                *)

LEMMA InitInv == ASSUME Init PROVE IInv
<1>1. TypeOK
  <2>1. << >> \in Seq(Commitment) /\ Len(<< >>) = 0
    BY EmptySeq
  <2>2. commitments \in [Id -> [Addr -> Seq(Commitment)]]
        /\ \A id \in Id, u \in Addr : Len(commitments[id][u]) <= MaxCommits
    BY <2>1 DEF Init
  <2>3. market \in [Id -> Market]
    BY DEF Init, Unset, Market
  <2> QED  BY <2>2, <2>3 DEF Init, TypeOK, FirstId
<1>2. OutcomeWhenResolved
  BY DEF Init, OutcomeWhenResolved, Unset
<1>3. ASSUME NEW id \in Id
      PROVE  /\ Sealed(id) = 0 /\ Total(received[id]) = 0
             /\ \A o \in Sides : Total(RevealedOn(id, o)) = 0
  <2>1. \A c \in Addr \X (1 .. MaxCommits) : SealedIn(id)[c] = 0
    <3>1. \A u \in Addr : DOMAIN commitments[id][u] = {}
      <4>1. \A u \in Addr : commitments[id][u] = << >>
        BY DEF Init
      <4>2. DOMAIN << >> = {}
        OBVIOUS
      <4> QED  BY <4>1, <4>2
    <3> QED  BY <3>1 DEF SealedIn
  <2>2. \A u \in Addr : received[id][u] = 0
    BY DEF Init
  <2>3. \A o \in Sides, u \in Addr : RevealedOn(id, o)[u] = 0
    BY DEF Init, RevealedOn
  <2> QED  BY <1>1, <2>1, <2>2, <2>3, LedgersAreNat, TotalZero DEF Sealed, LedgersTyped
<1>4. CommittedIsSealedOrCounted
  BY <1>3 DEF Init, CommittedIsSealedOrCounted, Sides
<1>5. RevealedIsCounted
  BY <1>3 DEF Init, RevealedIsCounted
<1>6. EtherConserved
  <2> DEFINE paid == [id \in Id |-> Total(received[id])]
  <2>1. paid \in [Id -> Nat] /\ \A id \in Id : paid[id] = 0
    BY <1>1, <1>3, LedgersAreNat DEF LedgersTyped
  <2>2. totalCommitted \in [Id -> Nat] /\ \A id \in Id : totalCommitted[id] = 0
    BY DEF Init
  <2>3. Total(paid) = 0
    <3> HIDE DEF paid
    <3> QED  BY <2>1, TotalZero
  <2>4. Total(totalCommitted) = 0
    BY <2>2, TotalZero
  <2>5. balance = 0
    BY DEF Init
  <2> QED  BY <2>3, <2>4, <2>5 DEF EtherConserved
<1> QED  BY <1>1, <1>2, <1>4, <1>5, <1>6 DEF IInv

\* Steps that move no stake and no ether keep the sums.
LEMMA SameMoney ==
  ASSUME IInv, UNCHANGED <<ledger, balance, received>>
  PROVE  CommittedIsSealedOrCounted' /\ RevealedIsCounted' /\ EtherConserved'
<1>1. CommittedIsSealedOrCounted'
  BY DEF IInv, CommittedIsSealedOrCounted, Sealed, SealedIn, ledger
<1>2. RevealedIsCounted'
  BY DEF IInv, RevealedIsCounted, RevealedOn, ledger
<1>3. EtherConserved'
  BY DEF IInv, EtherConserved, ledger
<1> QED  BY <1>1, <1>2, <1>3

LEMMA CreateMarketInv ==
  ASSUME IInv, NEW s \in Addr, NEW w \in Window, CreateMarket(s, w[1], w[2])
  PROVE  IInv'
<1>1. w[1] \in Nat /\ w[2] \in Nat
  OBVIOUS
<1>2. TypeOK'
  <2>1. nextMarketId' \in 1 .. MaxMarkets + 1
    BY DEF IInv, TypeOK, CreateMarket
  <2>2. market' \in [Id -> Market]
    BY <1>1 DEF IInv, TypeOK, CreateMarket, Unset, Market
  <2> QED  BY <2>1, <2>2 DEF IInv, TypeOK, CreateMarket, ledger
<1>3. OutcomeWhenResolved'
  BY DEF IInv, TypeOK, OutcomeWhenResolved, CreateMarket, Unset
<1> QED  BY <1>2, <1>3, SameMoney DEF IInv, CreateMarket

LEMMA ResolveMarketInv ==
  ASSUME IInv, NEW s \in Addr, NEW id \in Id, NEW o \in Sides,
         ResolveMarket(s, id, o)
  PROVE  IInv'
<1>1. market' = [market EXCEPT ![id] =
                   [market[id] EXCEPT !.status = "Resolved", !.outcome = o]]
  BY DEF IInv, TypeOK, ResolveMarket
<1>2. [market[id] EXCEPT !.status = "Resolved", !.outcome = o] \in Market
  <2>1. market[id] \in Market
    BY DEF IInv, TypeOK
  <2> QED  BY <2>1 DEF Market
<1>3. TypeOK'
  <2>1. market' \in [Id -> Market]
    BY <1>1, <1>2 DEF IInv, TypeOK
  <2>2. UNCHANGED <<now, nextMarketId, total, totalCommitted, commitments, revealed,
                    resolver, callee, balance, received>>
    BY DEF ResolveMarket, ledger
  <2> QED  BY <2>1, <2>2 DEF IInv, TypeOK
<1>4. OutcomeWhenResolved'
  BY <1>1, <1>2 DEF IInv, TypeOK, OutcomeWhenResolved, Market
<1> QED  BY <1>3, <1>4, SameMoney DEF IInv, ResolveMarket

LEMMA OtherInv ==
  ASSUME IInv,
         \/ ClaimReturn
         \/ \E s \in Addr, a \in Appointable : SetResolver(s, a)
         \/ Tick
         \/ UNCHANGED vars
  PROVE  IInv'
<1>1. UNCHANGED <<nextMarketId, market, ledger, balance, received>>
  BY DEF ClaimReturn, SetResolver, Tick, vars
<1>2. TypeOK'
  <2>1. now' \in 0 .. MaxTime
    BY DEF IInv, TypeOK, ClaimReturn, SetResolver, Tick, vars
  <2>2. resolver' \in Addr /\ callee' \in Addr \cup {NoAddr}
    BY DEF IInv, TypeOK, ClaimReturn, SetResolver, Tick, vars
  <2> QED  BY <1>1, <2>1, <2>2 DEF IInv, TypeOK, ledger
<1>3. OutcomeWhenResolved'
  BY <1>1 DEF IInv, OutcomeWhenResolved
<1> QED  BY <1>1, <1>2, <1>3, SameMoney DEF IInv

LEMMA CommitBetInv ==
  ASSUME IInv, NEW s \in Addr, NEW id \in Id, NEW v \in Value, NEW x \in Opening,
         CommitBet(s, id, v, x)
  PROVE  IInv'
<1> DEFINE old == commitments[id][s]
           slot == <<s, Len(old) + 1>>
           entry == [value |-> v, hash |-> x]
<1>1. v \in Nat /\ entry \in Commitment
  BY DEF Commitment
<1>2. old \in Seq(Commitment) /\ Len(old) \in Nat /\ Len(old) + 1 <= MaxCommits
  <2>1. old \in Seq(Commitment)
    BY DEF IInv, TypeOK
  <2>2. Len(old) < MaxCommits
    BY DEF CommitBet
  <2> QED  BY <2>1, <2>2, LenProperties
<1>3. /\ commitments' = [commitments EXCEPT ![id][s] = Append(old, entry)]
      /\ totalCommitted' = [totalCommitted EXCEPT ![id] = @ + v]
      /\ balance' = balance + v
      /\ UNCHANGED <<now, nextMarketId, market, total, revealed, resolver, received,
                     callee>>
  BY DEF CommitBet, Seal
<1>4. /\ Append(old, entry) \in Seq(Commitment)
      /\ Len(Append(old, entry)) = Len(old) + 1
      /\ Append(old, entry)[Len(old) + 1] = entry
      /\ \A i \in 1 .. Len(old) : Append(old, entry)[i] = old[i]
      /\ DOMAIN Append(old, entry) = 1 .. Len(old) + 1 /\ DOMAIN old = 1 .. Len(old)
  BY <1>1, <1>2, AppendProperties, LenProperties
<1> HIDE DEF entry
<1>5. /\ \A i \in Id, u \in Addr :
           i # id \/ u # s => commitments'[i][u] = commitments[i][u]
      /\ commitments'[id][s] = Append(old, entry)
  BY <1>3 DEF IInv, TypeOK
<1>6. TypeOK'
  <2>1. commitments' \in [Id -> [Addr -> Seq(Commitment)]]
    BY <1>3, <1>4 DEF IInv, TypeOK
  <2>2. \A i \in Id, u \in Addr : Len(commitments'[i][u]) <= MaxCommits
    BY <1>2, <1>4, <1>5 DEF IInv, TypeOK
  <2>3. totalCommitted' \in [Id -> Nat] /\ balance' \in Nat
    BY <1>1, <1>3 DEF IInv, TypeOK
  <2> QED  BY <1>3, <2>1, <2>2, <2>3 DEF IInv, TypeOK
<1>7. OutcomeWhenResolved'
  BY <1>3 DEF IInv, OutcomeWhenResolved
<1>8. CommittedIsSealedOrCounted'
  <2> DEFINE f == SealedIn(id)
             h == SealedIn(id)'
             C == Addr \X (1 .. MaxCommits)
  <2>1. f \in [C -> Nat] /\ h \in [C -> Nat]
    <3>1. LedgersTyped'
      BY <1>6, LedgersAreNat, PTL
    <3>2. h \in [C -> Nat]
      BY <3>1 DEF LedgersTyped
    <3> QED  BY <3>2, LedgersAreNat DEF LedgersTyped, IInv
  <2>2. slot \in C /\ f[slot] = 0 /\ h[slot] = v
    <3>1. slot \in C
      BY <1>2
    <3>2. slot[1] = s /\ slot[2] = Len(old) + 1
      OBVIOUS
    <3>3. ~(Len(old) + 1 \in DOMAIN old)
      BY <1>2, <1>4
    <3>4. Len(old) + 1 \in DOMAIN commitments'[id][s]
      BY <1>2, <1>4, <1>5
    <3>5. entry.value = v
      BY DEF entry
    <3> HIDE DEF slot
    <3>6. f[slot] = 0
      BY <3>1, <3>2, <3>3 DEF SealedIn
    <3>7. h[slot] = v
      BY <1>4, <1>5, <3>1, <3>2, <3>4, <3>5 DEF SealedIn
    <3> QED  BY <3>1, <3>6, <3>7
  <2>3. ASSUME NEW c \in C \ {slot} PROVE h[c] = f[c]
    <3>1. c = <<c[1], c[2]>> /\ c[1] \in Addr /\ c[2] \in 1 .. MaxCommits
      OBVIOUS
    <3>2. CASE c[1] # s
      BY <1>5, <3>1, <3>2 DEF SealedIn
    <3>3. CASE c[1] = s
      <4>1. c[2] # Len(old) + 1
        BY <3>1, <3>3
      <4>2. c[2] \in DOMAIN Append(old, entry) <=> c[2] \in DOMAIN old
        BY <1>2, <1>4, <3>1, <4>1
      <4>3. c[2] \in DOMAIN old => Append(old, entry)[c[2]] = old[c[2]]
        BY <1>4
      <4> QED  BY <1>5, <3>1, <3>3, <4>2, <4>3 DEF SealedIn
    <3> QED  BY <3>2, <3>3
  <2>4. Sealed(id)' = Sealed(id) + v
    <3>1. h[slot] = f[slot] + v
      BY <1>1, <2>2
    <3> HIDE DEF f, h, C, slot
    <3>2. Total(h) = Total(f) + v
      BY <1>1, <2>1, <2>2, <2>3, <3>1, SlotsFinite, TotalAdd DEF C
    <3> QED  BY <3>2 DEF f, h, Sealed
  <2>5. \A i \in Id \ {id} : Sealed(i)' = Sealed(i)
    BY <1>5 DEF Sealed, SealedIn
  <2>6. \A i \in Id : /\ totalCommitted[i]
                           = Sealed(i) + total[i]["Yes"] + total[i]["No"]
                      /\ Sealed(i) \in Nat
                      /\ total[i]["Yes"] \in Nat /\ total[i]["No"] \in Nat
    <3>1. \A i \in Id : Sealed(i) \in Nat
      BY LedgersAreNat DEF LedgersTyped, IInv
    <3>2. \A i \in Id : total[i]["Yes"] \in Nat /\ total[i]["No"] \in Nat
      <4>1. total \in [Id -> [Sides -> Nat]]
        BY DEF IInv, TypeOK
      <4> QED  BY <4>1 DEF Sides
    <3> QED  BY <3>1, <3>2, Zenon DEF IInv, CommittedIsSealedOrCounted
  <2>7. /\ totalCommitted'[id] = totalCommitted[id] + v
        /\ \A i \in Id \ {id} : totalCommitted'[i] = totalCommitted[i]
    BY <1>3 DEF IInv, TypeOK
  <2>8. total' = total
    BY <1>3
  <2>9. ASSUME NEW i \in Id
        PROVE  totalCommitted'[i] = Sealed(i)' + total'[i]["Yes"] + total'[i]["No"]
    <3>1. CASE i = id
      BY <1>1, <2>4, <2>6, <2>7, <2>8, <3>1
    <3>2. CASE i # id
      BY <2>5, <2>6, <2>7, <2>8, <3>2
    <3> QED  BY <3>1, <3>2
  <2> QED  BY <2>9 DEF CommittedIsSealedOrCounted
<1>9. RevealedIsCounted'
  BY <1>3 DEF IInv, RevealedIsCounted, RevealedOn
<1>10. EtherConserved'
  <2>1. /\ totalCommitted \in [Id -> Nat] /\ totalCommitted' \in [Id -> Nat]
        /\ totalCommitted'[id] = totalCommitted[id] + v
        /\ \A i \in Id \ {id} : totalCommitted'[i] = totalCommitted[i]
    BY <1>3, <1>6 DEF IInv, TypeOK
  <2>2. Total(totalCommitted') = Total(totalCommitted) + v
    BY <1>1, <2>1, SlotsFinite, TotalAdd
  <2>3. Total([i \in Id |-> Total(received[i])]) \in Nat /\ balance \in Nat
    BY LedgersAreNat, SlotsFinite, CoinsFinite DEF LedgersTyped, IInv, TypeOK
  <2> QED  BY <1>1, <1>3, <2>2, <2>3 DEF IInv, EtherConserved
<1> QED  BY <1>6, <1>7, <1>8, <1>9, <1>10 DEF IInv

\* The facts of a revelation that its proof needs: one entry is emptied and
\* what it held is added to one side.
LEMMA RevealBetInv ==
  ASSUME IInv, NEW s \in Addr, NEW id \in Id, NEW i \in 1 .. MaxCommits,
         NEW x \in Opening, RevealBet(s, id, i, x)
  PROVE  IInv'
<1> DEFINE old == commitments[id][s]
           gone == [value |-> 0, hash |-> NoHash]
           new == [old EXCEPT ![i] = gone]
           o == x.outcome
           was == revealed[id][s][o]
           entry == [amount |-> was.amount + x.amount, claimed |-> FALSE]
<1>1. /\ old \in Seq(Commitment) /\ gone \in Commitment
      /\ i \in DOMAIN old /\ i \in 1 .. Len(old) /\ old[i] \in Commitment
      /\ Len(old) <= MaxCommits
  <2>1. old \in Seq(Commitment) /\ Len(old) <= MaxCommits
    BY DEF IInv, TypeOK
  <2>2. i \in DOMAIN old
    BY DEF RevealBet
  <2>3. gone \in Commitment
    BY DEF Commitment
  <2>4. DOMAIN old = 1 .. Len(old)
    BY <2>1, LenProperties
  <2>5. i \in 1 .. Len(old)
    BY <2>2, <2>4
  <2> QED  BY <2>1, <2>2, <2>3, <2>5, ElementOfSeq
<1>2. x.amount \in Nat /\ o \in Sides /\ old[i].value = x.amount
  <2>1. old[i].value = x.amount /\ o \in Sides
    BY DEF RevealBet
  <2>2. \A y \in Commitment : y.value \in Value \cup {0}
    BY DEF Commitment
  <2>3. \A v \in Value \cup {0} : v \in Nat
    OBVIOUS
  <2>4. old[i].value \in Nat
    BY <1>1, <2>2, <2>3, Zenon
  <2> QED  BY <2>1, <2>4
<1>3. was \in [amount : Nat, claimed : BOOLEAN] /\ was.amount \in Nat
  BY <1>2 DEF IInv, TypeOK
<1>4. /\ commitments' = [commitments EXCEPT ![id][s] = new]
      /\ revealed' = [revealed EXCEPT ![id][s][o] = entry]
      /\ total' = [total EXCEPT ![id][o] = @ + x.amount]
      /\ UNCHANGED <<now, nextMarketId, market, totalCommitted, resolver, balance,
                     received, callee>>
  BY DEF RevealBet, CountStake, IInv, TypeOK
<1>5. new \in Seq(Commitment) /\ Len(new) = Len(old) /\ DOMAIN new = DOMAIN old
  <2> HIDE DEF gone
  <2>1. new \in Seq(Commitment) /\ Len(new) = Len(old)
    BY <1>1, ExceptSeq
  <2> QED  BY <2>1
<1>6. new[i].value = 0 /\ \A k \in DOMAIN old \ {i} : new[k] = old[k]
  BY <1>1
<1> HIDE DEF gone, new
<1>7. /\ \A j \in Id, u \in Addr :
           j # id \/ u # s => commitments'[j][u] = commitments[j][u]
      /\ commitments'[id][s] = new
  BY <1>4 DEF IInv, TypeOK
<1>8. entry \in [amount : Nat, claimed : BOOLEAN] /\ entry.amount = was.amount + x.amount
  BY <1>2, <1>3
<1> HIDE DEF entry
<1>9. TypeOK'
  <2>1. commitments' \in [Id -> [Addr -> Seq(Commitment)]]
    BY <1>4, <1>5 DEF IInv, TypeOK
  <2>2. ASSUME NEW j \in Id, NEW u \in Addr
        PROVE  Len(commitments'[j][u]) <= MaxCommits
    <3>1. CASE j = id /\ u = s
      BY <1>1, <1>5, <1>7, <3>1
    <3>2. CASE ~(j = id /\ u = s)
      BY <1>7, <3>2 DEF IInv, TypeOK
    <3> QED  BY <3>1, <3>2
  <2>3. revealed' \in [Id -> [Addr -> [Sides -> [amount : Nat, claimed : BOOLEAN]]]]
    BY <1>4, <1>8 DEF IInv, TypeOK
  <2>4. total' \in [Id -> [Sides -> Nat]]
    <3>1. total \in [Id -> [Sides -> Nat]]
      BY DEF IInv, TypeOK
    <3> HIDE DEF o
    <3>2. total[id][o] + x.amount \in Nat
      BY <1>2, <3>1
    <3> QED  BY <1>2, <1>4, <3>1, <3>2
  <2> QED  BY <1>4, <2>1, <2>2, <2>3, <2>4 DEF IInv, TypeOK
<1>10. LedgersTyped /\ LedgersTyped'
  <2>1. LedgersTyped
    BY LedgersAreNat DEF IInv
  <2>2. LedgersTyped'
    BY <1>9, LedgersAreNat, PTL
  <2> QED  BY <2>1, <2>2
<1>11. OutcomeWhenResolved'
  BY <1>4 DEF IInv, OutcomeWhenResolved
<1>12. CommittedIsSealedOrCounted'
  <2> DEFINE C == Addr \X (1 .. MaxCommits)
             slot == <<s, i>>
             f == SealedIn(id)
             h == SealedIn(id)'
  <2>1. f \in [C -> Nat] /\ h \in [C -> Nat]
    BY <1>10 DEF LedgersTyped
  <2>2. slot \in C /\ slot[1] = s /\ slot[2] = i
    OBVIOUS
  <2>3. f[slot] = x.amount /\ h[slot] = 0
    <3> HIDE DEF slot
    <3>1. f[slot] = x.amount
      BY <1>1, <1>2, <2>2 DEF SealedIn
    <3>2. h[slot] = 0
      BY <1>1, <1>5, <1>6, <1>7, <2>2 DEF SealedIn
    <3> QED  BY <3>1, <3>2
  <2>4. ASSUME NEW c \in C \ {slot} PROVE h[c] = f[c]
    <3>1. c = <<c[1], c[2]>> /\ c[1] \in Addr /\ c[2] \in 1 .. MaxCommits
      OBVIOUS
    <3>2. CASE c[1] # s
      BY <1>7, <3>1, <3>2 DEF SealedIn
    <3>3. CASE c[1] = s
      <4>1. c[2] # i
        BY <3>1, <3>3
      <4> QED  BY <1>5, <1>6, <1>7, <3>1, <3>3, <4>1 DEF SealedIn
    <3> QED  BY <3>2, <3>3
  <2>5. Sealed(id) = Sealed(id)' + x.amount
    <3>1. f[slot] = h[slot] + x.amount
      BY <1>2, <2>3
    <3> HIDE DEF f, h, C, slot
    <3>2. Total(f) = Total(h) + x.amount
      BY <1>2, <2>1, <2>2, <2>4, <3>1, SlotsFinite, TotalAdd DEF C
    <3> QED  BY <3>2 DEF f, h, Sealed
  <2>6. \A j \in Id \ {id} : Sealed(j)' = Sealed(j)
    BY <1>7 DEF Sealed, SealedIn
  <2>7. \A j \in Id : /\ totalCommitted[j]
                           = Sealed(j) + total[j]["Yes"] + total[j]["No"]
                      /\ Sealed(j) \in Nat /\ Sealed(j)' \in Nat
                      /\ total[j]["Yes"] \in Nat /\ total[j]["No"] \in Nat
    <3>1. \A j \in Id : Sealed(j) \in Nat /\ Sealed(j)' \in Nat
      BY <1>10 DEF LedgersTyped
    <3>2. \A j \in Id : total[j]["Yes"] \in Nat /\ total[j]["No"] \in Nat
      <4>1. total \in [Id -> [Sides -> Nat]]
        BY DEF IInv, TypeOK
      <4> QED  BY <4>1 DEF Sides
    <3> QED  BY <3>1, <3>2, Zenon DEF IInv, CommittedIsSealedOrCounted
  <2>8. /\ \A j \in Id \ {id} : total'[j] = total[j]
        /\ total'[id]["Yes"] + total'[id]["No"]
              = total[id]["Yes"] + total[id]["No"] + x.amount
    <3>1. total \in [Id -> [Sides -> Nat]]
      BY DEF IInv, TypeOK
    <3>2. \A j \in Id \ {id} : total'[j] = total[j]
      BY <1>4, <3>1
    <3>3. o = "Yes" \/ o = "No"
      BY <1>2 DEF Sides
    <3>4. total'[id][o] = total[id][o] + x.amount
          /\ \A q \in Sides \ {o} : total'[id][q] = total[id][q]
      BY <1>2, <1>4, <3>1
    <3> HIDE DEF o
    <3> QED  BY <1>2, <2>7, <3>2, <3>3, <3>4 DEF Sides
  <2>9. total'[id]["Yes"] \in Nat /\ total'[id]["No"] \in Nat
    <3>1. total' \in [Id -> [Sides -> Nat]]
      BY <1>9 DEF TypeOK
    <3> QED  BY <3>1 DEF Sides
  <2>10. totalCommitted[id] = Sealed(id)' + total'[id]["Yes"] + total'[id]["No"]
    <3> HIDE DEF o, old
    <3> QED  BY <1>2, <2>5, <2>7, <2>8, <2>9
  <2>11. \A j \in Id \ {id} :
           totalCommitted[j] = Sealed(j)' + total'[j]["Yes"] + total'[j]["No"]
    BY <2>6, <2>7, <2>8
  <2> QED  BY <1>4, <2>10, <2>11 DEF CommittedIsSealedOrCounted
<1>13. RevealedIsCounted'
  <2> DEFINE f == RevealedOn(id, o)
             h == RevealedOn(id, o)'
  <2>1. f \in [Addr -> Nat] /\ h \in [Addr -> Nat]
    BY <1>2, <1>10 DEF LedgersTyped
  <2>2. revealed'[id][s][o] = entry
        /\ \A j \in Id, u \in Addr, q \in Sides :
             j # id \/ u # s \/ q # o => revealed'[j][u][q] = revealed[j][u][q]
    <3>1. revealed \in [Id -> [Addr -> [Sides -> [amount : Nat, claimed : BOOLEAN]]]]
      BY DEF IInv, TypeOK
    <3> HIDE DEF o, was
    <3> QED  BY <1>2, <1>4, <3>1
  <2>3. h[s] = f[s] + x.amount /\ \A u \in Addr \ {s} : h[u] = f[u]
    BY <1>2, <1>8, <2>2 DEF RevealedOn
  <2>4. Total(h) = Total(f) + x.amount
    <3> HIDE DEF f, h
    <3> QED  BY <1>2, <2>1, <2>3, TotalAdd
  <2>5. total[id][o] = Total(f)
    BY <1>2 DEF IInv, RevealedIsCounted
  <2>6. total'[id][o] = total[id][o] + x.amount
        /\ \A j \in Id, q \in Sides : j # id \/ q # o => total'[j][q] = total[j][q]
    <3>1. total \in [Id -> [Sides -> Nat]]
      BY DEF IInv, TypeOK
    <3> HIDE DEF o
    <3> QED  BY <1>2, <1>4, <3>1
  <2>7. total'[id][o] = Total(h)
    BY <2>4, <2>5, <2>6
  <2>8. ASSUME NEW j \in Id, NEW q \in Sides, j # id \/ q # o
        PROVE  total'[j][q] = Total(RevealedOn(j, q)')
    <3>1. RevealedOn(j, q)' = RevealedOn(j, q)
      BY <2>2, <2>8 DEF RevealedOn
    <3> QED  BY <2>6, <2>8, <3>1 DEF IInv, RevealedIsCounted
  <2> HIDE DEF o
  <2>9. ASSUME NEW j \in Id, NEW q \in Sides
        PROVE  total'[j][q] = Total(RevealedOn(j, q)')
    <3>1. CASE j = id /\ q = o
      BY <2>7, <3>1
    <3> QED  BY <2>8, <3>1
  <2> QED  BY <2>9 DEF RevealedIsCounted
<1>14. EtherConserved'
  BY <1>4 DEF IInv, EtherConserved
<1> QED  BY <1>9, <1>11, <1>12, <1>13, <1>14 DEF IInv

\* Whoever may claim is owed a whole number of wei, worth no more than the
\* revealed stake's part of the committed pool.
LEMMA PayoutBounds ==
  ASSUME IInv, NEW id \in Id, NEW u \in Addr, MayClaim(u, id)
  PROVE  /\ market[id].outcome \in Sides
         /\ Payout(id, u) \in Nat
         /\ Payout(id, u) * total[id][market[id].outcome]
              <= revealed[id][u][market[id].outcome].amount * totalCommitted[id]
<1> DEFINE o == market[id].outcome
           a == revealed[id][u][o].amount
           p == totalCommitted[id]
           w == total[id][o]
<1>1. o \in Sides
  BY DEF MayClaim, IInv, OutcomeWhenResolved
<1>2. a \in Nat /\ p \in Nat /\ w \in Nat
  <2>1. /\ revealed \in [Id -> [Addr -> [Sides -> [amount : Nat, claimed : BOOLEAN]]]]
        /\ total \in [Id -> [Sides -> Nat]] /\ totalCommitted \in [Id -> Nat]
    BY DEF IInv, TypeOK
  <2> HIDE DEF o
  <2>2. revealed[id][u][o] \in [amount : Nat, claimed : BOOLEAN]
    BY <1>1, <2>1
  <2> QED  BY <1>1, <2>1, <2>2
<1>3. w > 0
  BY DEF MayClaim
<1>4. Payout(id, u) = Share(a, p, w)
  BY DEF Payout
<1> HIDE DEF a, p, w
<1>5. Share(a, p, w) \in Nat /\ Share(a, p, w) * w <= a * p
  BY <1>2, <1>3, ShareRounds
<1> QED  BY <1>1, <1>4, <1>5 DEF a, p, w

LEMMA ClaimPayoutInv ==
  ASSUME IInv, NEW s \in Addr, NEW id \in Id, ClaimPayout(s, id)
  PROVE  IInv'
<1> DEFINE o == market[id].outcome
           p == Payout(id, s)
           Slip == [amount : Nat, claimed : BOOLEAN]
           was == revealed[id][s][o]
           slip == [was EXCEPT !.claimed = TRUE]
<1>1. o \in Sides /\ p \in Nat
  BY PayoutBounds DEF ClaimPayout
<1>2. /\ revealed \in [Id -> [Addr -> [Sides -> Slip]]]
      /\ received \in [Id -> [Addr -> Nat]] /\ balance \in Nat
  BY DEF IInv, TypeOK
<1>3. /\ revealed' = [revealed EXCEPT ![id][s][o] = slip]
      /\ received' = [received EXCEPT ![id][s] = @ + p]
      /\ balance' = balance - p /\ p <= balance /\ callee' = s
      /\ UNCHANGED <<now, nextMarketId, market, total, totalCommitted, commitments,
                     resolver>>
  BY DEF ClaimPayout
<1>4. slip \in Slip /\ slip.amount = was.amount
  <2>1. was \in Slip
    BY <1>1, <1>2
  <2> QED  BY <2>1
<1> HIDE DEF o, p, slip
<1>5. TypeOK'
  <2>1. revealed' \in [Id -> [Addr -> [Sides -> Slip]]]
    BY <1>1, <1>2, <1>3, <1>4
  <2>2. received' \in [Id -> [Addr -> Nat]] /\ balance' \in Nat
    BY <1>1, <1>2, <1>3
  <2> QED  BY <1>3, <2>1, <2>2 DEF IInv, TypeOK
<1>6. LedgersTyped /\ LedgersTyped'
  <2>1. LedgersTyped
    BY LedgersAreNat DEF IInv
  <2>2. LedgersTyped'
    BY <1>5, LedgersAreNat, PTL
  <2> QED  BY <2>1, <2>2
<1>7. OutcomeWhenResolved'
  BY <1>3 DEF IInv, OutcomeWhenResolved
<1>8. CommittedIsSealedOrCounted'
  BY <1>3 DEF IInv, CommittedIsSealedOrCounted, Sealed, SealedIn
<1>9. RevealedIsCounted'
  <2>1. \A j \in Id, u \in Addr, q \in Sides :
          revealed'[j][u][q].amount = revealed[j][u][q].amount
    BY <1>1, <1>2, <1>3, <1>4
  <2>2. \A j \in Id, q \in Sides : RevealedOn(j, q)' = RevealedOn(j, q)
    BY <2>1 DEF RevealedOn
  <2> QED  BY <1>3, <2>2 DEF IInv, RevealedIsCounted
<1>10. EtherConserved'
  <2> DEFINE f == [j \in Id |-> Total(received[j])]
             h == [j \in Id |-> Total(received'[j])]
  <2>1. f \in [Id -> Nat] /\ h \in [Id -> Nat]
    BY <1>6 DEF LedgersTyped
  <2>2. /\ received[id] \in [Addr -> Nat] /\ received'[id] \in [Addr -> Nat]
        /\ received'[id][s] = received[id][s] + p
        /\ \A u \in Addr \ {s} : received'[id][u] = received[id][u]
        /\ \A j \in Id \ {id} : received'[j] = received[j]
    BY <1>1, <1>2, <1>3
  <2>3. Total(received'[id]) = Total(received[id]) + p
    BY <1>1, <2>2, TotalAdd
  <2>4. h[id] = f[id] + p /\ \A j \in Id \ {id} : h[j] = f[j]
    BY <2>2, <2>3
  <2>5. Total(h) = Total(f) + p
    <3> HIDE DEF f, h
    <3> QED  BY <1>1, <2>1, <2>4, SlotsFinite, TotalAdd
  <2>6. Total(f) \in Nat
    <3> HIDE DEF f
    <3> QED  BY <2>1, SlotsFinite, CoinsFinite
  <2>7. balance + Total(f) = Total(totalCommitted)
    BY DEF IInv, EtherConserved
  <2>8. balance' + Total(h) = Total(totalCommitted)
    <3> HIDE DEF f, h
    <3> QED  BY <1>1, <1>2, <1>3, <2>5, <2>6, <2>7
  <2> QED  BY <1>3, <2>8 DEF EtherConserved
<1> QED  BY <1>5, <1>7, <1>8, <1>9, <1>10 DEF IInv

LEMMA NextInv == IInv /\ [Next]_vars => IInv'
<1> SUFFICES ASSUME IInv, [Next]_vars PROVE IInv'
  OBVIOUS
<1>1. ASSUME NEW s \in Addr, NEW w \in Window, CreateMarket(s, w[1], w[2])
      PROVE  IInv'
  BY <1>1, CreateMarketInv
<1>2. ASSUME NEW s \in Addr, NEW id \in Id, NEW v \in Value, NEW x \in Opening,
             CommitBet(s, id, v, x)
      PROVE  IInv'
  BY <1>2, CommitBetInv
<1>3. ASSUME NEW s \in Addr, NEW id \in Id, NEW i \in 1 .. MaxCommits,
             NEW x \in Opening, RevealBet(s, id, i, x)
      PROVE  IInv'
  BY <1>3, RevealBetInv
<1>4. ASSUME NEW s \in Addr, NEW id \in Id, NEW o \in Sides, ResolveMarket(s, id, o)
      PROVE  IInv'
  BY <1>4, ResolveMarketInv
<1>5. ASSUME NEW s \in Addr, NEW id \in Id, ClaimPayout(s, id)
      PROVE  IInv'
  BY <1>5, ClaimPayoutInv
<1>6. CASE \/ ClaimReturn
           \/ \E s \in Addr, a \in Appointable : SetResolver(s, a)
           \/ Tick
           \/ UNCHANGED vars
  BY <1>6, OtherInv
<1> QED  BY <1>1, <1>2, <1>3, <1>4, <1>5, <1>6 DEF Next

LEMMA Invariance == Spec => []IInv
<1>1. Init => IInv
  BY InitInv
<1> QED  BY <1>1, NextInv, PTL DEF Spec

-----------------------------------------------------------------------------
\* The state of PrivatePredictionMarket stays well typed: a claim never takes
\* more than the balance, a list never outgrows its bound.
THEOREM PrivateTypeCorrect == Spec => []TypeOK
<1>1. IInv => TypeOK
  BY DEF IInv
<1> QED  BY <1>1, Invariance, PTL

\* totalCommitted, the pool every payout is taken from, is what commitBet
\* collected: sealed in a commitment or counted by revealBet, never both.
THEOREM SealedOrCounted == Spec => []CommittedIsSealedOrCounted
<1>1. IInv => CommittedIsSealedOrCounted
  BY DEF IInv
<1> QED  BY <1>1, Invariance, PTL

\* claimPayout sends no ether that commitBet did not take in, and loses none.
THEOREM EtherIsConserved == Spec => []EtherConserved
<1>1. IInv => EtherConserved
  BY DEF IInv
<1> QED  BY <1>1, Invariance, PTL

\* The claims of all who have revealed so far fit in the committed pool.
LEMMA InvCovered ==
  ASSUME IInv, NEW id \in Id
  PROVE  Total(Claimable(id)) <= totalCommitted[id]
<1> DEFINE o == market[id].outcome
           won == RevealedOn(id, o)
           pay == Claimable(id)
           w == total[id][o]
           pool == totalCommitted[id]
<1>1. pool \in Nat
  BY DEF IInv, TypeOK
<1>2. pay \in [Addr -> Nat]
  BY PayoutBounds DEF Claimable
<1>3. CASE \E u \in Addr : MayClaim(u, id)
  <2>1. o \in Sides /\ w > 0
    BY <1>3, PayoutBounds DEF MayClaim
  <2>2. LedgersTyped
    BY LedgersAreNat DEF IInv
  <2>3. won \in [Addr -> Nat]
    BY <2>1, <2>2 DEF LedgersTyped
  <2>4. w = Total(won)
    BY <2>1 DEF IInv, RevealedIsCounted
  <2>5. w \in Nat
    BY <2>3, <2>4, CoinsFinite
  <2>6. ASSUME NEW u \in Addr PROVE pay[u] * w <= pool * won[u]
    <3>1. won[u] \in Nat /\ won[u] = revealed[id][u][o].amount
      BY <2>3 DEF RevealedOn
    <3>2. CASE MayClaim(u, id)
      <4>1. pay[u] = Payout(id, u)
        BY <3>2 DEF Claimable
      <4>2. Payout(id, u) * w <= won[u] * pool
        BY <3>1, <3>2, PayoutBounds
      <4> HIDE DEF won, w, pool
      <4>3. won[u] * pool = pool * won[u]
        BY <1>1, <3>1
      <4> QED  BY <4>1, <4>2, <4>3
    <3>3. CASE ~MayClaim(u, id)
      <4>1. pay[u] = 0
        BY <3>3 DEF Claimable
      <4> HIDE DEF won, w, pool
      <4>2. 0 * w = 0 /\ pool * won[u] \in Nat
        BY <1>1, <2>5, <3>1
      <4> QED  BY <4>1, <4>2
    <3> QED  BY <3>2, <3>3
  <2> HIDE DEF won, w, pool, pay
  <2>7. Total(won) <= w
    BY <2>4, <2>5
  <2>8. Total(pay) <= pool
    BY <1>1, <1>2, <2>1, <2>3, <2>5, <2>6, <2>7, SharesWithinPool
  <2> QED  BY <2>8 DEF pay, pool
<1>4. CASE \A u \in Addr : ~MayClaim(u, id)
  <2>1. \A u \in Addr : pay[u] = 0
    BY <1>4 DEF Claimable
  <2>2. Total(pay) = 0
    <3> HIDE DEF pay
    <3> QED  BY <1>2, <2>1, TotalZero
  <2> QED  BY <1>1, <2>2
<1> QED  BY <1>3, <1>4

\* While nobody has claimed from a private market, its pool covers what all
\* revealed winners may claim: what claimPayout divides by is what they revealed.
THEOREM CoveredBeforeClaims == Spec => []CoveredUntilFirstClaim
<1>1. IInv => CoveredUntilFirstClaim
  BY InvCovered DEF CoveredUntilFirstClaim
<1> QED  BY <1>1, Invariance, PTL

-----------------------------------------------------------------------------
(* The wizard over the contract.                                           *)

USE WizardConstants

\* No request carries a guessed opening: in step "reveal" the wizard has its own
\* commitment in memory, and the opening it reveals is compared with it.
Own == [kind : {"commit", "reveal"}, opening : Openings, index : Nat,
        page : {"shown", "collapsed", "gone"}]

Typed == /\ joined \in BOOLEAN /\ wiped \in BOOLEAN
         /\ step \in Steps
         /\ made \in Openings \cup {None} /\ manual \in Nonces \cup {None}
         /\ count \in Nat
         /\ stored = None \/ stored \in [opening : Openings, index : Nat]
         /\ prompts \subseteq Own
         /\ pending \in Seq(Own)
         /\ kept \subseteq Nonces /\ asked \in Seq(Openings)
         /\ opened \subseteq Openings /\ overtook \in BOOLEAN

\* What the wizard has in memory, and what the browser has stored, is the newest.
MadeIsLatest ==
  /\ made # None => asked # << >> /\ made = Latest
  /\ stored # None => asked # << >> /\ stored.opening = Latest

\* Every opening in the wallet was asked to be committed.  A reveal whose page will
\* still remove the entry opens the newest one, unless it was waiting when that one
\* was asked for.
PromptsAreAsked ==
  \A r \in prompts :
    /\ \E i \in DOMAIN asked : asked[i] = r.opening
    /\ r.page = "shown" => made # None
    /\ r.kind = "reveal" /\ r.page # "gone" => overtook \/ r.opening = Latest

\* The steps behind a commitment have one in memory.
MadeWhereShown == step \notin {"hidden", "idle", "commit"} => made # None

\* Commitments are only appended, so an index that was read stays one of theirs
\* or the next.
Committed == Len(commitments[Here][User])
IndexRead == /\ count <= Committed
             /\ stored # None => stored.index <= Committed
             /\ \A r \in prompts : r.index <= Committed

Client == /\ Typed
          /\ MadeIsLatest
          /\ PromptsAreAsked
          /\ MadeWhereShown
          /\ IndexRead
          /\ NewestEntryKept

\* The inductive invariant.
ClientInv == IInv /\ Client

-----------------------------------------------------------------------------
(* The contract under the wizard.                                          *)

LEMMA CommittedIsNat == IInv => Committed \in Nat
<1> SUFFICES ASSUME IInv PROVE Committed \in Nat
  OBVIOUS
<1>1. commitments[Here][User] \in Seq(Commitment)
  BY DEF IInv, TypeOK
<1> QED  BY <1>1, LenProperties DEF Committed

\* No transaction of anybody shortens the list of User's commitments.
LEMMA CommittedGrows ==
  ASSUME IInv, [Next]_vars
  PROVE  Committed' >= Committed
<1>1. /\ commitments \in [Id -> [Addr -> Seq(Commitment)]]
      /\ Committed \in Nat
  BY CommittedIsNat DEF IInv, TypeOK
<1>2. CASE UNCHANGED commitments
  BY <1>1, <1>2 DEF Committed
<1>3. ASSUME NEW s \in Addr, NEW id \in Id, NEW v \in Value, NEW x \in Opening,
             CommitBet(s, id, v, x)
      PROVE  Committed' >= Committed
  <2> DEFINE old == commitments[id][s]
             entry == [value |-> v, hash |-> x]
  <2>1. entry \in Commitment /\ old \in Seq(Commitment)
    BY <1>1 DEF Commitment
  <2>2. Len(Append(old, entry)) = Len(old) + 1
    BY <2>1, AppendProperties
  <2>3. commitments' = [commitments EXCEPT ![id][s] = Append(old, entry)]
    BY <1>3 DEF CommitBet, Seal
  <2> HIDE DEF entry
  <2>4. CASE id = Here /\ s = User
    BY <1>1, <2>2, <2>3, <2>4 DEF Committed
  <2>5. CASE ~(id = Here /\ s = User)
    BY <1>1, <2>3, <2>5 DEF Committed
  <2> QED  BY <2>4, <2>5
<1>4. ASSUME NEW s \in Addr, NEW id \in Id, NEW i \in 1 .. MaxCommits,
             NEW x \in Opening, RevealBet(s, id, i, x)
      PROVE  Committed' >= Committed
  <2> DEFINE old == commitments[id][s]
             gone == [value |-> 0, hash |-> NoHash]
  <2>1. gone \in Commitment /\ old \in Seq(Commitment) /\ i \in 1 .. Len(old)
    <3>1. old \in Seq(Commitment)
      BY <1>1
    <3>2. i \in DOMAIN old
      BY <1>4 DEF RevealBet
    <3> QED  BY <3>1, <3>2, LenProperties DEF Commitment
  <2>2. Len([old EXCEPT ![i] = gone]) = Len(old)
    BY <2>1, ExceptSeq
  <2>3. commitments' = [commitments EXCEPT ![id][s] = [old EXCEPT ![i] = gone]]
    BY <1>1, <1>4 DEF RevealBet, CountStake
  <2> HIDE DEF gone
  <2>4. CASE id = Here /\ s = User
    BY <1>1, <2>2, <2>3, <2>4 DEF Committed
  <2>5. CASE ~(id = Here /\ s = User)
    BY <1>1, <2>3, <2>5 DEF Committed
  <2> QED  BY <2>4, <2>5
<1>5. ASSUME NEW s \in Addr, NEW w \in Window, CreateMarket(s, w[1], w[2])
      PROVE  UNCHANGED commitments
  BY <1>5 DEF CreateMarket, ledger
<1>6. ASSUME NEW s \in Addr, NEW id \in Id, NEW o \in Sides, ResolveMarket(s, id, o)
      PROVE  UNCHANGED commitments
  BY <1>6 DEF ResolveMarket, ledger
<1>7. ASSUME NEW s \in Addr, NEW id \in Id, ClaimPayout(s, id)
      PROVE  UNCHANGED commitments
  BY <1>7 DEF ClaimPayout
<1>8. ClaimReturn \/ Tick \/ UNCHANGED vars => UNCHANGED commitments
  BY DEF ClaimReturn, Tick, vars, ledger
<1>9. ASSUME NEW s \in Addr, NEW a \in Appointable, SetResolver(s, a)
      PROVE  UNCHANGED commitments
  BY <1>9 DEF SetResolver, ledger
<1> QED
  BY <1>2, <1>3, <1>4, <1>5, <1>6, <1>7, <1>8, <1>9 DEF Next
-----------------------------------------------------------------------------
(* The page: nothing below is a transaction.                               *)

\* A step that asks, stores and sends nothing and keeps what the wizard has in
\* memory needs only to stay out of the steps behind a commitment without one.
LEMMA SameRequests ==
  ASSUME Client, UNCHANGED <<commitments, made, count, stored, prompts, pending, asked,
                             opened, wiped, overtook>>,
         joined' \in BOOLEAN, step' \in Steps, kept' \subseteq Nonces,
         manual' \in Nonces \cup {None},
         made = None => step' \in {"hidden", "idle", "commit"}
  PROVE  Client'
<1>1. Committed' = Committed /\ Latest' = Latest
  BY DEF Committed, Latest
<1>2. Typed'
  BY DEF Client, Typed
<1>3. MadeIsLatest' /\ PromptsAreAsked' /\ MadeWhereShown'
  BY <1>1 DEF Client, MadeIsLatest, PromptsAreAsked, MadeWhereShown
<1>4. IndexRead' /\ NewestEntryKept'
  BY <1>1 DEF Client, IndexRead, NewestEntryKept
<1> QED  BY <1>2, <1>3, <1>4 DEF Client

LEMMA BrowsingKeeps ==
  ASSUME Client, \/ JoinMarket \/ ExpandCard \/ StartCommit \/ CopyNonce
                 \/ StartReveal \/ StartClaim \/ \E n \in kept : TypeNonce(n)
  PROVE  Client'
<1>1. CASE JoinMarket
  BY <1>1, SameRequests DEF JoinMarket, Client, Typed, MadeWhereShown, vars, ledger
<1>2. CASE ExpandCard
  BY <1>2, SameRequests DEF ExpandCard, Client, Typed, Steps, vars, ledger
<1>3. CASE StartCommit
  BY <1>3, SameRequests DEF StartCommit, Client, Typed, Steps, vars, ledger
<1>4. CASE CopyNonce
  <2>1. made \in Openings
    BY <1>4 DEF CopyNonce, Client, Typed, MadeWhereShown
  <2>2. made.nonce \in Nonces
    BY <2>1 DEF Openings
  <2> QED  BY <1>4, <2>2, SameRequests
           DEF CopyNonce, Client, Typed, MadeWhereShown, vars, ledger
<1>5. CASE StartReveal
  BY <1>5, SameRequests
  DEF StartReveal, Client, Typed, Steps, MadeWhereShown, vars, ledger
<1>6. CASE StartClaim
  BY <1>6, SameRequests
  DEF StartClaim, Client, Typed, Steps, MadeWhereShown, vars, ledger
<1>7. CASE \E n \in kept : TypeNonce(n)
  BY <1>7, SameRequests DEF TypeNonce, Client, Typed, MadeWhereShown, vars, ledger
<1> QED  BY <1>1, <1>2, <1>3, <1>4, <1>5, <1>6, <1>7

\* The page goes; the wallet's prompts and the transactions stay.
LEMMA UnmountKeeps ==
  ASSUME Client, NEW how \in {"collapsed", "gone"}, Unmount(how),
         UNCHANGED <<commitments, stored, asked, opened, wiped, overtook, joined,
                     kept>>,
         count' \in {0, count}, Committed \in Nat
  PROVE  Client'
<1>1. Committed' = Committed /\ Latest' = Latest
  BY DEF Committed, Latest
<1>2. \A r \in prompts' : \E q \in prompts :
        /\ r \in Own /\ r.opening = q.opening /\ r.index = q.index /\ r.kind = q.kind
        /\ r.page # "shown" \/ q.page = "gone"
        /\ r.page # "gone" => q.page # "gone"
        /\ q.page = "gone" => r = q
  <2> SUFFICES ASSUME NEW q \in prompts,
                      NEW r, r = IF q.page = "gone" THEN q ELSE [q EXCEPT !.page = how]
               PROVE  /\ r \in Own /\ r.opening = q.opening /\ r.index = q.index
                      /\ r.kind = q.kind
                      /\ r.page # "shown" \/ q.page = "gone"
                      /\ r.page # "gone" => q.page # "gone"
                      /\ q.page = "gone" => r = q
    BY DEF Unmount
  <2>1. q \in Own
    BY DEF Client, Typed
  <2> QED  BY <2>1 DEF Own
<1>3. pending' \in Seq(Own)
  <2> DEFINE n == Len(pending)
  <2>1. n \in Nat /\ pending \in [1 .. n -> Own] /\ DOMAIN pending = 1 .. n
    BY LenProperties DEF Client, Typed
  <2>2. ASSUME NEW i \in 1 .. n PROVE [pending[i] EXCEPT !.page = how] \in Own
    <3>1. pending[i] \in Own
      BY <2>1
    <3> QED  BY <3>1 DEF Own
  <2>3. pending' = [i \in 1 .. n |-> [pending[i] EXCEPT !.page = how]]
    BY <2>1 DEF Unmount
  <2> HIDE DEF n
  <2>4. pending' \in [1 .. n -> Own]
    BY <2>2, <2>3
  <2> QED  BY <2>1, <2>4
<1>4. Typed'
  BY <1>2, <1>3 DEF Client, Typed, Unmount, Steps
<1>5. MadeIsLatest' /\ MadeWhereShown'
  BY <1>1 DEF Unmount, Client, MadeIsLatest, MadeWhereShown
<1>6. PromptsAreAsked'
  BY <1>1, <1>2 DEF Client, PromptsAreAsked
<1>7. IndexRead'
  BY <1>1, <1>2 DEF Client, IndexRead
<1>8. NewestEntryKept'
  BY <1>1 DEF Client, NewestEntryKept
<1> QED  BY <1>4, <1>5, <1>6, <1>7, <1>8 DEF Client

LEMMA PageKeeps ==
  ASSUME Client, CollapseCard \/ Reload \/ ReadCount, Committed \in Nat
  PROVE  Client'
<1>1. CASE CollapseCard
  BY <1>1, UnmountKeeps DEF CollapseCard, vars, ledger
<1>2. CASE Reload
  BY <1>2, UnmountKeeps DEF Reload, vars, ledger
<1>3. CASE ReadCount
  <2>1. count' = Committed /\ Committed' = Committed /\ Latest' = Latest
    BY <1>3 DEF ReadCount, Committed, Latest, vars, ledger
  <2>2. UNCHANGED <<joined, step, made, manual, stored, prompts, pending, kept, asked,
                    opened, wiped, overtook>>
    BY <1>3 DEF ReadCount
  <2>3. Typed'
    BY <2>1, <2>2 DEF Client, Typed
  <2>4. MadeIsLatest' /\ PromptsAreAsked' /\ MadeWhereShown'
    BY <2>1, <2>2 DEF Client, MadeIsLatest, PromptsAreAsked, MadeWhereShown
  <2>5. IndexRead' /\ NewestEntryKept'
    BY <2>1, <2>2 DEF Client, IndexRead, NewestEntryKept
  <2> QED  BY <2>3, <2>4, <2>5 DEF Client
<1> QED  BY <1>1, <1>2, <1>3

\* A new opening replaces the stored one before the wallet is asked.
LEMMA ExecuteCommitKeeps ==
  ASSUME Client, NEW b \in Bets, ExecuteCommit(b), Committed \in Nat
  PROVE  Client'
<1> DEFINE x == [outcome |-> b.outcome, amount |-> b.amount, nonce |-> Len(asked) + 1]
           entry == [opening |-> x, index |-> count]
           request == [kind |-> "commit", opening |-> x, index |-> count,
                       page |-> "shown"]
<1>1. /\ x \in Openings /\ x # None
      /\ entry \in [opening : Openings, index : Nat] /\ entry # None
      /\ request \in Own
  <2>1. x \in Openings
    BY DEF ExecuteCommit, Openings
  <2> HIDE DEF x
  <2>2. count \in Nat
    BY DEF Client, Typed
  <2> QED  BY <2>1, <2>2 DEF Own
<1>2. /\ step' = "committing" /\ made' = x /\ stored' = entry
      /\ prompts' = prompts \cup {request} /\ overtook' = RevealWaiting
      /\ asked' = Append(asked, x)
      /\ UNCHANGED <<commitments, joined, manual, count, pending, kept, opened, wiped>>
  BY DEF ExecuteCommit, vars, ledger
<1>3. /\ request.opening = x /\ request.index = count /\ request.kind = "commit"
      /\ entry.opening = x /\ entry.index = count
  OBVIOUS
<1> HIDE DEF x, entry, request
<1>4. /\ asked' \in Seq(Openings) /\ asked' # << >> /\ Latest' = x
      /\ \E i \in DOMAIN asked' : asked'[i] = x
      /\ \A i \in DOMAIN asked : i \in DOMAIN asked' /\ asked'[i] = asked[i]
  <2>1. asked \in Seq(Openings) /\ Len(asked) \in Nat /\ DOMAIN asked = 1 .. Len(asked)
    BY LenProperties DEF Client, Typed
  <2>2. /\ asked' \in Seq(Openings) /\ asked' # << >> /\ Len(asked') = Len(asked) + 1
        /\ asked'[Len(asked) + 1] = x
        /\ \A i \in 1 .. Len(asked) : asked'[i] = asked[i]
    BY <1>1, <1>2, <2>1, AppendProperties
  <2>3. DOMAIN asked' = 1 .. Len(asked) + 1
    BY <2>2, LenProperties
  <2>4. Len(asked) + 1 \in DOMAIN asked' /\ DOMAIN asked \subseteq DOMAIN asked'
    BY <2>1, <2>3
  <2> QED  BY <2>1, <2>2, <2>4 DEF Latest
<1>5. Typed'
  <2>1. overtook' \in BOOLEAN
    BY <1>2 DEF RevealWaiting
  <2> QED  BY <1>1, <1>2, <1>4, <2>1 DEF Client, Typed, Steps
<1>6. MadeIsLatest' /\ MadeWhereShown'
  BY <1>1, <1>2, <1>3, <1>4 DEF MadeIsLatest, MadeWhereShown
<1>7. PromptsAreAsked'
  <2> SUFFICES ASSUME NEW r \in prompts'
               PROVE  /\ \E i \in DOMAIN asked' : asked'[i] = r.opening
                      /\ r.page = "shown" => made' # None
                      /\ r.kind = "reveal" /\ r.page # "gone"
                           => overtook' \/ r.opening = Latest'
    BY DEF PromptsAreAsked
  <2>1. CASE r = request
    BY <1>1, <1>2, <1>3, <1>4, <2>1
  <2>2. CASE r \in prompts
    <3>1. \E i \in DOMAIN asked : asked[i] = r.opening
      BY <2>2 DEF Client, PromptsAreAsked
    <3>2. r.kind = "reveal" /\ r.page # "gone" => overtook'
      BY <1>2, <2>2 DEF RevealWaiting
    <3> QED  BY <1>1, <1>2, <1>4, <3>1, <3>2
  <2> QED  BY <1>2, <2>1, <2>2
<1>8. IndexRead'
  BY <1>2, <1>3 DEF Client, IndexRead, Committed
<1>9. NewestEntryKept'
  BY <1>1, <1>2, <1>3, <1>4 DEF NewestEntryKept
<1> QED  BY <1>5, <1>6, <1>7, <1>8, <1>9 DEF Client

\* The newest opening is one of those asked for.
LEMMA LatestIsAsked ==
  ASSUME asked \in Seq(Openings), asked # << >>
  PROVE  \E i \in DOMAIN asked : asked[i] = Latest
BY EmptySeq, LenProperties DEF Latest

\* The comparison with what is in memory is what keeps a guess from the wallet.
LEMMA ExecuteRevealKeeps ==
  ASSUME Client, ExecuteReveal, Committed \in Nat
  PROVE  Client'
<1> DEFINE i == IF stored = None THEN 0 ELSE stored.index
           request == [kind |-> "reveal", opening |-> ToReveal, index |-> i,
                       page |-> "shown"]
<1>1. made # None /\ made \in Openings /\ ToReveal = made
  BY DEF ExecuteReveal, RevealOffered, Client, Typed, MadeWhereShown
<1>2. i \in Nat /\ i <= Committed
  BY DEF Client, Typed, IndexRead
<1>3. step' = "revealing" /\ prompts' = prompts \cup {request}
      /\ UNCHANGED <<commitments, joined, made, manual, count, stored, pending, kept,
                     asked, opened, wiped, overtook>>
  BY DEF ExecuteReveal, vars, ledger
<1> HIDE DEF i
<1>4. request \in Own /\ request.opening = made /\ request.index = i
  BY <1>1, <1>2 DEF Own
<1> HIDE DEF request
<1>5. Committed' = Committed /\ Latest' = Latest
  BY <1>3 DEF Committed, Latest
<1>6. Typed'
  BY <1>3, <1>4 DEF Client, Typed, Steps
<1>7. MadeIsLatest' /\ MadeWhereShown'
  BY <1>1, <1>3, <1>5 DEF Client, MadeIsLatest, MadeWhereShown
<1>8. PromptsAreAsked'
  <2>1. /\ made = Latest
        /\ \E k \in DOMAIN asked : asked[k] = made
    BY <1>1, LatestIsAsked DEF Client, Typed, MadeIsLatest
  <2> QED  BY <1>1, <1>3, <1>4, <1>5, <2>1 DEF Client, PromptsAreAsked
<1>9. IndexRead' /\ NewestEntryKept'
  BY <1>2, <1>3, <1>4, <1>5 DEF Client, IndexRead, NewestEntryKept
<1> QED  BY <1>6, <1>7, <1>8, <1>9 DEF Client

\* The entry that the submission of a reveal removes is the one it opens, or one
\* that was stored with the reveal waiting.
LEMMA ConfirmKeeps ==
  ASSUME Client, NEW r \in prompts, Confirm(r)
  PROVE  Client'
<1>1. /\ r \in Own
      /\ r.page = "shown" => made # None
      /\ r.kind = "reveal" /\ r.page # "gone" => overtook \/ r.opening = Latest
  BY DEF Client, Typed, PromptsAreAsked
<1>2. /\ prompts' = prompts \ {r}
      /\ pending' = Append(pending, r)
      /\ step' \in {step, "committed", "done"}
      /\ step' # step => r.page = "shown"
      /\ opened' \in {opened, opened \cup {r.opening}}
      /\ \/ stored' = stored /\ opened \subseteq opened'
         \/ stored' = None /\ (overtook \/ Latest \in opened')
      /\ UNCHANGED <<commitments, joined, made, manual, count, kept, asked, wiped,
                     overtook>>
  BY <1>1 DEF Confirm, vars, ledger
<1>3. Committed' = Committed /\ Latest' = Latest
  BY <1>2 DEF Committed, Latest
<1>4. Typed'
  <2>1. pending' \in Seq(Own)
    BY <1>1, <1>2, AppendProperties DEF Client, Typed
  <2>2. r.opening \in Openings
    BY <1>1 DEF Own
  <2>3. step' \in Steps
    BY <1>2 DEF Client, Typed, Steps
  <2> QED  BY <1>2, <2>1, <2>2, <2>3 DEF Client, Typed
<1>5. MadeIsLatest' /\ PromptsAreAsked' /\ MadeWhereShown'
  BY <1>1, <1>2, <1>3 DEF Client, MadeIsLatest, PromptsAreAsked, MadeWhereShown
<1>6. IndexRead'
  BY <1>2, <1>3 DEF Client, IndexRead
<1>7. NewestEntryKept'
  BY <1>1, <1>2, <1>3 DEF Client, NewestEntryKept
<1> QED  BY <1>4, <1>5, <1>6, <1>7 DEF Client

LEMMA RefusalKeeps ==
  ASSUME Client, ClearStorage \/ \E r \in prompts : Reject(r)
  PROVE  Client'
<1>1. Committed' = Committed /\ Latest' = Latest
  BY DEF Reject, ClearStorage, Committed, Latest, vars, ledger
<1>2. ASSUME NEW r \in prompts, Reject(r) PROVE Client'
  <2>1. /\ prompts' \subseteq prompts
        /\ step' \in {step, "commit", "reveal"}
        /\ step' # step => made # None
        /\ UNCHANGED <<joined, made, manual, count, stored, pending, kept, asked,
                       opened, wiped, overtook>>
    BY <1>2 DEF Reject, Client, Typed, Own, PromptsAreAsked
  <2>2. Typed'
    BY <2>1 DEF Client, Typed, Steps
  <2>3. MadeIsLatest' /\ PromptsAreAsked' /\ MadeWhereShown'
    BY <1>1, <2>1 DEF Client, MadeIsLatest, PromptsAreAsked, MadeWhereShown
  <2>4. IndexRead' /\ NewestEntryKept'
    BY <1>1, <2>1 DEF Client, IndexRead, NewestEntryKept
  <2> QED  BY <2>2, <2>3, <2>4 DEF Client
<1>3. CASE ClearStorage
  <2>1. /\ stored' = None /\ wiped' = TRUE /\ joined' = FALSE
        /\ UNCHANGED <<step, made, manual, count, prompts, pending, kept, asked,
                       opened, overtook>>
    BY <1>3 DEF ClearStorage
  <2>2. Typed'
    BY <2>1 DEF Client, Typed
  <2>3. MadeIsLatest' /\ PromptsAreAsked' /\ MadeWhereShown'
    BY <1>1, <2>1 DEF Client, MadeIsLatest, PromptsAreAsked, MadeWhereShown
  <2>4. IndexRead' /\ NewestEntryKept'
    BY <1>1, <2>1 DEF Client, IndexRead, NewestEntryKept
  <2> QED  BY <2>2, <2>3, <2>4 DEF Client
<1> QED  BY <1>2, <1>3

-----------------------------------------------------------------------------
(* Transactions: the wizard's and those of the other accounts.             *)

\* What is mined is a transaction of the contract, or one that reverts.
LEMMA MineIsTransaction ==
  ASSUME Client, IInv, Mine
  PROVE  [Next]_vars
<1> DEFINE r == Head(pending)
<1>1. r \in Own
  BY HeadTailProperties DEF Mine, Client, Typed
<1>2. r.opening \in Opening /\ r.opening.amount \in Value /\ r.index \in Nat
  <2>1. r.opening \in Openings /\ r.index \in Nat
    BY <1>1 DEF Own
  <2>2. \A x \in Openings : x.amount \in Value
    BY DEF Openings
  <2> QED  BY <2>1, <2>2
<1> HIDE DEF r
<1>3. CASE Commits(r)
  BY <1>2, <1>3 DEF Commits, Next
<1>4. CASE Reveals(r)
  <2>1. r.index + 1 \in 1 .. MaxCommits
    <3>1. commitments[Here][User] \in Seq(Commitment)
          /\ Len(commitments[Here][User]) <= MaxCommits
      BY DEF IInv, TypeOK
    <3>2. r.index + 1 \in DOMAIN commitments[Here][User]
      BY <1>4 DEF Reveals, RevealBet
    <3>3. /\ DOMAIN commitments[Here][User] = 1 .. Len(commitments[Here][User])
          /\ Len(commitments[Here][User]) \in Nat
      BY <3>1, LenProperties
    <3>4. 1 <= r.index + 1 /\ r.index + 1 <= MaxCommits
      <4> DEFINE n == Len(commitments[Here][User])
      <4>1. r.index + 1 \in 1 .. n /\ n \in Nat /\ n <= MaxCommits
        BY <3>1, <3>2, <3>3
      <4> HIDE DEF n
      <4> QED  BY <1>2, <4>1, PrivateBounds
    <3> QED  BY <1>2, <3>4, PrivateBounds
  <2> QED  BY <1>2, <1>4, <2>1 DEF Reveals, Next
<1>5. CASE Reverts(r)
  BY <1>5 DEF Reverts
<1> QED  BY <1>3, <1>4, <1>5 DEF Mine, r

LEMMA OthersIsTransaction == Others => [Next]_vars
BY DEF Others, Next

\* A transaction changes nothing of the wizard but the queue it was taken from.
LEMMA TransactionKeeps ==
  ASSUME IInv, Client, [Next]_vars,
         UNCHANGED <<joined, step, made, manual, count, stored, prompts, kept, asked,
                     opened, wiped, overtook>>,
         pending' \in Seq(Own)
  PROVE  Client'
<1>1. Committed' >= Committed /\ Committed \in Nat /\ Committed' \in Nat
  <2>1. IInv'
    BY NextInv
  <2>2. commitments'[Here][User] \in Seq(Commitment)
    BY <2>1 DEF IInv, TypeOK
  <2>3. Committed' \in Nat
    BY <2>2, LenProperties DEF Committed
  <2> QED  BY <2>3, CommittedGrows, CommittedIsNat
<1>2. Latest' = Latest
  BY DEF Latest
<1>3. Typed'
  BY DEF Client, Typed
<1>4. MadeIsLatest' /\ PromptsAreAsked' /\ MadeWhereShown'
  BY <1>2 DEF Client, MadeIsLatest, PromptsAreAsked, MadeWhereShown
<1>5. IndexRead'
  <2>1. \A r \in prompts : r.index \in Nat
    BY DEF Client, Typed, Own
  <2>2. stored # None => stored.index \in Nat
    BY DEF Client, Typed
  <2>3. count \in Nat
    BY DEF Client, Typed
  <2> QED  BY <1>1, <2>1, <2>2, <2>3 DEF Client, IndexRead
<1>6. NewestEntryKept'
  BY <1>2 DEF Client, NewestEntryKept
<1> QED  BY <1>3, <1>4, <1>5, <1>6 DEF Client

\* Every step of the wizard is a transaction of the contract or none.
LEMMA StepIsTransaction ==
  ASSUME ClientInv, [WizardNext]_clientVars
  PROVE  [Next]_vars
<1>1. CASE Mine
  BY <1>1, MineIsTransaction DEF ClientInv
<1>2. CASE Others
  BY <1>2, OthersIsTransaction
<1>3. CASE ~Mine /\ ~Others
  BY <1>3 DEF WizardNext, clientVars, JoinMarket, ExpandCard, CollapseCard, Reload,
     ReadCount, StartCommit, ExecuteCommit, CopyNonce, StartReveal, TypeNonce,
     ExecuteReveal, StartClaim, Confirm, Reject, ClearStorage
<1> QED  BY <1>1, <1>2, <1>3

LEMMA ClientNextInv == ClientInv /\ [WizardNext]_clientVars => ClientInv'
<1> SUFFICES ASSUME ClientInv, [WizardNext]_clientVars PROVE ClientInv'
  OBVIOUS
<1>1. IInv /\ Client /\ Committed \in Nat
  BY CommittedIsNat DEF ClientInv
<1>2. [Next]_vars
  BY StepIsTransaction
<1>3. IInv'
  BY <1>1, <1>2, NextInv
<1>4. ASSUME NEW b \in Bets, ExecuteCommit(b) PROVE Client'
  BY <1>1, <1>4, ExecuteCommitKeeps
<1>5. ASSUME Mine PROVE Client'
  <2>1. pending' \in Seq(Own)
    BY <1>1, <1>5, HeadTailProperties DEF Mine, Client, Typed
  <2>2. UNCHANGED <<joined, step, made, manual, count, stored, prompts, kept, asked,
                    opened, wiped, overtook>>
    BY <1>5 DEF Mine
  <2> QED  BY <1>1, <1>2, <2>1, <2>2, TransactionKeeps
<1>6. ASSUME UNCHANGED wizardVars PROVE Client'
  <2>1. pending' \in Seq(Own)
    BY <1>1, <1>6 DEF wizardVars, Client, Typed
  <2>2. UNCHANGED <<joined, step, made, manual, count, stored, prompts, kept, asked,
                    opened, wiped, overtook>>
    BY <1>6 DEF wizardVars
  <2> QED  BY <1>1, <1>2, <2>1, <2>2, TransactionKeeps
<1>7. Others \/ UNCHANGED clientVars => UNCHANGED wizardVars
  BY DEF Others, clientVars
<1>8. Client'
  <2>1. CASE \E b \in Bets : ExecuteCommit(b)
    BY <1>4, <2>1
  <2>2. CASE Mine \/ Others \/ UNCHANGED clientVars
    BY <1>5, <1>6, <1>7, <2>2
  <2>3. CASE ExecuteReveal \/ \E r \in prompts : Confirm(r)
    BY <1>1, <2>3, ExecuteRevealKeeps, ConfirmKeeps
  <2>4. CASE ClearStorage \/ \E r \in prompts : Reject(r)
    BY <1>1, <2>4, RefusalKeeps
  <2>5. CASE CollapseCard \/ Reload \/ ReadCount
    BY <1>1, <2>5, PageKeeps
  <2>6. CASE \/ JoinMarket \/ ExpandCard \/ StartCommit \/ CopyNonce
             \/ StartReveal \/ StartClaim \/ \E n \in kept : TypeNonce(n)
    BY <1>1, <2>6, BrowsingKeeps
  <2> QED  BY <2>1, <2>2, <2>3, <2>4, <2>5, <2>6 DEF WizardNext
<1> QED  BY <1>3, <1>8 DEF ClientInv

LEMMA ClientInitInv == WizardInit => ClientInv
<1> SUFFICES ASSUME WizardInit PROVE ClientInv
  OBVIOUS
<1>1. IInv
  BY InitInv DEF WizardInit
<1>2. Typed
  BY EmptySeq DEF WizardInit, Typed, Steps
<1>3. MadeIsLatest /\ PromptsAreAsked /\ MadeWhereShown /\ NewestEntryKept
  BY DEF WizardInit, MadeIsLatest, PromptsAreAsked, MadeWhereShown, NewestEntryKept
<1>4. IndexRead
  BY <1>1, CommittedIsNat DEF WizardInit, IndexRead
<1> QED  BY <1>1, <1>2, <1>3, <1>4 DEF ClientInv, Client

LEMMA ClientInvariance == WizardSpec => []ClientInv
<1> QED  BY ClientInitInv, ClientNextInv, PTL DEF WizardSpec

-----------------------------------------------------------------------------
\* The wizard is a user of the contract like any other: what it submits, late, twice
\* or from a page that is gone, is a transaction of PrivatePredictionMarket.
THEOREM WizardUsesContract == WizardSpec => Spec
<1>1. WizardInit => Init
  BY DEF WizardInit
<1>2. ClientInv /\ [WizardNext]_clientVars => [Next]_vars
  BY StepIsTransaction
<1> QED  BY <1>1, <1>2, ClientInvariance, PTL DEF WizardSpec, Spec

\* Behind the wizard, too, all committed ether is sealed or counted, once.
THEOREM SealedBehindWizard == WizardSpec => []CommittedIsSealedOrCounted
BY WizardUsesContract, SealedOrCounted, PTL

\* Behind the wizard, too, what was committed and not paid out is in the contract.
THEOREM EtherBehindWizard == WizardSpec => []EtherConserved
BY WizardUsesContract, EtherIsConserved, PTL

\* Whatever page was closed and whatever was refused in between, the browser keeps
\* the newest opening until its reveal has been submitted, unless it was asked for
\* with an older reveal waiting in the wallet.
LEMMA NewestIsKept == WizardSpec => []NewestEntryKept
<1>1. ClientInv => NewestEntryKept
  BY DEF ClientInv, Client
<1> QED  BY <1>1, ClientInvariance, PTL

\* The wallet is only asked to reveal an opening that was asked to be committed,
\* never a guess made from a nonce typed by hand, at an index that was read.
LEMMA OwnIsRevealed == WizardSpec => []RevealsOwnOpening
<1>1. ClientInv => RevealsOwnOpening
  BY DEF ClientInv, Client, PromptsAreAsked, IndexRead, Committed, RevealsOwnOpening
<1> QED  BY <1>1, ClientInvariance, PTL

\* However pages, prompts and transactions are interleaved, an opening asked for with
\* no reveal waiting is not lost before its own reveal was submitted, and only what
\* the user asked to commit is revealed.
THEOREM OpeningKept == WizardSpec => []OpeningIsSafe
<1>1. NewestEntryKept /\ RevealsOwnOpening => OpeningIsSafe
  BY DEF OpeningIsSafe
<1> QED  BY <1>1, NewestIsKept, OwnIsRevealed, PTL

\* The variables of the wizard and of the contract behind it keep their types.
THEOREM WizardTypeCorrect == WizardSpec => []WizardTypeOK
<1>1. ClientInv => WizardTypeOK
  <2>1. \A r \in Own : r \in Request
    BY DEF Own, Request
  <2>2. \A i \in DOMAIN pending : ClientInv => pending[i] \in Own
    BY LenProperties, ElementOfSeq DEF ClientInv, Client, Typed
  <2> QED  BY <2>1, <2>2 DEF ClientInv, Client, Typed, IInv, WizardTypeOK
<1> QED  BY <1>1, ClientInvariance, PTL
=============================================================================
