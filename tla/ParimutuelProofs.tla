-------------------------- MODULE ParimutuelProofs --------------------------
(***************************************************************************)
(* Facts about Total and Share, for every function of natural numbers over *)
(* a finite set, that the invariance proofs of the market modules rest on. *)
(***************************************************************************)
EXTENDS Parimutuel, FiniteSetTheorems, TLAPS

\* The wei of a finite ledger are finitely many, so Total is a number.
LEMMA CoinsFinite ==
  ASSUME NEW S, IsFiniteSet(S), NEW f \in [S -> Nat]
  PROVE  IsFiniteSet(Coins(f)) /\ Total(f) \in Nat
<1> DEFINE g == [u \in S |-> {u} \X (1 .. f[u])]
           T == {{u} \X (1 .. f[u]) : u \in S}
<1>1. g \in Surjection(S, T)
  BY DEF Surjection
<1>2. IsFiniteSet(T)
  BY <1>1, FS_Surjection
<1>3. ASSUME NEW t \in T PROVE IsFiniteSet(t)
  <2>1. PICK u \in S : t = {u} \X (1 .. f[u])  BY <1>3
  <2>2. IsFiniteSet({u})  BY FS_Singleton
  <2>3. IsFiniteSet(1 .. f[u])  BY FS_Interval
  <2> QED  BY <2>1, <2>2, <2>3, FS_Product
<1>4. IsFiniteSet(UNION T)
  BY <1>2, <1>3, FS_UNION
<1>5. Coins(f) = UNION T
  BY DEF Coins
<1> QED  BY <1>4, <1>5, FS_CardinalityType DEF Total

\* Adding k to one entry adds k to the total (a bet, a payment).
LEMMA TotalAdd ==
  ASSUME NEW S, IsFiniteSet(S), NEW f \in [S -> Nat], NEW h \in [S -> Nat],
         NEW u \in S, NEW k \in Nat, h[u] = f[u] + k,
         \A w \in S \ {u} : h[w] = f[w]
  PROVE  Total(h) = Total(f) + k
<1> DEFINE New == {u} \X ((f[u] + 1) .. (f[u] + k))
<1>1. Coins(h) = Coins(f) \cup New
  <2>1. DOMAIN h = S /\ DOMAIN f = S /\ h[u] = f[u] + k
        /\ \A w \in S \ {u} : h[w] = f[w]
    OBVIOUS
  <2>2. ASSUME NEW c PROVE c \in Coins(h) <=> c \in Coins(f) \cup New
    <3>1. c \in Coins(h) <=> \E w \in S : c \in {w} \X (1 .. h[w])
      BY <2>1 DEF Coins
    <3>2. c \in Coins(f) <=> \E w \in S : c \in {w} \X (1 .. f[w])
      BY <2>1 DEF Coins
    <3>3. c \in {u} \X (1 .. h[u]) <=> c \in {u} \X (1 .. f[u]) \/ c \in New
      <4>1. f[u] \in Nat  OBVIOUS
      <4>2. \A i : i \in 1 .. h[u]
                   <=> i \in 1 .. f[u] \/ i \in (f[u] + 1) .. (f[u] + k)
        BY <2>1, <4>1
      <4> QED  BY <4>2
    <3> QED  BY <2>1, <3>1, <3>2, <3>3
  <2> QED  BY <2>2
<1>2. Coins(f) \cap New = {}
  <2> SUFFICES ASSUME NEW c \in Coins(f), c \in New PROVE FALSE
    OBVIOUS
  <2>1. PICK w \in S : c \in {w} \X (1 .. f[w])
    BY DEF Coins
  <2>2. PICK i \in 1 .. f[w] : c = <<w, i>>  BY <2>1
  <2>3. PICK j \in (f[u] + 1) .. (f[u] + k) : c = <<u, j>>  OBVIOUS
  <2>4. w = u /\ i = j  BY <2>2, <2>3
  <2>5. f[u] \in Nat  OBVIOUS
  <2> QED  BY <2>4, <2>5
<1>3. f[u] \in Nat  OBVIOUS
<1>4. IsFiniteSet(New) /\ Cardinality(New) = k
  <2> DEFINE lo == f[u] + 1
             hi == f[u] + k
  <2>1. lo \in Int /\ hi \in Int /\ (IF lo > hi THEN 0 ELSE hi - lo + 1) = k
    BY <1>3
  <2> HIDE DEF lo, hi
  <2>2. IsFiniteSet(lo .. hi) /\ Cardinality(lo .. hi) = k
    BY <2>1, FS_Interval
  <2>3. IsFiniteSet({u}) /\ Cardinality({u}) = 1
    BY FS_Singleton
  <2> DEFINE range == lo .. hi
             one == {u}
  <2> HIDE DEF range, one
  <2>4. /\ IsFiniteSet(one \X range)
        /\ Cardinality(one \X range) = 1 * k
    <3>1. IsFiniteSet(one) /\ Cardinality(one) = 1
      BY <2>3 DEF one
    <3>2. IsFiniteSet(range) /\ Cardinality(range) = k
      BY <2>2 DEF range
    <3> QED  BY ONLY <3>1, <3>2, FS_Product
  <2> QED  BY <2>4 DEF lo, hi, range, one, New
<1>5. IsFiniteSet(Coins(f)) /\ Total(f) \in Nat
  BY CoinsFinite
<1> HIDE DEF New
<1>6. Cardinality(Coins(f) \cup New)
        = Cardinality(Coins(f)) + Cardinality(New) - Cardinality(Coins(f) \cap New)
  BY <1>4, <1>5, FS_Union, Zenon
<1> QED  BY <1>1, <1>2, <1>4, <1>5, <1>6, FS_EmptySet DEF Total

\* A ledger of zeros adds up to zero.
LEMMA TotalZero ==
  ASSUME NEW S, NEW f \in [S -> Nat], \A u \in S : f[u] = 0
  PROVE  Total(f) = 0
<1>1. Coins(f) = {}
  <2>1. \A u \in S : {u} \X (1 .. f[u]) = {}
    <3>1. \A u \in S : 1 .. f[u] = {}  OBVIOUS
    <3> QED  BY <3>1
  <2> QED  BY <2>1 DEF Coins
<1> QED  BY <1>1, FS_EmptySet DEF Total

\* A new entry adds what it is to the total (a log, a block).
LEMMA TotalExtend ==
  ASSUME NEW S, IsFiniteSet(S), NEW x, x \notin S, NEW f \in [S -> Nat],
         NEW h \in [S \cup {x} -> Nat], \A u \in S : h[u] = f[u]
  PROVE  Total(h) = Total(f) + h[x]
<1> DEFINE g == [u \in S \cup {x} |-> IF u = x THEN 0 ELSE f[u]]
<1>1. IsFiniteSet(S \cup {x})
  BY FS_AddElement
<1>2. g \in [S \cup {x} -> Nat] /\ g[x] = 0 /\ \A u \in S : g[u] = f[u]
  OBVIOUS
<1> HIDE DEF g
<1>3. Total(h) = Total(g) + h[x]
  <2>1. h[x] \in Nat /\ h[x] = g[x] + h[x]
    BY <1>2
  <2> QED  BY <1>1, <1>2, <2>1, TotalAdd
<1>4. Coins(g) = Coins(f)
  <2>1. 1 .. g[x] = {}
    BY <1>2
  <2> QED  BY <1>2, <2>1 DEF Coins
<1> QED  BY <1>3, <1>4 DEF Total

\* Fewer entries add up to no more.
LEMMA TotalSubset ==
  ASSUME NEW S, IsFiniteSet(S), NEW R \in SUBSET S, NEW f \in [S -> Nat],
         NEW h \in [R -> Nat], \A u \in R : h[u] = f[u]
  PROVE  Total(h) <= Total(f)
<1>1. Coins(h) \subseteq Coins(f)
  BY DEF Coins
<1>2. IsFiniteSet(Coins(f))
  BY CoinsFinite
<1> QED  BY <1>1, <1>2, FS_Subset DEF Total

\* Ledgers added entry by entry add up to the sum of their totals: the wei of
\* the second are put on top of those of the first.
LEMMA TotalSum ==
  ASSUME NEW S, IsFiniteSet(S), NEW f \in [S -> Nat], NEW g \in [S -> Nat],
         NEW h \in [S -> Nat], \A u \in S : h[u] = f[u] + g[u]
  PROVE  Total(h) = Total(f) + Total(g)
<1> DEFINE N == Coins(h) \ Coins(f)
           b == [c \in Coins(g) |-> <<c[1], f[c[1]] + c[2]>>]
<1>1. ASSUME NEW c
      PROVE  /\ c \in Coins(f) <=> \E u \in S : \E i \in 1 .. f[u] : c = <<u, i>>
             /\ c \in Coins(g) <=> \E u \in S : \E i \in 1 .. g[u] : c = <<u, i>>
             /\ c \in Coins(h) <=> \E u \in S : \E i \in 1 .. h[u] : c = <<u, i>>
  BY DEF Coins
<1>2. \A u \in S : f[u] \in Nat /\ g[u] \in Nat /\ h[u] = f[u] + g[u]
  OBVIOUS
<1>3. ASSUME NEW u \in S, NEW n PROVE <<u, n>> \in N <=> n \in (f[u] + 1) .. h[u]
  <2>1. <<u, n>> \in N <=> n \in 1 .. h[u] /\ n \notin 1 .. f[u]
    BY <1>1
  <2> QED  BY <1>2, <2>1
<1>4. \A c \in N : \E u \in S, n \in Int : c = <<u, n>>
  <2> SUFFICES ASSUME NEW c \in N PROVE \E u \in S, n \in Int : c = <<u, n>>
    OBVIOUS
  <2>1. PICK u \in S : \E i \in 1 .. h[u] : c = <<u, i>>
    BY <1>1
  <2> QED  BY <2>1
<1>5. b \in [Coins(g) -> N]
  <2> SUFFICES ASSUME NEW c \in Coins(g) PROVE b[c] \in N
    OBVIOUS
  <2>1. PICK u \in S : \E i \in 1 .. g[u] : c = <<u, i>>
    BY <1>1
  <2> PICK i \in 1 .. g[u] : c = <<u, i>>
    BY <2>1
  <2>2. f[u] + i \in (f[u] + 1) .. h[u]
    BY <1>2
  <2> QED  BY <1>3, <2>1, <2>2
<1>6. ASSUME NEW c \in Coins(g), NEW d \in Coins(g), b[c] = b[d] PROVE c = d
  <2>1. PICK u \in S : \E i \in 1 .. g[u] : c = <<u, i>>
    BY <1>1
  <2> PICK i \in 1 .. g[u] : c = <<u, i>>
    BY <2>1
  <2>2. PICK v \in S : \E j \in 1 .. g[v] : d = <<v, j>>
    BY <1>1
  <2> PICK j \in 1 .. g[v] : d = <<v, j>>
    BY <2>2
  <2>3. u = v /\ f[u] + i = f[u] + j
    BY <1>6
  <2>4. i = j
    BY <1>2, <2>3
  <2> QED  BY <2>3, <2>4
<1>7. ASSUME NEW c \in N PROVE \E d \in Coins(g) : b[d] = c
  <2>1. PICK u \in S, n \in Int : c = <<u, n>>
    BY <1>4
  <2>2. n \in (f[u] + 1) .. h[u]
    BY <1>3, <2>1
  <2>3. n - f[u] \in 1 .. g[u] /\ f[u] + (n - f[u]) = n
    BY <1>2, <2>2
  <2>4. <<u, n - f[u]>> \in Coins(g)
    BY <1>1, <2>3
  <2> QED  BY <2>1, <2>3, <2>4
<1>8. b \in Bijection(Coins(g), N)
  <2> HIDE DEF b, N
  <2> QED  BY <1>5, <1>6, <1>7 DEF Bijection, Injection, Surjection, IsInjective
<1>9. /\ IsFiniteSet(Coins(f)) /\ Total(f) \in Nat
      /\ IsFiniteSet(Coins(g)) /\ Total(g) \in Nat
  BY CoinsFinite
<1>10. IsFiniteSet(N) /\ Cardinality(N) = Total(g)
  <2> HIDE DEF b, N
  <2> QED  BY <1>8, <1>9, FS_Bijection DEF Total, ExistsBijection
<1>11. Coins(h) = Coins(f) \cup N /\ Coins(f) \cap N = {}
  <2>1. ASSUME NEW c \in Coins(f) PROVE c \in Coins(h)
    <3>1. PICK u \in S : \E i \in 1 .. f[u] : c = <<u, i>>
      BY <1>1
    <3> PICK i \in 1 .. f[u] : c = <<u, i>>
      BY <3>1
    <3>2. i \in 1 .. h[u]
      BY <1>2
    <3> QED  BY <1>1, <3>2
  <2> QED  BY <2>1
<1> HIDE DEF N
<1>12. Cardinality(Coins(f) \cup N)
         = Cardinality(Coins(f)) + Cardinality(N) - Cardinality(Coins(f) \cap N)
  BY <1>9, <1>10, FS_Union, Zenon
<1>13. Cardinality(Coins(f) \cap N) = 0
  BY <1>11, FS_EmptySet
<1>14. Total(h) = Total(f) + Total(g) - 0
  BY <1>10, <1>11, <1>12, <1>13 DEF Total
<1> QED  BY <1>9, <1>14

\* A ledger that is nowhere larger adds up to no more.
LEMMA TotalMonotone ==
  ASSUME NEW S, IsFiniteSet(S), NEW f \in [S -> Nat], NEW g \in [S -> Nat],
         \A u \in S : f[u] <= g[u]
  PROVE  Total(f) <= Total(g)
<1>1. Coins(f) \subseteq Coins(g)
  <2> SUFFICES ASSUME NEW c \in Coins(f) PROVE c \in Coins(g)
    OBVIOUS
  <2>1. PICK u \in S : c \in {u} \X (1 .. f[u])
    BY DEF Coins
  <2>2. f[u] \in Nat /\ g[u] \in Nat /\ f[u] <= g[u]  OBVIOUS
  <2>3. 1 .. f[u] \subseteq 1 .. g[u]  BY <2>2
  <2>4. c \in {u} \X (1 .. g[u])  BY <2>1, <2>3
  <2> QED  BY <2>4 DEF Coins
<1>2. IsFiniteSet(Coins(g))
  BY CoinsFinite
<1> QED  BY <1>1, <1>2, FS_Subset DEF Total

\* No entry exceeds the total.
LEMMA EntryBelowTotal ==
  ASSUME NEW S, IsFiniteSet(S), NEW f \in [S -> Nat], NEW u \in S
  PROVE  f[u] <= Total(f)
<1> DEFINE z == [w \in S |-> IF w = u THEN 0 ELSE f[w]]
<1>1. z \in [S -> Nat] /\ f[u] = z[u] + f[u] /\ \A w \in S \ {u} : f[w] = z[w]
  OBVIOUS
<1>2. f[u] \in Nat  OBVIOUS
<1> HIDE DEF z
<1>3. Total(f) = Total(z) + f[u]
  BY <1>1, <1>2, TotalAdd
<1>4. Total(z) \in Nat
  BY <1>1, CoinsFinite
<1> QED  BY <1>2, <1>3, <1>4

\* Integer division rounds the share down, and by less than one wei.
LEMMA ShareRounds ==
  ASSUME NEW a \in Nat, NEW p \in Nat, NEW w \in Nat, w > 0
  PROVE  /\ Share(a, p, w) \in Nat
         /\ Share(a, p, w) * w <= a * p
         /\ a * p < (Share(a, p, w) + 1) * w
<1> DEFINE n == a * p
<1>1. n \in Nat  BY SMT
<1> HIDE DEF n
<1>2. n = w * (n \div w) + (n % w) /\ n % w \in 0 .. (w - 1) /\ n \div w \in Int
  BY <1>1, SMT
<1>3. n \div w \in Nat  BY <1>1, SMT
<1> DEFINE q == n \div w
<1>4. q * w = w * q /\ (q + 1) * w = w * q + w
  BY <1>3, SMT
<1> HIDE DEF q
<1>5. q * w <= n /\ n < (q + 1) * w
  BY <1>1, <1>2, <1>3, <1>4, SMT DEF q
<1> QED  BY <1>3, <1>5 DEF Share, n, q

\* A payout is a whole number of wei, worth no more than its stake's part of
\* the pool; without a winning stake there is none.
LEMMA ShareOfBounds ==
  ASSUME NEW S, IsFiniteSet(S), NEW won \in [S -> Nat], NEW u \in S,
         NEW pool \in Nat
  PROVE  /\ ShareOf(won, u, pool) \in Nat
         /\ ShareOf(won, u, pool) * Total(won) <= pool * won[u]
         /\ Total(won) = 0 => ShareOf(won, u, pool) = 0
<1> DEFINE s == won[u]
           w == Total(won)
<1>1. s \in Nat /\ w \in Nat /\ s <= w
  BY CoinsFinite, EntryBelowTotal
<1>2. CASE s = 0
  <2>1. ShareOf(won, u, pool) = 0  BY <1>2 DEF ShareOf
  <2>2. 0 * w <= pool * 0  BY <1>1
  <2> QED  BY <1>1, <1>2, <2>1, <2>2
<1>3. CASE s # 0
  <2>1. ShareOf(won, u, pool) = Share(s, pool, w)  BY <1>3 DEF ShareOf
  <2>2. w > 0  BY <1>1, <1>3
  <2> HIDE DEF s, w
  <2>3. Share(s, pool, w) \in Nat /\ Share(s, pool, w) * w <= s * pool
    BY <1>1, <2>2, ShareRounds
  <2>4. s * pool = pool * s  BY <1>1
  <2> QED  BY <1>1, <2>1, <2>2, <2>3, <2>4 DEF s, w
<1> QED  BY <1>2, <1>3

\* The arithmetic of one payment more.
LEMMA ProportionArithmetic ==
  ASSUME NEW r \in Nat, NEW q \in Nat, NEW w \in Nat, NEW p \in Nat,
         NEW c \in Nat, NEW s \in Nat,
         r * w <= p * c, q * w <= p * s
  PROVE  (r + q) * w <= p * (c + s)
<1>1. (r + q) * w = r * w + q * w  OBVIOUS
<1>2. p * (c + s) = p * c + p * s  OBVIOUS
<1>3. r * w \in Nat /\ q * w \in Nat /\ p * c \in Nat /\ p * s \in Nat
  OBVIOUS
<1> QED  BY <1>1, <1>2, <1>3

\* Paying one claimant its share keeps the payments in proportion.
LEMMA PaymentInProportion ==
  ASSUME NEW S, IsFiniteSet(S), NEW won \in [S -> Nat], NEW u \in S,
         NEW pool \in Nat,
         NEW done \in [S -> BOOLEAN], NEW sent \in [S -> Nat],
         NEW done2 \in [S -> BOOLEAN], NEW sent2 \in [S -> Nat],
         ~done[u], done2[u], sent2[u] = sent[u] + ShareOf(won, u, pool),
         \A x \in S \ {u} : done2[x] = done[x] /\ sent2[x] = sent[x],
         InProportion(won, done, sent, pool)
  PROVE  InProportion(won, done2, sent2, pool)
<1> DEFINE q == ShareOf(won, u, pool)
           c == PaidStake(won, done)
           c2 == PaidStake(won, done2)
<1>0. sent2[u] = sent[u] + q
  OBVIOUS
<1>1. /\ q \in Nat /\ q * Total(won) <= pool * won[u]
      /\ Total(won) = 0 => q = 0
  BY ONLY IsFiniteSet(S), won \in [S -> Nat], u \in S, pool \in Nat, ShareOfBounds
<1>2. /\ c \in [S -> Nat] /\ c2 \in [S -> Nat] /\ won[u] \in Nat
      /\ c2[u] = c[u] + won[u] /\ \A x \in S \ {u} : c2[x] = c[x]
  BY DEF PaidStake
<1> HIDE DEF q
<1>3. /\ sent2 \in [S -> Nat] /\ sent2[u] = sent[u] + q
      /\ \A x \in S \ {u} : sent2[x] = sent[x]
  BY <1>0
<1> HIDE DEF c, c2
<1>4. Total(c2) = Total(c) + won[u]
  BY <1>2, TotalAdd
<1>5. Total(sent2) = Total(sent) + q
  BY <1>1, <1>3, TotalAdd
<1>6. Total(c) \in Nat /\ Total(sent) \in Nat /\ Total(won) \in Nat
  BY <1>2, CoinsFinite
<1>7. /\ Total(sent) * Total(won) <= pool * Total(c)
      /\ Total(won) = 0 => Total(sent) = 0
  BY DEF InProportion, c
<1>8. (Total(sent) + q) * Total(won) <= pool * (Total(c) + won[u])
  BY <1>1, <1>2, <1>6, <1>7, ProportionArithmetic
<1>9. Total(won) = 0 => Total(sent) + q = 0
  BY <1>1, <1>7
<1>10. Total(sent2) * Total(won) <= pool * Total(c2)
  BY <1>4, <1>5, <1>8
<1> QED  BY <1>5, <1>9, <1>10 DEF InProportion, c2, q

\* Before anyone is paid the payments are in proportion.
LEMMA NothingPaidInProportion ==
  ASSUME NEW S, IsFiniteSet(S), NEW won \in [S -> Nat], NEW pool \in Nat,
         NEW done \in [S -> BOOLEAN], NEW sent \in [S -> Nat],
         \A u \in S : sent[u] = 0
  PROVE  InProportion(won, done, sent, pool)
<1> DEFINE c == Total(PaidStake(won, done))
           w == Total(won)
<1>1. PaidStake(won, done) \in [S -> Nat]
  BY DEF PaidStake
<1>2. c \in Nat /\ w \in Nat
  BY <1>1, CoinsFinite
<1>3. Total(sent) = 0
  BY TotalZero
<1> HIDE DEF c, w
<1>4. pool * c \in Nat /\ 0 * w = 0
  BY <1>2
<1>5. 0 * w <= pool * c
  BY <1>4
<1> QED  BY <1>3, <1>5 DEF InProportion, c, w

\* Payments in proportion never exceed the pool.
LEMMA ProportionSolvent ==
  ASSUME NEW S, IsFiniteSet(S), NEW won \in [S -> Nat], NEW pool \in Nat,
         NEW done \in [S -> BOOLEAN], NEW sent \in [S -> Nat],
         InProportion(won, done, sent, pool)
  PROVE  Total(sent) <= pool
<1> DEFINE r == Total(sent)
           w == Total(won)
           c == Total(PaidStake(won, done))
<1>1. /\ PaidStake(won, done) \in [S -> Nat]
      /\ \A x \in S : PaidStake(won, done)[x] <= won[x]
  BY DEF PaidStake
<1>2. r \in Nat /\ w \in Nat /\ c \in Nat /\ c <= w
  BY <1>1, CoinsFinite, TotalMonotone
<1>3. r * w <= pool * c /\ (w = 0 => r = 0)
  BY DEF InProportion
<1> HIDE DEF r, w, c
<1>4. pool * c <= pool * w
  BY <1>2
<1>5. r * w <= pool * w
  BY <1>2, <1>3, <1>4
<1>6. CASE w > 0
  <2> SUFFICES ASSUME r > pool PROVE FALSE
    BY <1>2 DEF r
  <2>1. r * w >= (pool + 1) * w
    BY <1>2
  <2>2. (pool + 1) * w = pool * w + w
    BY <1>2
  <2>3. r * w \in Nat /\ pool * w \in Nat
    BY <1>2
  <2> QED  BY <1>2, <1>5, <1>6, <2>1, <2>2, <2>3
<1>7. CASE w = 0
  BY <1>2, <1>3, <1>7 DEF r
<1> QED  BY <1>2, <1>6, <1>7

\* A number below a multiple of k has a quotient and a remainder, both counted
\* from 1.
LEMMA Quotient ==
  ASSUME NEW a \in Nat, NEW k \in Nat, NEW n \in 1 .. a * k
  PROVE  \E i \in 1 .. a, j \in 1 .. k : n = (i - 1) * k + j
<1>1. n \in Nat /\ n >= 1 /\ n <= a * k /\ a * k \in Nat
  OBVIOUS
<1>2. k > 0
  <2>1. k = 0 => a * k = 0
    OBVIOUS
  <2> QED  BY <1>1, <2>1
<1> DEFINE m == n - 1
           q == m \div k
           r == m % k
<1>3. m \in Nat
  BY <1>1
<1> HIDE DEF m
<1>4. q \in Nat /\ r \in 0 .. k - 1 /\ m = k * q + r
  BY <1>2, <1>3
<1> HIDE DEF q, r
<1>5. q < a
  <2> SUFFICES ASSUME q >= a PROVE FALSE
    BY <1>4
  <2>1. k * q >= k * a /\ k * a = a * k
    BY <1>4
  <2>2. k * q \in Nat
    BY <1>4
  <2> QED  BY <1>1, <1>4, <2>1, <2>2 DEF m
<1>6. n = ((q + 1) - 1) * k + (r + 1)
  <2>1. k * q = ((q + 1) - 1) * k /\ k * q \in Nat
    BY <1>4
  <2> QED  BY <1>1, <1>4, <2>1 DEF m
<1>7. q + 1 \in 1 .. a /\ r + 1 \in 1 .. k
  BY <1>4, <1>5
<1> QED  BY <1>6, <1>7

\* The quotient is unique.
LEMMA SameQuotient ==
  ASSUME NEW k \in Nat, NEW i \in Nat, NEW m \in Nat,
         NEW j \in 1 .. k, NEW n \in 1 .. k,
         (i - 1) * k + j = (m - 1) * k + n
  PROVE  i = m
<1>1. \A x, y \in Nat : x < y => (x - 1) * k + k <= (y - 1) * k
  <2> SUFFICES ASSUME NEW x \in Nat, NEW y \in Nat, x < y
      PROVE  (x - 1) * k + k <= (y - 1) * k
    OBVIOUS
  <2>1. (x - 1) * k + k = x * k
    OBVIOUS
  <2>2. x * k <= (y - 1) * k
    OBVIOUS
  <2> QED  BY <2>1, <2>2
<1>2. (i - 1) * k \in Int /\ (m - 1) * k \in Int
  OBVIOUS
<1>3. ~(i < m)
  BY <1>1, <1>2
<1>4. ~(m < i)
  BY <1>1, <1>2
<1> QED  BY <1>3, <1>4

\* k times a ledger adds up to k times its total: the wei are paired with 1 .. k.
LEMMA TotalScale ==
  ASSUME NEW S, IsFiniteSet(S), NEW f \in [S -> Nat], NEW h \in [S -> Nat],
         NEW k \in Nat, \A u \in S : h[u] = f[u] * k
  PROVE  Total(h) = Total(f) * k
<1> DEFINE A == Coins(f) \X (1 .. k)
           g == [c \in A |-> <<c[1][1], (c[1][2] - 1) * k + c[2]>>]
<1>1. ASSUME NEW c
      PROVE  c \in Coins(f) <=> \E u \in S : \E i \in 1 .. f[u] : c = <<u, i>>
  BY DEF Coins
<1>2. ASSUME NEW c
      PROVE  c \in Coins(h) <=> \E u \in S : \E i \in 1 .. h[u] : c = <<u, i>>
  BY DEF Coins
<1>3. g \in [A -> Coins(h)]
  <2> SUFFICES ASSUME NEW c \in A PROVE g[c] \in Coins(h)
    OBVIOUS
  <2>1. PICK u \in S : \E i \in 1 .. f[u], j \in 1 .. k : c = <<<<u, i>>, j>>
    BY <1>1
  <2> PICK i \in 1 .. f[u], j \in 1 .. k : c = <<<<u, i>>, j>>
    BY <2>1
  <2>2. (i - 1) * k + j \in 1 .. (f[u] * k)
    <3>1. i \in Nat /\ j \in Nat /\ f[u] \in Nat /\ 1 <= i /\ i <= f[u]
          /\ 1 <= j /\ j <= k
      BY <2>1
    <3>2. (i - 1) * k >= 0 /\ (i - 1) * k + k = i * k
      BY <3>1
    <3>3. i * k <= f[u] * k
      BY <3>1
    <3>4. (i - 1) * k \in Int /\ i * k \in Int /\ f[u] * k \in Int
      BY <3>1
    <3> QED  BY <3>1, <3>2, <3>3, <3>4
  <2> QED  BY <1>2, <2>1, <2>2
<1>4. ASSUME NEW c \in A, NEW d \in A, g[c] = g[d] PROVE c = d
  <2>1. PICK u \in S : \E i \in 1 .. f[u], j \in 1 .. k : c = <<<<u, i>>, j>>
    BY <1>1
  <2> PICK i \in 1 .. f[u], j \in 1 .. k : c = <<<<u, i>>, j>>
    BY <2>1
  <2>2. PICK v \in S : \E m \in 1 .. f[v], n \in 1 .. k : d = <<<<v, m>>, n>>
    BY <1>1
  <2> PICK m \in 1 .. f[v], n \in 1 .. k : d = <<<<v, m>>, n>>
    BY <2>2
  <2>3. u = v /\ (i - 1) * k + j = (m - 1) * k + n
    BY <1>4, <2>1, <2>2
  <2>4. i \in Nat /\ m \in Nat /\ j \in 1 .. k /\ n \in 1 .. k
    BY <2>1, <2>2
  <2>5. i = m
    BY <2>3, <2>4, SameQuotient
  <2>6. j = n
    BY <2>3, <2>4, <2>5
  <2> QED  BY <2>1, <2>2, <2>3, <2>5, <2>6
<1>5. ASSUME NEW c \in Coins(h) PROVE \E d \in A : g[d] = c
  <2>1. PICK u \in S : \E n \in 1 .. f[u] * k : c = <<u, n>>
    BY <1>2
  <2> PICK n \in 1 .. f[u] * k : c = <<u, n>>
    BY <2>1
  <2>2. \A a \in Nat : n \in 1 .. a * k
          => \E i \in 1 .. a, j \in 1 .. k : n = (i - 1) * k + j
    BY Quotient
  <2>3. f[u] \in Nat
    OBVIOUS
  <2>4. PICK i \in 1 .. f[u], j \in 1 .. k : n = (i - 1) * k + j
    BY <2>2, <2>3
  <2>5. <<<<u, i>>, j>> \in A
    BY <1>1, <2>4
  <2> QED  BY <2>1, <2>4, <2>5
<1> HIDE DEF g
<1>6. g \in Bijection(A, Coins(h))
  BY <1>3, <1>4, <1>5 DEF Bijection, Injection, Surjection, IsInjective
<1>7. IsFiniteSet(A) /\ Cardinality(A) = Total(f) * k
  <2>1. IsFiniteSet(Coins(f)) /\ Total(f) \in Nat
    BY CoinsFinite
  <2>2. IsFiniteSet(1 .. k) /\ Cardinality(1 .. k) = k
    <3>1. 1 \in Int /\ k \in Int /\ (IF 1 > k THEN 0 ELSE k - 1 + 1) = k
      OBVIOUS
    <3> QED  BY <3>1, FS_Interval
  <2> QED  BY <2>1, <2>2, FS_Product DEF Total
<1> HIDE DEF A
<1> QED  BY <1>6, <1>7, FS_Bijection DEF Total, ExistsBijection

\* Payouts that are each worth no more than their stake's part of the pool are
\* together within the pool.
LEMMA SharesWithinPool ==
  ASSUME NEW S, IsFiniteSet(S), NEW won \in [S -> Nat], NEW pay \in [S -> Nat],
         NEW pool \in Nat, NEW w \in Nat, w > 0, Total(won) <= w,
         \A u \in S : pay[u] * w <= pool * won[u]
  PROVE  Total(pay) <= pool
<1> DEFINE a == [u \in S |-> pay[u] * w]
           b == [u \in S |-> won[u] * pool]
<1>1. a \in [S -> Nat] /\ b \in [S -> Nat]
  OBVIOUS
<1>2. \A u \in S : a[u] <= b[u]
  <2> SUFFICES ASSUME NEW u \in S PROVE a[u] <= b[u]
    OBVIOUS
  <2>1. won[u] \in Nat /\ pool * won[u] = won[u] * pool
    OBVIOUS
  <2> QED  BY <2>1
<1>3. /\ \A u \in S : a[u] = pay[u] * w
      /\ \A u \in S : b[u] = won[u] * pool
  OBVIOUS
<1> HIDE DEF a, b
<1>4. Total(a) = Total(pay) * w
  BY <1>1, <1>3, TotalScale
<1>5. Total(b) = Total(won) * pool
  BY <1>1, <1>3, TotalScale
<1>6. Total(a) <= Total(b)
  BY <1>1, <1>2, TotalMonotone
<1> DEFINE r == Total(pay)
           c == Total(won)
<1>7. r \in Nat /\ c \in Nat /\ c <= w
  BY CoinsFinite
<1>8. r * w <= c * pool
  BY <1>4, <1>5, <1>6
<1> HIDE DEF r, c
<1>9. c * pool <= w * pool
  BY <1>7
<1>10. r * w <= pool * w
  BY <1>7, <1>8, <1>9
<1>11. r <= pool
  <2> SUFFICES ASSUME r > pool PROVE FALSE
    BY <1>7
  <2>1. r * w >= (pool + 1) * w /\ (pool + 1) * w = pool * w + w
    BY <1>7
  <2>2. r * w \in Nat /\ pool * w \in Nat
    BY <1>7
  <2> QED  BY <1>10, <2>1, <2>2
<1> QED  BY <1>11 DEF r
=============================================================================
