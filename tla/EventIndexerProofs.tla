------------------------- MODULE EventIndexerProofs -------------------------
(***************************************************************************)
(* For every number of markets, of indexing processes and of logs, however *)
(* windows and crashes fall: rows follow the chain, each process that is   *)
(* started counts a bet at most once, and one that indexes from the first  *)
(* block on counts every bet behind its place unless a handler failed.     *)
(***************************************************************************)
EXTENDS EventIndexer, ParimutuelProofs, SequenceTheorems

USE IndexerConstants, ApiConstants

Rows == [status : Statuses, outcome : Sides \cup {"none"},
         creator : {"lower", "mixed", "none"}, total : [Sides -> 0 .. I64Max]]
Places == [pc : {"down", "waiting", "handling", "stored", "anonymous", "publishing",
                 "stopped"},
           last : 0 .. MaxBlocks, at : 0 .. MaxBlocks, to : 0 .. MaxBlocks]

\* A process in a window is at a log of the chain, and one that has stored an
\* outcome is at the log of the resolution.
InPlace(i) ==
  /\ i.pc = "waiting" /\ startBlock = 0 => i.last <= Len(chain)
  /\ i.pc \notin {"down", "waiting"} => 1 <= i.at /\ i.at <= i.to /\ i.to <= Len(chain)
  /\ i.pc \in {"stored", "anonymous", "publishing"} => chain[i.at].kind = "MarketResolved"
InWindow == \A p \in Indexer : InPlace(indexer[p])

\* The blocks a process has behind it.
Passed(i) == IF i.pc = "waiting" THEN i.last ELSE i.at - 1

\* A bet is on a market that was created in an earlier block.
CreatedFirst ==
  \A k \in DOMAIN chain : chain[k].kind = "BetPlaced" =>
    \E j \in BlocksOf("MarketCreated", chain[k].id) : j < k

MissingIsEmpty ==
  \A id \in Id : row[id].status = "Missing" => row[id].total = [o \in Sides |-> 0]

\* What each process may still add to a stake, if it is not started again.
AllBets(id, o) == BetTotal(id, o, Len(chain))
ToCount(id, o) ==
  [p \in Indexer |-> IF indexer[p].pc = "down" THEN 0
                     ELSE AllBets(id, o) - BetTotal(id, o, Passed(indexer[p]))]
Running == [p \in Indexer |-> IF indexer[p].pc = "down" THEN 0 ELSE 1]

\* CountedOncePerStart, with what running processes will yet count.
RoomLeft ==
  /\ Total(Running) <= starts
  /\ \A id \in Id, o \in Sides :
       row[id].total[o] + Total(ToCount(id, o)) <= starts * AllBets(id, o)

\* The stakes and the row of id hold what the first n blocks say of them, or it was
\* deleted, and its stakes hold what follows its new registration.
Covered(id, n) ==
  /\ \A o \in Sides :
       row[id].total[o] + BetTotal(id, o, since[id]) >= BetTotal(id, o, n)
  /\ \A k \in BlocksOf("MarketCreated", id) :
       k <= n => row[id].status # "Missing" \/ since[id] = MaxBlocks

\* CountedAtLeastOnce at each place in a window.
NothingLeftOut ==
  (startBlock = 0 /\ ~failed) =>
    \A p \in Indexer, id \in Id :
      indexer[p].pc # "down" => Covered(id, Passed(indexer[p]))

\* The inductive invariant.
IInv == /\ TypeOK /\ InWindow /\ CreatedFirst /\ MissingIsEmpty
        /\ RowsFollowChain /\ RoomLeft /\ NothingLeftOut

-----------------------------------------------------------------------------
(* What the bets of the first n blocks add up to.                          *)

Stakes(id, o, n) == [k \in BetsIn(id, o, n) |-> Capped(chain[k].amount)]

LEMMA LogsTyped ==
  ASSUME TypeOK
  PROVE  /\ Len(chain) \in Nat /\ DOMAIN chain = 1 .. Len(chain)
         /\ \A k \in DOMAIN chain : chain[k] \in Log
         /\ \A l \in Log : l.amount \in Nat /\ Capped(l.amount) \in Nat
<1>1. chain \in Seq(Log)
  BY DEF TypeOK
<1>2. Len(chain) \in Nat /\ DOMAIN chain = 1 .. Len(chain)
  BY <1>1, LenProperties
<1>3. \A k \in DOMAIN chain : chain[k] \in Log
  <2> HIDE DEF Log
  <2> QED  BY <1>1, <1>2, ElementOfSeq
<1>4. \A l \in Log : l.amount \in Nat
  <2>1. \A v \in Amount \cup {0} : v \in Nat
    OBVIOUS
  <2> QED  BY <2>1 DEF Log
<1> QED  BY <1>2, <1>3, <1>4 DEF Capped

LEMMA StakesTyped ==
  ASSUME TypeOK, NEW id, NEW o, NEW n \in Int
  PROVE  /\ IsFiniteSet(BetsIn(id, o, n))
         /\ Stakes(id, o, n) \in [BetsIn(id, o, n) -> Nat]
         /\ BetTotal(id, o, n) \in Nat
<1>1. BetsIn(id, o, n) \subseteq 1 .. Len(chain) /\ Len(chain) \in Nat
  BY LogsTyped DEF BetsIn, BlocksOf
<1>2. IsFiniteSet(1 .. Len(chain))
  BY <1>1, FS_Interval
<1>3. IsFiniteSet(BetsIn(id, o, n))
  BY <1>1, <1>2, FS_Subset
<1>4. Stakes(id, o, n) \in [BetsIn(id, o, n) -> Nat]
  BY LogsTyped DEF Stakes, BetsIn, BlocksOf
<1> QED  BY <1>3, <1>4, CoinsFinite DEF BetTotal, Stakes

\* Later blocks add to what the bets add up to.
LEMMA BetTotalMonotone ==
  ASSUME TypeOK, NEW id, NEW o, NEW m \in Int, NEW n \in Int, m <= n
  PROVE  BetTotal(id, o, m) <= BetTotal(id, o, n)
<1>1. BetsIn(id, o, m) \in SUBSET BetsIn(id, o, n)
  BY LogsTyped DEF BetsIn, BlocksOf
<1>2. \A k \in BetsIn(id, o, m) : Stakes(id, o, m)[k] = Stakes(id, o, n)[k]
  BY <1>1 DEF Stakes
<1>3. Total(Stakes(id, o, m)) <= Total(Stakes(id, o, n))
  BY <1>1, <1>2, StakesTyped, TotalSubset
<1> QED  BY <1>3 DEF BetTotal, Stakes

LEMMA NoBetsYet ==
  ASSUME TypeOK, NEW id, NEW o
  PROVE  BetTotal(id, o, 0) = 0
<1>1. BetsIn(id, o, 0) = {}
  BY LogsTyped DEF BetsIn, BlocksOf
<1>2. Total(Stakes(id, o, 0)) = 0
  BY <1>1, StakesTyped, TotalZero
<1> QED  BY <1>2 DEF BetTotal, Stakes

\* Behind the head there is nothing.
LEMMA PastTheHead ==
  ASSUME TypeOK, NEW id, NEW o, NEW n \in Int, n >= Len(chain)
  PROVE  BetTotal(id, o, n) = AllBets(id, o)
<1>1. BetsIn(id, o, n) = BetsIn(id, o, Len(chain))
  BY LogsTyped DEF BetsIn, BlocksOf
<1> QED  BY <1>1 DEF BetTotal, AllBets

\* What a log adds to the stake on o of id.
Bet(log, id, o) == log.kind = "BetPlaced" /\ log.id = id /\ log.outcome = o
Weight(log, id, o) == IF Bet(log, id, o) THEN Capped(log.amount) ELSE 0

LEMMA BetTotalStep ==
  ASSUME TypeOK, NEW id, NEW o, NEW n \in DOMAIN chain
  PROVE  BetTotal(id, o, n) = BetTotal(id, o, n - 1) + Weight(chain[n], id, o)
<1> DEFINE S == BetsIn(id, o, n - 1)
           T == BetsIn(id, o, n)
<1>1. n \in Int /\ n - 1 \in Int /\ n \notin S
  BY LogsTyped DEF BetsIn
<1>2. /\ IsFiniteSet(S) /\ Stakes(id, o, n - 1) \in [S -> Nat]
      /\ Stakes(id, o, n) \in [T -> Nat] /\ BetTotal(id, o, n - 1) \in Nat
  BY <1>1, StakesTyped
<1>3. CASE Bet(chain[n], id, o)
  <2>1. T = S \cup {n}
    BY <1>3, LogsTyped DEF BetsIn, BlocksOf, Bet
  <2>2. /\ \A k \in S : Stakes(id, o, n)[k] = Stakes(id, o, n - 1)[k]
        /\ Stakes(id, o, n)[n] = Weight(chain[n], id, o)
    BY <1>3, <2>1 DEF Stakes, Weight
  <2>3. Total(Stakes(id, o, n)) = Total(Stakes(id, o, n - 1)) + Stakes(id, o, n)[n]
    BY <1>1, <1>2, <2>1, <2>2, TotalExtend
  <2> QED  BY <2>2, <2>3 DEF BetTotal, Stakes
<1>4. CASE ~Bet(chain[n], id, o)
  <2>1. T = S
    BY <1>4, LogsTyped DEF BetsIn, BlocksOf, Bet
  <2> QED  BY <1>2, <1>4, <2>1 DEF BetTotal, Weight
<1> QED  BY <1>3, <1>4

\* The four facts in one, to be used of the next state too.
BetTable ==
  \A id \in Id, o \in Sides :
    /\ \A n \in Int : BetTotal(id, o, n) \in Nat
    /\ \A n \in Int : n >= Len(chain) => BetTotal(id, o, n) = AllBets(id, o)
    /\ \A m \in Int, n \in Int : m <= n => BetTotal(id, o, m) <= BetTotal(id, o, n)
    /\ \A n \in DOMAIN chain :
         BetTotal(id, o, n) = BetTotal(id, o, n - 1) + Weight(chain[n], id, o)

LEMMA BetsAddUp == TypeOK => BetTable
BY StakesTyped, PastTheHead, BetTotalMonotone, BetTotalStep DEF BetTable

\* Of a market that was deleted, or just registered anew, all bets are accounted for.
NothingOwed ==
  \A id \in Id, o \in Sides, n \in Int :
    since[id] >= Len(chain) =>
      row[id].total[o] + BetTotal(id, o, since[id]) >= BetTotal(id, o, n)

\* What processes may still add are numbers, at most all bets each.
LedgersTyped ==
  /\ Running \in [Indexer -> Nat] /\ Total(Running) \in Nat
  /\ \A id \in Id, o \in Sides :
       /\ row[id].total[o] \in Nat /\ AllBets(id, o) \in Nat
       /\ ToCount(id, o) \in [Indexer -> Nat] /\ Total(ToCount(id, o)) \in Nat
       /\ \A p \in Indexer : ToCount(id, o)[p] <= AllBets(id, o)
  /\ \A p \in Indexer : Passed(indexer[p]) \in Int

LEMMA LedgersAreNat == TypeOK => LedgersTyped
<1> SUFFICES ASSUME TypeOK PROVE LedgersTyped
  OBVIOUS
<1>1. Running \in [Indexer -> Nat] /\ Total(Running) \in Nat
  BY CoinsFinite DEF Running
<1>2. \A p \in Indexer : Passed(indexer[p]) \in Int
  BY DEF TypeOK, Passed
<1>3. ASSUME NEW id \in Id, NEW o \in Sides
      PROVE  /\ row[id].total[o] \in Nat /\ AllBets(id, o) \in Nat
             /\ ToCount(id, o) \in [Indexer -> Nat]
             /\ \A p \in Indexer : ToCount(id, o)[p] <= AllBets(id, o)
  <2>1. row[id].total[o] \in Nat
    <3>1. row[id].total \in [Sides -> 0 .. I64Max]
      BY DEF TypeOK
    <3>2. row[id].total[o] \in 0 .. I64Max
      BY <3>1
    <3> QED  BY <3>2
  <2>2. Len(chain) \in Int /\ AllBets(id, o) \in Nat
    BY LogsTyped, StakesTyped DEF AllBets
  <2>3. ASSUME NEW n \in Int
        PROVE  /\ BetTotal(id, o, n) \in Nat /\ BetTotal(id, o, n) <= AllBets(id, o)
    <3>1. CASE n >= Len(chain)
      BY <2>2, <3>1, StakesTyped, PastTheHead
    <3>2. CASE n <= Len(chain)
      BY <2>2, <3>2, StakesTyped, BetTotalMonotone DEF AllBets
    <3> QED  BY <2>2, <3>1, <3>2
  <2>4. ASSUME NEW p \in Indexer
        PROVE  /\ AllBets(id, o) - BetTotal(id, o, Passed(indexer[p])) \in Nat
               /\ AllBets(id, o) - BetTotal(id, o, Passed(indexer[p])) <= AllBets(id, o)
    BY <1>2, <2>2, <2>3
  <2> QED  BY <2>1, <2>2, <2>4 DEF ToCount
<1>4. \A id \in Id, o \in Sides : Total(ToCount(id, o)) \in Nat
  BY <1>3, CoinsFinite
<1> QED  BY <1>1, <1>2, <1>3, <1>4 DEF LedgersTyped

LEMMA FreshOwesNothing == TypeOK => NothingOwed
<1> SUFFICES ASSUME TypeOK, NEW id \in Id, NEW o \in Sides, NEW n \in Int,
                    since[id] >= Len(chain)
    PROVE  row[id].total[o] + BetTotal(id, o, since[id]) >= BetTotal(id, o, n)
  BY DEF NothingOwed
<1>1. since[id] \in Int /\ Len(chain) \in Int
  BY LogsTyped DEF TypeOK
<1>2. BetTotal(id, o, since[id]) = AllBets(id, o)
  BY <1>1, PastTheHead
<1>3. BetTotal(id, o, n) \in Nat /\ BetTotal(id, o, n) <= AllBets(id, o)
  <2>1. CASE n >= Len(chain)
    BY <1>1, <2>1, StakesTyped, PastTheHead
  <2>2. CASE n <= Len(chain)
    BY <1>1, <2>2, StakesTyped, BetTotalMonotone DEF AllBets
  <2> QED  BY <1>1, <2>1, <2>2
<1>4. row[id].total[o] \in Nat /\ AllBets(id, o) \in Nat
  BY LedgersAreNat DEF LedgersTyped
<1> QED  BY <1>2, <1>3, <1>4

-----------------------------------------------------------------------------
(* A log is emitted.                                                       *)

LEMMA Emitted ==
  ASSUME TypeOK, NEW log \in Log, chain' = Append(chain, log), Len(chain) < MaxBlocks
  PROVE  /\ chain' \in Seq(Log) /\ Len(chain') = Len(chain) + 1
         /\ DOMAIN chain' = 1 .. Len(chain) + 1
         /\ \A k \in 1 .. Len(chain) : chain'[k] = chain[k]
         /\ chain'[Len(chain) + 1] = log
<1>1. chain \in Seq(Log) /\ Len(chain) \in Nat
  BY LenProperties DEF TypeOK
<1> HIDE DEF Log
<1> QED  BY <1>1, AppendProperties, LenProperties

LEMMA EmittedBets ==
  ASSUME TypeOK, NEW log \in Log, chain' = Append(chain, log), Len(chain) < MaxBlocks,
         TypeOK', NEW id \in Id, NEW o \in Sides
  PROVE  /\ \A n \in Int : n <= Len(chain) => BetTotal(id, o, n)' = BetTotal(id, o, n)
         /\ \A n \in Int : n > Len(chain) => BetTotal(id, o, n)' = AllBets(id, o)'
         /\ AllBets(id, o)' = AllBets(id, o) + Weight(log, id, o)
<1>1. /\ Len(chain) \in Nat /\ DOMAIN chain = 1 .. Len(chain)
      /\ Len(chain') = Len(chain) + 1 /\ DOMAIN chain' = 1 .. Len(chain) + 1
      /\ \A k \in 1 .. Len(chain) : chain'[k] = chain[k]
      /\ chain'[Len(chain) + 1] = log
  BY Emitted, LogsTyped
<1>2. ASSUME NEW n \in Int, n <= Len(chain)
      PROVE  BetTotal(id, o, n)' = BetTotal(id, o, n)
  <2>1. BetsIn(id, o, n)' = BetsIn(id, o, n)
    BY <1>1, <1>2 DEF BetsIn, BlocksOf
  <2>2. \A k \in BetsIn(id, o, n) : chain'[k] = chain[k]
    BY <1>1 DEF BetsIn, BlocksOf
  <2>3. Stakes(id, o, n)' = Stakes(id, o, n)
    BY <2>1, <2>2 DEF Stakes
  <2> QED  BY <2>3 DEF BetTotal, Stakes
<1>3. TypeOK' => BetTable'
  BY BetsAddUp, PTL
<1>4. ASSUME NEW n \in Int, n > Len(chain)
      PROVE  BetTotal(id, o, n)' = AllBets(id, o)'
  BY <1>1, <1>3, <1>4 DEF BetTable
<1>5. AllBets(id, o)' = AllBets(id, o) + Weight(log, id, o)
  <2>1. PICK m \in Nat, n \in Nat : m = Len(chain) /\ n = Len(chain) + 1
    BY <1>1
  <2>2. n \in DOMAIN chain' /\ chain'[n] = log /\ n - 1 = m
    BY <1>1, <2>1
  <2>3. BetTotal(id, o, n)' = BetTotal(id, o, n - 1)' + Weight(log, id, o)
    <3>1. \A k \in DOMAIN chain' :
            BetTotal(id, o, k)' = BetTotal(id, o, k - 1)' + Weight(chain'[k], id, o)
      BY <1>3 DEF BetTable
    <3> QED  BY <2>2, <3>1
  <2>4. BetTotal(id, o, n)' = BetTotal(id, o, m)' + Weight(log, id, o)
    BY <2>2, <2>3
  <2>5. BetTotal(id, o, m)' = BetTotal(id, o, m)
    BY <1>1, <1>2, <2>1
  <2>6. BetTotal(id, o, m) = AllBets(id, o)
    BY <2>1 DEF AllBets
  <2>7. BetTotal(id, o, n)' = AllBets(id, o)'
    BY <1>1, <1>4, <2>1
  <2> QED  BY <2>4, <2>5, <2>6, <2>7
<1> QED  BY <1>2, <1>4, <1>5

LEMMA EmitRoom ==
  ASSUME TypeOK, RoomLeft, NEW log \in Log, Emit(log), TypeOK'
  PROVE  RoomLeft'
<1>1. LedgersTyped /\ starts \in Nat
  BY LedgersAreNat DEF TypeOK
<1>2. LedgersTyped'
  <2>1. TypeOK' => LedgersTyped'
    BY LedgersAreNat, PTL
  <2> QED  BY <2>1
<1>3. UNCHANGED <<row, indexer, starts>>
      /\ chain' = Append(chain, log) /\ Len(chain) < MaxBlocks
  BY DEF Emit, history
<1>4. Running' = Running
  BY <1>3 DEF Running
<1>5. ASSUME NEW id \in Id, NEW o \in Sides
      PROVE  row[id].total[o] + Total(ToCount(id, o)') <= starts * AllBets(id, o)'
  <2> DEFINE v == Weight(log, id, o)
             f == ToCount(id, o)
             h == ToCount(id, o)'
             g == [p \in Indexer |-> Running[p] * v]
             s == [p \in Indexer |-> f[p] + g[p]]
  <2>1. v \in Nat
    BY LogsTyped DEF Weight
  <2>2. /\ \A n \in Int : n <= Len(chain) => BetTotal(id, o, n)' = BetTotal(id, o, n)
        /\ \A n \in Int : n > Len(chain) => BetTotal(id, o, n)' = AllBets(id, o)'
        /\ AllBets(id, o)' = AllBets(id, o) + v
    BY <1>3, EmittedBets
  <2>3. /\ f \in [Indexer -> Nat] /\ Running \in [Indexer -> Nat]
        /\ AllBets(id, o) \in Nat /\ Total(f) \in Nat /\ Total(Running) \in Nat
        /\ row[id].total[o] \in Nat
    BY <1>1 DEF LedgersTyped
  <2>4. h \in [Indexer -> Nat] /\ Total(h) \in Nat
    BY <1>2 DEF LedgersTyped
  <2>5. ASSUME NEW p \in Indexer PROVE h[p] <= f[p] + Running[p] * v
    <3>1. CASE indexer[p].pc = "down"
      <4>1. h[p] = 0 /\ f[p] = 0 /\ Running[p] = 0
        BY <1>3, <3>1 DEF ToCount, Running
      <4> QED  BY <2>1, <4>1
    <3>2. CASE indexer[p].pc # "down"
      <4>1. PICK n \in Int : n = Passed(indexer[p])
        BY <1>1 DEF LedgersTyped
      <4>2. h[p] = AllBets(id, o)' - BetTotal(id, o, n)'
        BY <1>3, <3>2, <4>1 DEF ToCount, Passed
      <4>3. f[p] = AllBets(id, o) - BetTotal(id, o, n) /\ Running[p] = 1
        BY <3>2, <4>1 DEF ToCount, Running
      <4>4. BetTotal(id, o, n) \in Nat /\ Len(chain) \in Int
        BY StakesTyped, LogsTyped
      <4>5. CASE n <= Len(chain)
        BY <2>1, <2>2, <2>3, <4>2, <4>3, <4>4, <4>5
      <4>6. CASE n > Len(chain)
        <5>1. h[p] = 0 /\ f[p] \in Nat
          BY <2>1, <2>2, <2>3, <4>2, <4>6
        <5> QED  BY <2>1, <4>3, <5>1
      <4> QED  BY <4>4, <4>5, <4>6
    <3> QED  BY <3>1, <3>2
  <2> HIDE DEF v, f, h
  <2>6. /\ g \in [Indexer -> Nat] /\ \A p \in Indexer : g[p] = Running[p] * v
        /\ s \in [Indexer -> Nat] /\ \A p \in Indexer : s[p] = f[p] + g[p]
    BY <2>1, <2>3
  <2> HIDE DEF g, s
  <2>7. Total(g) = Total(Running) * v
    BY <2>1, <2>3, <2>6, TotalScale
  <2>8. Total(s) = Total(f) + Total(g)
    BY <2>3, <2>6, TotalSum
  <2>9. Total(h) <= Total(s)
    BY <2>4, <2>5, <2>6, TotalMonotone
  <2>10. row[id].total[o] + Total(f) <= starts * AllBets(id, o) /\ Total(Running) <= starts
    BY DEF RoomLeft, f
  <2>11. Total(Running) * v <= starts * v
    <3> DEFINE r == Total(Running)
    <3> HIDE DEF r
    <3>1. \A a \in Nat, b \in Nat, c \in Nat : a <= b => a * c <= b * c
      OBVIOUS
    <3>2. r \in Nat /\ r <= starts
      BY <2>3, <2>10 DEF r
    <3>3. r * v <= starts * v
      BY <1>1, <2>1, <3>1, <3>2
    <3> QED  BY <3>3 DEF r
  <2>12. starts * (AllBets(id, o) + v) = starts * AllBets(id, o) + starts * v
    BY <1>1, <2>1, <2>3
  <2>13. row[id].total[o] + Total(h) <= starts * AllBets(id, o)'
    <3> DEFINE a == AllBets(id, o)
               x == row[id].total[o]
    <3>1. starts * a \in Nat /\ starts * v \in Nat /\ Total(Running) * v \in Nat
      BY <1>1, <2>1, <2>3
    <3>2. Total(h) <= Total(f) + Total(Running) * v
      BY <2>7, <2>8, <2>9
    <3>3. AllBets(id, o)' = AllBets(id, o) + v
      BY <2>2 DEF v
    <3>4. x + Total(h) <= starts * a + starts * v
      <4> DEFINE th == Total(h)
                 tf == Total(f)
                 rv == Total(Running) * v
                 sa == starts * a
                 sv == starts * v
      <4>1. /\ th \in Nat /\ tf \in Nat /\ rv \in Nat /\ sa \in Nat /\ sv \in Nat
            /\ x \in Nat /\ th <= tf + rv /\ x + tf <= sa /\ rv <= sv
        BY <2>3, <2>4, <2>10, <2>11, <3>1, <3>2
      <4> HIDE DEF th, tf, rv, sa, sv, x
      <4> QED  BY <4>1 DEF th, sa, sv
    <3> QED  BY <2>12, <3>3, <3>4
  <2> QED  BY <2>13 DEF h
<1> QED  BY <1>1, <1>3, <1>4, <1>5 DEF RoomLeft

LEMMA EmitKeeps ==
  ASSUME IInv, NEW log \in Log, Emit(log), log.kind = "BetPlaced" => OnChain(log.id)
  PROVE  IInv'
<1>1. /\ UNCHANGED <<row, startBlock, indexer, credit, told, history, rep, reader>>
      /\ chain' = Append(chain, log) /\ Len(chain) < MaxBlocks
  BY DEF Emit
<1>2. /\ Len(chain) \in Nat /\ DOMAIN chain = 1 .. Len(chain)
      /\ chain' \in Seq(Log) /\ Len(chain') = Len(chain) + 1
      /\ DOMAIN chain' = 1 .. Len(chain) + 1
      /\ \A k \in 1 .. Len(chain) : chain'[k] = chain[k]
      /\ chain'[Len(chain) + 1] = log
  BY <1>1, Emitted, LogsTyped DEF IInv
<1>3. TypeOK'
  <2>1. Len(chain') <= MaxBlocks
    BY <1>1, <1>2
  <2> QED  BY <1>1, <1>2, <2>1 DEF IInv, TypeOK, history, Rep!RepTypeOK
<1>4. ASSUME NEW kind, NEW id
      PROVE  BlocksOf(kind, id) = BlocksOf(kind, id)' \ {Len(chain) + 1}
  BY <1>2 DEF BlocksOf
<1>5. InWindow'
  <2> SUFFICES ASSUME NEW p \in Indexer PROVE InPlace(indexer[p])'
    BY DEF InWindow
  <2>1. InPlace(indexer[p]) /\ indexer[p] \in Places
    BY DEF IInv, InWindow, TypeOK, Places
  <2>2. indexer'[p] = indexer[p] /\ startBlock' = startBlock
    BY <1>1
  <2>3. \A n \in Int : n <= Len(chain) => n <= Len(chain')
    BY <1>2
  <2>4. indexer[p].at \in Int /\ indexer[p].to \in Int /\ indexer[p].last \in Int
    BY <2>1 DEF Places
  <2>5. indexer[p].pc \notin {"down", "waiting"} => indexer[p].at \in 1 .. Len(chain)
    BY <1>2, <2>1, <2>4 DEF InPlace
  <2> QED  BY <1>2, <2>1, <2>2, <2>3, <2>4, <2>5 DEF InPlace
<1>6. CreatedFirst'
  <2> SUFFICES ASSUME NEW k \in DOMAIN chain', chain'[k].kind = "BetPlaced"
      PROVE  \E j \in DOMAIN chain' : /\ chain'[j].kind = "MarketCreated"
                                      /\ chain'[j].id = chain'[k].id /\ j < k
    BY DEF CreatedFirst, BlocksOf
  <2>1. CASE k = Len(chain) + 1
    <3>1. PICK j \in DOMAIN chain : chain[j].kind = "MarketCreated" /\ chain[j].id = log.id
      BY <1>2, <2>1 DEF OnChain, BlocksOf
    <3> QED  BY <1>2, <2>1, <3>1
  <2>2. CASE k # Len(chain) + 1
    <3>1. k \in DOMAIN chain /\ chain'[k] = chain[k]
      BY <1>2, <2>2
    <3>2. PICK j \in DOMAIN chain : /\ chain[j].kind = "MarketCreated"
                                    /\ chain[j].id = chain[k].id /\ j < k
      BY <3>1 DEF IInv, CreatedFirst, BlocksOf
    <3> QED  BY <1>2, <3>1, <3>2
  <2> QED  BY <2>1, <2>2
<1>7. MissingIsEmpty'
  BY <1>1 DEF IInv, MissingIsEmpty
<1>8. RowsFollowChain'
  <2> SUFFICES ASSUME NEW id \in Id
      PROVE  /\ row'[id].status # "Missing" => OnChain(id)'
             /\ row'[id].status = "Resolved" /\ id \notin patched' =>
                  \E n \in BlocksOf("MarketResolved", id)' :
                    chain'[n].outcome = row'[id].outcome
             /\ id \in told' => ResolvedOnChain(id)'
    BY DEF RowsFollowChain
  <2>1. \A kind, n : n \in BlocksOf(kind, id) =>
                       n \in BlocksOf(kind, id)' /\ chain'[n] = chain[n]
    BY <1>2, <1>4 DEF BlocksOf
  <2>2. OnChain(id) => OnChain(id)'
    BY <1>4 DEF OnChain
  <2>3. ResolvedOnChain(id) => ResolvedOnChain(id)'
    BY <1>4 DEF ResolvedOnChain
  <2>4. row' = row /\ patched' = patched /\ told' = told
    BY <1>1 DEF history
  <2> QED  BY <2>1, <2>2, <2>3, <2>4 DEF IInv, RowsFollowChain
<1>9. RoomLeft'
  BY <1>3, EmitRoom DEF IInv
<1>10. NothingLeftOut'
  <2> SUFFICES ASSUME startBlock = 0, ~failed, NEW p \in Indexer, NEW id \in Id,
                      indexer[p].pc # "down"
      PROVE  Covered(id, Passed(indexer[p]))'
    BY <1>1 DEF NothingLeftOut, history
  <2>1. PICK n \in Int : n = Passed(indexer[p])
    BY LedgersAreNat DEF IInv, LedgersTyped
  <2>2. n <= Len(chain)
    <3>1. InPlace(indexer[p]) /\ indexer[p] \in Places
      BY DEF IInv, InWindow, TypeOK, Places
    <3> QED  BY <1>2, <2>1, <3>1 DEF InPlace, Passed, Places
  <2>3. Covered(id, n)
    BY <2>1 DEF IInv, NothingLeftOut
  <2>4. n = Passed(indexer[p])'
    BY <1>1, <2>1 DEF Passed
  <2>5. ASSUME NEW o \in Sides
        PROVE  row'[id].total[o] + BetTotal(id, o, since[id])' >= BetTotal(id, o, n)'
    <3>1. BetTotal(id, o, n)' = BetTotal(id, o, n)
      BY <1>1, <1>3, <2>2, EmittedBets DEF IInv
    <3>2. PICK k \in Int : k = since[id] /\ k = since'[id]
      BY <1>1 DEF IInv, TypeOK, history
    <3>3. BetTotal(id, o, k)' >= BetTotal(id, o, k) /\ BetTotal(id, o, k)' \in Int
      <4>1. BetTotal(id, o, k) \in Nat /\ AllBets(id, o) \in Nat
        BY <1>2, StakesTyped DEF IInv, AllBets
      <4>2. CASE k <= Len(chain)
        BY <1>1, <1>3, <4>1, <4>2, EmittedBets DEF IInv
      <4>3. CASE k > Len(chain)
        <5>1. BetTotal(id, o, k) = AllBets(id, o)
          BY <1>2, <4>3, PastTheHead DEF IInv
        <5>2. BetTotal(id, o, k)' = AllBets(id, o) + Weight(log, id, o)
          BY <1>1, <1>3, <4>3, EmittedBets DEF IInv
        <5>3. Weight(log, id, o) \in Nat
          BY LogsTyped DEF IInv, Weight
        <5> QED  BY <4>1, <5>1, <5>2, <5>3
      <4> QED  BY <1>2, <4>2, <4>3
    <3>4. row[id].total[o] + BetTotal(id, o, k) >= BetTotal(id, o, n)
      BY <2>3, <3>2 DEF Covered
    <3>5. row[id].total[o] \in Nat /\ BetTotal(id, o, k) \in Nat /\ BetTotal(id, o, n) \in Nat
      BY LedgersAreNat, StakesTyped DEF IInv, LedgersTyped
    <3>6. row'[id].total[o] + BetTotal(id, o, k)' >= BetTotal(id, o, n)'
      BY <1>1, <3>1, <3>3, <3>4, <3>5
    <3> QED  BY <3>2, <3>6
  <2>6. Covered(id, n)'
    <3>1. \A k \in BlocksOf("MarketCreated", id)' :
            k <= n => k \in BlocksOf("MarketCreated", id)
      BY <1>2, <1>4, <2>2
    <3>2. row' = row /\ since' = since
      BY <1>1 DEF history
    <3> QED  BY <2>3, <2>5, <3>1, <3>2 DEF Covered
  <2> QED  BY <2>4, <2>6
<1> QED  BY <1>3, <1>5, <1>6, <1>7, <1>8, <1>9, <1>10 DEF IInv

-----------------------------------------------------------------------------
(* A step that emits no log: what it may do to the rows.                   *)

LEMMA SameChain ==
  ASSUME chain' = chain, NEW id, NEW o, NEW n, NEW kind
  PROVE  /\ BetTotal(id, o, n)' = BetTotal(id, o, n)
         /\ AllBets(id, o)' = AllBets(id, o)
         /\ BlocksOf(kind, id)' = BlocksOf(kind, id)
         /\ OnChain(id)' = OnChain(id) /\ ResolvedOnChain(id)' = ResolvedOnChain(id)
BY DEF BetTotal, AllBets, BetsIn, BlocksOf, OnChain, ResolvedOnChain

\* The row of id becomes r, as the chain or an administrator has it.
Writes(id, r) ==
  /\ row' = [row EXCEPT ![id] = r]
  /\ since' = since \/ since' = [since EXCEPT ![id] = Len(chain)]
  /\ r.status # "Missing" /\ OnChain(id)
  /\ \A o \in Sides : r.total[o] >= row[id].total[o]
  /\ r.status = "Resolved" /\ id \notin patched' =>
       \/ row[id].status = "Resolved" /\ row[id].outcome = r.outcome
       \/ \E n \in BlocksOf("MarketResolved", id) : chain[n].outcome = r.outcome

RowStep == UNCHANGED <<row, since>> \/ \E id \in Id, r \in Rows : Writes(id, r)

Grows ==
  /\ row' \in [Id -> Rows] /\ since' \in [Id -> 0 .. MaxBlocks]
  /\ \A id \in Id :
       /\ row[id].status # "Missing" => row'[id].status # "Missing"
       /\ \A o \in Sides : row'[id].total[o] >= row[id].total[o]
       /\ \/ since'[id] = since[id]
          \/ since'[id] = Len(chain) /\ row'[id].status # "Missing"

LEMMA RowsGrow ==
  ASSUME TypeOK, RowStep
  PROVE  Grows
<1>1. /\ row \in [Id -> Rows] /\ \A id \in Id, o \in Sides : row[id].total[o] \in Nat
      /\ since \in [Id -> 0 .. MaxBlocks] /\ Len(chain) \in 0 .. MaxBlocks
  BY LedgersAreNat, LogsTyped DEF TypeOK, Rows, LedgersTyped
<1>2. CASE UNCHANGED <<row, since>>
  BY <1>1, <1>2 DEF Grows
<1>3. ASSUME NEW id \in Id, NEW r \in Rows, Writes(id, r) PROVE Grows
  <2>1. /\ row' = [row EXCEPT ![id] = r] /\ r.status # "Missing"
        /\ \A o \in Sides : r.total[o] >= row[id].total[o]
        /\ since' = since \/ since' = [since EXCEPT ![id] = Len(chain)]
    BY <1>3 DEF Writes
  <2> HIDE DEF Rows
  <2> QED  BY <1>1, <2>1 DEF Grows
<1> QED  BY <1>2, <1>3 DEF RowStep

LEMMA RowsKeep ==
  ASSUME IInv, chain' = chain, RowStep, patched \subseteq patched',
         \A id \in told' : id \in told \/ ResolvedOnChain(id)
  PROVE  CreatedFirst' /\ MissingIsEmpty' /\ RowsFollowChain'
<1>1. row \in [Id -> Rows]
  BY DEF IInv, TypeOK, Rows
<1>2. CreatedFirst'
  BY DEF IInv, CreatedFirst, BlocksOf
<1>3. ASSUME NEW id \in Id, row'[id] = row[id]
      PROVE  /\ row'[id].status = "Missing" => row'[id].total = [o \in Sides |-> 0]
             /\ row'[id].status # "Missing" => OnChain(id)'
             /\ row'[id].status = "Resolved" /\ id \notin patched' =>
                  \E n \in BlocksOf("MarketResolved", id)' :
                    chain'[n].outcome = row'[id].outcome
  BY <1>3, SameChain DEF IInv, MissingIsEmpty, RowsFollowChain
<1>4. ASSUME NEW id \in Id, NEW r \in Rows, Writes(id, r)
      PROVE  /\ row'[id].status # "Missing" /\ OnChain(id)'
             /\ row'[id].status = "Resolved" /\ id \notin patched' =>
                  \E n \in BlocksOf("MarketResolved", id)' :
                    chain'[n].outcome = row'[id].outcome
             /\ \A i \in Id \ {id} : row'[i] = row[i]
  <2>1. row' = [row EXCEPT ![id] = r]
    BY <1>4 DEF Writes
  <2>2. row'[id] = r /\ \A i \in Id \ {id} : row'[i] = row[i]
    <3> HIDE DEF Rows
    <3> QED  BY <1>1, <2>1
  <2>3. row[id].status = "Resolved" /\ id \notin patched' =>
          \E n \in BlocksOf("MarketResolved", id) : chain[n].outcome = row[id].outcome
    BY DEF IInv, RowsFollowChain
  <2>4. BlocksOf("MarketResolved", id)' = BlocksOf("MarketResolved", id)
        /\ OnChain(id)' = OnChain(id)
    BY SameChain
  <2> QED  BY <1>4, <2>2, <2>3, <2>4 DEF Writes
<1>5. \A id \in Id : id \in told' => ResolvedOnChain(id)'
  BY SameChain DEF IInv, RowsFollowChain
<1>6. MissingIsEmpty'
  BY <1>3, <1>4 DEF MissingIsEmpty, RowStep
<1>7. RowsFollowChain'
  <2>1. ASSUME NEW id \in Id
        PROVE  /\ row'[id].status # "Missing" => OnChain(id)'
               /\ row'[id].status = "Resolved" /\ id \notin patched' =>
                    \E n \in BlocksOf("MarketResolved", id)' :
                      chain'[n].outcome = row'[id].outcome
    BY <1>3, <1>4 DEF RowStep
  <2> QED  BY <1>5, <2>1 DEF RowsFollowChain
<1> QED  BY <1>2, <1>6, <1>7

LEMMA CoveredStays ==
  ASSUME TypeOK, TypeOK', chain' = chain, Grows, NEW id \in Id, NEW n \in Int,
         Covered(id, n)
  PROVE  Covered(id, n)'
<1>1. NothingOwed'
  <2>1. TypeOK' => NothingOwed'
    BY FreshOwesNothing, PTL
  <2> QED  BY <2>1
<1>2. ASSUME NEW o \in Sides
      PROVE  row'[id].total[o] + BetTotal(id, o, since[id])' >= BetTotal(id, o, n)'
  <2>1. row'[id].total[o] \in Nat
    <3>1. row'[id].total \in [Sides -> 0 .. I64Max]
      BY DEF Grows, Rows
    <3>2. row'[id].total[o] \in 0 .. I64Max
      BY <3>1
    <3> QED  BY <3>2
  <2>2. PICK k \in Int : k = since[id]
    BY DEF TypeOK
  <2>3. CASE since'[id] = k
    <3>1. /\ row[id].total[o] \in Nat /\ BetTotal(id, o, n) \in Nat
          /\ BetTotal(id, o, k) \in Nat
      BY LedgersAreNat, StakesTyped DEF LedgersTyped
    <3>2. /\ row'[id].total[o] >= row[id].total[o]
          /\ row[id].total[o] + BetTotal(id, o, k) >= BetTotal(id, o, n)
      BY <2>2 DEF Grows, Covered
    <3>3. /\ BetTotal(id, o, n)' = BetTotal(id, o, n)
          /\ BetTotal(id, o, k)' = BetTotal(id, o, k)
      BY SameChain
    <3>4. row'[id].total[o] + BetTotal(id, o, k)' >= BetTotal(id, o, n)'
      BY <2>1, <3>1, <3>2, <3>3
    <3>5. k = since[id]'
      BY <2>3
    <3> QED  BY <3>4, <3>5
  <2>4. CASE since'[id] # k
    <3>1. since'[id] = Len(chain') /\ Len(chain') \in Int
      BY <2>2, <2>4, LogsTyped DEF Grows
    <3> QED  BY <1>1, <3>1 DEF NothingOwed
  <2> QED  BY <2>3, <2>4
<1>3. BlocksOf("MarketCreated", id)' = BlocksOf("MarketCreated", id)
  BY SameChain
<1> QED  BY <1>2, <1>3 DEF Covered, Grows

\* What ReputationService does, by whomever it is called.
RepStep ==
  \/ Rep!OnMarketCreated
  \/ \E id \in Id, o \in Sides \cup {"none"} : Rep!OnMarketResolved(id, o)
  \/ \E q \in Reader : GetReputation(q)
  \/ UNCHANGED <<rep, reader>>

LEMMA RepKeeps ==
  ASSUME Rep!RepTypeOK, RepStep
  PROVE  Rep!RepTypeOK'
<1> DEFINE Read == [pc : {"idle", "created", "resolved", "correct"},
                    created : 0 .. MaxCount, resolved : 0 .. MaxCount,
                    correct : 0 .. MaxCount]
<1>1. rep \in Rep!Counts /\ reader \in [Reader -> Read]
  BY DEF Rep!RepTypeOK
<1>2. CASE UNCHANGED <<rep, reader>>
  BY <1>1, <1>2 DEF Rep!RepTypeOK, Rep!Counts
<1>3. CASE Rep!OnMarketCreated
  <2> DEFINE r == [rep EXCEPT !.stored = TRUE, !.created = rep.created + 1]
  <2>1. rep.created + 1 \in 0 .. MaxCount
    BY <1>1, <1>3 DEF Rep!OnMarketCreated, Rep!Counts
  <2>2. r \in Rep!Counts
    BY <1>1, <2>1 DEF Rep!Counts
  <2>3. rep' = r /\ reader' = reader
    BY <1>3 DEF Rep!OnMarketCreated
  <2> QED  BY <1>1, <2>2, <2>3 DEF Rep!RepTypeOK, Rep!Counts
<1>4. ASSUME NEW id \in Id, NEW o \in Sides \cup {"none"}, Rep!OnMarketResolved(id, o)
      PROVE  Rep!RepTypeOK'
  <2> DEFINE c == rep.correct + Rep!Correct(o)
             r == [rep EXCEPT !.stored = TRUE, !.resolved = rep.resolved + 1, !.correct = c]
  <2>1. rep.resolved + 1 \in 0 .. MaxCount /\ c \in 0 .. MaxCount
    BY <1>1, <1>4 DEF Rep!OnMarketResolved, Rep!Counts, Rep!Correct
  <2>2. r \in Rep!Counts
    BY <1>1, <2>1 DEF Rep!Counts
  <2>3. rep' = r /\ reader' = reader
    BY <1>4 DEF Rep!OnMarketResolved
  <2> QED  BY <1>1, <2>2, <2>3 DEF Rep!RepTypeOK, Rep!Counts
<1>5. ASSUME NEW q \in Reader, GetReputation(q) PROVE Rep!RepTypeOK'
  <2>1. \A S \in SUBSET Id : Cardinality(S) \in 0 .. MaxCount
    <3> SUFFICES ASSUME NEW S \in SUBSET Id PROVE Cardinality(S) \in 0 .. MaxCount
      OBVIOUS
    <3>1. IsFiniteSet(S) /\ Cardinality(S) <= Cardinality(Id)
      BY FS_Subset
    <3>2. Cardinality(S) \in Nat /\ Cardinality(Id) \in Nat
      BY <3>1, FS_CardinalityType
    <3> QED  BY <3>1, <3>2
  <2>2. /\ Cardinality(Listed) \in 0 .. MaxCount
        /\ Cardinality(ListedResolved) \in 0 .. MaxCount
        /\ Cardinality(ListedRight) \in 0 .. MaxCount
    BY <2>1 DEF Listed, ListedResolved, ListedRight
  <2>3. reader[q] \in Read /\ Rep!NoRead \in Read
    BY <1>1 DEF Rep!NoRead
  <2>4. ASSUME NEW n \in 0 .. MaxCount, Rep!CountCreated(q, n) PROVE Rep!RepTypeOK'
    <3> DEFINE r == [Rep!NoRead EXCEPT !.pc = "created", !.created = n]
    <3>1. r \in Read
      BY <2>3
    <3>2. reader' = [reader EXCEPT ![q] = r] /\ rep' = rep
      BY <2>4 DEF Rep!CountCreated
    <3> HIDE DEF Read, r
    <3>3. reader' \in [Reader -> Read]
      BY <1>1, <3>1, <3>2
    <3> QED  BY <1>1, <3>2, <3>3 DEF Rep!RepTypeOK, Rep!Counts, Read
  <2>5. ASSUME NEW n \in 0 .. MaxCount, Rep!CountResolved(q, n) PROVE Rep!RepTypeOK'
    <3> DEFINE r == [reader[q] EXCEPT !.pc = "resolved", !.resolved = n]
    <3>1. r \in Read
      BY <2>3
    <3>2. reader' = [reader EXCEPT ![q] = r] /\ rep' = rep
      BY <1>1, <2>5 DEF Rep!CountResolved
    <3> HIDE DEF Read, r
    <3>3. reader' \in [Reader -> Read]
      BY <1>1, <3>1, <3>2
    <3> QED  BY <1>1, <3>2, <3>3 DEF Rep!RepTypeOK, Rep!Counts, Read
  <2>6. ASSUME NEW n \in 0 .. MaxCount, Rep!CountCorrect(q, ListedResolved, n)
        PROVE  Rep!RepTypeOK'
    <3> DEFINE r == [reader[q] EXCEPT !.pc = "correct", !.correct = n]
    <3>1. r \in Read
      BY <2>3
    <3>2. /\ rep' = rep
          /\ \/ reader' = [reader EXCEPT ![q] = r]
             \/ reader' = [reader EXCEPT ![q] = Rep!NoRead]
      BY <1>1, <2>6 DEF Rep!CountCorrect
    <3> HIDE DEF Read, r
    <3>3. reader' \in [Reader -> Read]
      BY <1>1, <2>3, <3>1, <3>2
    <3> QED  BY <1>1, <3>2, <3>3 DEF Rep!RepTypeOK, Rep!Counts, Read
  <2>7. CASE Rep!Upsert(q)
    <3>1. rep' \in Rep!Counts
      BY <2>3, <2>7 DEF Rep!Upsert, Rep!Counts
    <3>2. reader' = [reader EXCEPT ![q] = Rep!NoRead]
      BY <2>7 DEF Rep!Upsert
    <3> HIDE DEF Read
    <3>3. reader' \in [Reader -> Read]
      BY <1>1, <2>3, <3>2
    <3> QED  BY <3>1, <3>3 DEF Rep!RepTypeOK, Rep!Counts, Read
  <2> QED  BY <1>5, <2>2, <2>4, <2>5, <2>6, <2>7 DEF GetReputation
<1> QED  BY <1>2, <1>3, <1>4, <1>5 DEF RepStep

-----------------------------------------------------------------------------
(* The API.                                                                *)

LEMMA ApiKeeps ==
  ASSUME IInv, UNCHANGED <<chain, startBlock, indexer, told, starts, failed>>, RowStep,
         \A id \in Id, o \in Sides : row'[id].total[o] = row[id].total[o],
         credit' \subseteq [kind : {"created", "resolved"}, id : Id,
                            outcome : Sides \cup {"none"}],
         patched \subseteq patched', patched' \subseteq Id, RepStep
  PROVE  IInv'
<1>1. Grows
  BY RowsGrow DEF IInv
<1>2. TypeOK'
  <2>1. Rep!RepTypeOK'
    BY RepKeeps DEF IInv, TypeOK
  <2> QED  BY <1>1, <2>1 DEF IInv, TypeOK, Grows, Rows
<1>3. InWindow'
  BY DEF IInv, InWindow, InPlace
<1>4. CreatedFirst' /\ MissingIsEmpty' /\ RowsFollowChain'
  BY RowsKeep DEF IInv
<1>5. RoomLeft'
  <2>1. Running' = Running
    BY DEF Running
  <2>2. ASSUME NEW id \in Id, NEW o \in Sides
        PROVE  ToCount(id, o)' = ToCount(id, o) /\ AllBets(id, o)' = AllBets(id, o)
    BY DEF ToCount, AllBets, BetTotal, BetsIn, BlocksOf, Passed
  <2> QED  BY <2>1, <2>2 DEF IInv, RoomLeft
<1>6. NothingLeftOut'
  <2> SUFFICES ASSUME startBlock = 0, ~failed, NEW p \in Indexer, NEW id \in Id,
                      indexer[p].pc # "down"
      PROVE  Covered(id, Passed(indexer[p]))'
    BY DEF NothingLeftOut
  <2>1. PICK n \in Int : n = Passed(indexer[p])
    BY LedgersAreNat DEF IInv, LedgersTyped
  <2>2. Covered(id, n)
    BY <2>1 DEF IInv, NothingLeftOut
  <2>3. Covered(id, n)'
    BY <1>1, <1>2, <2>2, CoveredStays DEF IInv
  <2>4. n = Passed(indexer[p])'
    BY <2>1 DEF Passed
  <2> QED  BY <2>3, <2>4
<1> QED  BY <1>2, <1>3, <1>4, <1>5, <1>6 DEF IInv

\* A deleted row owes nothing to the bets so far.
LEMMA DeleteKeeps ==
  ASSUME IInv, NEW id \in Id, DeleteRow(id)
  PROVE  IInv'
<1>1. /\ row' = [row EXCEPT ![id] = Missing] /\ patched' = patched \ {id}
      /\ since' = [since EXCEPT ![id] = MaxBlocks]
      /\ UNCHANGED <<chain, startBlock, indexer, credit, told, starts, failed, rep, reader>>
  BY DEF DeleteRow
<1>2. /\ row \in [Id -> Rows] /\ since \in [Id -> 0 .. MaxBlocks] /\ patched \subseteq Id
      /\ Missing \in Rows /\ Missing.status = "Missing"
      /\ Missing.total = [o \in Sides |-> 0]
  <2>1. [o \in Sides |-> 0] \in [Sides -> 0 .. I64Max]
    OBVIOUS
  <2> QED  BY <2>1 DEF IInv, TypeOK, Rows, Missing, Statuses
<1>3. /\ row' \in [Id -> Rows] /\ since' \in [Id -> 0 .. MaxBlocks]
      /\ row'[id] = Missing /\ since'[id] = MaxBlocks
      /\ \A i \in Id \ {id} : row'[i] = row[i] /\ since'[i] = since[i]
  <2> HIDE DEF Rows, Missing
  <2>1. MaxBlocks \in 0 .. MaxBlocks
    OBVIOUS
  <2> QED  BY <1>1, <1>2, <2>1
<1>4. TypeOK'
  BY <1>1, <1>2, <1>3 DEF IInv, TypeOK, Rows, Rep!RepTypeOK
<1>5. InWindow'
  BY <1>1 DEF IInv, InWindow, InPlace
<1>6. CreatedFirst'
  BY <1>1 DEF IInv, CreatedFirst, BlocksOf
<1>7. MissingIsEmpty'
  BY <1>2, <1>3 DEF IInv, MissingIsEmpty
<1>8. RowsFollowChain'
  <2> SUFFICES ASSUME NEW i \in Id
      PROVE  /\ row'[i].status # "Missing" => OnChain(i)'
             /\ row'[i].status = "Resolved" /\ i \notin patched' =>
                  \E n \in BlocksOf("MarketResolved", i)' :
                    chain'[n].outcome = row'[i].outcome
             /\ i \in told' => ResolvedOnChain(i)'
    BY DEF RowsFollowChain
  <2>1. i \in told' => ResolvedOnChain(i)'
    BY <1>1, SameChain DEF IInv, RowsFollowChain
  <2>2. CASE i = id
    BY <1>2, <1>3, <2>1, <2>2
  <2>3. CASE i # id
    <3>1. /\ row'[i] = row[i] /\ chain' = chain
          /\ i \notin patched' => i \notin patched
      BY <1>1, <1>3, <2>3
    <3>2. /\ OnChain(i)' = OnChain(i)
          /\ BlocksOf("MarketResolved", i)' = BlocksOf("MarketResolved", i)
      BY <3>1 DEF OnChain, BlocksOf
    <3>3. /\ row[i].status # "Missing" => OnChain(i)
          /\ row[i].status = "Resolved" /\ i \notin patched =>
               \E n \in BlocksOf("MarketResolved", i) : chain[n].outcome = row[i].outcome
      BY DEF IInv, RowsFollowChain
    <3> QED  BY <2>1, <3>1, <3>2, <3>3
  <2> QED  BY <2>2, <2>3
<1>9. RoomLeft'
  <2>1. Running' = Running /\ starts' = starts /\ LedgersTyped /\ starts \in Nat
    BY <1>1, LedgersAreNat DEF Running, IInv, TypeOK
  <2>2. ASSUME NEW i \in Id, NEW o \in Sides
        PROVE  row'[i].total[o] + Total(ToCount(i, o))' <= starts * AllBets(i, o)'
    <3>1. ToCount(i, o)' = ToCount(i, o) /\ AllBets(i, o)' = AllBets(i, o)
      BY <1>1 DEF ToCount, AllBets, BetTotal, BetsIn, BlocksOf, Passed
    <3>2. /\ row[i].total[o] \in Nat /\ Total(ToCount(i, o)) \in Nat
          /\ AllBets(i, o) \in Nat
      BY <2>1 DEF LedgersTyped
    <3>3. row'[i].total[o] \in Nat /\ row'[i].total[o] <= row[i].total[o]
      BY <1>2, <1>3, <3>2
    <3>4. starts * AllBets(i, o) \in Nat
      BY <2>1, <3>2
    <3>5. row[i].total[o] + Total(ToCount(i, o)) <= starts * AllBets(i, o)
      BY DEF IInv, RoomLeft
    <3> QED  BY <3>1, <3>2, <3>3, <3>4, <3>5
  <2> QED  BY <2>1, <2>2 DEF IInv, RoomLeft
<1>10. NothingLeftOut'
  <2> SUFFICES ASSUME startBlock = 0, ~failed, NEW p \in Indexer, NEW i \in Id,
                      indexer[p].pc # "down"
      PROVE  Covered(i, Passed(indexer[p]))'
    BY <1>1 DEF NothingLeftOut
  <2>1. PICK n \in Int : n = Passed(indexer[p]) /\ n = Passed(indexer[p])'
    BY <1>1, LedgersAreNat DEF IInv, LedgersTyped, Passed
  <2>2. CASE i = id
    <3>1. TypeOK' => NothingOwed'
      BY FreshOwesNothing, PTL
    <3>2. since'[i] >= Len(chain')
      BY <1>1, <1>3, <2>2, LogsTyped DEF IInv, TypeOK
    <3>3. \A o \in Sides :
            row'[i].total[o] + BetTotal(i, o, since[i])' >= BetTotal(i, o, n)'
      BY <1>4, <3>1, <3>2 DEF NothingOwed
    <3>4. Covered(i, n)'
      BY <1>3, <2>2, <3>3 DEF Covered
    <3> QED  BY <2>1, <3>4
  <2>3. CASE i # id
    <3>1. Covered(i, n)
      BY <2>1 DEF IInv, NothingLeftOut
    <3>2. row'[i] = row[i] /\ since'[i] = since[i] /\ chain' = chain
      BY <1>1, <1>3, <2>3
    <3>3. Covered(i, n)'
      BY <3>1, <3>2 DEF Covered, BetTotal, BetsIn, BlocksOf
    <3> QED  BY <2>1, <3>3
  <2> QED  BY <2>2, <2>3
<1> QED  BY <1>4, <1>5, <1>6, <1>7, <1>8, <1>9, <1>10 DEF IInv

LEMMA ApiInv ==
  ASSUME IInv,
         \/ \E id \in Id, c \in Creator : ApiCreate(id, c)
         \/ \E id \in Id, body \in Patch : ApiPatch(id, body)
         \/ \E id \in Id : DeleteRow(id)
         \/ \E c \in credit : ApiCredit(c)
         \/ \E q \in Reader : GetReputation(q)
  PROVE  IInv'
<1> DEFINE Credits == [kind : {"created", "resolved"}, id : Id, outcome : Sides \cup {"none"}]
<1>1. /\ row \in [Id -> Rows] /\ credit \subseteq Credits /\ patched \subseteq Id
      /\ \A id \in Id : row[id] \in Rows
  BY DEF IInv, TypeOK, Rows
<1>2. \A id \in Id, o \in Sides : row[id].total[o] \in Nat
  BY LedgersAreNat DEF IInv, LedgersTyped
<1>3. ASSUME NEW id \in Id, NEW c \in Creator, ApiCreate(id, c) PROVE IInv'
  <2> DEFINE r == IF row[id].status = "Missing"
                  THEN [Missing EXCEPT !.status = "Open", !.creator = c]
                  ELSE [row[id] EXCEPT !.creator = c]
  <2>1. r \in Rows /\ r.status # "Missing" /\ r.total = row[id].total
    <3>1. CASE row[id].status = "Missing"
      <4>1. row[id].total = [o \in Sides |-> 0]
        BY <3>1 DEF IInv, MissingIsEmpty
      <4> QED  BY <1>1, <3>1, <4>1 DEF Missing, Rows, Statuses
    <3>2. CASE row[id].status # "Missing"
      BY <1>1, <3>2 DEF Rows
    <3> QED  BY <3>1, <3>2
  <2>2. r.status = "Resolved" => row[id].status = "Resolved" /\ row[id].outcome = r.outcome
    BY <1>1 DEF Missing, Rows
  <2>3. /\ row' = [row EXCEPT ![id] = r] /\ OnChain(id)
        /\ since' = since \/ since' = [since EXCEPT ![id] = Len(chain)]
        /\ UNCHANGED <<chain, startBlock, indexer, told, starts, failed, patched>>
        /\ UNCHANGED <<rep, reader>>
    BY <1>3 DEF ApiCreate, Registered
  <2>4. credit' \subseteq Credits
    <3> DEFINE e == [kind |-> "created", id |-> id, outcome |-> "none"]
    <3>1. e \in Credits
      OBVIOUS
    <3>2. credit' = credit \/ credit' = credit \cup {e}
      BY <1>3 DEF ApiCreate
    <3> QED  BY <1>1, <3>1, <3>2
  <2> HIDE DEF r, Credits
  <2>5. Writes(id, r)
    BY <1>2, <2>1, <2>2, <2>3 DEF Writes
  <2>6. \A i \in Id, o \in Sides : row'[i].total[o] = row[i].total[o]
    BY <1>1, <2>1, <2>3
  <2> QED  BY <1>1, <2>1, <2>3, <2>4, <2>5, <2>6, ApiKeeps DEF RowStep, RepStep, Credits
<1>4. ASSUME NEW id \in Id, NEW body \in Patch, ApiPatch(id, body) PROVE IInv'
  <2> DEFINE r == [row[id] EXCEPT !.status = body.status, !.outcome = body.outcome]
  <2>0. /\ body.status \in Statuses \ {"Missing"} /\ body.outcome \in Sides \cup {"none"}
    OBVIOUS
  <2>1. r \in Rows /\ r.status = body.status /\ r.total = row[id].total
    BY <1>1, <2>0 DEF Rows
  <2>2. /\ row' = [row EXCEPT ![id] = r]
        /\ UNCHANGED <<chain, startBlock, indexer, told, starts, failed, since>>
        /\ UNCHANGED <<rep, reader>>
    BY <1>4 DEF ApiPatch
  <2>3. /\ patched \subseteq patched' /\ patched' \subseteq Id
        /\ body.status = "Resolved" => id \in patched'
    BY <1>1, <1>4 DEF ApiPatch
  <2>4. credit' \subseteq Credits
    BY <1>1, <1>4, <2>0 DEF ApiPatch
  <2>5. OnChain(id)
    BY <1>4 DEF ApiPatch, IInv, RowsFollowChain
  <2> HIDE DEF r, Credits
  <2>6. Writes(id, r)
    BY <1>2, <2>0, <2>1, <2>2, <2>3, <2>5 DEF Writes
  <2>7. \A i \in Id, o \in Sides : row'[i].total[o] = row[i].total[o]
    BY <1>1, <2>1, <2>2
  <2> QED  BY <2>1, <2>2, <2>3, <2>4, <2>6, <2>7, ApiKeeps DEF RowStep, RepStep, Credits
<1>5. ASSUME NEW c \in credit, ApiCredit(c) PROVE IInv'
  <2>1. c.id \in Id /\ c.outcome \in Sides \cup {"none"} /\ credit' \subseteq Credits
    BY <1>1, <1>5 DEF ApiCredit
  <2>2. UNCHANGED <<chain, startBlock, indexer, told, starts, failed, row, patched, since>>
    BY <1>5 DEF ApiCredit, history
  <2>3. RepStep
    BY <1>5, <2>1 DEF ApiCredit, RepStep
  <2> HIDE DEF Credits
  <2> QED  BY <1>1, <2>1, <2>2, <2>3, ApiKeeps DEF RowStep, Credits
<1>6. ASSUME NEW q \in Reader, GetReputation(q) PROVE IInv'
  <2>1. UNCHANGED <<chain, startBlock, indexer, told, starts, failed, row, credit, patched,
                    since>>
    BY <1>6 DEF GetReputation, history
  <2>2. RepStep
    BY <1>6 DEF RepStep
  <2> HIDE DEF Credits
  <2> QED  BY <1>1, <2>1, <2>2, ApiKeeps DEF RowStep, Credits
<1> QED  BY <1>3, <1>4, <1>5, <1>6, DeleteKeeps

-----------------------------------------------------------------------------
(* A process goes from its place to i.                                     *)

Goes(p, i) ==
  /\ indexer[p].pc # "down"
  /\ i \in Places /\ InPlace(i) /\ indexer' = [indexer EXCEPT ![p] = i]
  /\ UNCHANGED <<chain, startBlock, credit, starts, patched>>
  /\ RowStep /\ RepStep
  /\ failed' \in BOOLEAN /\ (failed => failed')
  /\ told' \subseteq Id /\ \A id \in told' : id \in told \/ ResolvedOnChain(id)

LEMMA PlacesKeep ==
  ASSUME IInv, NEW p \in Indexer, NEW i \in Places, Goes(p, i)
  PROVE  /\ TypeOK' /\ InWindow' /\ CreatedFirst' /\ MissingIsEmpty' /\ RowsFollowChain'
         /\ indexer'[p] = i /\ \A q \in Indexer \ {p} : indexer'[q] = indexer[q]
<1>1. Grows
  BY RowsGrow DEF IInv, Goes
<1>2. indexer \in [Indexer -> Places]
  BY DEF IInv, TypeOK, Places
<1>3. /\ indexer' \in [Indexer -> Places]
      /\ indexer'[p] = i /\ \A q \in Indexer \ {p} : indexer'[q] = indexer[q]
  <2> HIDE DEF Places
  <2> QED  BY <1>2 DEF Goes
<1>4. TypeOK'
  <2>1. Rep!RepTypeOK'
    BY RepKeeps DEF IInv, TypeOK, Goes
  <2>2. UNCHANGED <<chain, startBlock, credit, starts, patched>>
        /\ failed' \in BOOLEAN /\ told' \subseteq Id
    BY DEF Goes
  <2> QED  BY <1>1, <1>3, <2>1, <2>2 DEF IInv, TypeOK, Grows, Rows, Places
<1>5. InWindow'
  <2>1. \A q \in Indexer : InPlace(indexer'[q])
    BY <1>3 DEF IInv, InWindow, Goes
  <2>2. chain' = chain /\ startBlock' = startBlock
    BY DEF Goes
  <2> QED  BY <2>1, <2>2 DEF InWindow, InPlace
<1>6. CreatedFirst' /\ MissingIsEmpty' /\ RowsFollowChain'
  BY RowsKeep DEF Goes
<1> QED  BY <1>3, <1>4, <1>5, <1>6

\* What the process counts is no more than what it leaves behind.
LEMMA RoomKept ==
  ASSUME IInv, NEW p \in Indexer, NEW i \in Places, Goes(p, i),
         \A id \in Id, o \in Sides :
           IF i.pc = "down" THEN row'[id].total[o] <= row[id].total[o]
           ELSE /\ Passed(indexer[p]) <= Passed(i)
                /\ row'[id].total[o] + BetTotal(id, o, Passed(indexer[p]))
                     <= row[id].total[o] + BetTotal(id, o, Passed(i))
  PROVE  RoomLeft'
<1>1. LedgersTyped /\ starts \in Nat
  BY LedgersAreNat DEF IInv, TypeOK
<1>2. LedgersTyped' /\ indexer'[p] = i /\ \A q \in Indexer \ {p} : indexer'[q] = indexer[q]
  <2>1. TypeOK' => LedgersTyped'
    BY LedgersAreNat, PTL
  <2> QED  BY <2>1, PlacesKeep
<1>3. chain' = chain /\ starts' = starts /\ indexer[p].pc # "down"
  BY DEF Goes
<1>4. Total(Running)' <= Total(Running)
  <2>1. \A q \in Indexer : Running'[q] <= Running[q]
    BY <1>2, <1>3 DEF Running
  <2>2. Running \in [Indexer -> Nat] /\ Running' \in [Indexer -> Nat]
    BY <1>1, <1>2 DEF LedgersTyped
  <2> QED  BY <2>1, <2>2, TotalMonotone
<1>5. ASSUME NEW id \in Id, NEW o \in Sides
      PROVE  row'[id].total[o] + Total(ToCount(id, o)') <= starts * AllBets(id, o)'
  <2> DEFINE f == ToCount(id, o)
             h == ToCount(id, o)'
  <2>1. /\ f \in [Indexer -> Nat] /\ Total(f) \in Nat /\ row[id].total[o] \in Nat
        /\ AllBets(id, o) \in Nat
    BY <1>1 DEF LedgersTyped
  <2>2. h \in [Indexer -> Nat] /\ Total(h) \in Nat /\ row'[id].total[o] \in Nat
    BY <1>2 DEF LedgersTyped
  <2>3. /\ AllBets(id, o)' = AllBets(id, o)
        /\ \A n : BetTotal(id, o, n)' = BetTotal(id, o, n)
    BY <1>3, SameChain
  <2>4. ASSUME NEW q \in Indexer \ {p} PROVE h[q] = f[q]
    <3>1. PICK n : n = Passed(indexer[q])
      OBVIOUS
    <3>2. n = Passed(indexer[q])'
      BY <1>2, <3>1 DEF Passed
    <3> QED  BY <1>2, <2>3, <3>1, <3>2 DEF ToCount
  <2>5. h[p] <= f[p] /\ row'[id].total[o] + h[p] <= row[id].total[o] + f[p]
    <3>1. PICK m \in Int : m = Passed(indexer[p])
      BY <1>1 DEF LedgersTyped
    <3>2. PICK n \in Int : n = Passed(i)
      BY DEF Passed, Places
    <3>3. n = Passed(indexer[p])'
      BY <1>2, <3>2 DEF Passed
    <3>4. f[p] = AllBets(id, o) - BetTotal(id, o, m)
      BY <1>3, <3>1 DEF ToCount
    <3>5. h[p] = IF i.pc = "down" THEN 0 ELSE AllBets(id, o) - BetTotal(id, o, n)
      BY <1>2, <2>3, <3>3 DEF ToCount
    <3>6. BetTotal(id, o, m) \in Nat /\ BetTotal(id, o, n) \in Nat
      BY StakesTyped DEF IInv
    <3>7. CASE i.pc = "down"
      <4>1. h[p] = 0 /\ f[p] \in Nat /\ row'[id].total[o] <= row[id].total[o]
        BY <2>1, <3>5, <3>7
      <4> QED  BY <2>1, <2>2, <4>1
    <3>8. CASE i.pc # "down"
      <4>1. /\ m <= n
            /\ row'[id].total[o] + BetTotal(id, o, m) <= row[id].total[o] + BetTotal(id, o, n)
        BY <3>1, <3>2, <3>8
      <4>2. BetTotal(id, o, m) <= BetTotal(id, o, n)
        BY <4>1, BetTotalMonotone DEF IInv
      <4>3. f[p] = AllBets(id, o) - BetTotal(id, o, m)
            /\ h[p] = AllBets(id, o) - BetTotal(id, o, n)
        BY <3>4, <3>5, <3>8
      <4> HIDE DEF f, h
      <4> QED  BY <2>1, <2>2, <3>6, <4>1, <4>2, <4>3
    <3> QED  BY <3>7, <3>8
  <2> HIDE DEF f, h
  <2>6. PICK k \in Nat : f[p] = h[p] + k
    <3>1. f[p] - h[p] \in Nat /\ f[p] = h[p] + (f[p] - h[p])
      BY <2>1, <2>2, <2>5
    <3> QED  BY <3>1
  <2>7. Total(f) = Total(h) + k
    BY <2>1, <2>2, <2>4, <2>6, TotalAdd
  <2>8. row'[id].total[o] <= row[id].total[o] + k
    BY <2>1, <2>2, <2>5, <2>6
  <2>9. row[id].total[o] + Total(f) <= starts * AllBets(id, o)
    BY DEF IInv, RoomLeft, f
  <2>10. row'[id].total[o] + Total(h) <= row[id].total[o] + Total(f)
    BY <2>1, <2>2, <2>7, <2>8
  <2>11. starts * AllBets(id, o) \in Nat
    BY <1>1, <2>1
  <2>12. row'[id].total[o] + Total(h) <= starts * AllBets(id, o)
    BY <2>1, <2>2, <2>9, <2>10, <2>11
  <2> QED  BY <2>3, <2>12 DEF h
<1>6. Total(Running)' <= starts'
  BY <1>1, <1>2, <1>3, <1>4 DEF IInv, RoomLeft, LedgersTyped
<1> QED  BY <1>3, <1>5, <1>6 DEF RoomLeft

\* A process that has got to n has met what the other processes had met too.
LEMMA NothingMissed ==
  ASSUME IInv, NEW p \in Indexer, NEW i \in Places, Goes(p, i),
         startBlock = 0 /\ ~failed' /\ i.pc # "down" =>
           \A id \in Id : Covered(id, Passed(i))'
  PROVE  NothingLeftOut'
<1>1. Grows
  BY RowsGrow DEF IInv, Goes
<1>2. /\ indexer'[p] = i /\ \A q \in Indexer \ {p} : indexer'[q] = indexer[q]
      /\ chain' = chain /\ startBlock' = startBlock /\ (failed => failed') /\ TypeOK'
  BY PlacesKeep DEF Goes
<1> SUFFICES ASSUME startBlock = 0, ~failed', NEW q \in Indexer, NEW id \in Id,
                    indexer'[q].pc # "down"
    PROVE  Covered(id, Passed(indexer[q]))'
  BY <1>2 DEF NothingLeftOut
<1>3. CASE q = p
  <2>1. PICK n : n = Passed(i)
    OBVIOUS
  <2>2. n = Passed(indexer[q])' /\ n = Passed(i)'
    BY <1>2, <1>3, <2>1 DEF Passed
  <2>3. Covered(id, Passed(i))'
    BY <1>2, <1>3
  <2> QED  BY <2>2, <2>3
<1>4. CASE q # p
  <2>1. PICK n \in Int : n = Passed(indexer[q])
    BY LedgersAreNat DEF IInv, LedgersTyped
  <2>2. n = Passed(indexer[q])' /\ indexer[q].pc # "down"
    BY <1>2, <1>4, <2>1 DEF Passed
  <2>3. Covered(id, n)
    BY <1>2, <2>1, <2>2 DEF IInv, NothingLeftOut
  <2>4. Covered(id, n)'
    BY <1>1, <1>2, <2>3, CoveredStays DEF IInv
  <2> QED  BY <2>2, <2>4
<1> QED  BY <1>3, <1>4

\* Nothing is counted and nothing passed.
LEMMA StayKeeps ==
  ASSUME IInv, NEW p \in Indexer, NEW i \in Places, Goes(p, i),
         Passed(i) = Passed(indexer[p]),
         \A id \in Id, o \in Sides : row'[id].total[o] = row[id].total[o]
  PROVE  IInv'
<1>1. LedgersTyped
  BY LedgersAreNat DEF IInv
<1>2. RoomLeft'
  <2>1. \A id \in Id, o \in Sides :
          /\ row'[id].total[o] <= row[id].total[o]
          /\ Passed(indexer[p]) <= Passed(i)
          /\ row'[id].total[o] + BetTotal(id, o, Passed(indexer[p]))
               <= row[id].total[o] + BetTotal(id, o, Passed(i))
    BY <1>1, StakesTyped DEF LedgersTyped, IInv
  <2> QED  BY <2>1, RoomKept
<1>3. NothingLeftOut'
  <2>1. ASSUME startBlock = 0, ~failed', NEW id \in Id PROVE Covered(id, Passed(i))'
    <3>1. Covered(id, Passed(i))
      BY <2>1 DEF IInv, NothingLeftOut, Goes
    <3>2. Grows /\ Passed(i) \in Int /\ TypeOK'
      BY <1>1, RowsGrow, PlacesKeep DEF IInv, Goes, LedgersTyped
    <3> QED  BY <3>1, <3>2, CoveredStays DEF IInv, Goes
  <2> QED  BY <2>1, NothingMissed
<1> QED  BY <1>2, <1>3, PlacesKeep DEF IInv

LEMMA AdvancedPlace ==
  ASSUME IInv, NEW p \in Indexer, indexer[p].pc \notin {"down", "waiting"}
  PROVE  /\ indexer[p].at \in DOMAIN chain
         /\ Advanced(indexer[p]) \in Places /\ InPlace(Advanced(indexer[p]))
         /\ Advanced(indexer[p]).pc # "down"
         /\ Passed(Advanced(indexer[p])) = indexer[p].at
         /\ Passed(indexer[p]) = indexer[p].at - 1
<1>1. indexer[p] \in Places /\ InPlace(indexer[p])
  BY DEF IInv, TypeOK, Places, InWindow
<1>2. /\ Len(chain) \in Nat /\ DOMAIN chain = 1 .. Len(chain) /\ Len(chain) <= MaxBlocks
  BY LogsTyped DEF IInv, TypeOK
<1> DEFINE i == indexer[p]
<1>3. /\ i.at \in Int /\ i.to \in Int /\ 1 <= i.at /\ i.at <= i.to /\ i.to <= Len(chain)
  BY <1>1 DEF InPlace, Places
<1>4. CASE i.at = i.to
  <2> DEFINE j == [i EXCEPT !.pc = "waiting", !.last = i.to]
  <2>1. Advanced(i) = j
    BY <1>4 DEF Advanced
  <2>2. j \in Places /\ j.pc = "waiting" /\ j.last = i.at
    BY <1>1, <1>4 DEF Places
  <2> HIDE DEF j
  <2> QED  BY <1>2, <1>3, <2>1, <2>2 DEF InPlace, Passed
<1>5. CASE i.at # i.to
  <2> DEFINE j == [i EXCEPT !.pc = "handling", !.at = i.at + 1]
  <2>1. Advanced(i) = j
    BY <1>5 DEF Advanced
  <2>2. i.at + 1 \in 0 .. MaxBlocks /\ i.at + 1 <= i.to
    BY <1>2, <1>3, <1>5
  <2>3. j \in Places /\ j.pc = "handling" /\ j.at = i.at + 1 /\ j.to = i.to
    BY <1>1, <2>2 DEF Places
  <2> HIDE DEF j
  <2> QED  BY <1>2, <1>3, <2>1, <2>2, <2>3 DEF InPlace, Passed
<1> QED  BY <1>4, <1>5

\* The log is passed: what it adds is counted at most, and exactly unless a
\* handler fails or the row was deleted; a market that it creates has its row.
LEMMA DoneKeeps ==
  ASSUME IInv, NEW p \in Indexer, NEW i \in Places, Goes(p, i),
         indexer[p].pc \notin {"down", "waiting"}, i = Advanced(indexer[p]),
         \A id \in Id, o \in Sides :
           /\ row'[id].total[o] <= row[id].total[o] + Weight(At(p), id, o)
           /\ startBlock = 0 /\ ~failed' /\ since'[id] < Len(chain) =>
                row'[id].total[o] >= row[id].total[o] + Weight(At(p), id, o),
         startBlock = 0 /\ ~failed' /\ At(p).kind = "MarketCreated" =>
           row'[At(p).id].status # "Missing"
  PROVE  IInv'
<1>0. PICK n \in Int : n = indexer[p].at
  BY AdvancedPlace, LogsTyped DEF IInv
<1>1. /\ n \in DOMAIN chain /\ i.pc # "down" /\ At(p) = chain[n]
      /\ Passed(i) = n /\ Passed(indexer[p]) = n - 1 /\ n \in Int
  BY <1>0, AdvancedPlace, LogsTyped DEF At, IInv
<1>2. ASSUME NEW id \in Id, NEW o \in Sides
      PROVE  /\ BetTotal(id, o, n) = BetTotal(id, o, n - 1) + Weight(At(p), id, o)
             /\ BetTotal(id, o, n) \in Nat /\ BetTotal(id, o, n - 1) \in Nat
             /\ Weight(At(p), id, o) \in Nat
             /\ row[id].total[o] \in Nat /\ row'[id].total[o] \in Nat
  <2>1. BetTotal(id, o, n) = BetTotal(id, o, n - 1) + Weight(At(p), id, o)
    BY <1>1, BetTotalStep DEF IInv
  <2>2. BetTotal(id, o, n) \in Nat /\ BetTotal(id, o, n - 1) \in Nat
    BY <1>1, StakesTyped DEF IInv
  <2>3. Weight(At(p), id, o) \in Nat
    BY <1>1, LogsTyped DEF IInv, Weight
  <2>4. row[id].total[o] \in Nat
    BY LedgersAreNat DEF IInv, LedgersTyped
  <2>5. TypeOK' => LedgersTyped'
    BY LedgersAreNat, PTL
  <2>6. row'[id].total[o] \in Nat
    BY <2>5, PlacesKeep DEF LedgersTyped
  <2> QED  BY <2>1, <2>2, <2>3, <2>4, <2>6
<1>5. NothingOwed'
  <2>1. TypeOK' => NothingOwed'
    BY FreshOwesNothing, PTL
  <2> QED  BY <2>1, PlacesKeep
<1>3. RoomLeft'
  <2>1. \A id \in Id, o \in Sides :
          /\ Passed(indexer[p]) <= Passed(i)
          /\ row'[id].total[o] + BetTotal(id, o, Passed(indexer[p]))
               <= row[id].total[o] + BetTotal(id, o, Passed(i))
    <3> SUFFICES ASSUME NEW id \in Id, NEW o \in Sides
        PROVE  /\ Passed(indexer[p]) <= Passed(i)
               /\ row'[id].total[o] + BetTotal(id, o, Passed(indexer[p]))
                    <= row[id].total[o] + BetTotal(id, o, Passed(i))
      OBVIOUS
    <3>1. row'[id].total[o] <= row[id].total[o] + Weight(At(p), id, o)
      OBVIOUS
    <3>2. row'[id].total[o] + BetTotal(id, o, n - 1) <= row[id].total[o] + BetTotal(id, o, n)
      BY ONLY <1>2, <3>1, id \in Id, o \in Sides
    <3> QED  BY <1>1, <3>2
  <2> QED  BY <1>1, <2>1, RoomKept
<1>4. NothingLeftOut'
  <2>1. ASSUME startBlock = 0, ~failed', NEW id \in Id PROVE Covered(id, n)'
    <3>1. Covered(id, n - 1) /\ chain' = chain
      BY <1>1, <2>1 DEF IInv, NothingLeftOut, Goes
    <3>2. ASSUME NEW o \in Sides
          PROVE  row'[id].total[o] + BetTotal(id, o, since[id])' >= BetTotal(id, o, n)'
      <4>1. PICK m \in Int : m = since'[id]
        BY PlacesKeep DEF TypeOK
      <4>2. CASE m >= Len(chain)
        BY <1>1, <1>5, <3>1, <4>1, <4>2 DEF NothingOwed
      <4>3. CASE m < Len(chain)
        <5>1. since[id] = m
          BY <4>1, <4>3, LogsTyped, RowsGrow DEF IInv, Goes, Grows
        <5>2. row[id].total[o] + BetTotal(id, o, m) >= BetTotal(id, o, n - 1)
          BY <3>1, <5>1 DEF Covered
        <5>3. row'[id].total[o] >= row[id].total[o] + Weight(At(p), id, o)
          BY <2>1, <4>1, <4>3
        <5>4. BetTotal(id, o, m) \in Nat
          BY StakesTyped DEF IInv
        <5>5. row'[id].total[o] + BetTotal(id, o, m) >= BetTotal(id, o, n)
          BY ONLY <1>2, <5>2, <5>3, <5>4, id \in Id, o \in Sides
        <5>6. /\ BetTotal(id, o, n)' = BetTotal(id, o, n)
              /\ BetTotal(id, o, m)' = BetTotal(id, o, m)
          BY <3>1, SameChain
        <5>7. row'[id].total[o] + BetTotal(id, o, m)' >= BetTotal(id, o, n)'
          BY <5>5, <5>6
        <5> QED  BY <4>1, <5>7
      <4> QED  BY <4>1, <4>2, <4>3, LogsTyped DEF IInv
    <3>3. ASSUME NEW k \in BlocksOf("MarketCreated", id)', k <= n
          PROVE  row'[id].status # "Missing" \/ since'[id] = MaxBlocks
      <4>1. k \in BlocksOf("MarketCreated", id) /\ k \in Int
        BY <3>1, LogsTyped DEF BlocksOf, IInv
      <4>2. CASE k = n
        BY <1>1, <2>1, <4>1, <4>2 DEF BlocksOf
      <4>3. CASE k <= n - 1
        <5>1. row[id].status # "Missing" \/ since[id] = MaxBlocks
          BY <3>1, <4>1, <4>3 DEF Covered
        <5> QED  BY <5>1, RowsGrow DEF IInv, Goes, Grows
      <4> QED  BY <1>1, <3>3, <4>1, <4>2, <4>3
    <3> QED  BY <3>2, <3>3 DEF Covered
  <2> QED  BY <1>1, <2>1, NothingMissed
<1> QED  BY <1>3, <1>4, PlacesKeep DEF IInv

-----------------------------------------------------------------------------
(* The steps of a process.                                                 *)

LEMMA StartKeeps ==
  ASSUME IInv, NEW p \in Indexer, Start(p)
  PROVE  IInv'
<1>1. PICK last \in (IF startBlock # Unset THEN {startBlock} ELSE {0, Len(chain)}) :
        indexer' = [indexer EXCEPT ![p] = [Down EXCEPT !.pc = "waiting", !.last = last]]
  BY DEF Start
<1> DEFINE i == [Down EXCEPT !.pc = "waiting", !.last = last]
<1>2. /\ UNCHANGED <<chain, row, startBlock, credit, told, failed, patched, since, rep,
                    reader>>
      /\ indexer[p].pc = "down" /\ starts < MaxStarts /\ starts' = starts + 1
  BY DEF Start
<1>3. /\ starts \in Nat /\ Len(chain) \in Nat /\ Len(chain) <= MaxBlocks
      /\ indexer \in [Indexer -> Places]
  BY LogsTyped DEF IInv, TypeOK, Places
<1>4. last \in 0 .. MaxBlocks /\ (startBlock = 0 => last = 0)
  BY <1>1, <1>3 DEF IInv, TypeOK, Unset
<1>5. /\ i \in Places /\ i.pc = "waiting" /\ i.last = last /\ Passed(i) = last
  <2>1. Down \in Places
    BY DEF Down, Places
  <2>2. i \in Places /\ i.pc = "waiting" /\ i.last = last
    BY <1>4, <2>1 DEF Places
  <2> HIDE DEF i
  <2> QED  BY <2>2 DEF Passed
<1>6. /\ indexer' \in [Indexer -> Places] /\ indexer'[p] = i
      /\ \A q \in Indexer \ {p} : indexer'[q] = indexer[q]
  <2> HIDE DEF Places
  <2> QED  BY <1>1, <1>3, <1>5
<1> HIDE DEF i
<1>7. TypeOK'
  <2>1. starts' \in 0 .. MaxStarts
    BY <1>2, <1>3
  <2> QED  BY <1>2, <1>6, <2>1 DEF IInv, TypeOK, Places, Rep!RepTypeOK
<1>8. InWindow'
  <2>1. InPlace(i)
    BY <1>3, <1>4, <1>5 DEF InPlace
  <2> QED  BY <1>2, <1>6, <2>1 DEF IInv, InWindow, InPlace
<1>9. CreatedFirst' /\ MissingIsEmpty' /\ RowsFollowChain'
  BY <1>2, RowsKeep DEF RowStep
<1>10. RoomLeft'
  <2>1. LedgersTyped /\ LedgersTyped'
    <3>1. TypeOK' => LedgersTyped'
      BY LedgersAreNat, PTL
    <3> QED  BY <1>7, <3>1, LedgersAreNat DEF IInv
  <2>2. Total(Running)' = Total(Running) + 1
    <3>1. Running \in [Indexer -> Nat] /\ Running' \in [Indexer -> Nat]
      BY <2>1 DEF LedgersTyped
    <3>2. /\ Running'[p] = Running[p] + 1
          /\ \A q \in Indexer \ {p} : Running'[q] = Running[q]
      BY <1>2, <1>5, <1>6 DEF Running
    <3> QED  BY <3>1, <3>2, TotalAdd
  <2>3. ASSUME NEW id \in Id, NEW o \in Sides
        PROVE  row'[id].total[o] + Total(ToCount(id, o)') <= starts' * AllBets(id, o)'
    <3> DEFINE f == ToCount(id, o)
               h == ToCount(id, o)'
    <3>1. /\ f \in [Indexer -> Nat] /\ Total(f) \in Nat /\ row[id].total[o] \in Nat
          /\ AllBets(id, o) \in Nat
      BY <2>1 DEF LedgersTyped
    <3>2. h \in [Indexer -> Nat] /\ h[p] <= AllBets(id, o)'
      BY <2>1 DEF LedgersTyped
    <3>3. /\ AllBets(id, o)' = AllBets(id, o)
          /\ \A n : BetTotal(id, o, n)' = BetTotal(id, o, n)
      BY <1>2, SameChain
    <3>4. ASSUME NEW q \in Indexer \ {p} PROVE h[q] = f[q]
      <4>1. PICK n : n = Passed(indexer[q])
        OBVIOUS
      <4>2. n = Passed(indexer[q])'
        BY <1>6, <4>1 DEF Passed
      <4> QED  BY <1>6, <3>3, <4>1, <4>2 DEF ToCount
    <3>5. f[p] = 0
      BY <1>2 DEF ToCount
    <3> HIDE DEF f, h
    <3>6. PICK v \in Nat : v = h[p] /\ v <= AllBets(id, o)
      BY <3>2, <3>3
    <3>7. Total(h) = Total(f) + v
      <4>1. h[p] = f[p] + v
        BY <3>5, <3>6
      <4>2. f \in [Indexer -> Nat] /\ h \in [Indexer -> Nat] /\ IsFiniteSet(Indexer)
        BY <3>1, <3>2
      <4>3. \A q \in Indexer \ {p} : h[q] = f[q]
        BY <3>4
      <4> QED  BY ONLY p \in Indexer, v \in Nat, <4>1, <4>2, <4>3, TotalAdd
    <3>8. row[id].total[o] + Total(f) <= starts * AllBets(id, o)
      BY DEF IInv, RoomLeft, f
    <3>9. (starts + 1) * AllBets(id, o) = starts * AllBets(id, o) + AllBets(id, o)
          /\ starts * AllBets(id, o) \in Nat
      BY <1>3, <3>1
    <3>10. row[id].total[o] + Total(h) <= starts * AllBets(id, o) + AllBets(id, o)
      <4> DEFINE r == row[id].total[o]
                 a == Total(f)
                 all == AllBets(id, o)
                 most == starts * all
      <4>1. r \in Nat /\ a \in Nat /\ all \in Nat /\ most \in Nat
        BY <3>1, <3>9
      <4>2. r + a <= most /\ v <= all /\ Total(h) = a + v
        BY <3>6, <3>7, <3>8
      <4> HIDE DEF r, a, all, most
      <4>3. r + (a + v) <= most + all
        BY ONLY v \in Nat, <4>1, <4>2
      <4> QED  BY <4>2, <4>3 DEF r, a, all, most
    <3> QED  BY <1>2, <3>3, <3>9, <3>10 DEF h
  <2>4. Total(Running)' <= starts'
    BY <1>2, <1>3, <2>1, <2>2 DEF IInv, RoomLeft, LedgersTyped
  <2> QED  BY <2>3, <2>4 DEF RoomLeft
<1>11. NothingLeftOut'
  <2> SUFFICES ASSUME startBlock = 0, ~failed, NEW q \in Indexer, NEW id \in Id,
                      indexer'[q].pc # "down"
      PROVE  Covered(id, Passed(indexer[q]))'
    BY <1>2 DEF NothingLeftOut
  <2>1. CASE q = p
    <3>1. Passed(indexer[q])' = 0
      BY <1>4, <1>5, <1>6, <2>1 DEF Passed
    <3>2. \A o \in Sides : /\ BetTotal(id, o, 0)' = 0 /\ row'[id].total[o] \in Nat
                          /\ BetTotal(id, o, since[id])' \in Nat
      <4>1. \A o \in Sides : BetTotal(id, o, 0)' = BetTotal(id, o, 0)
        BY <1>2, SameChain
      <4>2. \A o \in Sides : BetTotal(id, o, 0) = 0
        BY NoBetsYet DEF IInv
      <4>3. \A o \in Sides : row[id].total[o] \in Nat
        BY LedgersAreNat DEF IInv, LedgersTyped
      <4>4. \A o \in Sides : BetTotal(id, o, since[id])' \in Nat
        <5>1. since'[id] \in Int
          BY <1>7 DEF TypeOK
        <5>2. TypeOK' => BetTable'
          BY BetsAddUp, PTL
        <5> QED  BY <1>7, <5>1, <5>2 DEF BetTable
      <4> QED  BY <1>2, <4>1, <4>2, <4>3, <4>4
    <3>3. \A k \in BlocksOf("MarketCreated", id)' : ~(k <= 0)
      <4>1. BlocksOf("MarketCreated", id)' = BlocksOf("MarketCreated", id)
        BY <1>2, SameChain
      <4>2. \A k \in BlocksOf("MarketCreated", id) : ~(k <= 0)
        BY LogsTyped DEF BlocksOf, IInv
      <4> QED  BY <4>1, <4>2
    <3>4. Covered(id, 0)'
      BY <3>2, <3>3 DEF Covered
    <3> QED  BY <3>1, <3>4
  <2>2. CASE q # p
    <3>1. PICK n \in Int : n = Passed(indexer[q])
      BY LedgersAreNat DEF IInv, LedgersTyped
    <3>2. n = Passed(indexer[q])' /\ indexer[q].pc # "down"
      BY <1>6, <2>2, <3>1 DEF Passed
    <3>3. Covered(id, n)
      BY <3>1, <3>2 DEF IInv, NothingLeftOut
    <3>4. Grows
      BY <1>2, RowsGrow DEF IInv, RowStep
    <3>5. Covered(id, n)'
      BY <1>2, <1>7, <3>3, <3>4, CoveredStays DEF IInv
    <3> QED  BY <3>2, <3>5
  <2> QED  BY <2>1, <2>2
<1> QED  BY <1>7, <1>8, <1>9, <1>10, <1>11 DEF IInv

LEMMA CrashKeeps ==
  ASSUME IInv, NEW p \in Indexer, Crash(p)
  PROVE  IInv'
<1>1. Down \in Places /\ Down.pc = "down" /\ InPlace(Down)
  BY DEF Down, Places, InPlace
<1>2. Goes(p, Down) /\ row' = row
  BY <1>1 DEF Crash, Goes, RowStep, RepStep, history, IInv, TypeOK
<1>3. \A id \in Id, o \in Sides : row'[id].total[o] <= row[id].total[o]
  BY <1>2, LedgersAreNat DEF IInv, LedgersTyped
<1>4. RoomLeft'
  BY <1>1, <1>2, <1>3, RoomKept
<1>5. NothingLeftOut'
  BY <1>1, <1>2, NothingMissed
<1> QED  BY <1>1, <1>2, <1>4, <1>5, PlacesKeep DEF IInv

\* The process is at a log and goes on to j; no row, stake or score changes.
LEMMA MoveGoes ==
  ASSUME IInv, NEW p \in Indexer, NEW j \in Places, InPlace(j),
         indexer[p].pc # "down", indexer' = [indexer EXCEPT ![p] = j],
         UNCHANGED <<chain, row, startBlock, credit, told, history, rep, reader>>
  PROVE  Goes(p, j)
BY DEF Goes, RowStep, RepStep, history, IInv, TypeOK

LEMMA PollKeeps ==
  ASSUME IInv, NEW p \in Indexer, Poll(p)
  PROVE  IInv'
<1> DEFINE i == indexer[p]
           j == [i EXCEPT !.pc = "handling", !.to = To(i.last), !.at = i.last + 1]
<1>1. /\ i \in Places /\ InPlace(i) /\ i.pc = "waiting" /\ Len(chain) > i.last
      /\ indexer' = [indexer EXCEPT ![p] = j]
      /\ UNCHANGED <<chain, row, startBlock, credit, told, history, rep, reader>>
  BY DEF Poll, IInv, TypeOK, Places, InWindow
<1>2. Len(chain) \in Nat /\ Len(chain) <= MaxBlocks /\ i.last \in Nat
  BY <1>1, LogsTyped DEF IInv, TypeOK, Places
<1>3. To(i.last) \in Nat /\ i.last + 1 <= To(i.last) /\ To(i.last) <= Len(chain)
  <2>1. i.last < Len(chain) /\ Window \in Nat \ {0}
    BY <1>1, <1>2, IndexerConstants
  <2> HIDE DEF i, j
  <2> QED  BY ONLY <1>2, <2>1 DEF To
<1>4. /\ j \in Places /\ j.pc = "handling" /\ j.at = i.last + 1 /\ j.to = To(i.last)
  <2>1. To(i.last) \in 0 .. MaxBlocks /\ i.last + 1 \in 0 .. MaxBlocks
    BY <1>2, <1>3
  <2> HIDE DEF i
  <2> QED  BY <1>1, <2>1 DEF Places
<1> HIDE DEF j
<1>5. InPlace(j) /\ Passed(j) = i.last /\ Passed(i) = i.last
  BY <1>1, <1>2, <1>3, <1>4 DEF InPlace, Passed
<1>6. Goes(p, j)
  BY <1>1, <1>4, <1>5, MoveGoes
<1> QED  BY <1>1, <1>4, <1>5, <1>6, StayKeeps

\* Within the handling of a log only pc changes.
LEMMA SamePlace ==
  ASSUME IInv, NEW p \in Indexer, indexer[p].pc \notin {"down", "waiting"},
         NEW pc \in {"stored", "anonymous", "publishing", "stopped"},
         pc = "stopped" \/ At(p).kind = "MarketResolved"
  PROVE  LET j == [indexer[p] EXCEPT !.pc = pc]
         IN  j \in Places /\ InPlace(j) /\ Passed(j) = Passed(indexer[p])
<1> DEFINE i == indexer[p]
           j == [i EXCEPT !.pc = pc]
<1>1. i \in Places /\ InPlace(i)
  BY DEF IInv, TypeOK, Places, InWindow
<1>2. j \in Places /\ j.pc = pc /\ j.at = i.at /\ j.to = i.to
  <2> HIDE DEF i
  <2> QED  BY <1>1 DEF Places
<1> HIDE DEF j
<1> QED  BY <1>1, <1>2 DEF InPlace, Passed, At, j

LEMMA PanicKeeps ==
  ASSUME IInv, NEW p \in Indexer, Panic(p)
  PROVE  IInv'
<1> DEFINE j == [indexer[p] EXCEPT !.pc = "stopped"]
<1>1. /\ indexer[p].pc = "handling" /\ indexer' = [indexer EXCEPT ![p] = j]
      /\ UNCHANGED <<chain, row, startBlock, credit, told, history, rep, reader>>
  BY DEF Panic, Handling
<1>2. j \in Places /\ InPlace(j) /\ Passed(j) = Passed(indexer[p])
  BY <1>1, SamePlace
<1> HIDE DEF j
<1> QED  BY <1>1, <1>2, MoveGoes, StayKeeps

LEMMA CreditKeeps ==
  ASSUME IInv, NEW p \in Indexer, Credit(p)
  PROVE  IInv'
<1> DEFINE j == [indexer[p] EXCEPT !.pc = "publishing"]
<1>1. /\ indexer[p].pc = "stored" /\ indexer' = [indexer EXCEPT ![p] = j]
      /\ UNCHANGED <<chain, row, startBlock, credit, told, history>>
  BY DEF Credit
<1>2. At(p) \in Log /\ At(p).kind = "MarketResolved"
  <2>1. indexer[p].at \in DOMAIN chain /\ InPlace(indexer[p])
    BY <1>1, AdvancedPlace DEF IInv, InWindow
  <2> QED  BY <1>1, <2>1, LogsTyped DEF At, InPlace, IInv
<1>3. j \in Places /\ InPlace(j) /\ Passed(j) = Passed(indexer[p])
  BY <1>1, <1>2, SamePlace
<1>4. RepStep
  <2>1. At(p).id \in Id /\ At(p).outcome \in Sides \cup {"none"}
    BY <1>2 DEF Log
  <2> QED  BY <2>1 DEF Credit, RepStep
<1> HIDE DEF j
<1>5. Goes(p, j)
  BY <1>1, <1>3, <1>4 DEF Goes, RowStep, history, IInv, TypeOK
<1> QED  BY <1>1, <1>3, <1>5, StayKeeps

\* A handler at its log, and the place it goes on to.
LEMMA AtLog ==
  ASSUME IInv, NEW p \in Indexer, indexer[p].pc \notin {"down", "waiting"}
  PROVE  /\ At(p) \in Log /\ At(p).id \in Id /\ At(p).outcome \in Sides
         /\ At(p).amount \in Nat /\ Capped(At(p).amount) \in Nat
         /\ indexer[p].at \in BlocksOf(At(p).kind, At(p).id)
         /\ At(p) = chain[indexer[p].at]
<1>1. indexer[p].at \in DOMAIN chain
  BY AdvancedPlace
<1>2. At(p) \in Log
  BY <1>1, LogsTyped DEF At, IInv
<1>3. At(p).id \in Id /\ At(p).outcome \in Sides
  BY <1>2 DEF Log
<1> QED  BY <1>1, <1>2, <1>3, LogsTyped DEF At, IInv, BlocksOf

LEMMA AdvanceGoes ==
  ASSUME IInv, NEW p \in Indexer, indexer[p].pc \notin {"down", "waiting"}, Advance(p),
         UNCHANGED <<chain, startBlock, credit, starts, patched>>, RowStep,
         UNCHANGED <<rep, reader>>, failed' \in BOOLEAN, failed => failed',
         told' \subseteq Id, \A id \in told' : id \in told \/ ResolvedOnChain(id)
  PROVE  Advanced(indexer[p]) \in Places /\ Goes(p, Advanced(indexer[p]))
BY AdvancedPlace DEF Goes, Advance, RepStep

LEMMA NewRow ==
  ASSUME NEW c \in {"lower", "mixed", "none"}
  PROVE  LET r == [Missing EXCEPT !.status = "Open", !.creator = c]
         IN  r \in Rows /\ r.status = "Open" /\ r.total = [o \in Sides |-> 0]
<1>1. Missing \in Rows /\ Missing.total = [o \in Sides |-> 0]
  <2>1. [o \in Sides |-> 0] \in [Sides -> 0 .. I64Max]
    OBVIOUS
  <2> QED  BY <2>1 DEF Missing, Rows, Statuses
<1> HIDE DEF Missing
<1> QED  BY <1>1 DEF Rows, Statuses

LEMMA MarketCreatedKeeps ==
  ASSUME IInv, NEW p \in Indexer, HandleMarketCreated(p)
  PROVE  IInv'
<1> DEFINE id == At(p).id
           r == IF row[id].status = "Missing"
                THEN [Missing EXCEPT !.status = "Open", !.creator = "lower"] ELSE row[id]
<1>1. /\ indexer[p].pc = "handling" /\ At(p).kind = "MarketCreated" /\ Advance(p)
      /\ row' = [row EXCEPT ![id] = r]
      /\ since' = since \/ since' = [since EXCEPT ![id] = Len(chain)]
      /\ UNCHANGED <<chain, startBlock, credit, told, starts, failed, patched, rep, reader>>
  BY DEF HandleMarketCreated, Handling, At, Registered
<1>2. id \in Id /\ OnChain(id)
  BY <1>1, AtLog DEF OnChain
<1>3. row \in [Id -> Rows] /\ row[id] \in Rows /\ \A i \in Id, o \in Sides : row[i].total[o] \in Nat
  BY <1>2, LedgersAreNat DEF IInv, TypeOK, Rows, LedgersTyped
<1>4. r \in Rows /\ r.status # "Missing" /\ r.total = row[id].total
      /\ (r.status = "Resolved" => row[id].status = "Resolved" /\ row[id].outcome = r.outcome)
  <2>1. CASE row[id].status = "Missing"
    <3>1. row[id].total = [o \in Sides |-> 0]
      BY <1>2, <2>1 DEF IInv, MissingIsEmpty
    <3> QED  BY <2>1, <3>1, NewRow
  <2>2. CASE row[id].status # "Missing"
    BY <1>3, <2>2
  <2> QED  BY <2>1, <2>2
<1> HIDE DEF id, r
<1>5. Writes(id, r)
  BY <1>1, <1>2, <1>3, <1>4 DEF Writes
<1>6. \A i \in Id, o \in Sides : row'[i].total[o] = row[i].total[o]
  BY <1>1, <1>2, <1>3, <1>4
<1>7. Goes(p, Advanced(indexer[p])) /\ Advanced(indexer[p]) \in Places
  BY <1>1, <1>2, <1>4, <1>5, AdvanceGoes DEF RowStep, IInv, TypeOK
<1>8. \A i \in Id, o \in Sides : Weight(At(p), i, o) = 0
  BY <1>1 DEF Weight, Bet
<1>9. row'[At(p).id].status # "Missing"
  BY <1>1, <1>2, <1>3, <1>4 DEF id
<1>10. \A i \in Id, o \in Sides :
         /\ row'[i].total[o] <= row[i].total[o] + Weight(At(p), i, o)
         /\ row'[i].total[o] >= row[i].total[o] + Weight(At(p), i, o)
  BY <1>3, <1>6, <1>8
<1> QED  BY <1>1, <1>7, <1>9, <1>10, DoneKeeps

\* A bet finds the row of its market, unless it was deleted or a handler failed.
LEMMA BetFindsRow ==
  ASSUME IInv, NEW p \in Indexer, Handling(p, "BetPlaced"), startBlock = 0, ~failed
  PROVE  row[At(p).id].status # "Missing" \/ since[At(p).id] = MaxBlocks
<1>1. /\ indexer[p].pc = "handling" /\ At(p).kind = "BetPlaced"
      /\ indexer[p].at \in DOMAIN chain /\ At(p) = chain[indexer[p].at]
  BY DEF Handling, At
<1>2. PICK j \in BlocksOf("MarketCreated", At(p).id) : j < indexer[p].at
  BY <1>1 DEF IInv, CreatedFirst
<1>3. Covered(At(p).id, indexer[p].at - 1)
  BY <1>1, AtLog, AdvancedPlace DEF IInv, NothingLeftOut
<1>4. j <= indexer[p].at - 1
  BY <1>1, <1>2, LogsTyped DEF IInv, BlocksOf
<1> QED  BY <1>2, <1>3, <1>4 DEF Covered

LEMMA BetPlacedKeeps ==
  ASSUME IInv, NEW p \in Indexer, HandleBetPlaced(p)
  PROVE  IInv'
<1> DEFINE id == At(p).id
           o == At(p).outcome
           v == Capped(At(p).amount)
           t == row[id].total[o] + v
           r == [row[id] EXCEPT !.total = [row[id].total EXCEPT ![o] = t]]
<1>1. /\ indexer[p].pc = "handling" /\ At(p).kind = "BetPlaced" /\ Advance(p)
      /\ UNCHANGED <<chain, startBlock, credit, told, starts, patched, since, rep, reader>>
  BY DEF HandleBetPlaced, Handling, At
<1>2. IF row[id].status = "Missing" THEN UNCHANGED <<row, failed>>
      ELSE IF t > I64Max THEN failed' = TRUE /\ row' = row
      ELSE row' = [row EXCEPT ![id] = r] /\ failed' = failed
  BY DEF HandleBetPlaced, AddStake, Skip
<1>3. id \in Id /\ o \in Sides /\ v \in Nat
  BY <1>1, AtLog
<1>4. row \in [Id -> Rows] /\ row[id] \in Rows /\ \A i \in Id, s \in Sides : row[i].total[s] \in Nat
  BY <1>3, LedgersAreNat DEF IInv, TypeOK, Rows, LedgersTyped
<1>5. \A i \in Id, s \in Sides :
        Weight(At(p), i, s) = IF i = id /\ s = o THEN v ELSE 0
  BY <1>1 DEF Weight, Bet
<1>6. startBlock = 0 /\ ~failed => row[id].status # "Missing" \/ since[id] = MaxBlocks
  BY BetFindsRow DEF HandleBetPlaced
<1> HIDE DEF id, o, v
<1>7. CASE row' = row /\ (failed' \/ (row[id].status = "Missing" /\ failed' = failed))
  <2>1. failed' \in BOOLEAN /\ (failed => failed')
    BY <1>2, <1>7 DEF IInv, TypeOK
  <2>2. Goes(p, Advanced(indexer[p])) /\ Advanced(indexer[p]) \in Places
    BY <1>1, <1>7, <2>1, AdvanceGoes DEF RowStep, IInv, TypeOK
  <2>3. startBlock = 0 /\ ~failed' => ~(since'[id] < Len(chain))
    BY <1>1, <1>6, <1>7, LogsTyped DEF IInv, TypeOK
  <2>4. \A i \in Id, s \in Sides :
          /\ row'[i].total[s] <= row[i].total[s] + Weight(At(p), i, s)
          /\ i # id => row'[i].total[s] >= row[i].total[s] + Weight(At(p), i, s)
    BY <1>3, <1>4, <1>5, <1>7
  <2> QED  BY <1>1, <2>2, <2>3, <2>4, DoneKeeps
<1>8. CASE row[id].status # "Missing" /\ ~(t > I64Max)
  <2>1. row' = [row EXCEPT ![id] = r] /\ failed' = failed
    BY <1>2, <1>8
  <2>2. t \in 0 .. I64Max
    BY <1>3, <1>4, <1>8
  <2>3. row[id].total \in [Sides -> 0 .. I64Max]
    BY <1>4 DEF Rows
  <2> DEFINE tt == [row[id].total EXCEPT ![o] = t]
  <2>4. /\ tt \in [Sides -> 0 .. I64Max] /\ tt[o] = row[id].total[o] + v
        /\ \A s \in Sides \ {o} : tt[s] = row[id].total[s]
    <3> HIDE DEF Sides
    <3> QED  BY <1>3, <2>2, <2>3
  <2> HIDE DEF tt, t
  <2>5. /\ r \in Rows /\ r.total = tt /\ r.status = row[id].status
        /\ r.outcome = row[id].outcome
    <3>1. r = [row[id] EXCEPT !.total = tt]
      BY DEF tt
    <3> HIDE DEF r
    <3> QED  BY <1>4, <2>4, <3>1 DEF Rows
  <2> HIDE DEF r
  <2>6. /\ row'[id] = r /\ \A i \in Id \ {id} : row'[i] = row[i]
    BY <1>3, <1>4, <2>1
  <2>7. \A i \in Id, s \in Sides : row'[i].total[s] = row[i].total[s] + Weight(At(p), i, s)
    BY <1>3, <1>4, <1>5, <2>4, <2>5, <2>6
  <2>8. OnChain(id)
    BY <1>3, <1>8 DEF IInv, RowsFollowChain
  <2>9. \A s \in Sides : r.total[s] >= row[id].total[s]
    BY <1>3, <1>4, <2>4, <2>5
  <2>10. Writes(id, r)
    BY <1>1, <1>8, <2>1, <2>5, <2>8, <2>9 DEF Writes
  <2>11. Goes(p, Advanced(indexer[p])) /\ Advanced(indexer[p]) \in Places
    BY <1>1, <1>3, <2>1, <2>5, <2>10, AdvanceGoes DEF RowStep, IInv, TypeOK
  <2>12. \A i \in Id, s \in Sides :
           /\ row'[i].total[s] \in Nat
           /\ row'[i].total[s] <= row[i].total[s] + Weight(At(p), i, s)
           /\ row'[i].total[s] >= row[i].total[s] + Weight(At(p), i, s)
    BY <1>3, <1>4, <1>5, <2>7
  <2> QED  BY <1>1, <2>11, <2>12, DoneKeeps
<1> QED  BY <1>2, <1>7, <1>8

\* The log is done with and adds nothing to a row: what it was of no stake, or
\* its handler failed.
LEMMA PassedOver ==
  ASSUME IInv, NEW p \in Indexer, indexer[p].pc \notin {"down", "waiting"}, Advance(p),
         UNCHANGED <<chain, row, startBlock, credit, starts, patched, since, rep, reader>>,
         failed' = TRUE \/ (failed' = failed /\ At(p).kind = "MarketResolved"),
         told' \subseteq Id, \A id \in told' : id \in told \/ ResolvedOnChain(id)
  PROVE  IInv'
<1>1. Goes(p, Advanced(indexer[p])) /\ Advanced(indexer[p]) \in Places
  BY AdvanceGoes DEF RowStep, IInv, TypeOK
<1>2. \A id \in Id, o \in Sides :
        row[id].total[o] \in Nat /\ Weight(At(p), id, o) \in Nat
  BY LedgersAreNat, AtLog DEF IInv, LedgersTyped, Weight
<1>3. ~failed' => \A id \in Id, o \in Sides : Weight(At(p), id, o) = 0
  BY DEF Weight, Bet
<1>4. \A id \in Id, o \in Sides :
        /\ row'[id].total[o] <= row[id].total[o] + Weight(At(p), id, o)
        /\ startBlock = 0 /\ ~failed' =>
             row'[id].total[o] >= row[id].total[o] + Weight(At(p), id, o)
  BY <1>2, <1>3
<1> QED  BY <1>1, <1>4, DoneKeeps

LEMMA MarketResolvedKeeps ==
  ASSUME IInv, NEW p \in Indexer, HandleMarketResolved(p)
  PROVE  IInv'
<1> DEFINE id == At(p).id
           r == Stored(row[id], At(p))
           pc == IF row[id].creator = "none" THEN "anonymous" ELSE "stored"
           j == [indexer[p] EXCEPT !.pc = pc]
<1>1. /\ indexer[p].pc = "handling" /\ At(p).kind = "MarketResolved"
      /\ UNCHANGED <<chain, startBlock, credit, told, starts, patched, since, rep, reader>>
  BY DEF HandleMarketResolved, Handling, At
<1>2. CASE row[id].status = "Missing"
  <2>1. failed' = TRUE /\ row' = row /\ Advance(p)
    BY <1>2 DEF HandleMarketResolved, Skip
  <2>2. told' \subseteq Id /\ \A i \in told' : i \in told
    BY <1>1 DEF IInv, TypeOK
  <2> QED  BY <1>1, <2>1, <2>2, PassedOver
<1>3. CASE row[id].status # "Missing"
  <2>1. /\ row' = [row EXCEPT ![id] = r] /\ failed' = failed
        /\ indexer' = [indexer EXCEPT ![p] = j]
    BY <1>3 DEF HandleMarketResolved
  <2>2. /\ id \in Id /\ At(p).outcome \in Sides /\ OnChain(id)
        /\ indexer[p].at \in BlocksOf("MarketResolved", id)
        /\ chain[indexer[p].at].outcome = At(p).outcome
    BY <1>1, <1>3, AtLog DEF IInv, RowsFollowChain
  <2>3. /\ row \in [Id -> Rows] /\ row[id] \in Rows
        /\ \A i \in Id, s \in Sides : row[i].total[s] \in Nat
    BY <2>2, LedgersAreNat DEF IInv, TypeOK, Rows, LedgersTyped
  <2>4. /\ r \in Rows /\ r.status = "Resolved" /\ r.outcome = At(p).outcome
        /\ r.total = row[id].total
    BY <2>2, <2>3 DEF Stored, Rows, Statuses
  <2>5. j \in Places /\ InPlace(j) /\ Passed(j) = Passed(indexer[p])
    <3>1. pc \in {"stored", "anonymous", "publishing", "stopped"}
      OBVIOUS
    <3> HIDE DEF pc
    <3> QED  BY <1>1, <3>1, SamePlace
  <2> HIDE DEF r, j, id
  <2>6. Writes(id, r)
    BY <1>1, <2>1, <2>2, <2>3, <2>4 DEF Writes
  <2>7. \A i \in Id, s \in Sides : row'[i].total[s] = row[i].total[s]
    BY <2>1, <2>2, <2>3, <2>4
  <2>8. Goes(p, j)
    BY <1>1, <2>1, <2>2, <2>4, <2>5, <2>6 DEF Goes, RowStep, RepStep, IInv, TypeOK
  <2> QED  BY <2>5, <2>7, <2>8, StayKeeps
<1> QED  BY <1>2, <1>3

LEMMA PublishKeeps ==
  ASSUME IInv, NEW p \in Indexer, Publish(p)
  PROVE  IInv'
<1>1. /\ indexer[p].pc \in {"anonymous", "publishing"} /\ Advance(p)
      /\ told' = told \cup {At(p).id}
      /\ UNCHANGED <<chain, row, startBlock, credit, history, rep, reader>>
  BY DEF Publish
<1>2. At(p).kind = "MarketResolved"
  BY <1>1, AtLog DEF IInv, InWindow, InPlace
<1>3. At(p).id \in Id /\ ResolvedOnChain(At(p).id)
  BY <1>1, <1>2, AtLog DEF ResolvedOnChain
<1>4. told' \subseteq Id /\ \A id \in told' : id \in told \/ ResolvedOnChain(id)
  BY <1>1, <1>3 DEF IInv, TypeOK
<1> QED  BY <1>1, <1>2, <1>4, PassedOver DEF history

LEMMA HandlerFailsKeeps ==
  ASSUME IInv, NEW p \in Indexer, HandlerFails(p)
  PROVE  IInv'
<1>1. /\ indexer[p].pc \notin {"down", "waiting"} /\ Advance(p) /\ failed' = TRUE
      /\ UNCHANGED <<chain, row, startBlock, credit, told, starts, patched, since, rep,
                    reader>>
  BY DEF HandlerFails, Skip
<1>2. told' \subseteq Id /\ \A id \in told' : id \in told
  BY <1>1 DEF IInv, TypeOK
<1> QED  BY <1>1, <1>2, PassedOver

-----------------------------------------------------------------------------
(* The chain emits a log, and every step.                                  *)

LEMMA EmitInv ==
  ASSUME IInv,
         \/ \E id \in Id : EmitMarketCreated(id)
         \/ \E id \in Id, o \in Sides, v \in Amount : EmitBetPlaced(id, o, v)
         \/ \E id \in Id, o \in Sides : EmitMarketResolved(id, o)
  PROVE  IInv'
<1> USE DEF Log
<1>1. ASSUME NEW id \in Id, EmitMarketCreated(id) PROVE IInv'
  <2> DEFINE log == [kind |-> "MarketCreated", id |-> id, outcome |-> "No", amount |-> 0]
  <2>1. log \in Log /\ log.kind # "BetPlaced" /\ Emit(log)
    BY <1>1 DEF EmitMarketCreated, Sides
  <2> HIDE DEF log, Log
  <2> QED  BY <2>1, EmitKeeps
<1>2. ASSUME NEW id \in Id, NEW o \in Sides, NEW v \in Amount, EmitBetPlaced(id, o, v)
      PROVE  IInv'
  <2> DEFINE log == [kind |-> "BetPlaced", id |-> id, outcome |-> o, amount |-> v]
  <2>1. log \in Log /\ OnChain(log.id) /\ Emit(log)
    BY <1>2 DEF EmitBetPlaced
  <2> HIDE DEF log, Log
  <2> QED  BY <2>1, EmitKeeps
<1>3. ASSUME NEW id \in Id, NEW o \in Sides, EmitMarketResolved(id, o) PROVE IInv'
  <2> DEFINE log == [kind |-> "MarketResolved", id |-> id, outcome |-> o, amount |-> 0]
  <2>1. log \in Log /\ log.kind # "BetPlaced" /\ Emit(log)
    BY <1>3 DEF EmitMarketResolved
  <2> HIDE DEF log, Log
  <2> QED  BY <2>1, EmitKeeps
<1> QED  BY <1>1, <1>2, <1>3

LEMMA NextInv ==
  ASSUME IInv, [Next]_vars
  PROVE  IInv'
<1>1. CASE UNCHANGED vars
  <2>1. UNCHANGED <<chain, row, startBlock, indexer, credit, told, starts, failed, patched,
                    since, rep, reader>>
    BY <1>1 DEF vars, history
  <2>2. RowStep /\ RepStep
    BY <2>1 DEF RowStep, RepStep
  <2>3. credit \subseteq [kind : {"created", "resolved"}, id : Id,
                          outcome : Sides \cup {"none"}] /\ patched \subseteq Id
    BY DEF IInv, TypeOK
  <2> QED  BY <2>1, <2>2, <2>3, ApiKeeps
<1>2. ASSUME NEW p \in Indexer,
             \/ Start(p) \/ Crash(p) \/ Poll(p)
             \/ HandleMarketCreated(p) \/ HandleBetPlaced(p) \/ Panic(p)
             \/ HandleMarketResolved(p) \/ Credit(p) \/ Publish(p) \/ HandlerFails(p)
      PROVE  IInv'
  BY <1>2, StartKeeps, CrashKeeps, PollKeeps, MarketCreatedKeeps, BetPlacedKeeps,
     PanicKeeps, MarketResolvedKeeps, CreditKeeps, PublishKeeps, HandlerFailsKeeps
<1> QED  BY <1>1, <1>2, EmitInv, ApiInv DEF Next

LEMMA InitInv ==
  ASSUME Init
  PROVE  IInv
<1> USE DEF Init
<1>1. /\ chain = << >> /\ chain \in Seq(Log) /\ Len(chain) = 0 /\ DOMAIN chain = {}
  BY EmptySeq
<1>2. Missing \in Rows /\ Down \in Places
  <2>1. [o \in Sides |-> 0] \in [Sides -> 0 .. I64Max]
    OBVIOUS
  <2> QED  BY <2>1 DEF Missing, Rows, Statuses, Down, Places
<1>3. row \in [Id -> Rows] /\ indexer \in [Indexer -> Places]
  <2> HIDE DEF Rows, Places
  <2> QED  BY <1>2
<1>4. Rep!RepTypeOK
  BY DEF Rep!RepInit, Rep!RepTypeOK, Rep!Zero, Rep!NoRead, Rep!Counts
<1>5. TypeOK
  <2>1. /\ Len(chain) <= MaxBlocks /\ starts \in 0 .. MaxStarts /\ failed \in BOOLEAN
        /\ credit = {} /\ told = {} /\ patched = {} /\ startBlock \in StartBlocks
        /\ since \in [Id -> 0 .. MaxBlocks]
    <3>1. 0 <= MaxBlocks /\ 0 \in 0 .. MaxStarts
      OBVIOUS
    <3>2. Len(chain) <= MaxBlocks /\ starts \in 0 .. MaxStarts
      BY <1>1, <3>1
    <3>3. since \in [Id -> 0 .. MaxBlocks]
      <4>1. 0 \in 0 .. MaxBlocks
        OBVIOUS
      <4> QED  BY <4>1
    <3> QED  BY ONLY Init, <3>2, <3>3 DEF Init
  <2> QED  BY ONLY <1>1, <1>3, <1>4, <2>1 DEF TypeOK, Rows, Places
<1>6. \A p \in Indexer : indexer[p].pc = "down"
  BY DEF Down
<1>7. InWindow /\ CreatedFirst /\ MissingIsEmpty /\ NothingLeftOut
  BY <1>1, <1>6 DEF InWindow, InPlace, CreatedFirst, MissingIsEmpty, Missing, NothingLeftOut
<1>8. RowsFollowChain
  BY DEF RowsFollowChain, Missing
<1>9. RoomLeft
  <2>1. LedgersTyped
    BY <1>5, LedgersAreNat
  <2>2. Total(Running) = 0
    <3>1. \A p \in Indexer : Running[p] = 0
      BY <1>6 DEF Running
    <3> QED  BY <2>1, <3>1, TotalZero DEF LedgersTyped
  <2>3. ASSUME NEW id \in Id, NEW o \in Sides PROVE Total(ToCount(id, o)) = 0
    <3>1. \A p \in Indexer : ToCount(id, o)[p] = 0
      BY <1>6 DEF ToCount
    <3> QED  BY <2>1, <3>1, TotalZero DEF LedgersTyped
  <2>4. \A id \in Id, o \in Sides : row[id].total[o] = 0
    BY DEF Missing
  <2> QED  BY <2>1, <2>2, <2>3, <2>4 DEF RoomLeft, LedgersTyped
<1> QED  BY <1>5, <1>7, <1>8, <1>9 DEF IInv

-----------------------------------------------------------------------------
\* The inductive invariant holds throughout, whatever indexers and API do.
THEOREM Invariance == Spec => []IInv
<1>1. Init => IInv
  BY InitInv
<1>2. IInv /\ [Next]_vars => IInv'
  BY NextInv
<1> QED  BY <1>1, <1>2, PTL DEF Spec

\* The database, the places of the processes and the creator's counts stay what
\* their columns and types hold.
THEOREM IndexerTypeCorrect == Spec => []TypeOK
<1>1. IInv => TypeOK
  BY DEF IInv
<1> QED  BY <1>1, Invariance, PTL

\* No market in the database is unknown to the chain, none has an outcome that
\* neither the chain nor an administrator gave it, and none is announced as
\* resolved that is not.
THEOREM RowsCorrect == Spec => []RowsFollowChain
<1>1. IInv => RowsFollowChain
  BY DEF IInv
<1> QED  BY <1>1, Invariance, PTL

\* However windows and crashes fall, each process that was started has counted
\* each bet at most once.
THEOREM AtMostOncePerStart == Spec => []CountedOncePerStart
<1>1. IInv => CountedOncePerStart
  <2> SUFFICES ASSUME IInv, NEW id \in Id, NEW o \in Sides
      PROVE  row[id].total[o] <= starts * BetTotal(id, o, Len(chain))
    BY DEF CountedOncePerStart
  <2>1. LedgersTyped /\ starts \in Nat
    BY LedgersAreNat DEF IInv, TypeOK
  <2>2. /\ row[id].total[o] \in Nat /\ Total(ToCount(id, o)) \in Nat
        /\ AllBets(id, o) \in Nat
    BY <2>1 DEF LedgersTyped
  <2>3. starts * AllBets(id, o) \in Nat
    BY <2>1, <2>2
  <2>4. row[id].total[o] + Total(ToCount(id, o)) <= starts * AllBets(id, o)
    BY DEF IInv, RoomLeft
  <2>5. row[id].total[o] <= starts * AllBets(id, o)
    BY <2>2, <2>3, <2>4
  <2> QED  BY <2>5 DEF AllBets
<1> QED  BY <1>1, Invariance, PTL

\* Indexing from the first block on, and as long as no handler fails, a process
\* leaves out no bet behind its place that was placed since the market's row was last
\* registered anew; of a row that was never deleted that is every bet.
THEOREM AtLeastOnce == Spec => []CountedAtLeastOnce
<1>1. IInv => CountedAtLeastOnce
  BY DEF IInv, NothingLeftOut, Covered, Passed, CountedAtLeastOnce
<1> QED  BY <1>1, Invariance, PTL
=============================================================================
