----------------------- MODULE PrivatePredictionMarket -----------------------
(***************************************************************************)
(* PrivatePredictionMarket.sol: bets are committed as hashes while a       *)
(* market is open and opened by their owners once it is resolved.  A hash  *)
(* is modelled by what it was computed from, which is what collision       *)
(* resistance gives; the nonce only hides it.  As in PredictionMarket, a   *)
(* step is a transaction that succeeds, and the receiver of a payout runs  *)
(* inside the claim until ClaimReturn.                                     *)
(***************************************************************************)
EXTENDS Parimutuel, Sequences

CONSTANTS Addr,        \* the accounts that call the contract
          NoAddr,      \* address(0)
          Owner,       \* the deployer
          Deployed,    \* the resolver given to the constructor
          Payable,     \* the accounts that accept a transfer
          Appointable, \* the resolvers the owner may appoint
          Value,       \* amounts of wei a commitment may carry
          Opening,     \* [outcome, amount] that hashes are computed from
          NoHash,      \* bytes32(0)
          Window,      \* <<closeTime, resolveTime>> asked for
          MaxCommits,  \* bound: commitments of one account on one market
          MaxMarkets,  \* bound: markets that are created
          MaxTime      \* bound: the last block.timestamp

ASSUME PrivateAddr == /\ IsFiniteSet(Addr) /\ NoAddr \notin Addr
                      /\ Deployed \in Addr /\ Appointable \subseteq Addr
ASSUME PrivateValue == Value \subseteq Nat \ {0}
ASSUME PrivateWindow == Window \subseteq Nat \X Nat
ASSUME PrivateBounds == MaxCommits \in Nat /\ MaxMarkets \in Nat /\ MaxTime \in Nat

Id == 1 .. MaxMarkets
Commitment == [value : Value \cup {0}, hash : Opening \cup {NoHash}]

VARIABLES
  now, nextMarketId,
  market,          \* market[id]: status, outcome, closeTime, resolveTime
  total,           \* total[id][o]: totalYesStake, totalNoStake
  totalCommitted,  \* totalCommitted[id]
  commitments,     \* commitments[id][u]: a sequence of Commitment
  revealed,        \* revealed[id][u][o]: amount and claimed
  resolver,
  balance,         \* the ether the contract holds
  received,        \* received[id][u]: the ether sent to u for market id
  callee           \* who runs inside a claim, or NoAddr

ledger == <<total, totalCommitted, commitments, revealed>>
vars == <<now, nextMarketId, market, ledger, resolver, balance, received, callee>>

Unset == [status |-> "Open", outcome |-> "Undecided", closeTime |-> 0,
          resolveTime |-> 0]

Market == [status : {"Open", "Resolved"}, outcome : Sides \cup {"Undecided"},
           closeTime : Nat, resolveTime : Nat]

TypeOK ==
  /\ now \in 0 .. MaxTime /\ nextMarketId \in 1 .. MaxMarkets + 1
  /\ market \in [Id -> Market]
  /\ total \in [Id -> [Sides -> Nat]] /\ totalCommitted \in [Id -> Nat]
  /\ commitments \in [Id -> [Addr -> Seq(Commitment)]]
  /\ \A id \in Id, u \in Addr : Len(commitments[id][u]) <= MaxCommits
  /\ revealed \in [Id -> [Addr -> [Sides -> [amount : Nat, claimed : BOOLEAN]]]]
  /\ resolver \in Addr /\ callee \in Addr \cup {NoAddr}
  /\ balance \in Nat /\ received \in [Id -> [Addr -> Nat]]

FirstId == 1

Init ==
  /\ now = 0 /\ nextMarketId = FirstId
  /\ market = [id \in Id |-> Unset]
  /\ total = [id \in Id |-> [o \in Sides |-> 0]]
  /\ totalCommitted = [id \in Id |-> 0]
  /\ commitments = [id \in Id |-> [u \in Addr |-> << >>]]
  /\ revealed = [id \in Id |-> [u \in Addr |->
                   [o \in Sides |-> [amount |-> 0, claimed |-> FALSE]]]]
  /\ resolver = Deployed /\ callee = NoAddr
  /\ balance = 0 /\ received = [id \in Id |-> [u \in Addr |-> 0]]

-----------------------------------------------------------------------------
\* bytes(m.question).length > 0
Exists(id) == id < nextMarketId

\* While a payout is being received the transaction belongs to its receiver.
MayCall(s) == callee \in {NoAddr, s}

\* A commitment of v is stored: hashed now, opened later.
MutantSeal(s, id, v, hash) ==
  /\ totalCommitted' = [totalCommitted EXCEPT ![id] = v]
  /\ commitments' = [commitments EXCEPT ![id][s] =
                       Append(@, [value |-> v, hash |-> hash])]
Seal(s, id, v, hash) ==
  /\ totalCommitted' = [totalCommitted EXCEPT ![id] = @ + v]
  /\ commitments' = [commitments EXCEPT ![id][s] =
                       Append(@, [value |-> v, hash |-> hash])]

\* The commitment x of s is opened: its stake counts, and may be claimed for.
MutantCountStakeTwice(s, id, i, x) ==
  /\ revealed' = [revealed EXCEPT ![id][s][x.outcome] =
                    [amount |-> @.amount + x.amount, claimed |-> FALSE]]
  /\ total' = [total EXCEPT ![id][x.outcome] = @ + x.amount]
  /\ UNCHANGED commitments
CountStake(s, id, i, x) ==
  /\ revealed' = [revealed EXCEPT ![id][s][x.outcome] =
                    [amount |-> @.amount + x.amount, claimed |-> FALSE]]
  /\ total' = [total EXCEPT ![id][x.outcome] = @ + x.amount]
  /\ commitments' = [commitments EXCEPT ![id][s][i] =
                       [value |-> 0, hash |-> NoHash]]

MutantPayout(id, u) ==
  LET o == market[id].outcome
  IN  Share(revealed[id][u][o].amount, totalCommitted[id],
            total[id][o] - revealed[id][u][o].amount + 1)
Payout(id, u) ==
  LET o == market[id].outcome
  IN  Share(revealed[id][u][o].amount, totalCommitted[id], total[id][o])

MayClaim(u, id) ==
  /\ Exists(id)
  /\ market[id].status = "Resolved"
  /\ revealed[id][u][market[id].outcome].amount > 0
  /\ ~revealed[id][u][market[id].outcome].claimed
  /\ total[id][market[id].outcome] > 0
  /\ totalCommitted[id] > 0

CreateMarket(s, close, resolve) ==
  /\ MayCall(s)
  /\ nextMarketId <= MaxMarkets
  /\ now < close /\ close < resolve
  /\ market' = [market EXCEPT ![nextMarketId] =
                  [Unset EXCEPT !.closeTime = close, !.resolveTime = resolve]]
  /\ nextMarketId' = nextMarketId + 1
  /\ UNCHANGED <<now, ledger, resolver, balance, received, callee>>

\* Any hash may be committed: one that no opening of that amount produces is
\* stored all the same, and its value can then never be revealed.
CommitBet(s, id, v, hash) ==
  /\ MayCall(s)
  /\ Exists(id)
  /\ market[id].status = "Open" /\ now < market[id].closeTime
  /\ Len(commitments[id][s]) < MaxCommits
  /\ Seal(s, id, v, hash)
  /\ balance' = balance + v
  /\ UNCHANGED <<now, nextMarketId, market, total, revealed, resolver, received,
                 callee>>

RevealBet(s, id, i, x) ==
  /\ MayCall(s)
  /\ x.outcome \in Sides
  /\ Exists(id) /\ market[id].status = "Resolved"
  /\ i \in DOMAIN commitments[id][s]
  /\ LET c == commitments[id][s][i]
     IN  c.value # 0 /\ c.hash = x /\ c.value = x.amount
  /\ CountStake(s, id, i, x)
  /\ UNCHANGED <<now, nextMarketId, market, totalCommitted, resolver, balance,
                 received, callee>>

\* rawOutcome 1 is Yes and every other number is No.
ResolveMarket(s, id, o) ==
  /\ MayCall(s)
  /\ s = resolver
  /\ Exists(id)
  /\ market[id].status # "Resolved"
  /\ now >= market[id].resolveTime
  /\ market' = [market EXCEPT ![id].status = "Resolved", ![id].outcome = o]
  /\ UNCHANGED <<now, nextMarketId, ledger, resolver, balance, received, callee>>

\* nonReentrant.
ClaimPayout(s, id) ==
  /\ callee = NoAddr
  /\ MayClaim(s, id)
  /\ s \in Payable
  /\ Payout(id, s) <= balance
  /\ revealed' = [revealed EXCEPT ![id][s][market[id].outcome].claimed = TRUE]
  /\ received' = [received EXCEPT ![id][s] = @ + Payout(id, s)]
  /\ balance' = balance - Payout(id, s)
  /\ callee' = s
  /\ UNCHANGED <<now, nextMarketId, market, total, totalCommitted, commitments,
                 resolver>>

ClaimReturn ==
  /\ callee # NoAddr
  /\ callee' = NoAddr
  /\ UNCHANGED <<now, nextMarketId, market, ledger, resolver, balance, received>>

SetResolver(s, a) ==
  /\ MayCall(s)
  /\ s = Owner
  /\ resolver' = a
  /\ UNCHANGED <<now, nextMarketId, market, ledger, balance, received, callee>>

Tick ==
  /\ callee = NoAddr
  /\ now < MaxTime
  /\ now' = now + 1
  /\ UNCHANGED <<nextMarketId, market, ledger, resolver, balance, received, callee>>

Next ==
  \/ \E s \in Addr, w \in Window : CreateMarket(s, w[1], w[2])
  \/ \E s \in Addr, id \in Id, v \in Value, x \in Opening : CommitBet(s, id, v, x)
  \/ \E s \in Addr, id \in Id, i \in 1 .. MaxCommits, x \in Opening :
       RevealBet(s, id, i, x)
  \/ \E s \in Addr, id \in Id, o \in Sides : ResolveMarket(s, id, o)
  \/ \E s \in Addr, id \in Id : ClaimPayout(s, id)
  \/ ClaimReturn
  \/ \E s \in Addr, a \in Appointable : SetResolver(s, a)
  \/ Tick

Spec == Init /\ [][Next]_vars

-----------------------------------------------------------------------------
\* Every committed wei is either still sealed or counted on one side, once.
SealedIn(id) ==
  [c \in Addr \X (1 .. MaxCommits) |->
     IF c[2] \in DOMAIN commitments[id][c[1]]
     THEN commitments[id][c[1]][c[2]].value ELSE 0]
Sealed(id) == Total(SealedIn(id))
CommittedIsSealedOrCounted ==
  \A id \in Id : totalCommitted[id] = Sealed(id) + total[id]["Yes"] + total[id]["No"]

\* Until somebody claims, what all revealed winners could claim together does
\* not exceed the committed pool.
Claimable(id) == [u \in Addr |-> IF MayClaim(u, id) THEN Payout(id, u) ELSE 0]
CoveredUntilFirstClaim ==
  \A id \in Id :
    (market[id].status = "Resolved" /\ \A u \in Addr : received[id][u] = 0)
      => Total(Claimable(id)) <= totalCommitted[id]

\* What was committed is either still held by the contract or was sent out.
EtherConserved ==
  balance + Total([id \in Id |-> Total(received[id])]) = Total(totalCommitted)

\* Claims work as in PredictionMarket, over the committed pool: whoever has
\* revealed a winning stake and not claimed for it can be paid.
RevealedWinnerCovered ==
  \A id \in Id, u \in Addr : MayClaim(u, id) => Payout(id, u) <= balance
=============================================================================
