----------------------------- MODULE BettingBook -----------------------------
(***************************************************************************)
(* The betting that ConditionalMarket.sol and TokenizedMarket.sol have in  *)
(* common.  Neither guards against reentry: whoever receives ether or a    *)
(* token runs before the call that sent it returns, and may call again,    *)
(* claim included, so the calls of one transaction form a stack.           *)
(***************************************************************************)
EXTENDS Parimutuel, Sequences

CONSTANTS Addr,        \* the accounts that call the contract
          NoAddr,      \* address(0)
          Owner,       \* the deployer
          Deployed,    \* the resolver given to the constructor
          Payable,     \* the accounts that accept a transfer
          Appointable, \* the resolvers the owner may appoint
          Value,       \* amounts of wei a bet may carry
          Window,      \* <<closeTime, resolveTime>> asked for
          MaxStake,    \* bound: what one account may stake on one side
          MaxMarkets,  \* bound: markets that are created
          MaxDepth,    \* bound: calls that run inside one another
          MaxTime      \* bound: the last block.timestamp

ASSUME BookAddr == /\ IsFiniteSet(Addr) /\ NoAddr \notin Addr
                   /\ Deployed \in Addr /\ Appointable \subseteq Addr
ASSUME BookValue == Value \subseteq Nat \ {0}
ASSUME BookWindow == Window \subseteq Nat \X Nat
ASSUME BookBounds == /\ MaxStake \in Nat /\ MaxMarkets \in Nat
                     /\ MaxDepth \in Nat /\ MaxTime \in Nat

Id == 1 .. MaxMarkets
Market == [status : {"Open", "Locked", "Resolved"},
           outcome : Sides \cup {"Undecided"},
           closeTime : Nat, resolveTime : Nat, creator : Addr \cup {NoAddr}]

VARIABLES
  now, nextMarketId,
  market,    \* market[id]: status, outcome, times and creator
  total,     \* total[id][o]: totalYesStake and totalNoStake
  stake,     \* stake[id][o][u]: _yesStakes and _noStakes
  claimed,   \* claimed[id][u]
  resolver,
  balance,   \* the ether the contract holds
  received,  \* received[id][u]: the ether sent to u for market id
  stack      \* the accounts running inside calls, the innermost last

money == <<total, stake, claimed, balance, received>>
bookVars == <<now, nextMarketId, market, money, resolver, stack>>

Unset == [status |-> "Open", outcome |-> "Undecided", closeTime |-> 0,
          resolveTime |-> 0, creator |-> NoAddr]

BookTypeOK ==
  /\ now \in 0 .. MaxTime /\ nextMarketId \in 1 .. MaxMarkets + 1
  /\ market \in [Id -> Market]
  /\ total \in [Id -> [Sides -> Nat]]
  /\ stake \in [Id -> [Sides -> [Addr -> Nat]]]
  /\ claimed \in [Id -> [Addr -> BOOLEAN]]
  /\ balance \in Nat /\ received \in [Id -> [Addr -> Nat]]
  /\ resolver \in Addr
  /\ stack \in Seq(Addr) /\ Len(stack) <= MaxDepth

FirstId == 1

BookInit ==
  /\ now = 0 /\ nextMarketId = FirstId
  /\ market = [id \in Id |-> Unset]
  /\ total = [id \in Id |-> [o \in Sides |-> 0]]
  /\ stake = [id \in Id |-> [o \in Sides |-> [u \in Addr |-> 0]]]
  /\ claimed = [id \in Id |-> [u \in Addr |-> FALSE]]
  /\ balance = 0 /\ received = [id \in Id |-> [u \in Addr |-> 0]]
  /\ resolver = Deployed /\ stack = << >>

-----------------------------------------------------------------------------
\* m.creator != address(0)
Exists(id) == market[id].creator # NoAddr

Callers == IF stack = << >> THEN Addr ELSE {stack[Len(stack)]}
MayCall(s) == s \in Callers

Pool(id) == total[id]["Yes"] + total[id]["No"]

Payout(id, u) ==
  LET o == market[id].outcome
  IN  IF stake[id][o][u] = 0 \/ total[id][o] = 0
      THEN 0
      ELSE Share(stake[id][o][u], Pool(id), total[id][o])

\* The new market, and those that now run inside the call.
Create(s, close, resolve, called) ==
  /\ MayCall(s)
  /\ nextMarketId <= MaxMarkets
  /\ now < close /\ close < resolve
  /\ Len(stack) + Len(called) <= MaxDepth
  /\ market' = [market EXCEPT ![nextMarketId] =
                  [status |-> "Open", outcome |-> "Undecided",
                   closeTime |-> close, resolveTime |-> resolve, creator |-> s]]
  /\ nextMarketId' = nextMarketId + 1
  /\ stack' = stack \o called
  /\ UNCHANGED <<now, money, resolver>>

MutantAddStake(s, id, o, v) ==
  /\ stake' = [stake EXCEPT ![id][o][s] = @ + v]
  /\ total' = [total EXCEPT ![id][o] = v]
AddStake(s, id, o, v) ==
  /\ stake' = [stake EXCEPT ![id][o][s] = @ + v]
  /\ total' = [total EXCEPT ![id][o] = @ + v]

PlaceBet(s, id, o, v) ==
  /\ MayCall(s)
  /\ Exists(id)
  /\ market[id].status = "Open" /\ now < market[id].closeTime
  /\ stake[id][o][s] + v <= MaxStake
  /\ AddStake(s, id, o, v)
  /\ balance' = balance + v
  /\ UNCHANGED <<now, nextMarketId, market, claimed, received, resolver, stack>>

LockMarket(s, id) ==
  /\ MayCall(s) /\ s = resolver
  /\ Exists(id)
  /\ market[id].status = "Open"
  /\ market' = [market EXCEPT ![id].status = "Locked"]
  /\ UNCHANGED <<now, nextMarketId, money, resolver, stack>>

MutantResolvable(id) == Exists(id) /\ now >= market[id].resolveTime
Resolvable(id) ==
  /\ Exists(id)
  /\ market[id].status # "Resolved"
  /\ now >= market[id].resolveTime

Resolve(s, id, o) ==
  /\ MayCall(s) /\ s = resolver
  /\ Resolvable(id)
  /\ market' = [market EXCEPT ![id].status = "Resolved", ![id].outcome = o]
  /\ UNCHANGED <<now, nextMarketId, money, resolver, stack>>

MutantMayClaim(s, id) == market[id].status = "Resolved"
MayClaim(s, id) == market[id].status = "Resolved" /\ ~claimed[id][s]

ClaimPayout(s, id) ==
  /\ MayCall(s)
  /\ MayClaim(s, id)
  /\ Payout(id, s) > 0
       => s \in Payable /\ Payout(id, s) <= balance /\ Len(stack) < MaxDepth
  /\ claimed' = [claimed EXCEPT ![id][s] = TRUE]
  /\ received' = [received EXCEPT ![id][s] = @ + Payout(id, s)]
  /\ balance' = balance - Payout(id, s)
  /\ stack' = IF Payout(id, s) > 0 THEN Append(stack, s) ELSE stack
  /\ UNCHANGED <<now, nextMarketId, market, total, stake, resolver>>

\* The innermost receiver returns to the call it runs in.
Return ==
  /\ stack # << >>
  /\ stack' = SubSeq(stack, 1, Len(stack) - 1)
  /\ UNCHANGED <<now, nextMarketId, market, money, resolver>>

SetResolver(s, a) ==
  /\ MayCall(s) /\ s = Owner
  /\ resolver' = a
  /\ UNCHANGED <<now, nextMarketId, market, money, stack>>

Tick ==
  /\ stack = << >> /\ now < MaxTime
  /\ now' = now + 1
  /\ UNCHANGED <<nextMarketId, market, money, resolver, stack>>

\* What either contract may do to the book.
BookNext ==
  \/ \E s \in Addr, w \in Window :
       \E called \in {<< >>, <<s>>} : Create(s, w[1], w[2], called)
  \/ \E s \in Addr, id \in Id, o \in Sides, v \in Value : PlaceBet(s, id, o, v)
  \/ \E s \in Addr, id \in Id : LockMarket(s, id) \/ ClaimPayout(s, id)
  \/ \E s \in Addr, id \in Id, o \in Sides : Resolve(s, id, o)
  \/ Return
  \/ \E s \in Addr, a \in Appointable : SetResolver(s, a)
  \/ Tick

BookSpec == BookInit /\ [][BookNext]_bookVars

-----------------------------------------------------------------------------
\* The contract holds what is left of each pool, also while claims are nested.
BookBalanced ==
  balance = Total([id \in Id |-> Pool(id) - Total(received[id])])

\* A claimant has been paid, once, the share of the pool that the recorded totals
\* give its own stake, whoever else was paid in between or holds a token.
PaidByStakeOnly ==
  \A id \in Id, u \in Addr :
    received[id][u] = IF claimed[id][u] THEN Payout(id, u) ELSE 0

\* Whoever may claim next, inside a claim or not, can be paid.
BookCoversClaims ==
  \A id \in Id, u \in Addr : MayClaim(u, id) => Payout(id, u) <= balance

Phase(id) == IF market[id].status = "Resolved" THEN "Settled"
             ELSE IF Exists(id) /\ (market[id].status = "Locked"
                                      \/ now >= market[id].closeTime)
             THEN "Closed" ELSE "Betting"

Promise(id) == INSTANCE ParimutuelPool
                 WITH User <- Addr, phase <- Phase(id),
                      outcome <- market[id].outcome, stake <- stake[id],
                      claimed <- claimed[id], received <- received[id]

\* Each market keeps the promise of ParimutuelPool.
BookKeepsPromise ==
  /\ \A id \in Id : Promise(id)!Init
  /\ [][\A id \in Id : [Promise(id)!Next]_(Promise(id)!vars)]_bookVars
=============================================================================
