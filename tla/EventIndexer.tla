---------------------------- MODULE EventIndexer ----------------------------
(***************************************************************************)
(* The database of the backend and those who write markets to it: the      *)
(* event indexers (indexer.rs), which poll the chain for the logs of       *)
(* PredictionMarket in windows of blocks, and the API (markets.rs).  An    *)
(* indexer keeps its place in memory only; what it writes goes through     *)
(* MarketService and ReputationService, one statement at a time.           *)
(***************************************************************************)
EXTENDS Integers, Sequences, Parimutuel

CONSTANTS Id,           \* the ids on chain
          Predicted,    \* the markets with a stored prediction
          Reader,       \* requests that get_reputation may serve at once
          MaxCount,     \* bound: what a counter of the reputation reaches
          Indexer,      \* the processes that index: the API's, indexer-only ones
          StartBlocks,  \* what START_BLOCK may be: a block, or Unset
          Window,       \* 9: blocks in one eth_getLogs
          Amount,       \* amounts of wei that are bet
          I64Max,       \* 2^63 - 1
          U64Max,       \* 2^64 - 1
          Patch,        \* what PATCH /status is sent: a status and an outcome
          Creator,      \* how the API is told the creator: see creator below
          MaxBlocks,    \* bound: blocks with a log
          MaxStarts     \* bound: processes started, all told

Unset == -1
Statuses == {"Missing", "Open", "Locked", "Resolved", "Cancelled"}

ASSUME IndexerConstants ==
  /\ Window \in Nat \ {0} /\ MaxBlocks \in Nat /\ MaxStarts \in Nat
  /\ IsFiniteSet(Indexer) /\ StartBlocks \subseteq (0 .. MaxBlocks) \cup {Unset}
  /\ I64Max \in Nat /\ U64Max \in Nat /\ I64Max <= U64Max /\ Amount \subseteq Nat \ {0}

ASSUME ApiConstants ==
  /\ IsFiniteSet(Id) /\ MaxCount \in Nat /\ Cardinality(Id) <= MaxCount
  /\ Creator \subseteq {"lower", "mixed", "none"}
  /\ Patch \subseteq [status : Statuses \ {"Missing"}, outcome : Sides \cup {"none"}]

VARIABLES
  chain,       \* the logs of PredictionMarket; block n holds chain[n]
  row,         \* row[id]: the market in the database
  startBlock,  \* START_BLOCK
  indexer,     \* indexer[p]: where each process is
  credit,      \* requests that have stored a market and not yet counted it
  told,        \* markets that OnChainResolved was published for
  starts,      \* processes started so far (history)
  failed,      \* a handler has failed (history)
  patched,     \* markets that the API declared resolved (history)
  since,       \* the block that the row was last registered anew at (history)
  rep, reader

Rep == INSTANCE ReputationService

history == <<starts, failed, patched, since>>
vars == <<chain, row, startBlock, indexer, credit, told, history, rep, reader>>

Log == [kind : {"MarketCreated", "BetPlaced", "MarketResolved"}, id : Id,
        outcome : Sides, amount : Amount \cup {0}]
Missing == [status |-> "Missing", outcome |-> "none", creator |-> "none",
            total |-> [o \in Sides |-> 0]]
Down == [pc |-> "down", last |-> 0, at |-> 0, to |-> 0]

TypeOK ==
  /\ chain \in Seq(Log) /\ Len(chain) <= MaxBlocks
  /\ row \in [Id -> [status : Statuses, outcome : Sides \cup {"none"},
                     creator : {"lower", "mixed", "none"},
                     total : [Sides -> 0 .. I64Max]]]
  /\ startBlock \in StartBlocks
  /\ indexer \in [Indexer -> [pc : {"down", "waiting", "handling", "stored", "anonymous",
                                    "publishing", "stopped"},
                              last : 0 .. MaxBlocks, at : 0 .. MaxBlocks,
                              to : 0 .. MaxBlocks]]
  /\ credit \subseteq [kind : {"created", "resolved"}, id : Id,
                       outcome : Sides \cup {"none"}]
  /\ told \subseteq Id
  /\ starts \in 0 .. MaxStarts /\ failed \in BOOLEAN /\ patched \subseteq Id
  /\ since \in [Id -> 0 .. MaxBlocks]
  /\ Rep!RepTypeOK

Init ==
  /\ chain = << >> /\ row = [id \in Id |-> Missing]
  /\ startBlock \in StartBlocks
  /\ indexer = [p \in Indexer |-> Down]
  /\ credit = {} /\ told = {}
  /\ starts = 0 /\ failed = FALSE /\ patched = {} /\ since = [id \in Id |-> 0]
  /\ Rep!RepInit

-----------------------------------------------------------------------------
(* The chain: what PredictionMarket emits.                                 *)

BlocksOf(kind, id) == {n \in DOMAIN chain : chain[n].kind = kind /\ chain[n].id = id}
OnChain(id) == BlocksOf("MarketCreated", id) # {}
ResolvedOnChain(id) == BlocksOf("MarketResolved", id) # {}

Emit(log) ==
  /\ Len(chain) < MaxBlocks
  /\ chain' = Append(chain, log)
  /\ UNCHANGED <<row, startBlock, indexer, credit, told, history, rep, reader>>

EmitMarketCreated(id) ==
  /\ ~OnChain(id)
  /\ Emit([kind |-> "MarketCreated", id |-> id, outcome |-> "No", amount |-> 0])

EmitBetPlaced(id, o, v) ==
  /\ OnChain(id) /\ ~ResolvedOnChain(id)
  /\ Emit([kind |-> "BetPlaced", id |-> id, outcome |-> o, amount |-> v])

EmitMarketResolved(id, o) ==
  /\ OnChain(id) /\ ~ResolvedOnChain(id)
  /\ Emit([kind |-> "MarketResolved", id |-> id, outcome |-> o, amount |-> 0])

-----------------------------------------------------------------------------
(* An indexer.                                                             *)

\* Without START_BLOCK it starts at the head, or at 0 when the RPC fails.
Start(p) ==
  /\ indexer[p].pc = "down" /\ starts < MaxStarts
  /\ \E last \in IF startBlock # Unset THEN {startBlock} ELSE {0, Len(chain)} :
       indexer' = [indexer EXCEPT ![p] = [Down EXCEPT !.pc = "waiting", !.last = last]]
  /\ starts' = starts + 1
  /\ UNCHANGED <<chain, row, startBlock, credit, told, failed, patched, since, rep, reader>>

\* The process ends at any point and forgets where it was.
Crash(p) ==
  /\ indexer[p].pc # "down" /\ starts < MaxStarts
  /\ indexer' = [indexer EXCEPT ![p] = Down]
  /\ UNCHANGED <<chain, row, startBlock, credit, told, history, rep, reader>>

To(last) == IF Len(chain) <= last + Window THEN Len(chain) ELSE last + Window

\* A poll that fails, after its retries, is made again 12 seconds later.
Poll(p) ==
  LET i == indexer[p]
  IN  /\ i.pc = "waiting" /\ Len(chain) > i.last
      /\ indexer' = [indexer EXCEPT ![p] =
                       [i EXCEPT !.pc = "handling", !.to = To(i.last),
                                 !.at = i.last + 1]]
      /\ UNCHANGED <<chain, row, startBlock, credit, told, history, rep, reader>>

\* The log is done with, well or badly; after the last one the window is.
MutantSkipsAhead(i) ==
  IF i.at = i.to THEN [i EXCEPT !.pc = "waiting", !.last = i.to + 1]
                 ELSE [i EXCEPT !.pc = "handling", !.at = @ + 1]
MutantOverlaps(i) ==
  IF i.at = i.to THEN [i EXCEPT !.pc = "waiting", !.last = i.to - 1]
                 ELSE [i EXCEPT !.pc = "handling", !.at = @ + 1]
Advanced(i) ==
  IF i.at = i.to THEN [i EXCEPT !.pc = "waiting", !.last = i.to]
                 ELSE [i EXCEPT !.pc = "handling", !.at = @ + 1]
Advance(p) == indexer' = [indexer EXCEPT ![p] = Advanced(@)]

Handling(p, kind) ==
  /\ indexer[p].pc = "handling"
  /\ indexer[p].at \in DOMAIN chain /\ chain[indexer[p].at].kind = kind
At(p) == chain[indexer[p].at]

Skip(p) == /\ failed' = TRUE
           /\ UNCHANGED row

\* A row that an administrator deleted and that is registered again starts from 0.
Registered(id) ==
  IF row[id].status = "Missing" /\ since[id] # 0 THEN [since EXCEPT ![id] = Len(chain)]
                                                ELSE since

\* create_from_chain keeps everything but the question and the times of a row
\* that is there already.
HandleMarketCreated(p) ==
  /\ Handling(p, "MarketCreated")
  /\ row' = [row EXCEPT ![At(p).id] =
               IF @.status = "Missing"
               THEN [Missing EXCEPT !.status = "Open", !.creator = "lower"] ELSE @]
  /\ since' = Registered(At(p).id)
  /\ Advance(p)
  /\ UNCHANGED <<chain, startBlock, credit, told, starts, failed, patched, rep, reader>>

\* as_u64 panics on a larger amount; a smaller one is capped, and the database
\* refuses the sum if it does not fit.  No row, no effect.
Capped(v) == IF v <= I64Max THEN v ELSE I64Max

AddStake(t, v) == t + Capped(v)

HandleBetPlaced(p) ==
  /\ Handling(p, "BetPlaced") /\ At(p).amount <= U64Max
  /\ LET id == At(p).id
         t == AddStake(row[id].total[At(p).outcome], At(p).amount)
     IN  IF row[id].status = "Missing" THEN UNCHANGED <<row, failed>>
         ELSE IF t > I64Max THEN Skip(p)
         ELSE /\ row' = [row EXCEPT ![id].total[At(p).outcome] = t]
              /\ UNCHANGED failed
  /\ Advance(p)
  /\ UNCHANGED <<chain, startBlock, credit, told, starts, patched, since, rep, reader>>

\* The task is gone, the process that spawned it goes on without it.
Panic(p) ==
  /\ Handling(p, "BetPlaced") /\ At(p).amount > U64Max
  /\ indexer' = [indexer EXCEPT ![p].pc = "stopped"]
  /\ UNCHANGED <<chain, row, startBlock, credit, told, history, rep, reader>>

MutantStored(r, log) == [r EXCEPT !.status = "Resolved"]
Stored(r, log) == [r EXCEPT !.status = "Resolved", !.outcome = log.outcome]

\* get_by_on_chain_market_id, which reads the creator, and the UPDATE.
HandleMarketResolved(p) ==
  /\ Handling(p, "MarketResolved")
  /\ LET r == row[At(p).id]
     IN  IF r.status = "Missing"
         THEN Skip(p) /\ Advance(p)
         ELSE /\ row' = [row EXCEPT ![At(p).id] = Stored(r, At(p))]
              /\ indexer' = [indexer EXCEPT ![p].pc =
                               IF r.creator = "none" THEN "anonymous" ELSE "stored"]
              /\ UNCHANGED failed
  /\ UNCHANGED <<chain, startBlock, credit, told, starts, patched, since, rep, reader>>

\* The creator is credited; that this fails is ignored.
Credit(p) ==
  /\ indexer[p].pc = "stored"
  /\ \/ Rep!OnMarketResolved(At(p).id, At(p).outcome)
     \/ UNCHANGED <<rep, reader>>
  /\ indexer' = [indexer EXCEPT ![p].pc = "publishing"]
  /\ UNCHANGED <<chain, row, startBlock, credit, told, history>>

Publish(p) ==
  /\ indexer[p].pc \in {"anonymous", "publishing"}
  /\ told' = told \cup {At(p).id}
  /\ Advance(p)
  /\ UNCHANGED <<chain, row, startBlock, credit, history, rep, reader>>

\* A statement fails: the handler's error is logged and the next log is taken.
HandlerFails(p) ==
  /\ indexer[p].pc \in {"handling", "stored", "anonymous"}
  /\ Skip(p)
  /\ Advance(p)
  /\ UNCHANGED <<chain, startBlock, credit, told, starts, patched, since, rep, reader>>

-----------------------------------------------------------------------------
(* The API.                                                                *)

\* The frontend registers the market once its transaction is confirmed.
ApiCreate(id, c) ==
  /\ OnChain(id)
  /\ row' = [row EXCEPT ![id] = IF @.status = "Missing"
                                THEN [Missing EXCEPT !.status = "Open", !.creator = c]
                                ELSE [@ EXCEPT !.creator = c]]
  /\ since' = Registered(id)
  /\ credit' = IF c = "none" THEN credit
               ELSE credit \cup {[kind |-> "created", id |-> id, outcome |-> "none"]}
  /\ UNCHANGED <<chain, startBlock, indexer, told, starts, failed, patched, rep, reader>>

\* PATCH /api/markets/:id/status: any status over any other, with or without
\* an outcome; Resolved must come with one.
ApiPatch(id, body) ==
  /\ row[id].status # "Missing"
  /\ body.status = "Resolved" => body.outcome \in Sides
  /\ row' = [row EXCEPT ![id].status = body.status, ![id].outcome = body.outcome]
  /\ IF body.status = "Resolved"
     THEN /\ patched' = patched \cup {id}
          /\ credit' = IF row[id].creator = "none" THEN credit
                       ELSE credit \cup {[kind |-> "resolved", id |-> id,
                                           outcome |-> body.outcome]}
     ELSE UNCHANGED <<patched, credit>>
  /\ UNCHANGED <<chain, startBlock, indexer, told, starts, failed, since, rep, reader>>

\* DELETE /api/admin/markets/:id and /clear-markets: the row goes, its totals with it.
\* Until it is registered again, bets find no row.
DeleteRow(id) ==
  /\ row[id].status # "Missing"
  /\ row' = [row EXCEPT ![id] = Missing]
  /\ patched' = patched \ {id}
  /\ since' = [since EXCEPT ![id] = MaxBlocks]
  /\ UNCHANGED <<chain, startBlock, indexer, credit, told, starts, failed, rep, reader>>

\* The second half of a request; that it fails is ignored, too.
ApiCredit(c) ==
  /\ c \in credit /\ credit' = credit \ {c}
  /\ \/ c.kind = "created" /\ Rep!OnMarketCreated
     \/ c.kind = "resolved" /\ Rep!OnMarketResolved(c.id, c.outcome)
     \/ UNCHANGED <<rep, reader>>
  /\ UNCHANGED <<chain, row, startBlock, indexer, told, history>>

\* GET /api/reputation/:address.  Rows keep the address as it was given, and
\* are looked up by its lower case.
Listed == {id \in Id : row[id].status # "Missing" /\ row[id].creator = "lower"}
ListedResolved == {id \in Listed : row[id].status = "Resolved"}
ListedRight == {id \in ListedResolved : row[id].outcome = "No"}

GetReputation(q) ==
  /\ \/ Rep!CountCreated(q, Cardinality(Listed))
     \/ Rep!CountResolved(q, Cardinality(ListedResolved))
     \/ Rep!CountCorrect(q, ListedResolved, Cardinality(ListedRight))
     \/ Rep!Upsert(q)
  /\ UNCHANGED <<chain, row, startBlock, indexer, credit, told, history>>

-----------------------------------------------------------------------------
Next ==
  \/ \E id \in Id : EmitMarketCreated(id)
  \/ \E id \in Id, o \in Sides, v \in Amount : EmitBetPlaced(id, o, v)
  \/ \E id \in Id, o \in Sides : EmitMarketResolved(id, o)
  \/ \E p \in Indexer :
       \/ Start(p) \/ Crash(p) \/ Poll(p)
       \/ HandleMarketCreated(p) \/ HandleBetPlaced(p) \/ Panic(p)
       \/ HandleMarketResolved(p) \/ Credit(p) \/ Publish(p) \/ HandlerFails(p)
  \/ \E id \in Id, c \in Creator : ApiCreate(id, c)
  \/ \E id \in Id, body \in Patch : ApiPatch(id, body)
  \/ \E id \in Id : DeleteRow(id)
  \/ \E c \in credit : ApiCredit(c)
  \/ \E q \in Reader : GetReputation(q)

Spec == Init /\ [][Next]_vars

\* A process that is down is started again, a running one polls every twelve
\* seconds and goes through its window.
Fairness ==
  \A p \in Indexer :
    /\ WF_vars(Start(p)) /\ WF_vars(Poll(p))
    /\ WF_vars(HandleMarketCreated(p)) /\ WF_vars(HandleBetPlaced(p))
    /\ WF_vars(HandleMarketResolved(p)) /\ WF_vars(Credit(p)) /\ WF_vars(Publish(p))

FairSpec == Spec /\ Fairness

-----------------------------------------------------------------------------
\* What bets on side o of id in the first n blocks add up to.
BetsIn(id, o, n) ==
  {k \in BlocksOf("BetPlaced", id) : k <= n /\ chain[k].outcome = o}
BetTotal(id, o, n) ==
  Total([k \in BetsIn(id, o, n) |-> Capped(chain[k].amount)])

\* The database knows no market the chain does not know, and has no outcome
\* that the chain has not (or an administrator has not declared).
RowsFollowChain ==
  \A id \in Id :
    /\ row[id].status # "Missing" => OnChain(id)
    /\ row[id].status = "Resolved" /\ id \notin patched =>
         \E n \in BlocksOf("MarketResolved", id) : chain[n].outcome = row[id].outcome
    /\ id \in told => ResolvedOnChain(id)

\* Each process that is started counts each bet at most once, however windows
\* and crashes fall; so two of them, or a restart, at most double a stake.
CountedOncePerStart ==
  \A id \in Id, o \in Sides :
    row[id].total[o] <= starts * BetTotal(id, o, Len(chain))

\* Indexing from the first block on, and unless a handler fails, no bet behind
\* the place of a process is left out, but for those placed before a deleted row was
\* registered anew.
CountedAtLeastOnce ==
  (startBlock = 0 /\ ~failed) =>
    \A p \in Indexer, id \in Id, o \in Sides :
      indexer[p].pc = "waiting" =>
        row[id].total[o] + BetTotal(id, o, since[id]) >= BetTotal(id, o, indexer[p].last)

\* Nothing but a failed handler and a bet of more than U64Max wei keeps an
\* indexer from storing the outcome of a market and telling its subscribers.
HugeBet == \E n \in DOMAIN chain : chain[n].amount > U64Max


\* No more predictions are counted right than markets resolved, so that the
\* score, one over the other, stays within 0 and 1.
ScoreIsARatio == rep.correct <= rep.resolved
=============================================================================
