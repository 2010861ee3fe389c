-------------------------- MODULE OracleResolution --------------------------
(***************************************************************************)
(* The ways a market of PredictionMarket gets its outcome.  Three sources  *)
(* race for it: Chainlink Automation with a price feed                     *)
(* (AutomationResolver.sol), Chainlink Functions                           *)
(* (PredictionMarketFunctionsConsumer.sol) and the script                  *)
(* resolveFromBackend.js.  They reach the market through OracleConsumer    *)
(* and CREWorkflow, if these are wired to let them pass.                   *)
(***************************************************************************)
EXTENDS Integers, FiniteSets, Sequences

CONSTANTS Id,          \* the markets
          ResolveTime, \* ResolveTime[id]
          Config,      \* the price configurations: feed, threshold, greaterThan
          Feed,        \* the data feeds
          Answer,      \* the prices feeds report, some not positive
          MaxAge,      \* 1 hour: the oldest price that is accepted
          Request,     \* bound: the ids of Functions requests
          Script,      \* the instances of resolveFromBackend.js
          Checking,    \* those with PREDICTION_MARKET_ADDRESS set
          Reading,     \* Reading[id]: what they make of getMarket's answer
          MaxRetries,  \* 3
          Choice,      \* Choice[w]: the addresses the owner may put in wire w
          MaxList,     \* bound: entries of _marketIds
          MaxTime      \* bound: the last block.timestamp

Wires == {"creWorkflow", "authorizedCallback", "authorizedAutomation", "oracle",
          "creAutomation", "registry", "oracleConsumer", "resolver"}

\* Ids of markets count from 1: 0 stands for no market.
ASSUME ResolutionConstants ==
  /\ Id \subseteq Nat \ {0} /\ ResolveTime \in [Id -> Nat] /\ Answer \subseteq Int
  /\ "None" \notin Feed
  /\ Config \subseteq [feed : Feed, threshold : Int, greaterThan : BOOLEAN]
  /\ MaxAge \in Nat /\ MaxRetries \in Nat \ {0}
  /\ DOMAIN Choice = Wires /\ Checking \subseteq Script
  /\ Reading \in [Id -> {"throws", "resolved", "unresolved"}]
  /\ MaxList \in Nat /\ MaxTime \in Nat

VARIABLES
  now,
  market,     \* market[id]: "Missing", "Open" or the outcome
  wire,       \* the address each contract holds of the next one
  marketIds,  \* _marketIds, in order of registration, removed ones included
  config,     \* priceMarkets[id] while _hasConfig[id], or NoConfig
  feed,       \* feed[f]: the answer and when it was updated
  upkeep,     \* the market that checkUpkeep asked to be performed, or 0
  pending,    \* s_pendingMarketId[r], 0 when there is none
  sent,       \* the requests that the Functions router still has to answer
  script,     \* script[p]: what an instance is doing
  evidence    \* evidence[id]: what the outcome was decided on (history)

chain == <<market, wire, marketIds, config, feed, pending, sent>>
vars == <<now, chain, upkeep, script, evidence>>

Raw == {0, 1}
Idle == [pc |-> "idle", id |-> 0, outcome |-> 0, attempt |-> 0]
NoConfig == [feed |-> "None", threshold |-> 0, greaterThan |-> FALSE]
NoEvidence == [path |-> "none"]
Evidence == {NoEvidence}
              \cup [path : {"automation"}, config : Config, answer : Answer]
              \cup [path : {"functions", "script"}, response : Raw]

TypeOK ==
  /\ now \in 0 .. MaxTime
  /\ market \in [Id -> {"Missing", "Open", "Yes", "No"}]
  /\ wire \in [Wires -> UNION {Choice[w] : w \in Wires}]
  /\ \A w \in Wires : wire[w] \in Choice[w]
  /\ marketIds \in Seq(Id) /\ Len(marketIds) <= MaxList
  /\ config \in [Id -> Config \cup {NoConfig}]
  /\ feed \in [Feed -> [answer : Answer, updatedAt : 0 .. MaxTime]]
  /\ upkeep \in Id \cup {0}
  /\ pending \in [Request -> Id \cup {0}] /\ sent \subseteq Request
  /\ script \in [Script -> [pc : {"idle", "fetched", "sending"}, id : Id \cup {0},
                            outcome : Raw, attempt : 0 .. MaxRetries - 1]]
  /\ evidence \in [Id -> Evidence]

Init ==
  /\ now = 0
  /\ market = [id \in Id |-> "Missing"]
  /\ wire \in {w \in [Wires -> UNION {Choice[x] : x \in Wires}] :
                 \A x \in Wires : w[x] \in Choice[x]}
  /\ marketIds = << >> /\ config = [id \in Id |-> NoConfig]
  /\ feed \in [Feed -> [answer : Answer, updatedAt : {0}]]
  /\ upkeep = 0
  /\ pending = [r \in Request |-> 0] /\ sent = {}
  /\ script = [p \in Script |-> Idle]
  /\ evidence = [id \in Id |-> NoEvidence]

-----------------------------------------------------------------------------
(* PredictionMarket, CREWorkflow and OracleConsumer.                       *)

CreateMarket(id) ==
  /\ market[id] = "Missing"
  /\ market' = [market EXCEPT ![id] = "Open"]
  /\ UNCHANGED <<now, wire, marketIds, config, feed, pending, sent, upkeep, script,
                 evidence>>

MutantResolvable(id) == market[id] # "Missing" /\ now >= ResolveTime[id]
Resolvable(id) == market[id] = "Open" /\ now >= ResolveTime[id]

MutantOutcome(raw) == IF raw = 0 THEN "Yes" ELSE "No"
Outcome(raw) == IF raw = 1 THEN "Yes" ELSE "No"

\* resolveFromOracle(id, raw) called by `caller` succeeds.
OracleMayResolve(caller, id) ==
  /\ caller \in {wire["oracle"], wire["creAutomation"]}
  /\ wire["resolver"] = "CREWorkflow"
  /\ Resolvable(id)

ResolveFromOracle(caller, id, raw, why) ==
  /\ OracleMayResolve(caller, id)
  /\ market' = [market EXCEPT ![id] = Outcome(raw)]
  /\ evidence' = [evidence EXCEPT ![id] = why]

\* oracleCallback(id, raw) called by `caller` succeeds.
CallbackPasses(caller, id) ==
  /\ caller \in {wire["authorizedCallback"], wire["authorizedAutomation"]}
  /\ wire["creWorkflow"] = "CREWorkflow"
  /\ OracleMayResolve("OracleConsumer", id)

OracleCallback(caller, id, raw, why) ==
  /\ CallbackPasses(caller, id)
  /\ ResolveFromOracle("OracleConsumer", id, raw, why)

\* The owners' setters, each of one wire.
Rewire(w) ==
  /\ \E a \in Choice[w] : wire' = [wire EXCEPT ![w] = a]
  /\ UNCHANGED <<now, market, marketIds, config, feed, pending, sent, upkeep,
                 script, evidence>>
SetCreWorkflow == Rewire("creWorkflow")
SetAuthorizedCallback == Rewire("authorizedCallback")
SetAuthorizedAutomation == Rewire("authorizedAutomation")
SetOracle == Rewire("oracle")
SetCreAutomation == Rewire("creAutomation")
SetRegistry == Rewire("registry")
SetOracleConsumer == Rewire("oracleConsumer")
SetResolver == Rewire("resolver")

-----------------------------------------------------------------------------
(* AutomationResolver.                                                     *)

AddPriceMarket(id, c) ==
  /\ config[id] = NoConfig
  /\ Len(marketIds) < MaxList
  /\ config' = [config EXCEPT ![id] = c]
  /\ marketIds' = Append(marketIds, id)
  /\ UNCHANGED <<now, market, wire, feed, pending, sent, upkeep, script, evidence>>

\* The id stays in the list, and is in it twice when it is registered again.
RemovePriceMarket(id) ==
  /\ config[id] # NoConfig
  /\ config' = [config EXCEPT ![id] = NoConfig]
  /\ UNCHANGED <<now, market, wire, marketIds, feed, pending, sent, upkeep, script,
                 evidence>>

MutantSkipped(id) == config[id] = NoConfig
                       \/ (market[id] = "Open" /\ now < ResolveTime[id])
Skipped(id) == config[id] = NoConfig \/ market[id] \in {"Yes", "No"}
                 \/ (market[id] = "Open" /\ now < ResolveTime[id])

\* The first entry that is not skipped.  getMarket reverts, and the whole
\* check with it, when that entry names a market that does not exist.
UpkeepNeeded(i) ==
  /\ wire["oracleConsumer"] # "None"
  /\ i \in DOMAIN marketIds
  /\ ~Skipped(marketIds[i]) /\ market[marketIds[i]] = "Open"
  /\ \A j \in 1 .. i - 1 : Skipped(marketIds[j])

\* The network simulates checkUpkeep on one block and acts in a later one.
CheckUpkeep ==
  /\ upkeep = 0
  /\ \E i \in DOMAIN marketIds : UpkeepNeeded(i) /\ upkeep' = marketIds[i]
  /\ UNCHANGED <<now, chain, script, evidence>>

Fresh(f) == feed[f].answer > 0 /\ now - feed[f].updatedAt <= MaxAge

PriceHolds(c, answer) == IF c.greaterThan THEN answer >= c.threshold
                                          ELSE answer < c.threshold

UpkeepPasses(id) ==
  /\ wire["registry"] = "Registry" /\ wire["oracleConsumer"] = "OracleConsumer"
  /\ config[id] # NoConfig
  /\ Fresh(config[id].feed)
  /\ CallbackPasses("AutomationResolver", id)

PerformUpkeep ==
  /\ upkeep # 0
  /\ IF UpkeepPasses(upkeep)
     THEN LET c == config[upkeep]
              answer == feed[c.feed].answer
          IN  OracleCallback("AutomationResolver", upkeep,
                             IF PriceHolds(c, answer) THEN 1 ELSE 0,
                             [path |-> "automation", config |-> c, answer |-> answer])
     ELSE UNCHANGED <<market, evidence>>
  /\ upkeep' = 0
  /\ UNCHANGED <<now, wire, marketIds, config, feed, pending, sent, script>>

FeedUpdate(f, a) ==
  /\ feed' = [feed EXCEPT ![f] = [answer |-> a, updatedAt |-> now]]
  /\ UNCHANGED <<now, market, wire, marketIds, config, pending, sent, upkeep, script,
                 evidence>>

-----------------------------------------------------------------------------
(* PredictionMarketFunctionsConsumer.                                      *)

SendResolutionRequest(r, id) ==
  /\ pending[r] = 0 /\ r \notin sent
  /\ pending' = [pending EXCEPT ![r] = id]
  /\ sent' = sent \cup {r}
  /\ UNCHANGED <<now, market, wire, marketIds, config, feed, upkeep, script, evidence>>

\* The router answers a request once.  A callback that reverts undoes the
\* deletion too, so the request stays pending for ever.
FulfillRequest(r, response) ==
  /\ r \in sent
  /\ sent' = sent \ {r}
  /\ IF response \in Raw /\ OracleMayResolve("FunctionsConsumer", pending[r])
     THEN /\ pending' = [pending EXCEPT ![r] = 0]
          /\ ResolveFromOracle("FunctionsConsumer", pending[r], response,
                               [path |-> "functions", response |-> response])
     ELSE UNCHANGED <<pending, market, evidence>>
  /\ UNCHANGED <<now, wire, marketIds, config, feed, upkeep, script>>

-----------------------------------------------------------------------------
(* resolveFromBackend.js.  An instance that exits may be started again.    *)

\* The outcome is fetched before the chain is looked at.
FetchOutcome(p, id, raw) ==
  /\ script[p].pc = "idle"
  /\ script' = [script EXCEPT ![p] = [pc |-> "fetched", id |-> id, outcome |-> raw,
                                      attempt |-> 0]]
  /\ UNCHANGED <<now, chain, upkeep, evidence>>

\* getMarket returns one struct, and the ABI of the script reads it as eight
\* values: each is one word off, so `status` is the low byte of resolveTime
\* and `question` starts at byte `id` of the answer.  What comes out does not
\* depend on the status.  A call that reverts, or does not decode, throws.
Read(p) == IF market[script[p].id] = "Missing" THEN "throws"
                                               ELSE Reading[script[p].id]

CheckMarket(p) ==
  /\ script[p].pc = "fetched"
  /\ script' = [script EXCEPT ![p] = IF p \in Checking /\ Read(p) # "unresolved"
                                     THEN Idle ELSE [@ EXCEPT !.pc = "sending"]]
  /\ UNCHANGED <<now, chain, upkeep, evidence>>

MutantLastAttempt(p) == script[p].attempt = MaxRetries
LastAttempt(p) == script[p].attempt = MaxRetries - 1

\* The same outcome is sent at each attempt, however old it is by then.
SendOutcome(p) ==
  /\ script[p].pc = "sending"
  /\ IF CallbackPasses("Wallet", script[p].id)
     THEN /\ OracleCallback("Wallet", script[p].id, script[p].outcome,
                            [path |-> "script", response |-> script[p].outcome])
          /\ script' = [script EXCEPT ![p] = Idle]
     ELSE /\ script' = [script EXCEPT ![p] =
                          IF LastAttempt(p) THEN Idle
                          ELSE [@ EXCEPT !.attempt = script[p].attempt + 1]]
          /\ UNCHANGED <<market, evidence>>
  /\ UNCHANGED <<now, wire, marketIds, config, feed, pending, sent, upkeep>>

Tick ==
  /\ now < MaxTime
  /\ now' = now + 1
  /\ UNCHANGED <<chain, upkeep, script, evidence>>

-----------------------------------------------------------------------------
Admin == \/ SetCreWorkflow \/ SetAuthorizedCallback \/ SetAuthorizedAutomation
         \/ SetOracle \/ SetCreAutomation \/ SetRegistry \/ SetOracleConsumer
         \/ SetResolver

Next ==
  \/ \E id \in Id : CreateMarket(id)
  \/ Admin
  \/ \E id \in Id, c \in Config : AddPriceMarket(id, c)
  \/ \E id \in Id : RemovePriceMarket(id)
  \/ CheckUpkeep
  \/ PerformUpkeep
  \/ \E f \in Feed, a \in Answer : FeedUpdate(f, a)
  \/ \E r \in Request, id \in Id : SendResolutionRequest(r, id)
  \/ \E r \in Request, response \in Raw \cup {2} : FulfillRequest(r, response)
  \/ \E p \in Script, id \in Id, raw \in Raw : FetchOutcome(p, id, raw)
  \/ \E p \in Script : CheckMarket(p)
  \/ \E p \in Script : SendOutcome(p)
  \/ Tick

Spec == Init /\ [][Next]_vars

\* The Automation network keeps simulating and performing.
FairSpec == Spec /\ WF_vars(CheckUpkeep) /\ WF_vars(PerformUpkeep)

-----------------------------------------------------------------------------
\* Whichever source comes first decides, and none that comes later (a retry of
\* the script, a late answer of the router, an upkeep decided on an older
\* block) changes the outcome or what it was decided on.
FirstOutcomeStands ==
  [][\A id \in Id : market[id] \in {"Yes", "No"} =>
       UNCHANGED <<market[id], evidence[id]>>]_vars

\* The outcome says what its source found, through the three encodings of a
\* result on the way (1 and 0, Yes and No, and the comparison).
OutcomeFollowsEvidence ==
  \A id \in Id :
    market[id] \in {"Yes", "No"} =>
      LET e == evidence[id]
      IN  market[id] = "Yes" <=> IF e.path = "automation"
                                 THEN PriceHolds(e.config, e.answer)
                                 ELSE e.response = 1

\* A due market is resolved if, from some time on, Automation is wired up and
\* every registered market exists and has a fresh price.
WiredUp ==
  /\ wire["registry"] = "Registry" /\ wire["oracleConsumer"] = "OracleConsumer"
  /\ "AutomationResolver" \in {wire["authorizedCallback"], wire["authorizedAutomation"]}
  /\ wire["creWorkflow"] = "CREWorkflow" /\ wire["resolver"] = "CREWorkflow"
  /\ "OracleConsumer" \in {wire["oracle"], wire["creAutomation"]}

Due(id) == config[id] # NoConfig /\ market[id] # "Missing" /\ now >= ResolveTime[id]

Served(id) == Due(id) /\ Fresh(config[id].feed)

AllServed ==
  \A id \in Id : config[id] # NoConfig =>
    market[id] # "Missing" /\ Fresh(config[id].feed)

DueMarketResolved ==
  \A id \in Id :
    <>[](WiredUp /\ AllServed /\ Due(id)) => <>(market[id] \in {"Yes", "No"})

\* The same, of a market whose own feed is fresh, whatever the others' are.
OwnFeedSuffices ==
  \A id \in Id :
    <>[](WiredUp /\ Served(id)) => <>(market[id] \in {"Yes", "No"})

\* An instance that looks at the market before it sends anything goes on
\* exactly if the market is open.
GoesOnIfOpen ==
  [][\A p \in Checking :
       script[p].pc = "fetched" /\ script'[p] # script[p]
         => (script'[p].pc = "sending" <=> market[script[p].id] = "Open")]_vars
=============================================================================
