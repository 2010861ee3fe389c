----------------------- MODULE OracleResolutionProofs -----------------------
(***************************************************************************)
(* For every number of markets, feeds, requests and instances of the       *)
(* script, and however the owners rewire the contracts: the first outcome  *)
(* of a market stands, and it says what its source found.                  *)
(***************************************************************************)
EXTENDS OracleResolution, SequenceTheorems, TLAPS

USE ResolutionConstants

\* Who is at work has a market to work on: the routers of requests, the
\* instances of the script that have fetched an outcome.
AtWork ==
  /\ \A r \in sent : pending[r] \in Id
  /\ \A p \in Script : script[p].pc # "idle" => script[p].id \in Id

\* The inductive invariant.
IInv == TypeOK /\ AtWork /\ OutcomeFollowsEvidence

-----------------------------------------------------------------------------
(* The two ways a step treats markets: it leaves them alone, or one open   *)
(* market gets the outcome that its evidence calls for.                    *)

Decided(id) ==
  \E raw \in Raw, why \in Evidence \ {NoEvidence} :
    /\ market[id] = "Open"
    /\ market' = [market EXCEPT ![id] = Outcome(raw)]
    /\ evidence' = [evidence EXCEPT ![id] = why]
    /\ raw = 1 <=> IF why.path = "automation" THEN PriceHolds(why.config, why.answer)
                                              ELSE why.response = 1

LEMMA InitInv == Init => IInv
<1> SUFFICES ASSUME Init PROVE IInv
  OBVIOUS
<1>1. TypeOK
  BY EmptySeq DEF Init, TypeOK, Idle, Raw, Evidence, Wires
<1>2. AtWork
  BY DEF Init, AtWork, Idle
<1>3. OutcomeFollowsEvidence
  BY DEF Init, OutcomeFollowsEvidence
<1> QED  BY <1>1, <1>2, <1>3 DEF IInv

LEMMA CallbackDecides ==
  ASSUME TypeOK, NEW caller, NEW id \in Id, NEW raw \in Raw,
         NEW why \in Evidence \ {NoEvidence},
         ResolveFromOracle(caller, id, raw, why),
         raw = 1 <=> IF why.path = "automation" THEN PriceHolds(why.config, why.answer)
                                                ELSE why.response = 1
  PROVE  Decided(id)
BY DEF ResolveFromOracle, OracleMayResolve, Resolvable, Decided

LEMMA UpkeepDecides ==
  ASSUME IInv, PerformUpkeep, ~UNCHANGED <<market, evidence>>
  PROVE  \E id \in Id : Decided(id)
<1> DEFINE c == config[upkeep]
           answer == feed[c.feed].answer
           raw == IF PriceHolds(c, answer) THEN 1 ELSE 0
           why == [path |-> "automation", config |-> c, answer |-> answer]
<1>1. upkeep \in Id /\ UpkeepPasses(upkeep)
  BY DEF PerformUpkeep, IInv, TypeOK
<1>2. ResolveFromOracle("OracleConsumer", upkeep, raw, why)
  BY <1>1 DEF PerformUpkeep, OracleCallback
<1>3. c \in Config
  BY <1>1 DEF UpkeepPasses, IInv, TypeOK
<1>4. answer \in Answer
  BY <1>3 DEF IInv, TypeOK
<1>5. why \in Evidence \ {NoEvidence} /\ raw \in Raw
  BY <1>3, <1>4 DEF Evidence, NoEvidence, Raw
<1>6. raw = 1 <=> PriceHolds(why.config, why.answer)
  OBVIOUS
<1> HIDE DEF c, answer, raw
<1> QED  BY <1>1, <1>2, <1>5, <1>6, CallbackDecides DEF IInv

LEMMA FunctionsDecides ==
  ASSUME IInv, NEW r \in Request, NEW response \in Raw \cup {2},
         FulfillRequest(r, response), ~UNCHANGED <<market, evidence>>
  PROVE  \E id \in Id : Decided(id)
<1> DEFINE why == [path |-> "functions", response |-> response]
<1>1. pending[r] \in Id /\ response \in Raw
  BY DEF FulfillRequest, IInv, AtWork
<1>2. ResolveFromOracle("FunctionsConsumer", pending[r], response, why)
  BY DEF FulfillRequest
<1>3. why \in Evidence \ {NoEvidence}
  BY <1>1 DEF Evidence, NoEvidence
<1> QED  BY <1>1, <1>2, <1>3, CallbackDecides DEF IInv

LEMMA ScriptDecides ==
  ASSUME IInv, NEW p \in Script, SendOutcome(p), ~UNCHANGED <<market, evidence>>
  PROVE  \E id \in Id : Decided(id)
<1> DEFINE raw == script[p].outcome
           why == [path |-> "script", response |-> raw]
<1>1. script[p].id \in Id /\ raw \in Raw
  BY DEF SendOutcome, IInv, AtWork, TypeOK
<1>2. ResolveFromOracle("OracleConsumer", script[p].id, raw, why)
  BY DEF SendOutcome, OracleCallback
<1>3. why \in Evidence \ {NoEvidence}
  BY <1>1 DEF Evidence, NoEvidence
<1> QED  BY <1>1, <1>2, <1>3, CallbackDecides DEF IInv

LEMMA MarketSteps ==
  ASSUME IInv, [Next]_vars
  PROVE  \/ UNCHANGED <<market, evidence>>
         \/ \E id \in Id : CreateMarket(id)
         \/ \E id \in Id : Decided(id)
<1>1. CASE PerformUpkeep
  BY <1>1, UpkeepDecides
<1>2. ASSUME NEW r \in Request, NEW response \in Raw \cup {2}, FulfillRequest(r, response)
      PROVE  UNCHANGED <<market, evidence>> \/ \E id \in Id : Decided(id)
  BY <1>2, FunctionsDecides
<1>3. ASSUME NEW p \in Script, SendOutcome(p)
      PROVE  UNCHANGED <<market, evidence>> \/ \E id \in Id : Decided(id)
  BY <1>3, ScriptDecides
<1> QED  BY <1>1, <1>2, <1>3
            DEF Next, Admin, Rewire, SetCreWorkflow, SetAuthorizedCallback,
                SetAuthorizedAutomation, SetOracle, SetCreAutomation, SetRegistry,
                SetOracleConsumer, SetResolver, AddPriceMarket, RemovePriceMarket,
                CheckUpkeep, FeedUpdate, SendResolutionRequest, FetchOutcome,
                CheckMarket, Tick, vars, chain

\* What a step does to one market.
LEMMA MarketStep ==
  ASSUME IInv, [Next]_vars, NEW id \in Id
  PROVE  /\ market' \in [Id -> {"Missing", "Open", "Yes", "No"}]
         /\ evidence' \in [Id -> Evidence]
         /\ market[id] \in {"Yes", "No"} => UNCHANGED <<market[id], evidence[id]>>
         /\ market'[id] \in {"Yes", "No"} =>
              LET e == evidence'[id]
              IN  market'[id] = "Yes" <=> IF e.path = "automation"
                                          THEN PriceHolds(e.config, e.answer)
                                          ELSE e.response = 1
<1>1. /\ market \in [Id -> {"Missing", "Open", "Yes", "No"}]
      /\ evidence \in [Id -> Evidence]
  BY DEF IInv, TypeOK
<1>2. market[id] \in {"Yes", "No"} =>
        LET e == evidence[id]
        IN  market[id] = "Yes" <=> IF e.path = "automation"
                                   THEN PriceHolds(e.config, e.answer)
                                   ELSE e.response = 1
  BY DEF IInv, OutcomeFollowsEvidence
<1>3. CASE UNCHANGED <<market, evidence>>
  BY <1>1, <1>2, <1>3
<1>4. ASSUME NEW i \in Id, CreateMarket(i)
      PROVE  /\ market' = [market EXCEPT ![i] = "Open"] /\ market[i] = "Missing"
             /\ evidence' = evidence
  BY <1>4 DEF CreateMarket
<1>5. ASSUME NEW i \in Id, NEW raw \in Raw, NEW why \in Evidence \ {NoEvidence},
             market[i] = "Open", market' = [market EXCEPT ![i] = Outcome(raw)],
             evidence' = [evidence EXCEPT ![i] = why]
      PROVE  /\ market' \in [Id -> {"Missing", "Open", "Yes", "No"}]
             /\ evidence' \in [Id -> Evidence]
             /\ i # id => UNCHANGED <<market[id], evidence[id]>>
             /\ i = id => /\ market[id] = "Open" /\ evidence'[id] = why
                          /\ market'[id] = "Yes" <=> raw = 1
  BY <1>1, <1>5 DEF Outcome
<1>6. CASE \E i \in Id : CreateMarket(i)
  BY <1>1, <1>2, <1>4, <1>6
<1>7. CASE \E i \in Id : Decided(i)
  <2>0. PICK i \in Id : Decided(i)
    BY <1>7
  <2>1. PICK raw \in Raw, why \in Evidence \ {NoEvidence} :
          /\ market[i] = "Open" /\ market' = [market EXCEPT ![i] = Outcome(raw)]
          /\ evidence' = [evidence EXCEPT ![i] = why]
          /\ raw = 1 <=> IF why.path = "automation"
                         THEN PriceHolds(why.config, why.answer)
                         ELSE why.response = 1
    BY <2>0 DEF Decided
  <2>2. CASE i = id
    BY <1>5, <2>1, <2>2
  <2>3. CASE i # id
    BY <1>2, <1>5, <2>1, <2>3
  <2> QED  BY <2>2, <2>3
<1> QED  BY <1>3, <1>6, <1>7, MarketSteps

-----------------------------------------------------------------------------
(* The types, and that who is at work has a market.                        *)

LEMMA WiresTyped ==
  ASSUME TypeOK, NEW w \in Wires, NEW a \in Choice[w], wire' = [wire EXCEPT ![w] = a]
  PROVE  /\ wire' \in [Wires -> UNION {Choice[x] : x \in Wires}]
         /\ \A x \in Wires : wire'[x] \in Choice[x]
BY DEF TypeOK

LEMMA RewireKeeps ==
  ASSUME IInv, NEW w \in Wires, Rewire(w)
  PROVE  TypeOK' /\ AtWork'
<1>1. PICK a \in Choice[w] : wire' = [wire EXCEPT ![w] = a]
  BY DEF Rewire
<1>2. /\ wire' \in [Wires -> UNION {Choice[x] : x \in Wires}]
      /\ \A x \in Wires : wire'[x] \in Choice[x]
  BY <1>1, WiresTyped DEF IInv
<1>3. /\ UNCHANGED <<now, market, marketIds, config, feed, upkeep, evidence>>
      /\ UNCHANGED <<pending, sent, script>>
  BY DEF Rewire
<1> QED  BY <1>2, <1>3 DEF IInv, TypeOK, AtWork

LEMMA ListKeeps ==
  ASSUME IInv, NEW id \in Id, NEW c \in Config,
         AddPriceMarket(id, c) \/ RemovePriceMarket(id)
  PROVE  TypeOK' /\ AtWork'
<1>1. config' \in [Id -> Config \cup {NoConfig}]
  BY DEF AddPriceMarket, RemovePriceMarket, IInv, TypeOK
<1>2. marketIds' \in Seq(Id) /\ Len(marketIds') <= MaxList
  <2>1. marketIds \in Seq(Id) /\ Len(marketIds) \in Nat /\ Len(marketIds) <= MaxList
    BY LenProperties DEF IInv, TypeOK
  <2>2. Append(marketIds, id) \in Seq(Id) /\ Len(Append(marketIds, id)) = Len(marketIds) + 1
    BY <2>1, AppendProperties
  <2>3. \/ marketIds' = marketIds
        \/ Len(marketIds) < MaxList /\ marketIds' = Append(marketIds, id)
    BY DEF AddPriceMarket, RemovePriceMarket
  <2>4. Len(marketIds) < MaxList => Len(marketIds) + 1 <= MaxList
    BY <2>1
  <2> QED  BY <2>1, <2>2, <2>3, <2>4, Zenon
<1>3. UNCHANGED <<now, market, wire, feed, upkeep, evidence, pending, sent, script>>
  BY DEF AddPriceMarket, RemovePriceMarket
<1> QED  BY <1>1, <1>2, <1>3 DEF IInv, TypeOK, AtWork

LEMMA UpkeepKeeps ==
  ASSUME IInv, market' \in [Id -> {"Missing", "Open", "Yes", "No"}],
         evidence' \in [Id -> Evidence], CheckUpkeep \/ PerformUpkeep
  PROVE  TypeOK' /\ AtWork'
<1>1. upkeep' \in Id \cup {0}
  <2>1. ASSUME NEW i \in DOMAIN marketIds PROVE marketIds[i] \in Id
    BY <2>1 DEF IInv, TypeOK
  <2> QED  BY <2>1 DEF CheckUpkeep, PerformUpkeep
<1>2. UNCHANGED <<now, wire, marketIds, config, feed, pending, sent, script>>
  BY DEF CheckUpkeep, PerformUpkeep, chain
<1> QED  BY <1>1, <1>2 DEF IInv, TypeOK, AtWork

LEMMA RequestKeeps ==
  ASSUME IInv, market' \in [Id -> {"Missing", "Open", "Yes", "No"}],
         evidence' \in [Id -> Evidence], NEW r \in Request,
         \/ \E id \in Id : SendResolutionRequest(r, id)
         \/ \E response \in Raw \cup {2} : FulfillRequest(r, response)
  PROVE  TypeOK' /\ AtWork'
<1>1. pending \in [Request -> Id \cup {0}] /\ sent \subseteq Request
  BY DEF IInv, TypeOK
<1>2. UNCHANGED <<now, wire, marketIds, config, feed, upkeep, script>>
  BY DEF SendResolutionRequest, FulfillRequest
<1>3. ASSUME NEW id \in Id, SendResolutionRequest(r, id)
      PROVE  /\ pending' \in [Request -> Id \cup {0}] /\ sent' \subseteq Request
             /\ \A q \in sent' : pending'[q] \in Id
  BY <1>1, <1>3 DEF SendResolutionRequest, IInv, AtWork
<1>4. ASSUME NEW response \in Raw \cup {2}, FulfillRequest(r, response)
      PROVE  /\ pending' \in [Request -> Id \cup {0}] /\ sent' \subseteq Request
             /\ \A q \in sent' : pending'[q] \in Id
  <2>1. sent' = sent \ {r}
    BY <1>4 DEF FulfillRequest
  <2>2. pending' = pending \/ pending' = [pending EXCEPT ![r] = 0]
    BY <1>4 DEF FulfillRequest
  <2> QED  BY <1>1, <2>1, <2>2 DEF IInv, AtWork
<1> QED  BY <1>2, <1>3, <1>4 DEF IInv, TypeOK, AtWork

\* An instance of the script in each of its states.
Instance == [pc : {"idle", "fetched", "sending"}, id : Id \cup {0}, outcome : Raw,
             attempt : 0 .. MaxRetries - 1]

LEMMA ScriptKeeps ==
  ASSUME IInv, market' \in [Id -> {"Missing", "Open", "Yes", "No"}],
         evidence' \in [Id -> Evidence], NEW p \in Script,
         \/ \E id \in Id, raw \in Raw : FetchOutcome(p, id, raw)
         \/ CheckMarket(p) \/ SendOutcome(p)
  PROVE  TypeOK' /\ AtWork'
<1>1. /\ script \in [Script -> Instance] /\ Idle \in Instance
      /\ script[p] \in Instance /\ (script[p].pc # "idle" => script[p].id \in Id)
  BY DEF IInv, TypeOK, AtWork, Instance, Idle, Raw
<1>2. UNCHANGED <<now, wire, marketIds, config, feed, upkeep, pending, sent>>
  BY DEF FetchOutcome, CheckMarket, SendOutcome, chain
<1>3. \E s \in Instance : /\ script' = [script EXCEPT ![p] = s]
                          /\ s.pc # "idle" => s.id \in Id
  <2>1. ASSUME NEW id \in Id, NEW raw \in Raw, FetchOutcome(p, id, raw)
        PROVE  <1>3!:
    <3> DEFINE s == [pc |-> "fetched", id |-> id, outcome |-> raw, attempt |-> 0]
    <3>1. s \in Instance /\ s.id \in Id
      BY DEF Instance
    <3> QED  BY <2>1, <3>1 DEF FetchOutcome
  <2>2. CASE CheckMarket(p)
    <3> DEFINE s == [script[p] EXCEPT !.pc = "sending"]
    <3>1. s \in Instance /\ (script[p].pc # "idle" => s.id \in Id)
      BY <1>1 DEF Instance
    <3>2. Idle.pc = "idle" /\ script[p].pc # "idle"
      BY <2>2 DEF CheckMarket, Idle
    <3>3. script' = [script EXCEPT ![p] = Idle] \/ script' = [script EXCEPT ![p] = s]
      BY <2>2 DEF CheckMarket
    <3> QED  BY <1>1, <3>1, <3>2, <3>3
  <2>3. CASE SendOutcome(p)
    <3> DEFINE s == [script[p] EXCEPT !.attempt = script[p].attempt + 1]
    <3>1. ~LastAttempt(p) => s \in Instance /\ (script[p].pc # "idle" => s.id \in Id)
      BY <1>1 DEF Instance, LastAttempt
    <3>2. Idle.pc = "idle" /\ script[p].pc # "idle"
      BY <2>3 DEF SendOutcome, Idle
    <3>3. \/ script' = [script EXCEPT ![p] = Idle]
          \/ ~LastAttempt(p) /\ script' = [script EXCEPT ![p] = s]
      BY <2>3 DEF SendOutcome
    <3> QED  BY <1>1, <3>1, <3>2, <3>3
  <2> QED  BY <2>1, <2>2, <2>3
<1>4. PICK s \in Instance : /\ script' = [script EXCEPT ![p] = s]
                            /\ s.pc # "idle" => s.id \in Id
  BY <1>3
<1>5. script' \in [Script -> Instance]
  BY <1>1, <1>4
<1>6. \A q \in Script : script'[q].pc # "idle" => script'[q].id \in Id
  BY <1>1, <1>4 DEF IInv, AtWork
<1> QED  BY <1>2, <1>5, <1>6 DEF IInv, TypeOK, AtWork, Instance

LEMMA NextInv ==
  ASSUME IInv, [Next]_vars
  PROVE  IInv'
<1>1. /\ market' \in [Id -> {"Missing", "Open", "Yes", "No"}]
      /\ evidence' \in [Id -> Evidence]
  <2>1. CASE Id = {}
    <3>1. market = market' /\ evidence = evidence'
      BY <2>1, MarketSteps
    <3> QED  BY <3>1 DEF IInv, TypeOK
  <2>2. CASE Id # {}
    BY <2>2, MarketStep
  <2> QED  BY <2>1, <2>2
<1>2. OutcomeFollowsEvidence'
  BY MarketStep DEF OutcomeFollowsEvidence
<1>3. TypeOK' /\ AtWork'
  <2>1. ASSUME NEW id \in Id, CreateMarket(id) PROVE TypeOK' /\ AtWork'
    BY <1>1, <2>1 DEF CreateMarket, IInv, TypeOK, AtWork
  <2>2. CASE Admin
    BY <2>2, RewireKeeps
       DEF Admin, Wires, SetCreWorkflow, SetAuthorizedCallback, SetAuthorizedAutomation,
           SetOracle, SetCreAutomation, SetRegistry, SetOracleConsumer, SetResolver
  <2>3. ASSUME NEW id \in Id, NEW c \in Config, AddPriceMarket(id, c)
        PROVE  TypeOK' /\ AtWork'
    BY <2>3, ListKeeps
  <2>4. ASSUME NEW id \in Id, RemovePriceMarket(id) PROVE TypeOK' /\ AtWork'
    <3>1. config[id] \in Config
      BY <2>4 DEF RemovePriceMarket, IInv, TypeOK
    <3> QED  BY <2>4, <3>1, ListKeeps
  <2>5. CASE CheckUpkeep \/ PerformUpkeep
    BY <1>1, <2>5, UpkeepKeeps
  <2>6. ASSUME NEW f \in Feed, NEW a \in Answer, FeedUpdate(f, a)
        PROVE  TypeOK' /\ AtWork'
    BY <2>6 DEF FeedUpdate, IInv, TypeOK, AtWork
  <2>7. ASSUME NEW r \in Request,
               \/ \E id \in Id : SendResolutionRequest(r, id)
               \/ \E response \in Raw \cup {2} : FulfillRequest(r, response)
        PROVE  TypeOK' /\ AtWork'
    BY <1>1, <2>7, RequestKeeps
  <2>8. ASSUME NEW p \in Script,
               \/ \E id \in Id, raw \in Raw : FetchOutcome(p, id, raw)
               \/ CheckMarket(p) \/ SendOutcome(p)
        PROVE  TypeOK' /\ AtWork'
    BY <1>1, <2>8, ScriptKeeps
  <2>9. CASE Tick
    BY <2>9 DEF Tick, chain, IInv, TypeOK, AtWork
  <2>10. CASE UNCHANGED vars
    BY <2>10 DEF vars, chain, IInv, TypeOK, AtWork
  <2> QED  BY <2>1, <2>2, <2>3, <2>4, <2>5, <2>6, <2>7, <2>8, <2>9, <2>10 DEF Next
<1> QED  BY <1>2, <1>3 DEF IInv

THEOREM Invariance == Spec => []IInv
<1> QED  BY InitInv, NextInv, PTL DEF Spec

-----------------------------------------------------------------------------
\* Every variable of the oracle path keeps its type, whatever the owners wire:
\* an upkeep, a request under way and an instance of the script name a market.
THEOREM ResolutionTypeCorrect == Spec => []TypeOK
<1>1. IInv => TypeOK
  BY DEF IInv
<1> QED  BY <1>1, Invariance, PTL

\* An outcome, once there, and what it was decided on, are changed by no later
\* answer, retry or upkeep, of any number of sources.
THEOREM FirstOutcome == Spec => FirstOutcomeStands
<1>1. IInv /\ [Next]_vars =>
        [\A id \in Id : market[id] \in {"Yes", "No"} =>
           UNCHANGED <<market[id], evidence[id]>>]_vars
  BY MarketStep
<1> QED  BY <1>1, Invariance, PTL DEF Spec, FirstOutcomeStands

\* The outcome is the one that the source found which was first: a price
\* against the threshold, the response of Functions or that of the API.
THEOREM OutcomeFromEvidence == Spec => []OutcomeFollowsEvidence
<1>1. IInv => OutcomeFollowsEvidence
  BY DEF IInv
<1> QED  BY <1>1, Invariance, PTL
=============================================================================
