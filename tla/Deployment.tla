------------------------------ MODULE Deployment ------------------------------
(***************************************************************************)
(* The scripts that put the contracts on a chain and wire them up for      *)
(* OracleResolution.  Each sends its transactions one by one from one      *)
(* wallet.  Some wait for each to be mined and some do not; any may fail   *)
(* and end the script, and completeSepoliaSetup.js goes on with what is    *)
(* there.                                                                  *)
(***************************************************************************)
EXTENDS Naturals, Sequences

CONSTANT MaxStarts, \* bound: scripts started
         MaxUpkeeps \* bound: upkeeps registered

ASSUME DeployConstants == MaxStarts \in Nat /\ MaxUpkeeps \in Nat

VARIABLES
  wire,     \* the address each contract of the system holds of the next one
  script,   \* the script that runs, or "none"
  left,     \* what it has still to send
  pool,     \* what was sent and is not mined: the wires set
  finished, \* the script that ended last without a failure, or "none"
  starts,
  upkeep    \* registerUpkeep.js: "none" or "approved", and the upkeeps

deployVars == <<wire, script, left, pool, finished, starts, upkeep>>

Wires == {"resolver", "oracle", "creAutomation", "creWorkflow",
          "authorizedCallback", "authorizedAutomation", "oracleConsumer", "registry"}
Unwired == [w \in Wires |-> "None"]

-----------------------------------------------------------------------------
(* Transactions, by the wires they set.                                    *)

Tx(wires) == [wires |-> wires, wait |-> FALSE]
Waiting(wires) == [wires |-> wires, wait |-> TRUE]

\* Constructors.  Each is waited for.
PublicMarket == Waiting([resolver |-> "Wallet"])
Workflow(oracle) == Waiting([oracle |-> oracle])
Consumer == Waiting([creWorkflow |-> "CREWorkflow"])
Resolver(registry) == Waiting([oracleConsumer |-> "OracleConsumer", registry |-> registry])
Functions == Waiting(<<>>)

Contracts(registry) == <<PublicMarket, Workflow("Wallet"), Consumer, Resolver(registry)>>
MutantSetResolver == [resolver |-> "OracleConsumer"]
SetResolver == [resolver |-> "CREWorkflow"]
SetOracle(a) == [oracle |-> a]
SetCallback == [authorizedCallback |-> "Wallet"]
SetAutomation == [authorizedAutomation |-> "AutomationResolver"]

\* With Functions the oracle of CREWorkflow is its consumer, and OracleConsumer
\* is let in as the other caller.
WithFunctions ==
  <<Functions, Tx(SetOracle("FunctionsConsumer")), Tx([creAutomation |-> "OracleConsumer"]),
    Tx(SetCallback), Tx(SetAutomation)>>
WithoutFunctions ==
  <<Waiting(SetOracle("OracleConsumer")), Waiting(SetCallback), Waiting(SetAutomation)>>

Plan ==
  [local     |-> Contracts("Wallet") \o
                 <<Tx(SetOracle("OracleConsumer")), Tx(SetResolver), Tx(SetCallback),
                   Tx(SetAutomation)>>,
   functions |-> Contracts("Registry") \o <<Waiting(SetResolver)>> \o WithFunctions,
   plain     |-> Contracts("Registry") \o <<Waiting(SetResolver)>> \o WithoutFunctions,
   private   |-> <<PublicMarket, Workflow("None"), Consumer, Tx(SetOracle("OracleConsumer")),
                   Tx(SetResolver), Tx(SetCallback)>>,
   complete  |-> <<Waiting(SetResolver), Waiting(SetOracle("OracleConsumer")),
                   Waiting(SetCallback)>>]
Scripts == DOMAIN Plan

DeployTypeOK ==
  /\ DOMAIN wire = Wires
  /\ script \in Scripts \cup {"none"} /\ finished \in Scripts \cup {"none"}
  /\ script = "none" => left = <<>>
  /\ Len(pool) <= 5 /\ starts \in 0 .. MaxStarts
  /\ upkeep \in [approved : BOOLEAN, count : 0 .. MaxUpkeeps]

DeployInit ==
  /\ wire = Unwired
  /\ script = "none" /\ left = <<>> /\ pool = <<>> /\ finished = "none"
  /\ starts = 0 /\ upkeep = [approved |-> FALSE, count |-> 0]

-----------------------------------------------------------------------------
\* A script other than completeSepoliaSetup.js begins a new system; that one
\* needs the addresses of the three contracts.
StartScript(s) ==
  /\ script = "none" /\ starts < MaxStarts
  /\ starts' = starts + 1
  /\ script' = s /\ left' = Plan[s] /\ finished' = "none"
  /\ IF s = "complete"
     THEN wire["creWorkflow"] # "None" /\ UNCHANGED <<wire, pool>>
     ELSE wire' = Unwired /\ pool' = <<>>
  /\ UNCHANGED upkeep

\* The next transaction is sent when those that are waited for are mined.
Awaited == \E i \in DOMAIN pool : pool[i].wait
SendNext ==
  /\ left # <<>> /\ ~Awaited
  /\ pool' = Append(pool, Head(left)) /\ left' = Tail(left)
  /\ UNCHANGED <<wire, script, finished, starts, upkeep>>

\* Transactions of one wallet are mined in order.
MineNext ==
  /\ pool # <<>>
  /\ LET set == Head(pool).wires
     IN  wire' = [w \in Wires |-> IF w \in DOMAIN set THEN set[w] ELSE wire[w]]
  /\ pool' = Tail(pool)
  /\ UNCHANGED <<script, left, finished, starts, upkeep>>

ScriptEnds ==
  /\ script # "none" /\ left = <<>> /\ ~Awaited
  /\ script' = "none" /\ finished' = script
  /\ UNCHANGED <<wire, left, pool, starts, upkeep>>
\* An error of the node: what was sent is mined all the same.
ScriptFails ==
  /\ script # "none"
  /\ script' = "none" /\ left' = <<>>
  /\ UNCHANGED <<wire, pool, finished, starts, upkeep>>

\* registerUpkeep.js approves LINK and then registers, which spends it.
ApproveLink ==
  /\ wire["registry"] # "None" /\ ~upkeep.approved
  /\ upkeep' = [upkeep EXCEPT !.approved = TRUE]
  /\ UNCHANGED <<wire, script, left, pool, finished, starts>>
RegisterUpkeep ==
  /\ upkeep.approved /\ upkeep.count < MaxUpkeeps
  /\ upkeep' = [approved |-> FALSE, count |-> upkeep.count + 1]
  /\ UNCHANGED <<wire, script, left, pool, finished, starts>>

DeployNext ==
  \/ \E s \in Scripts : StartScript(s)
  \/ SendNext \/ MineNext \/ ScriptEnds \/ ScriptFails
  \/ ApproveLink \/ RegisterUpkeep

DeploySpec == DeployInit /\ [][DeployNext]_deployVars

-----------------------------------------------------------------------------
\* What OracleResolution's paths ask of the wires.
LetIn(a) == wire["resolver"] = "CREWorkflow" /\ a \in {wire["oracle"], wire["creAutomation"]}
ConsumerOpen == wire["creWorkflow"] = "CREWorkflow" /\ LetIn("OracleConsumer")

\* After the last script went through, the paths it sets up are open, also when
\* it went on with what a failed one had left behind: the wallet's callback;
\* Automation where AutomationResolver is deployed; Functions where it is used.
PathsAreOpen ==
  (finished # "none" /\ script = "none" /\ pool = <<>>) =>
    /\ wire["authorizedCallback"] = "Wallet" /\ ConsumerOpen
    /\ finished \in {"local", "functions", "plain"} =>
         /\ wire["authorizedAutomation"] = "AutomationResolver"
         /\ wire["oracleConsumer"] = "OracleConsumer" /\ wire["registry"] # "None"
    /\ finished = "functions" => LetIn("FunctionsConsumer")
=============================================================================
