------------------------- MODULE MCOracleResolution -------------------------
(***************************************************************************)
(* An instance of OracleResolution: a market that is due at once and one   *)
(* that is due later, each with a feed and a price configuration.          *)
(***************************************************************************)
EXTENDS OracleResolution

Due01 == [id \in Id |-> id - 1]
DueAtOnce == [id \in Id |-> 0]

Above == [feed |-> "eth", threshold |-> 2, greaterThan |-> TRUE]
Below == [feed |-> "eth", threshold |-> 2, greaterThan |-> FALSE]
Other == [feed |-> "btc", threshold |-> 2, greaterThan |-> TRUE]
OneFeed == {Above, Below}
TwoFeeds == {Above, Other}

\* The first market decodes, with a low byte of resolveTime other than 2.
Readings == [id \in Id |-> IF id = 1 THEN "unresolved" ELSE "throws"]
NoReadings == [id \in Id |-> "unresolved"]

\* All sources are wired up, only AutomationResolver's OracleConsumer changes.
Choices ==
  [w \in Wires |->
    CASE w = "creWorkflow" -> {"CREWorkflow"}
      [] w = "authorizedCallback" -> {"Wallet"}
      [] w = "authorizedAutomation" -> {"AutomationResolver"}
      [] w = "oracle" -> {"OracleConsumer"}
      [] w = "creAutomation" -> {"FunctionsConsumer"}
      [] w = "registry" -> {"Registry"}
      [] w = "oracleConsumer" -> {"None", "OracleConsumer"}
      [] w = "resolver" -> {"CREWorkflow"}]
=============================================================================
