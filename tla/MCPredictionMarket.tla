------------------------- MODULE MCPredictionMarket -------------------------
(***************************************************************************)
(* PredictionMarket on a small instance.  A behavior is of one of two      *)
(* kinds: one market with three bettors, uneven stakes and a reputation    *)
(* contract; or two markets that share the contract's ether, two bettors,  *)
(* and an owner that replaces the resolver.                                *)
(***************************************************************************)
EXTENDS PredictionMarket

CONSTANT Bettors \* of two markets

VARIABLE kind

\* closeTime = resolveTime, and a closeTime that has passed, are refused.
Windows == {<<1, 2>>, <<2, 2>>}

MCInit == Init /\ kind \in {"one", "two"}
MCNext ==
  /\ Next /\ UNCHANGED kind
  /\ kind = "one" => nextMarketId' <= 2 /\ UNCHANGED resolver
  /\ kind = "two" =>
       /\ UNCHANGED <<reputationSystem, authorizedCallers>>
       /\ \A id \in Id : market'[id].creator \in Bettors \cup {NoAddr}
       /\ \A id \in Id, u \in Addr :
            /\ \A o \in Sides : stake'[id][o][u] <= IF u \in Bettors THEN 1 ELSE 0
            /\ claimed'[id][u] => u \in Bettors
MCSpec == MCInit /\ [][MCNext]_<<vars, kind>>
=============================================================================
