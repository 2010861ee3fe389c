------------------------------ MODULE MCServices ------------------------------
(***************************************************************************)
(* The charts of weather, the list of private markets, the predictions and *)
(* the sign-in, on small instances.  A behavior exercises one of them.     *)
(***************************************************************************)
EXTENDS WeatherCharts, PrivateList, Predictions, SignIn, TLC

CONSTANTS Services, Guest, FirstKey, FirstId

VARIABLE service

\* Row 1 has the chain id 2, which is also a row; row 2 has one that is none.
ChainIdsOfRows == 1 :> 2 @@ 2 :> 3

serviceVars == <<service, weatherVars, privateVars, predictionVars, signInVars>>

ServicesInit ==
  /\ service \in Services
  /\ WeatherInit /\ PrivateListInit /\ PredictionInit /\ SignInInit
  /\ service # "weather" => kind = "live"
  /\ service # "login" => store = "memory"

\* The other parts rest.
OnlyService(p) ==
  /\ UNCHANGED service
  /\ p # "weather" => UNCHANGED weatherVars
  /\ p # "list" => UNCHANGED privateVars
  /\ p # "predictions" => UNCHANGED predictionVars
  /\ p # "login" => UNCHANGED signInVars

\* One tab has no wallet, and each key is of its own market.  The clients but the page
\* send no texts.  Where markets are deleted no series is posted, only the page asks for
\* hybrid predictions, and one request at a time deletes the open market or all of them.
ServicesNext ==
  \/ service = "weather" /\ OnlyService("weather") /\ WeatherNext
  \/ /\ service = "list" /\ OnlyService("list") /\ PrivateListNext
     /\ tabs'[Guest].account = NoHolder
     /\ \A r \in keyRows' : r.key = FirstKey <=> r.market = FirstId
  \/ /\ service \in {"predictions", "deletions"}
     /\ OnlyService("predictions") /\ PredictionNext
     /\ service = "predictions" => deleting' = {}
     /\ service = "deletions" =>
          /\ \A c \in Call :
               /\ calls'[c].series = NoSeries
               /\ calls'[c].api = "hybrid" => calls'[c].page
          /\ deleting' \in {{}, {{OpenRow}}, {MarketRow}}
     /\ \A c \in Call :
          calls'[c].page \/ (calls'[c].social = "absent" /\ ~calls'[c].text)
  \/ service = "login" /\ OnlyService("login") /\ SignInNext

ServicesSpec == ServicesInit /\ [][ServicesNext]_serviceVars

-----------------------------------------------------------------------------
\* All parts keep their variables in range.
ServicesTypeOK ==
  WeatherTypeOK /\ PrivateListTypeOK /\ PredictionTypeOK /\ SignInTypeOK
=============================================================================
