--------------------------------- MODULE MCWeb ---------------------------------
(***************************************************************************)
(* The pages of the web app with the API behind them, a betting pool alone *)
(* and behind the positions page, and the scripts that deploy the system,  *)
(* on small instances.  A behavior exercises one of these parts.           *)
(***************************************************************************)
EXTENDS PositionsPage, MarketDraft, MarketCreation, MarketFilters, Deployment,
        PriceChart, Signals

CONSTANTS Parts, Row, ChainIds, MaxEdits, PageSize, MaxChanges, MaxFails

\* What MarketPage and MarketList say of their constants.
ASSUME PageConstants == /\ Row \subseteq Nat \ {0} /\ ChainIds \subseteq [Row -> Nat]
                        /\ MaxEdits \in Nat
ASSUME ListConstants == PageSize \in Nat \ {0} /\ MaxChanges \in Nat /\ MaxFails \in Nat

\* Total is the sum its name says, on every small ledger.
ASSUME \A f \in [User -> 0 .. 3] :
         Total(f) = FoldFunction(LAMBDA a, b : a + b, 0, f)

\* The order of the cards: a source of the asset's own, and one that is not.
Cards == <<"binance", "chainlink">>

\* Two rows: the first market has its row's number on the chain, or the second
\* market has that number and the first one none.
Numberings == {<<1, 0>>, <<0, 1>>}

VARIABLES
  part,
  chainId, row, cached, reader, at, seen, failed, request, stream, btn, asksToBet,
  sent, watched, told,
  table, newest, cache, clear, list, fetch, reading, changes, fails

pageVars == <<chainId, row, cached, reader, at, seen, failed, request, stream, btn,
              asksToBet, sent, watched, told>>
browserVars == <<walletVars, dataVars, claimVars, crossed>>
listVars == <<table, newest, cache, clear, list, fetch, reading, changes, fails>>
webVars == <<part, positionVars, pageVars, draftVars, creationVars, filterVars,
             listVars, deployVars, priceVars, signalVars>>

-----------------------------------------------------------------------------
Page == INSTANCE MarketPage WITH prompts <- asksToBet
List == INSTANCE MarketList WITH rows <- table

-----------------------------------------------------------------------------
\* A part that does not run has one initial state.
WebInit ==
  /\ part \in Parts
  /\ PositionsInit
  /\ Page!PageInit /\ DraftInit /\ CreationInit
  /\ FilterInit /\ List!ListInit /\ DeployInit
  /\ ChartInit /\ SignalsInit
  /\ part # "market" => chainId = <<0, 1>>
  /\ part # "creation" => form.question = "rain"
  /\ part # "filters" => url = Bare
  /\ part # "list" => newest = 0
  /\ sel = [symbol |-> NoSymbol, tf |-> "1h"]
  /\ part # "signals" => selected = "btc"

\* The other parts rest.
Only(p) ==
  /\ part = p /\ UNCHANGED part
  /\ p # "positions" => UNCHANGED browserVars
  /\ p \notin {"pool", "positions"} => UNCHANGED vars
  /\ p # "market" => UNCHANGED pageVars
  /\ p # "draft" => UNCHANGED draftVars
  /\ p # "creation" => UNCHANGED creationVars
  /\ p # "filters" => UNCHANGED filterVars
  /\ p # "list" => UNCHANGED listVars
  /\ p # "deploy" => UNCHANGED deployVars
  /\ p # "chart" => UNCHANGED priceVars
  /\ p # "signals" => UNCHANGED signalVars

\* Behind the positions page a bettor of this browser stakes at most 1, and nobody
\* else does.  A draft is followed until a late location overwrites it.  Markets are
\* created by two submissions, or by one with a seeded row and a script's run; rows are
\* edited and deleted among at most three ids, beside one submission or the scripts.  The
\* market page that is opened is the first row's; the second row changes once the first
\* is gone; another request fills the first row's cache while no bet has been asked for,
\* and one bet at a time is in the wallet.  The rows of the list change twice, or once
\* with a request that fails.  One token is looked at in both timeframes.
WebNext ==
  \/ Only("pool") /\ Next
  \/ /\ Only("positions") /\ PositionsNext
     /\ \A o \in Sides, u \in User : stake'[o][u] <= IF u \in Visitor THEN 1 ELSE 0
  \/ /\ Only("market") /\ Page!PageNext
     /\ at' # 2 /\ (row'[1] # Nothing => row'[2] = row[2])
     /\ reader' # Nothing => reader'.of = 1 /\ asksToBet' \cup sent' = {}
     /\ Cardinality(asksToBet') <= 1
  \/ Only("draft") /\ ~late /\ DraftNext
  \/ /\ Only("creation") /\ CreationNext
     /\ Len(tx') <= 1 \/ runs' + seeds' = 0
     /\ Len(rows') <= 3
     /\ edited' # {} \/ Deleted \in Range(rows') =>
          Len(tx') = 0 \/ Len(tx') + runs' + seeds' <= 1
  \/ Only("filters") /\ FilterNext
  \/ /\ Only("list") /\ List!ListNext
     /\ fails' + changes' <= MaxChanges
  \/ Only("deploy") /\ DeployNext
  \/ /\ Only("chart") /\ ChartNext
     /\ sel'.symbol = "btc" \/ sel'.tf = "1h"
  \/ Only("signals") /\ SignalsNext

WebSpec == WebInit /\ [][WebNext]_webVars

\* PageFairness and ListFairness, each where its part runs.
WebFairSpec ==
  /\ WebSpec
  /\ WF_pageVars(part = "market" /\ Page!OtherCaches)
  /\ WF_pageVars(part = "market" /\ Page!Poll)
  /\ SF_pageVars(part = "market" /\ Page!ServeRead)
  /\ SF_pageVars(part = "market" /\ (Page!Answer \/ Page!AnswerNotFound))
  /\ \A r \in Row : SF_pageVars(part = "market" /\ Page!CacheExpires(r))
  /\ WF_listVars(part = "list" /\ List!Refetch)
  /\ WF_listVars(part = "list" /\ List!Ask)
  /\ WF_listVars(part = "list" /\ List!Answer)
  /\ WF_listVars(part = "list" /\ List!ClearCache)
  /\ \A k \in List!Pages : WF_listVars(part = "list" /\ List!Expire(k))

-----------------------------------------------------------------------------
\* All parts keep their variables in range.
WebTypeOK ==
  /\ PositionsTypeOK /\ Page!PageTypeOK /\ DraftTypeOK /\ CreationTypeOK
  /\ FilterTypeOK /\ List!ListTypeOK /\ DeployTypeOK /\ ChartTypeOK /\ SignalsTypeOK

\* As stated in MarketPage.
PageCatchesUp == part = "market" => Page!PageCatchesUp
BetsReachShownMarket == Page!BetsReachShownMarket
\* As stated in MarketList.
ListCatchesUp == part = "list" => List!ListCatchesUp
=============================================================================
