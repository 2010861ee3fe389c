------------------------------ MODULE Predictions ------------------------------
(***************************************************************************)
(* Predictions of the markets: POST /api/predict, which keeps its result   *)
(* for the market, whatever series the next client posts; POST             *)
(* /api/predict/hybrid, whose engine has one context, built from the first *)
(* series it is given; POST /api/markets/:id/prediction; and the page of   *)
(* one market, which lists and draws what is stored for its row, and asks  *)
(* for hybrid predictions and for an analysis.                             *)
(***************************************************************************)
EXTENDS Naturals, Sequences, FiniteSets

CONSTANTS MarketRow,   \* ids of the rows in table markets
          MarketIdOf,  \* their on_chain_market_id, or 0
          OpenRow,     \* the one whose page is open
          NoMarket,    \* no market_id
          Series,      \* time series
          NoSeries,    \* none, or an empty one
          Call,        \* requests
          Ttl,         \* PREDICTION_CACHE_TTL
          MaxClock     \* bound: the time

ASSUME PredictionConstants ==
  /\ MarketRow \subseteq Nat \ {0} /\ OpenRow \in MarketRow
  /\ MarketIdOf \in [MarketRow -> Nat]
  /\ NoSeries \notin Series /\ NoMarket \notin Nat
  /\ Ttl \in Nat /\ MaxClock \in Nat

VARIABLES
  clock,     \* in seconds
  kept,      \* Cache: per market the series its prediction is of, and since when
  context,   \* phpe_ctx: the series it was built from, or NoSeries
  calls,     \* the requests
  stored,    \* table predictions
  listed,    \* the page's predictions, as last fetched, and
  analysed,  \* the row that the analysis it shows is of, or NoMarket
  posted,    \* history: which series were posted for which market
  tableRows, \* table markets; a row that is deleted does not come back
  deleting   \* the requests to delete markets under way, each the set of its rows

memoryVars == <<kept, context, calls>>
pageViewVars == <<listed, analysed>>
deletionVars == <<tableRows, deleting>>
predictionVars == <<clock, memoryVars, stored, pageViewVars, posted, deletionVars>>

\* What requests may name: rows, and ids of the chain.
Named == MarketRow \cup ({MarketIdOf[r] : r \in MarketRow} \ {0})
Apis == {"predict", "hybrid", "set", "ai"}
\* text, social: sentiment_text and social_texts are given; page: by the open page;
\* heard: the sentiment of the text is in the result; ai: the provider answers; ctx:
\* the context used in this run of the server, or NoSeries.
CallState ==
  [api : Apis,
   step : {"idle", "lookup", "keep", "context", "build", "fetch", "stamp", "insert",
           "invalidate", "done", "failed"},
   market : Named \cup {NoMarket}, series : Series \cup {NoSeries}, page : BOOLEAN,
   text : BOOLEAN, social : {"absent", "none", "some"}, heard : BOOLEAN, ai : BOOLEAN,
   ctx : Series \cup {NoSeries}, at : Nat]
IdleCall ==
  [api |-> "set", step |-> "idle", market |-> NoMarket, series |-> NoSeries,
   page |-> FALSE, text |-> FALSE, social |-> "absent", heard |-> FALSE, ai |-> FALSE,
   ctx |-> NoSeries, at |-> 0]
NotKept == [series |-> NoSeries, at |-> 0]
Prediction == [call : Call, api : Apis, market : MarketRow, series : Series \cup {NoSeries},
               page : BOOLEAN, at : Nat]

PredictionTypeOK ==
  /\ clock \in 0 .. MaxClock
  /\ kept \in [Named -> [series : Series \cup {NoSeries}, at : Nat]]
  /\ context \in Series \cup {NoSeries}
  /\ calls \in [Call -> CallState]
  /\ stored \subseteq Prediction
  /\ listed \in Seq(Prediction)
  /\ analysed \in MarketRow \cup {NoMarket}
  /\ posted \subseteq Named \X Series
  /\ tableRows \subseteq MarketRow /\ deleting \subseteq SUBSET MarketRow

PredictionInit ==
  /\ clock = 0
  /\ kept = [m \in Named |-> NotKept] /\ context = NoSeries
  /\ calls = [c \in Call |-> IdleCall]
  /\ stored = {} /\ listed = <<>> /\ analysed = NoMarket /\ posted = {}
  /\ tableRows = MarketRow /\ deleting = {}

At(c, step) == calls[c].step = step
Post(c, request) == At(c, "idle") /\ calls' = [calls EXCEPT ![c] = request]
Goes(c, step) == calls' = [calls EXCEPT ![c].step = step]

-----------------------------------------------------------------------------
(* POST /api/predict.                                                      *)

\* An empty series has a default prediction, which is not kept.
PostPredict(c, m, s) ==
  /\ Post(c, [IdleCall EXCEPT !.api = "predict", !.market = m, !.series = s,
                !.step = IF m = NoMarket THEN "done"
                         ELSE IF s = NoSeries THEN "stamp" ELSE "lookup"])
  /\ posted' = IF m # NoMarket /\ s # NoSeries THEN posted \cup {<<m, s>>} ELSE posted
  /\ UNCHANGED <<clock, kept, context, stored, pageViewVars, deletionVars>>

MutantKeyOf(m) == CHOOSE k \in Named : TRUE
\* HashMap<i64, CachedPrediction>
KeyOf(m) == m

\* get_prediction
Hit(m) == kept[KeyOf(m)].series # NoSeries /\ clock < kept[KeyOf(m)].at + Ttl
Lookup(c) ==
  /\ At(c, "lookup")
  /\ LET m == calls[c].market
     IN  calls' = IF Hit(m)
                  THEN [calls EXCEPT ![c].step = "stamp", ![c].series = kept[KeyOf(m)].series]
                  ELSE [calls EXCEPT ![c].step = "keep"]
  /\ UNCHANGED <<clock, kept, context, stored, pageViewVars, posted, deletionVars>>
\* Cache.set_prediction, of the result computed meanwhile.
Keep(c) ==
  /\ At(c, "keep") /\ Goes(c, "stamp")
  /\ kept' = [kept EXCEPT ![KeyOf(calls[c].market)] =
                [series |-> calls[c].series, at |-> clock]]
  /\ UNCHANGED <<clock, context, stored, pageViewVars, posted, deletionVars>>

\* A row of the market is edited, or its status set; every 300 s all expired go.
InvalidateMarket(m) ==
  /\ kept' = [kept EXCEPT ![KeyOf(m)] = NotKept]
  /\ UNCHANGED <<clock, context, calls, stored, pageViewVars, posted, deletionVars>>
CleanupExpired ==
  /\ kept' = [m \in Named |-> IF clock < kept[m].at + Ttl THEN kept[m] ELSE NotKept]
  /\ UNCHANGED <<clock, context, calls, stored, pageViewVars, posted, deletionVars>>

-----------------------------------------------------------------------------
(* POST /api/predict/hybrid.                                               *)

HybridOf(m, s, text, social, page) ==
  [IdleCall EXCEPT !.api = "hybrid", !.market = m, !.series = s, !.text = text,
     !.social = social, !.page = page,
     !.step = IF s = NoSeries THEN "fetch" ELSE "context"]
PostHybrid(c, m, s, text, social) ==
  /\ Post(c, HybridOf(m, s, text, social, FALSE))
  /\ UNCHANGED <<clock, kept, context, stored, pageViewVars, posted, deletionVars>>

\* get_or_init_context: the read lock; the context is built without a lock; the write
\* lock, under which it is looked at again.
ReadContext(c) ==
  /\ At(c, "context")
  /\ calls' = [calls EXCEPT ![c].step = IF context = NoSeries THEN "build" ELSE "fetch",
                            ![c].ctx = context]
  /\ UNCHANGED <<clock, kept, context, stored, pageViewVars, posted, deletionVars>>
MutantBuilt(s) == s
Built(s) == IF context = NoSeries THEN s ELSE context
WriteContext(c) ==
  /\ At(c, "build")
  /\ context' = Built(calls[c].series)
  /\ calls' = [calls EXCEPT ![c].step = "fetch", ![c].ctx = context']
  /\ UNCHANGED <<clock, kept, stored, pageViewVars, posted, deletionVars>>

\* The text is heard only if there is no list of texts, not even an empty one.  A
\* provider or a price that fails is left out.
FetchSignals(c, ai) ==
  /\ At(c, "fetch")
  /\ calls' = [calls EXCEPT
       ![c].ai = ai,
       ![c].heard = calls[c].text /\ calls[c].social = "absent" /\ ai,
       ![c].step = IF calls[c].market = NoMarket THEN "done" ELSE "stamp"]
  /\ UNCHANGED <<clock, kept, context, stored, pageViewVars, posted, deletionVars>>

-----------------------------------------------------------------------------
(* MarketService::set_prediction, of all four.                             *)

PostSet(c, m) ==
  /\ Post(c, [IdleCall EXCEPT !.market = m, !.step = "stamp"])
  /\ UNCHANGED <<clock, kept, context, stored, pageViewVars, posted, deletionVars>>
\* POST /api/markets/:id/ai/predict; the provider may fail.
PostAi(c, m, ai) ==
  /\ Post(c, [IdleCall EXCEPT !.api = "ai", !.market = m, !.ai = ai,
                              !.step = IF ai THEN "stamp" ELSE "failed"])
  /\ UNCHANGED <<clock, kept, context, stored, pageViewVars, posted, deletionVars>>
Stamp(c) ==
  /\ At(c, "stamp")
  /\ calls' = [calls EXCEPT ![c].step = "insert", ![c].at = clock]
  /\ UNCHANGED <<clock, kept, context, stored, pageViewVars, posted, deletionVars>>
\* The table refers to markets: a market that is no row is an error.
Insert(c) ==
  /\ At(c, "insert")
  /\ LET r == calls[c]
     IN  IF r.market \in tableRows
         THEN /\ stored' = stored \cup
                   {[call |-> c, api |-> r.api, market |-> r.market, series |-> r.series,
                     page |-> r.page, at |-> r.at]}
              /\ Goes(c, IF r.api = "set" THEN "invalidate" ELSE "done")
         ELSE Goes(c, "failed") /\ UNCHANGED stored
  /\ UNCHANGED <<clock, kept, context, pageViewVars, posted, deletionVars>>
Invalidate(c) ==
  /\ At(c, "invalidate") /\ Goes(c, "done")
  /\ kept' = [kept EXCEPT ![KeyOf(calls[c].market)] = NotKept]
  /\ UNCHANGED <<clock, context, stored, pageViewVars, posted, deletionVars>>
\* set_prediction ends with a read of the row, which may be gone by then.
Vanished(c) ==
  /\ At(c, "invalidate") /\ calls[c].market \notin tableRows /\ Goes(c, "failed")
  /\ UNCHANGED <<clock, kept, context, stored, pageViewVars, posted, deletionVars>>

\* The server's memory is gone, and its requests fail.
ServerRestart ==
  /\ kept' = [m \in Named |-> NotKept] /\ context' = NoSeries
  /\ calls' = [c \in Call |->
                  [calls[c] EXCEPT !.ctx = NoSeries,
                                   !.step = IF @ \in {"idle", "done"} THEN @ ELSE "failed"]]
  /\ deleting' = {}
  /\ UNCHANGED <<clock, stored, pageViewVars, posted, tableRows>>
Second ==
  /\ clock < MaxClock /\ clock' = clock + 1
  /\ UNCHANGED <<memoryVars, stored, pageViewVars, posted, deletionVars>>

-----------------------------------------------------------------------------
(* DELETE /api/admin/markets/:id and DELETE /api/admin/clear-markets, each *)
(* in statements of their own: first the predictions, then the rows.       *)

DeletePredictions(D) ==
  /\ stored' = {p \in stored : p.market \notin D}
  /\ deleting' = deleting \cup {D}
  /\ UNCHANGED <<clock, memoryVars, pageViewVars, posted, tableRows>>
\* The statement is refused while a prediction refers to one of the rows; and any
\* statement from the first to this one may fail.
DeleteRows(D) ==
  /\ D \in deleting /\ deleting' = deleting \ {D}
  /\ \/ UNCHANGED tableRows
     \/ /\ \A p \in stored : p.market \notin D
        /\ tableRows' = tableRows \ D
  /\ UNCHANGED <<clock, memoryVars, stored, pageViewVars, posted>>

-----------------------------------------------------------------------------
(* The page of OpenRow.                                                    *)

\* marketId={chainIdForContract || id}
PageMarketId == IF MarketIdOf[OpenRow] > 0 THEN MarketIdOf[OpenRow] ELSE OpenRow

\* "Analyze", disabled while a prediction is pending.  social_texts is [].
Analyze(c, text) ==
  /\ \A d \in Call : calls[d].page => At(d, "done") \/ At(d, "failed")
  /\ Post(c, HybridOf(PageMarketId, NoSeries, text, "none", TRUE))
  /\ UNCHANGED <<clock, kept, context, stored, pageViewVars, posted, deletionVars>>
\* market_ai_analysis: of the row with this id, or else of the market with it.
AnalysedRows(id) ==
  IF id \in tableRows THEN {id} ELSE {r \in tableRows : MarketIdOf[r] = id}
\* "Generate AI analysis"
GenerateAnalysis ==
  /\ analysed' \in AnalysedRows(PageMarketId)
  /\ UNCHANGED <<clock, memoryVars, stored, listed, posted, deletionVars>>

MutantListings(S) ==
  {s \in [1 .. Cardinality(S) -> S] : \A p \in S : \E i \in DOMAIN s : s[i] = p}
\* ORDER BY timestamp DESC
Listings(S) ==
  {s \in [1 .. Cardinality(S) -> S] :
     /\ \A p \in S : \E i \in DOMAIN s : s[i] = p
     /\ \A i, j \in DOMAIN s : i < j => s[i].at >= s[j].at}
\* Every 30 s.
ListPredictions ==
  /\ listed' \in Listings({p \in stored : p.market = OpenRow})
  /\ UNCHANGED <<clock, memoryVars, stored, analysed, posted, deletionVars>>
\* The times of the history's points, oldest first; it is drawn from two on.
HistoryTimes ==
  IF Len(listed) < 2 THEN <<>>
  ELSE [i \in 1 .. Len(listed) |-> listed[Len(listed) + 1 - i].at]

PredictionNext ==
  \/ \E c \in Call :
       \/ \E m \in Named \cup {NoMarket}, s \in Series \cup {NoSeries} :
            \/ PostPredict(c, m, s)
            \/ \E text \in BOOLEAN, social \in {"absent", "none", "some"} :
                 PostHybrid(c, m, s, text, social)
       \/ \E m \in Named : PostSet(c, m) \/ \E ai \in BOOLEAN : PostAi(c, m, ai)
       \/ \E b \in BOOLEAN : FetchSignals(c, b) \/ Analyze(c, b)
       \/ Lookup(c) \/ Keep(c) \/ ReadContext(c) \/ WriteContext(c)
       \/ Stamp(c) \/ Insert(c) \/ Invalidate(c) \/ Vanished(c)
  \/ \E m \in Named : InvalidateMarket(m)
  \/ \E D \in {{m} : m \in MarketRow} \cup {MarketRow} :
       DeletePredictions(D) \/ DeleteRows(D)
  \/ CleanupExpired \/ ServerRestart \/ Second
  \/ GenerateAnalysis \/ ListPredictions
PredictionSpec == PredictionInit /\ [][PredictionNext]_predictionVars

-----------------------------------------------------------------------------
\* All hybrid predictions of one run of the server are made in one context, though
\* several requests may find none and each build its own.
OneContext ==
  \A c \in Call : calls[c].ctx \in {NoSeries, context}

\* What is stored as a market's prediction was computed from a series posted for that
\* market: by this request, or by the one whose result was kept.
PredictedFromPosted ==
  \A p \in stored :
    p.api = "predict" /\ p.series # NoSeries => <<p.market, p.series>> \in posted

\* A prediction is computed from what the market's clients posted, and in a context
\* that all predictions share.
FromPostedInContext == PredictedFromPosted /\ OneContext

\* The prediction that the page shows as the market's latest, which has the time of the
\* last point of its history, never gives way to an older one as long as it is stored,
\* though rows are stamped before they are inserted and may come in the other order.
LatestStays ==
  [][listed # <<>> /\ listed[1] \in stored' =>
       /\ listed' # <<>> /\ listed'[1].at >= listed[1].at
       /\ HistoryTimes' # <<>> => HistoryTimes'[Len(listed')] = listed'[1].at]_listed

\* services/market.rs:102: "Deletes a single market and its related data (predictions,
\* conditions, resolutions)."  The predictions that the page showed are stored unless
\* the market is deleted, or is being deleted.
DeletedWhole ==
  \A i \in DOMAIN listed :
    \/ listed[i] \in stored \/ OpenRow \notin tableRows
    \/ \E D \in deleting : OpenRow \in D

\* docs/audit.md: "Predictions/conditions API: use market.id (always backend ID)".  The
\* predictions the page asks for are stored for its row, and its analysis is of it.
PageAsksForItsMarket ==
  /\ \A p \in stored : p.page => p.market = OpenRow
  /\ analysed \in {OpenRow, NoMarket}

\* README.md:47: the API "fuses 3 signals: PHPE time-series (35%) + AI sentiment
\* (40%)".  A text that the user gave, and the provider answered for, is heard.
TextIsHeard ==
  \A c \in Call : At(c, "done") /\ calls[c].page /\ calls[c].text /\ calls[c].ai =>
                    calls[c].heard
=============================================================================
