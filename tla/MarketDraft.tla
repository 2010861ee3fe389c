------------------------------ MODULE MarketDraft ------------------------------
(***************************************************************************)
(* The form of /markets/create before it is submitted: the steps, the      *)
(* category with the effects that follow it, and the picker of the         *)
(* resolution source.  The picker builds what it sets from the parameters  *)
(* it was rendered with; a location looked up behind a short link arrives  *)
(* later, and is set over whatever the parameters have become.             *)
(***************************************************************************)
EXTENDS Naturals

CONSTANTS Category, \* the categories offered
          Token,    \* the bet tokens
          Ether,    \* the first of them
          Bitcoin,  \* the one charts and price sources fall back on
          Place,    \* the places a maps link may lead to
          Field,    \* the parameters without an effect on others: date, ...
          Nothing

VARIABLES
  step, category, token,
  entered,    \* the panels that ask for text and were given a valid one
  params,     \* resolutionParams
  chart,      \* chartSymbolToDisplay, as a token
  lookup,     \* the parameters a location was looked up with, or Nothing
  late        \* history: a location arrived after the source was changed

entries == <<category, token, entered>>
draftVars == <<step, entries, params, chart, lookup, late>>

\* RESOLUTION_TYPE_BY_CATEGORY
TypeOf == [crypto |-> "price_above", general |-> "ai_sentiment",
           sports |-> "sports_winner", weather |-> "weather_rained"]
Types == {TypeOf[c] : c \in DOMAIN TypeOf} \cup {"crypto_news_sentiment"}

ASSUME DraftConstants ==
  /\ "crypto" \in Category /\ Category \subseteq DOMAIN TypeOf
  /\ {Ether, Bitcoin} \subseteq Token

\* ResolutionSourceParams.  A symbol is a token quoted for an exchange, as in
\* BTCUSDT, or for a data feed, as in BTC_USD.
Params == [type : Types, symbol : Token \cup {Nothing}, quote : {"USDT", "_USD"},
           source : {"binance", "coingecko", "chainlink"},
           coords : Place \cup {Nothing}, link : Place \cup {Nothing},
           filled : SUBSET Field]
NoParams(type) == [type |-> type, symbol |-> Nothing, quote |-> "USDT",
                   source |-> "binance", coords |-> Nothing, link |-> Nothing,
                   filled |-> {}]

DraftTypeOK ==
  /\ step \in 1 .. 6 /\ category \in Category /\ token \in Token
  /\ entered \subseteq {"question", "timeline"}
  /\ params \in Params /\ chart \in Token /\ lookup \in Params \cup {Nothing}
  /\ late \in BOOLEAN

\* After the first effects: the symbol follows the first token.
DraftInit ==
  /\ step = 1 /\ category = "crypto" /\ entered = {}
  /\ token = Ether
  /\ params = [NoParams("price_above") EXCEPT !.symbol = token]
  /\ chart = token /\ lookup = Nothing
  /\ late = FALSE

-----------------------------------------------------------------------------
(* The steps.                                                              *)

Panels == IF category = "crypto"
          THEN <<"category", "token", "question", "timeline", "resolution", "deploy">>
          ELSE <<"category", "question", "timeline", "resolution", "deploy">>
TotalSteps == IF category = "crypto" THEN 6 ELSE 5
Shown(panel) == Panels[step] = panel

\* validateStep
StepIsValid == \A panel \in {"question", "timeline"} : Shown(panel) => panel \in entered
GoNext ==
  /\ step < TotalSteps /\ StepIsValid
  /\ step' = step + 1
  /\ UNCHANGED <<entries, params, chart, lookup, late>>
GoBack ==
  /\ 1 < step /\ step < TotalSteps
  /\ step' = step - 1
  /\ UNCHANGED <<entries, params, chart, lookup, late>>

-----------------------------------------------------------------------------
(* Category, token and parameters; and the effects on every change of them.*)

\* The chart follows the symbol of a crypto market, unless it is a feed's.
ChartFor(c, p) ==
  IF c # "crypto" \/ p.quote = "_USD" THEN chart
  ELSE IF p.symbol = Nothing THEN Bitcoin ELSE p.symbol

\* What the chart's effect depends on.
ChartInputs(c, p) == <<c, p.symbol, p.quote, p.type>>
SetParams(c, p) ==
  /\ params' = p
  /\ chart' = IF ChartInputs(c, p) = ChartInputs(category, params) THEN chart
              ELSE ChartFor(c, p)

\* The parameters for a category and a token.
MutantFollow(c, t) ==
  [params EXCEPT !.type = TypeOf[c],
                 !.symbol = IF c = "crypto" /\ category # "crypto" THEN t ELSE @,
                 !.quote = IF c = "crypto" /\ category # "crypto" THEN "USDT" ELSE @]
Follow(c, t) ==
  [params EXCEPT !.type = TypeOf[c],
                 !.symbol = IF c = "crypto" THEN t ELSE @,
                 !.quote = IF c = "crypto" THEN "USDT" ELSE @]

PickCategory(c) ==
  /\ Shown("category") /\ c # category
  /\ category' = c
  /\ SetParams(c, Follow(c, token))
  /\ UNCHANGED <<step, token, entered, lookup, late>>
PickToken(t) ==
  /\ Shown("token") /\ t # token
  /\ token' = t
  /\ SetParams(category, Follow(category, t))
  /\ UNCHANGED <<step, category, entered, lookup, late>>
PickChart(t) ==
  /\ Shown("resolution") /\ category = "crypto"
  /\ chart' = t
  /\ UNCHANGED <<step, entries, params, lookup, late>>

\* handleTypeChange keeps nothing of the other parameters.
OffersType(type) == category = "crypto" => type = "price_above"
PickSource(type) ==
  /\ Shown("resolution") /\ OffersType(type)
  /\ SetParams(category, NoParams(type))
  /\ UNCHANGED <<step, entries, lookup, late>>

\* handleParamChange
ChangeParams(p) ==
  /\ Shown("resolution")
  /\ SetParams(category, p)
  /\ UNCHANGED <<step, entries, late>>

FillField(f) ==
  /\ ChangeParams([params EXCEPT !.filled = @ \cup {f}])
  /\ UNCHANGED lookup

\* A price source: the symbol is the locked one, or the one typed, or BTC's,
\* and is quoted as a feed is only when the source is one.
PickPriceSource(src) ==
  /\ params.type = "price_above"
  /\ LET base == IF category = "crypto" THEN token
                 ELSE IF params.symbol = Nothing THEN Bitcoin ELSE params.symbol
     IN  ChangeParams([params EXCEPT
           !.source = src, !.symbol = base,
           !.quote = IF src = "chainlink" THEN "_USD"
                     ELSE IF category = "crypto" THEN "USDT" ELSE @])
  /\ UNCHANGED lookup
TypeSymbol(t) ==
  /\ params.type = "price_above" /\ category # "crypto"
  /\ ChangeParams([params EXCEPT !.symbol = t, !.quote = "USDT"])
  /\ UNCHANGED lookup

\* A long link holds its coordinates.  The link is set first and the
\* coordinates are set over the parameters from before: the link is lost.
\* The input is disabled during a lookup (until the panel is left and entered
\* again, which is left out: one lookup at a time).
PasteLongLink(p) ==
  /\ params.type = "weather_rained" /\ lookup = Nothing
  /\ ChangeParams([params EXCEPT !.coords = p])
  /\ UNCHANGED lookup
PasteShortLink(p) ==
  /\ params.type = "weather_rained" /\ lookup = Nothing
  /\ ChangeParams([params EXCEPT !.link = p])
  /\ UNCHANGED lookup
\* The field loses the focus: its location is looked up.
LookUp ==
  /\ Shown("resolution") /\ params.type = "weather_rained"
  /\ params.link # Nothing /\ lookup = Nothing
  /\ lookup' = params
  /\ UNCHANGED <<step, entries, params, chart, late>>
\* The page may by then show another panel, and the parameters be others.
LocationFound ==
  /\ lookup # Nothing
  /\ SetParams(category, [lookup EXCEPT !.coords = lookup.link])
  /\ lookup' = Nothing
  /\ late' = (late \/ lookup.type # params.type \/ lookup.symbol # params.symbol)
  /\ UNCHANGED <<step, entries>>
LookupFails ==
  /\ lookup # Nothing
  /\ lookup' = Nothing
  /\ UNCHANGED <<step, entries, params, chart, late>>

-----------------------------------------------------------------------------
\* The question's length, or the order of the times, becomes valid or invalid.
Enter(panel) ==
  /\ Shown(panel)
  /\ entered' \in {entered \cup {panel}, entered \ {panel}}
  /\ UNCHANGED <<step, category, token, params, chart, lookup, late>>
CloseTimePasses ==
  /\ "timeline" \in entered
  /\ entered' = entered \ {"timeline"}
  /\ UNCHANGED <<step, category, token, params, chart, lookup, late>>

DraftNext ==
  \/ GoNext \/ GoBack
  \/ \E c \in Category : PickCategory(c)
  \/ \E t \in Token : PickToken(t) \/ PickChart(t) \/ TypeSymbol(t)
  \/ \E type \in Types : PickSource(type)
  \/ \E f \in Field : FillField(f)
  \/ \E src \in {"binance", "coingecko", "chainlink"} : PickPriceSource(src)
  \/ \E p \in Place : PasteLongLink(p) \/ PasteShortLink(p)
  \/ LookUp \/ LocationFound \/ LookupFails
  \/ Enter("question") \/ Enter("timeline") \/ CloseTimePasses

DraftSpec == DraftInit /\ [][DraftNext]_draftVars

-----------------------------------------------------------------------------
\* The market of a token is resolved by the price of that token, through all
\* changes of category, token, source and price source, back and forth; unless
\* a location was set over newer parameters.
SymbolIsOfToken ==
  (category = "crypto" /\ ~late) =>
    /\ params.type = "price_above"
    /\ params.symbol \in {token, Nothing}
=============================================================================
