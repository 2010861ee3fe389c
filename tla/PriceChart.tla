------------------------------ MODULE PriceChart ------------------------------
(***************************************************************************)
(* The price chart of a market's page and of the page that creates one.    *)
(* Candles are queried by token and timeframe, every 10 s; the component   *)
(* shows a skeleton until the first answer, demo data after a failure, and *)
(* otherwise hands the candles to a canvas that is created once, when the  *)
(* component is mounted.  The view follows the latest candle until the     *)
(* user scrolls.                                                           *)
(***************************************************************************)
EXTENDS Naturals

CONSTANTS Symbol, Timeframe,
          NoSymbol,   \* no token
          MaxAnswers, \* bound: answers of Binance
          MaxTimers   \* bound: timers at once

ASSUME ChartConstants == /\ NoSymbol \notin Symbol
                         /\ MaxAnswers \in Nat /\ MaxTimers \in Nat

VARIABLES
  opened,  \* the component is mounted
  sel,     \* the token and the timeframe it is given
  wanted,  \* the indicators are selected
  query,   \* the query cache: the answer, whether the last try failed, in flight
  answers,
  canvas,  \* "none", "attached" to the page, or left in a "detached" element
  deps,    \* what the candles drawn were computed from
  drawn,   \* the candles of the canvas
  visible, \* it shows the indicators
  view     \* the refs fitted, userScrolled, progScroll; the timers; the button

choiceVars == <<opened, sel, wanted>>
candleVars == <<query, answers>>
canvasVars == <<canvas, deps, drawn, visible>>
priceVars == <<choiceVars, candleVars, canvasVars, view>>

Keys == [symbol : Symbol, tf : Timeframe]
Selections == [symbol : Symbol \cup {NoSymbol}, tf : Timeframe]
Unasked == [data |-> 0, failed |-> FALSE, busy |-> FALSE]
NewView == [fitted |-> FALSE, scrolled |-> FALSE, prog |-> FALSE, timers |-> 0,
            follow |-> FALSE]

\* isLoading; usingLive
Loading == sel \in Keys /\ query[sel].busy /\ query[sel].data = 0
Live == sel \in Keys /\ query[sel].data # 0 /\ ~query[sel].failed
\* What rawBars is memoized on: usingLive, liveData and the timeframe.
LiveData == IF sel \in Keys /\ query[sel].data # 0 THEN <<sel, query[sel].data>> ELSE <<>>
MutantDeps == <<Live, <<>>, sel.tf>>
Deps == <<Live, LiveData, sel.tf>>
\* The candles of the answer, or generated ones.
RawBars ==
  [symbol |-> IF Live THEN sel.symbol ELSE NoSymbol, tf |-> sel.tf,
   answer |-> IF Live THEN query[sel].data ELSE 0]

Bars == [symbol : Symbol \cup {NoSymbol}, tf : Timeframe, answer : 0 .. MaxAnswers]
ChartTypeOK ==
  /\ opened \in BOOLEAN /\ sel \in Selections /\ wanted \in BOOLEAN
  /\ query \in [Keys -> [data : 0 .. MaxAnswers, failed : BOOLEAN, busy : BOOLEAN]]
  /\ answers \in 0 .. MaxAnswers
  /\ canvas \in {"none", "attached", "detached"}
  /\ drawn \in {<<>>} \cup Bars
  /\ visible \in BOOLEAN
  /\ view.timers \in 0 .. MaxTimers /\ \A f \in {"fitted", "scrolled", "prog", "follow"} : view[f] \in BOOLEAN

ChartInit ==
  /\ opened = FALSE /\ wanted = TRUE
  /\ sel \in Selections
  /\ query = [k \in Keys |-> Unasked] /\ answers = 0
  /\ canvas = "none" /\ deps = <<>> /\ drawn = <<>> /\ visible = FALSE
  /\ view = NewView

-----------------------------------------------------------------------------
(* A render, and the effects after it.                                     *)

\* Effect 1, after the candles changed: the first time they are fitted to the view;
\* later a new last candle is scrolled to, unless the user scrolled.
Redraw ==
  \/ /\ ~view.fitted
     /\ view' = [view EXCEPT !.fitted = TRUE, !.scrolled = FALSE]
  \/ /\ view.fitted /\ ~view.scrolled /\ view.timers < MaxTimers
     /\ view' = [view EXCEPT !.prog = TRUE, !.timers = @ + 1]
  \/ view.fitted /\ view' = view

\* The skeleton takes the canvas' element away, and the element that comes back
\* gets none: the canvas is created by an effect of the mount alone.
Render ==
  /\ canvas' = CASE opened' /\ ~opened -> IF Loading' THEN "none" ELSE "attached"
                 [] canvas = "attached" /\ Loading' -> "detached"
                 [] OTHER -> canvas
  /\ visible' = (canvas' # "none" /\ wanted')
  /\ deps' = Deps'
  /\ IF canvas' # "none" /\ (~opened \/ deps' # deps)
     THEN drawn' = RawBars' /\ Redraw
     ELSE UNCHANGED <<drawn, view>>

\* A key that comes into use without an answer is asked for at once.
Use(k) ==
  IF k \in Keys /\ query[k].data = 0
  THEN [query EXCEPT ![k] = [Unasked EXCEPT !.busy = TRUE]] ELSE query

-----------------------------------------------------------------------------
Mount ==
  /\ ~opened /\ opened' = TRUE
  /\ query' = Use(sel)
  /\ wanted' = TRUE
  /\ UNCHANGED <<sel, answers>>
  /\ Render

\* The cleanup removes the canvas; the timers' refs are gone.
Unmount ==
  /\ opened /\ opened' = FALSE
  /\ canvas' = "none" /\ deps' = <<>> /\ drawn' = <<>> /\ visible' = FALSE
  /\ view' = NewView
  /\ UNCHANGED <<sel, wanted, candleVars>>

\* Another timeframe is clicked, or the draft asks for another token, or none.
\* Before the page is open: another market.
Select(s) ==
  /\ s # sel
  /\ sel' = s
  /\ UNCHANGED <<opened, wanted, answers>>
  /\ IF opened THEN query' = Use(s) /\ Render ELSE UNCHANGED <<query, canvasVars, view>>

Toggle ==
  /\ opened
  /\ wanted' = ~wanted
  /\ UNCHANGED <<opened, sel, candleVars>>
  /\ Render

\* Every 10 s, and when an answer older than that comes into use.
Fetch ==
  /\ opened /\ sel \in Keys /\ ~query[sel].busy
  /\ query' = [query EXCEPT ![sel].busy = TRUE,
                            ![sel].failed = @ /\ query[sel].data # 0]
  /\ UNCHANGED <<choiceVars, answers>>
  /\ Render

\* The answer, or an error after two retries.  It is kept also when the component
\* has moved on.
CandlesSettle(k) ==
  /\ query[k].busy
  /\ \/ /\ answers < MaxAnswers /\ answers' = answers + 1
        /\ query' = [query EXCEPT ![k] = [Unasked EXCEPT !.data = answers']]
     \/ /\ query' = [query EXCEPT ![k].busy = FALSE, ![k].failed = TRUE]
        /\ UNCHANGED answers
  /\ UNCHANGED choiceVars
  /\ IF opened THEN Render ELSE UNCHANGED <<canvasVars, view>>

\* An answer no component uses is dropped after five minutes.
Collect(k) ==
  /\ ~(opened /\ sel = k) /\ query[k] # Unasked /\ ~query[k].busy
  /\ query' = [query EXCEPT ![k] = Unasked]
  /\ UNCHANGED <<choiceVars, answers, canvasVars, view>>

-----------------------------------------------------------------------------
(* The view.                                                               *)

\* The visible range changed, by the user's hand or at the end of an animation.
RangeChange ==
  /\ canvas # "none" /\ view.fitted /\ ~view.prog
  /\ view' = [view EXCEPT !.scrolled = TRUE, !.follow = TRUE]
  /\ UNCHANGED <<choiceVars, candleVars, canvasVars>>
\* 100 ms after a scroll of its own.
Timer ==
  /\ view.timers > 0
  /\ view' = [view EXCEPT !.prog = FALSE, !.timers = @ - 1]
  /\ UNCHANGED <<choiceVars, candleVars, canvasVars>>
\* "Fit"; "Follow".
ResetZoom ==
  /\ opened /\ ~Loading
  /\ view' = [view EXCEPT !.scrolled = FALSE, !.fitted = TRUE]
  /\ UNCHANGED <<choiceVars, candleVars, canvasVars>>
FollowLatest ==
  /\ opened /\ ~Loading /\ view.follow /\ view.timers < MaxTimers
  /\ view' = [view EXCEPT !.scrolled = FALSE, !.prog = TRUE, !.timers = @ + 1,
                          !.follow = FALSE]
  /\ UNCHANGED <<choiceVars, candleVars, canvasVars>>

ChartNext ==
  \/ Mount \/ Unmount \/ Toggle \/ Fetch
  \/ \E s \in Selections : Select(s)
  \/ \E k \in Keys : CandlesSettle(k) \/ Collect(k)
  \/ RangeChange \/ Timer \/ ResetZoom \/ FollowLatest
ChartSpec == ChartInit /\ [][ChartNext]_priceVars

-----------------------------------------------------------------------------
\* A canvas on the page shows the newest answer for the token and the timeframe
\* selected, and demo candles exactly when there is none or the last try failed,
\* which the badge says; and when the view has stopped following, the button that
\* resumes it is there.
ShownIsSelected ==
  canvas = "attached" =>
    /\ drawn.tf = sel.tf
    /\ drawn.symbol \in {sel.symbol, NoSymbol}
    /\ drawn.symbol # NoSymbol <=> Live
    /\ Live => drawn.answer = query[sel].data
    /\ visible = wanted
    /\ view.scrolled => view.follow
=============================================================================
