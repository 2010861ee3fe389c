------------------------------- MODULE Signals -------------------------------
(***************************************************************************)
(* The page of live signals: the asset selected, the prices of the sources *)
(* polled for it, the window of points of the simulated prediction, and    *)
(* the dialog that asks the backend for a fused one.                       *)
(***************************************************************************)
EXTENDS Naturals, SequencesExt

CONSTANTS Asset, Source,
          Shared,   \* sources asked without naming the asset: chainlink, exchangerate
          Order,    \* the sources, in the order of the cards
          Absent,   \* no asset, or no price
          MaxPoints \* 40

ASSUME SignalsConstants == Order \in Seq(Source) /\ MaxPoints \in Nat \ {0}

VARIABLES
  selected, \* the asset whose dashboard is mounted
  prices,   \* the answer kept by source and parameters: "none", "unpriced", "priced"
  asked,    \* the requests in flight
  points,   \* the points of the chart, each by where its price is from
  pred,     \* where the prices came from that the running prediction was drawn to
  dialog    \* of the fused prediction: its asset, the one asked for, the result's

dashboardVars == <<points, pred, dialog>>
signalVars == <<selected, prices, asked, dashboardVars>>

\* ["source", source.id, source.params]
SourceKey(source, asset) == [source |-> source, of |-> IF source \in Shared THEN Absent ELSE asset]
SourceKeys == {SourceKey(s, a) : s \in Source, a \in Asset}
Used == {SourceKey(s, selected) : s \in Source}

\* The first source with a price; an error keeps the price before it.
Priced == {i \in DOMAIN Order : prices[SourceKey(Order[i], selected)] = "priced"}
ChartPrice ==
  IF Priced = {} THEN Absent
  ELSE SourceKey(Order[CHOOSE i \in Priced : \A j \in Priced : i <= j], selected)

Closed == [of |-> Absent, pending |-> Absent, result |-> Absent]

SignalsTypeOK ==
  /\ selected \in Asset
  /\ prices \in [SourceKeys -> {"none", "unpriced", "priced"}]
  /\ asked \subseteq SourceKeys
  /\ Len(points) <= MaxPoints /\ \A i \in DOMAIN points : points[i] \in SourceKeys
  /\ pred \subseteq SourceKeys
  /\ dialog \in [of : Asset \cup {Absent}, pending : Asset \cup {Absent},
                 result : Asset \cup {Absent}]

\* The first of the list is selected.
SignalsInit ==
  /\ selected \in Asset
  /\ prices = [k \in SourceKeys |-> "none"] /\ asked = Used
  /\ points = <<>> /\ pred = {} /\ dialog = Closed

-----------------------------------------------------------------------------
(* The chart.  A point has the price, and a prediction drawn from the one  *)
(* before towards it; the window keeps the last MaxPoints.                 *)

AddPoint(k) ==
  /\ points' = LET all == Append(points, k)
               IN  IF Len(all) > MaxPoints THEN Tail(all) ELSE all
  /\ pred' = pred \cup {k}

\* Every 0.5 s.
Tick ==
  /\ ChartPrice # Absent
  /\ AddPoint(ChartPrice)
  /\ UNCHANGED <<selected, prices, asked, dialog>>

\* The effect of a price that changed adds a point at once.
Repriced ==
  \/ ChartPrice' # Absent /\ AddPoint(ChartPrice')
  \/ ChartPrice' \in {ChartPrice, Absent} /\ UNCHANGED <<points, pred>>

-----------------------------------------------------------------------------
(* The sources, every 10 s.                                                *)

Poll(k) ==
  /\ k \in Used \ asked
  /\ asked' = asked \cup {k}
  /\ UNCHANGED <<selected, prices, dashboardVars>>
\* An answer, with a price or without one; or an error.
PriceSettles(k) ==
  /\ k \in asked
  /\ asked' = asked \ {k}
  /\ \/ \E p \in {"priced", "unpriced"} : prices' = [prices EXCEPT ![k] = p]
     \/ UNCHANGED prices
  /\ UNCHANGED <<selected, dialog>>
  /\ Repriced
\* After two minutes unused.
DropPrice(k) ==
  /\ k \notin Used \cup asked /\ prices[k] # "none"
  /\ prices' = [prices EXCEPT ![k] = "none"]
  /\ UNCHANGED <<selected, asked, dashboardVars>>

-----------------------------------------------------------------------------
\* Another asset of the menu, no dialog being open: its dashboard is another
\* instance, by its key.
MutantSelectAsset(a) ==
  /\ dialog.of = Absent /\ a # selected
  /\ selected' = a
  /\ asked' = asked \cup {k \in Used' : prices[k] = "none"}
  /\ UNCHANGED <<prices, dialog>>
  /\ Repriced
SelectAsset(a) ==
  /\ dialog.of = Absent /\ a # selected
  /\ selected' = a
  /\ asked' = asked \cup {k \in Used' : prices[k] = "none"}
  /\ UNCHANGED prices
  /\ IF ChartPrice' = Absent THEN points' = <<>> /\ pred' = {}
     ELSE points' = <<ChartPrice'>> /\ pred' = {ChartPrice'}
  /\ dialog' = Closed

-----------------------------------------------------------------------------
(* The dialog.  Its panel keeps the parameters it is mounted with; closing *)
(* it drops the panel, and with it an answer under way.                    *)

OpenFusion ==
  /\ dialog.of = Absent
  /\ dialog' = [Closed EXCEPT !.of = selected]
  /\ UNCHANGED <<selected, prices, asked, points, pred>>
Recalculate ==
  /\ dialog.of # Absent /\ dialog.pending = Absent
  /\ dialog' = [dialog EXCEPT !.pending = dialog.of, !.result = Absent]
  /\ UNCHANGED <<selected, prices, asked, points, pred>>
Predicted ==
  /\ dialog.pending # Absent
  /\ \E r \in {dialog.pending, Absent} :
       dialog' = [dialog EXCEPT !.pending = Absent, !.result = r]
  /\ UNCHANGED <<selected, prices, asked, points, pred>>
CloseFusion ==
  /\ dialog.of # Absent /\ dialog' = Closed
  /\ UNCHANGED <<selected, prices, asked, points, pred>>

SignalsNext ==
  \/ Tick \/ \E k \in SourceKeys : Poll(k) \/ PriceSettles(k) \/ DropPrice(k)
  \/ \E a \in Asset : SelectAsset(a)
  \/ OpenFusion \/ Recalculate \/ Predicted \/ CloseFusion
SignalsSpec == SignalsInit /\ [][SignalsNext]_signalVars

-----------------------------------------------------------------------------
\* Every point of the chart, every price the prediction was ever drawn to and the
\* fused result are of the asset selected, or of a source that names no asset.
SignalsOfAsset ==
  /\ ToSet(points) \cup pred \subseteq Used
  /\ dialog.result \in {selected, Absent}
=============================================================================
