----------------------------- MODULE WeatherCharts -----------------------------
(***************************************************************************)
(* The two charts of weather at a place.  The "live" one, beside the       *)
(* parameters of a weather market that is being created, asks for the      *)
(* current weather at once and every 0.5 s, whether or not it was answered *)
(* before, and adds a point per answer.  The "detail" one, of a weather    *)
(* market's page, asks once for the days before and after.  Both ask again *)
(* when the place changes, in a new run of an effect whose cleanup cancels *)
(* the run before; neither forgets what it shows.                          *)
(***************************************************************************)
EXTENDS Naturals, Sequences

CONSTANTS Place,
          NoPlace,   \* no finite latitude and longitude
          MaxPoints, \* MAX_POINTS
          MaxVisits, \* bound: runs of the effect
          MaxAsked   \* bound: requests

ASSUME WeatherConstants ==
  /\ NoPlace \notin Place
  /\ MaxPoints \in Nat \ {0} /\ MaxVisits \in Nat /\ MaxAsked \in Nat

VARIABLES
  kind,      \* which chart it is
  place,     \* the place it is given; with none it is not mounted
  metaPlace, \* of the market's metadata, and of the link pasted in the page
  pasted,
  visits,    \* per run of the effect its place; the last one is not cancelled
  since,     \* the runs before this mount
  asked,     \* requests so far
  flying,    \* those not answered
  points,    \* the answers shown
  chart,     \* the states error and loading
  box,       \* the size of its element, or 0
  canvas     \* the size of the canvas and the answers drawn on it

placeVars == <<kind, place, metaPlace, pasted>>
askVars == <<visits, since, asked, flying>>
shownVars == <<points, chart>>
weatherVars == <<placeVars, askVars, shownVars, box, canvas>>

\* An answer: which request, of which run; a history may be empty of days.
Request == [n : 1 .. MaxAsked, visit : 1 .. MaxVisits]
Point == [n : 1 .. MaxAsked, visit : 1 .. MaxVisits, empty : BOOLEAN]
Boxes == 0 .. 2
NewChart == [error |-> FALSE, loading |-> TRUE]
NoCanvas == [size |-> 0, drawn |-> <<>>]

WeatherTypeOK ==
  /\ kind \in {"live", "detail"}
  /\ {place, metaPlace, pasted} \subseteq Place \cup {NoPlace}
  /\ visits \in Seq(Place) /\ Len(visits) <= MaxVisits
  /\ since \in 0 .. Len(visits)
  /\ asked \in 0 .. MaxAsked
  /\ flying \subseteq Request
  /\ points \in Seq(Point)
  /\ Len(points) <= IF kind = "live" THEN MaxPoints ELSE 1
  /\ chart \in [error : BOOLEAN, loading : BOOLEAN]
  /\ box \in Boxes
  /\ canvas \in [size : Boxes, drawn : Seq(Point)]

WeatherInit ==
  /\ kind \in {"live", "detail"}
  /\ place = NoPlace /\ metaPlace = NoPlace /\ pasted = NoPlace
  /\ visits = <<>> /\ since = 0 /\ asked = 0 /\ flying = {}
  /\ points = <<>> /\ chart = NewChart
  /\ box = 1 /\ canvas = NoCanvas

-----------------------------------------------------------------------------
(* The canvas.                                                             *)

\* The days shown: without any, the detail chart has no canvas.
HasCanvas(shown) == kind = "live" \/ (shown # <<>> /\ ~shown[1].empty)
\* A line takes two points; the days of a history make one.
Lines(shown) == IF kind = "detail" \/ Len(shown) >= 2 THEN shown ELSE <<>>

MutantSetSizeAndDraw(shown, size) == [size |-> size, drawn |-> <<>>]
\* The detail chart: sized to its element, which clears it, and drawn.  An element of
\* no size is left.
SetSizeAndDraw(shown, size) ==
  IF size = 0 THEN canvas ELSE [size |-> size, drawn |-> Lines(shown)]
\* The live chart: sized to itself.  The style that this sets keeps it at that size,
\* until it is measured where nothing is displayed; without a size nothing is drawn.
Measured == {canvas.size} \cup (IF box = 0 THEN {0} ELSE {})
SizedToItself(shown) ==
  {[size |-> size, drawn |-> IF size = 0 THEN <<>> ELSE Lines(shown)] : size \in Measured}
\* After a render with other points or days.
DrawEffects ==
  IF kind = "live" THEN canvas' \in SizedToItself(points')
  ELSE canvas' = IF HasCanvas(points') THEN SetSizeAndDraw(points', box) ELSE NoCanvas
\* The live chart has its canvas, and the size of its element, as soon as it is mounted.
Mounted == IF kind = "live" THEN [size |-> box, drawn |-> <<>>] ELSE NoCanvas

-----------------------------------------------------------------------------
(* The place.                                                              *)

Ask(run) ==
  /\ asked < MaxAsked
  /\ asked' = asked + 1
  /\ flying' = flying \cup {[n |-> asked + 1, visit |-> run]}

\* A chart given another place keeps its state and runs the effect again, which asks
\* at once; one without a place is unmounted.
Give(p) ==
  /\ place' = p
  /\ \/ p = place /\ UNCHANGED <<askVars, shownVars, canvas>>
     \/ /\ p # place /\ p # NoPlace
        /\ Len(visits) < MaxVisits
        /\ visits' = Append(visits, p)
        /\ since' = IF place = NoPlace THEN Len(visits) ELSE since
        /\ Ask(Len(visits) + 1)
        /\ canvas' = IF place = NoPlace THEN Mounted ELSE canvas
        /\ UNCHANGED shownVars
     \/ /\ p # place /\ p = NoPlace
        /\ points' = <<>> /\ chart' = NewChart /\ canvas' = NoCanvas
        /\ since' = Len(visits)
        /\ UNCHANGED <<visits, asked, flying>>

\* The parameters of the market to create are edited, or the source changes.
EditParams(p) ==
  /\ kind = "live" /\ p # place
  /\ Give(p)
  /\ UNCHANGED <<kind, metaPlace, pasted, box>>
\* The market's metadata changed, and was fetched: it goes before the link.
MetadataChanges(p) ==
  /\ kind = "detail" /\ p # metaPlace
  /\ metaPlace' = p
  /\ Give(IF p # NoPlace THEN p ELSE pasted)
  /\ UNCHANGED <<kind, pasted, box>>
\* A link is asked for where there is no place.  One that names none is refused.
ViewChart(p) ==
  /\ kind = "detail" /\ place = NoPlace /\ p # NoPlace
  /\ pasted' = p
  /\ Give(p)
  /\ UNCHANGED <<kind, metaPlace, box>>

-----------------------------------------------------------------------------
(* Requests.                                                               *)

\* setInterval
Poll ==
  /\ kind = "live" /\ place # NoPlace
  /\ Ask(Len(visits))
  /\ UNCHANGED <<placeVars, visits, since, shownVars, box, canvas>>

MutantHeard(r) == place # NoPlace
\* Not cancelled: the request is of this run of the effect, and the chart is mounted.
Heard(r) == place # NoPlace /\ r.visit = Len(visits)

LastPoints(shown) ==
  SubSeq(shown, IF Len(shown) >= MaxPoints THEN Len(shown) - MaxPoints + 2 ELSE 1, Len(shown))

\* A request is answered, in any order.
Answered(r, empty) ==
  /\ r \in flying /\ flying' = flying \ {r}
  /\ kind = "live" => ~empty
  /\ LET p == [n |-> r.n, visit |-> r.visit, empty |-> empty]
     IN  IF Heard(r)
         THEN /\ points' = IF kind = "live" THEN Append(LastPoints(points), p) ELSE <<p>>
              /\ chart' = [error |-> FALSE, loading |-> FALSE]
              /\ DrawEffects
         ELSE UNCHANGED <<shownVars, canvas>>
  /\ UNCHANGED <<placeVars, visits, since, asked, box>>
\* A request fails: what is shown stays, below the error.
Failed(r) ==
  /\ r \in flying /\ flying' = flying \ {r}
  /\ chart' = IF Heard(r) THEN [error |-> TRUE, loading |-> FALSE] ELSE chart
  /\ UNCHANGED <<placeVars, visits, since, asked, points, box, canvas>>

\* The window is resized; only the detail chart observes its element.
Resize(size) ==
  /\ size # box
  /\ box' = size
  /\ canvas' = IF kind = "detail" /\ HasCanvas(points) THEN SetSizeAndDraw(points, size)
               ELSE canvas
  /\ UNCHANGED <<placeVars, askVars, shownVars>>

WeatherNext ==
  \/ \E p \in Place \cup {NoPlace} : EditParams(p) \/ MetadataChanges(p) \/ ViewChart(p)
  \/ Poll
  \/ \E r \in flying : Failed(r) \/ \E empty \in BOOLEAN : Answered(r, empty)
  \/ \E size \in Boxes : Resize(size)
WeatherSpec == WeatherInit /\ [][WeatherNext]_weatherVars

-----------------------------------------------------------------------------
\* What a chart shows was asked for since it was mounted, and no answer for a place
\* follows one for a later place: the requests that several runs of the effect leave
\* in flight come back in any order.
ShownInOrder ==
  /\ \A i \in 1 .. Len(points) : points[i].visit \in since + 1 .. Len(visits)
  /\ \A i, j \in 1 .. Len(points) : i <= j => points[i].visit <= points[j].visit

\* A detail chart without an error that waits for nothing shows the days of its place.
DetailOfPlace ==
  kind = "detail" /\ place # NoPlace /\ ~chart.error
    /\ (\A r \in flying : r.visit # Len(visits))
  => Len(points) = 1 /\ visits[points[1].visit] = place

\* Where it can be seen, the canvas of the detail chart has the size of its element and
\* the days shown: also when the element had no size while they came.  That of the live
\* chart, as long as it has a size at all, which need not be that of its element, has
\* the points shown.
CanvasIsShown ==
  place # NoPlace /\ HasCanvas(points) /\ points # <<>> =>
    IF kind = "detail" THEN box # 0 => canvas = [size |-> box, drawn |-> Lines(points)]
                       ELSE canvas.size # 0 => canvas.drawn = Lines(points)

\* A chart shows what it asked for, in order; at rest for its place; and all of it.
ChartShowsAnswers == ShownInOrder /\ DetailOfPlace /\ CanvasIsShown

\* weather-chart.tsx:25: "Real-time weather data chart for the given location."
\* Every point is of the place in the title.
PointsOfLocation ==
  kind = "live" => \A i \in 1 .. Len(points) : visits[points[i].visit] = place
=============================================================================
