---------------------------- MODULE ServicesProofs ----------------------------
(***************************************************************************)
(* For any places, tabs, keys, series and requests: the charts of weather  *)
(* show what was asked for, in order; the list of private markets holds    *)
(* what its account may see, and what it unlocked; hybrid predictions have *)
(* one context, and each stored one was computed from a series posted for  *)
(* its market; a token is for an address whose wallet signed.              *)
(***************************************************************************)
EXTENDS MCServices, SequenceTheorems, FiniteSetTheorems, TLAPS

USE WeatherConstants

-----------------------------------------------------------------------------
(* The charts of weather.                                                  *)

LEMMA LastPointsProperties ==
  ASSUME NEW S, NEW s \in Seq(S), Len(s) <= MaxPoints
  PROVE  /\ LastPoints(s) \in Seq(S)
         /\ Len(LastPoints(s)) < MaxPoints /\ Len(LastPoints(s)) <= Len(s)
         /\ \A i \in 1 .. Len(LastPoints(s)) :
              LastPoints(s)[i] = s[i + (Len(s) - Len(LastPoints(s)))]
<1> DEFINE m == IF Len(s) >= MaxPoints THEN Len(s) - MaxPoints + 2 ELSE 1
<1>1. Len(s) \in Nat
  OBVIOUS
<1>2. m \in 1 .. Len(s) + 1
  BY <1>1
<1>3. /\ SubSeq(s, m, Len(s)) \in Seq(S)
      /\ Len(SubSeq(s, m, Len(s))) = Len(s) - m + 1
      /\ \A i \in 1 .. Len(s) - m + 1 : SubSeq(s, m, Len(s))[i] = s[m + i - 1]
  <2>1. \A i \in m .. Len(s) : s[i] \in S
    BY <1>1, <1>2
  <2> HIDE DEF m
  <2> QED  BY <1>1, <1>2, <2>1, SubSeqProperties
<1>4. LastPoints(s) = SubSeq(s, m, Len(s))
  BY DEF LastPoints
<1>5. Len(LastPoints(s)) = Len(s) - m + 1
  BY <1>3, <1>4
<1>6. Len(LastPoints(s)) < MaxPoints /\ Len(LastPoints(s)) <= Len(s)
  <2>1. CASE Len(s) >= MaxPoints
    <3>1. Len(LastPoints(s)) = MaxPoints - 1
      BY <1>1, <1>5, <2>1
    <3> QED  BY <1>1, <2>1, <3>1
  <2>2. CASE ~(Len(s) >= MaxPoints)
    <3>1. Len(LastPoints(s)) = Len(s)
      BY <1>1, <1>5, <2>2
    <3> QED  BY <1>1, <2>2, <3>1
  <2> QED  BY <2>1, <2>2
<1>7. ASSUME NEW i \in 1 .. Len(LastPoints(s))
      PROVE  LastPoints(s)[i] = s[i + (Len(s) - Len(LastPoints(s)))]
  <2>1. m + i - 1 = i + (Len(s) - Len(LastPoints(s)))
    BY <1>1, <1>2, <1>5
  <2> HIDE DEF m
  <2> QED  BY <2>1, <1>3, <1>4, <1>5
<1> QED  BY <1>3, <1>4, <1>6, <1>7

\* A chart that is mounted has asked for its place, in the last run of the effect; and
\* one that is not has nothing.
MountOk ==
  /\ place = NoPlace => points = <<>>
  /\ place # NoPlace => since < Len(visits) /\ visits[Len(visits)] = place
\* The detail chart's last run was answered, failed or is not.
RunEnds ==
  kind = "detail" /\ place # NoPlace =>
    \/ \E r \in flying : r.visit = Len(visits)
    \/ chart.error
    \/ points # <<>> /\ points[1].visit = Len(visits)
WeatherInv == WeatherTypeOK /\ MountOk /\ ShownInOrder /\ RunEnds /\ CanvasIsShown

LEMMA WeatherInitInv == WeatherInit => WeatherInv
<1> SUFFICES ASSUME WeatherInit PROVE WeatherInv
  OBVIOUS
<1>1. <<>> \in Seq(Place) /\ <<>> \in Seq(Point) /\ Len(<<>>) = 0
  OBVIOUS
<1>2. WeatherTypeOK
  BY <1>1 DEF WeatherInit, WeatherTypeOK, NewChart, NoCanvas, Boxes
<1> QED  BY <1>1, <1>2 DEF WeatherInit, WeatherInv, MountOk, ShownInOrder, RunEnds, CanvasIsShown

\* A request of the present run goes out.
LEMMA AskInv ==
  ASSUME WeatherTypeOK, NEW run \in 1 .. MaxVisits, Ask(run)
  PROVE  /\ asked' \in 0 .. MaxAsked /\ flying' \subseteq Request
         /\ flying \subseteq flying' /\ \E r \in flying' : r.visit = run
<1> DEFINE q == [n |-> asked + 1, visit |-> run]
<1>1. asked' = asked + 1 /\ asked + 1 \in 1 .. MaxAsked /\ asked' \in 0 .. MaxAsked
  BY DEF WeatherTypeOK, Ask
<1>2. q \in Request /\ q.visit = run
  BY <1>1 DEF Request
<1>3. flying' = flying \cup {q}
  BY DEF Ask
<1> HIDE DEF q
<1> QED  BY <1>1, <1>2, <1>3 DEF WeatherTypeOK

\* The chart is given a place, or none.
LEMMA GiveInv ==
  ASSUME WeatherInv, NEW p \in Place \cup {NoPlace}, Give(p), UNCHANGED <<kind, box>>,
         {metaPlace, pasted}' \subseteq Place \cup {NoPlace}
  PROVE  WeatherInv'
<1> USE DEF WeatherInv
<1>1. CASE p = place
  BY <1>1 DEF Give, askVars, shownVars, WeatherTypeOK, MountOk, ShownInOrder, RunEnds,
     CanvasIsShown, HasCanvas, Lines
<1>2. CASE p # place /\ p # NoPlace
  <2>1. /\ Len(visits) \in Nat /\ Len(visits) < MaxVisits /\ place' = p
        /\ visits' = Append(visits, p) /\ UNCHANGED shownVars
        /\ canvas' = IF place = NoPlace THEN Mounted ELSE canvas
        /\ since' = IF place = NoPlace THEN Len(visits) ELSE since
        /\ Ask(Len(visits) + 1)
    BY <1>2 DEF Give, WeatherTypeOK
  <2>2. visits' \in Seq(Place) /\ Len(visits') = Len(visits) + 1
        /\ visits'[Len(visits')] = p
    BY <1>2, <2>1, AppendProperties DEF WeatherTypeOK
  <2>3. /\ asked' \in 0 .. MaxAsked /\ flying' \subseteq Request
        /\ \E r \in flying' : r.visit = Len(visits')
    BY <2>1, <2>2, AskInv
  <2>4. since' \in 0 .. Len(visits') /\ since' < Len(visits')
    BY <2>1, <2>2 DEF WeatherTypeOK
  <2>5. WeatherTypeOK'
    <3>1. <<>> \in Seq(Point)
      OBVIOUS
    <3>2. Mounted \in [size : Boxes, drawn : Seq(Point)]
      BY <3>1 DEF WeatherTypeOK, Mounted, NoCanvas, Boxes
    <3> QED  BY <2>1, <2>2, <2>3, <2>4, <3>2 DEF WeatherTypeOK, shownVars
  <2>6. ShownInOrder'
    <3>1. points # <<>> => since' = since
      BY <2>1 DEF MountOk
    <3>2. points = <<>> => ShownInOrder'
      BY <2>1 DEF ShownInOrder, shownVars
    <3> QED  BY <2>1, <2>2, <3>1, <3>2 DEF ShownInOrder, shownVars, WeatherTypeOK, Point
  <2>7. CanvasIsShown'
    BY <1>2, <2>1 DEF CanvasIsShown, MountOk, shownVars, HasCanvas, Lines
  <2> QED  BY <1>2, <2>1, <2>2, <2>3, <2>4, <2>5, <2>6, <2>7 DEF MountOk, RunEnds
<1>3. CASE p # place /\ p = NoPlace
  <2>1. /\ place' = NoPlace /\ points' = <<>> /\ chart' = NewChart /\ canvas' = NoCanvas
        /\ since' = Len(visits) /\ UNCHANGED <<visits, asked, flying>>
    BY <1>3 DEF Give
  <2>2. <<>> \in Seq(Point) /\ Len(<<>>) = 0
    OBVIOUS
  <2>3. chart' \in [error : BOOLEAN, loading : BOOLEAN]
        /\ canvas' \in [size : Boxes, drawn : Seq(Point)]
    BY <2>1, <2>2 DEF NewChart, NoCanvas, Boxes
  <2>4. WeatherTypeOK'
    BY <2>1, <2>2, <2>3 DEF WeatherTypeOK
  <2>5. ShownInOrder'
    BY <2>1, <2>2 DEF ShownInOrder
  <2> QED  BY <2>1, <2>4, <2>5 DEF MountOk, RunEnds, CanvasIsShown
<1> QED  BY <1>1, <1>2, <1>3

LEMMA SetSizeType ==
  ASSUME WeatherTypeOK, NEW s \in Seq(Point), NEW size \in Boxes
  PROVE  SetSizeAndDraw(s, size) \in [size : Boxes, drawn : Seq(Point)]
BY DEF WeatherTypeOK, SetSizeAndDraw, Lines

\* The points after an answer that is heard.
LEMMA HeardPoints ==
  ASSUME WeatherInv, NEW r \in Request, Heard(r), NEW p \in Point, p.visit = r.visit,
         points' = IF kind = "live" THEN Append(LastPoints(points), p) ELSE <<p>>,
         UNCHANGED <<visits, since>>
  PROVE  /\ points' \in Seq(Point) /\ points' # <<>>
         /\ Len(points') <= IF kind = "live" THEN MaxPoints ELSE 1
         /\ ShownInOrder'
         /\ kind # "live" => points'[1] = p
<1>1. /\ place # NoPlace /\ r.visit = Len(visits) /\ points \in Seq(Point)
      /\ since \in 0 .. Len(visits) /\ since < Len(visits)
      /\ Len(visits) \in Nat
  BY DEF Heard, WeatherInv, MountOk, WeatherTypeOK
<1>2. CASE kind = "live"
  <2> DEFINE kept0 == LastPoints(points)
             d == Len(points) - Len(kept0)
  <2>1. Len(points) <= MaxPoints
    BY <1>2 DEF WeatherInv, WeatherTypeOK
  <2>2. /\ kept0 \in Seq(Point) /\ Len(kept0) < MaxPoints /\ Len(kept0) <= Len(points)
        /\ \A i \in 1 .. Len(kept0) : kept0[i] = points[i + d]
    BY <1>1, <2>1, LastPointsProperties
  <2> HIDE DEF kept0
  <2>3. /\ points' \in Seq(Point) /\ Len(points') = Len(kept0) + 1
        /\ \A i \in 1 .. Len(kept0) : points'[i] = kept0[i]
        /\ points'[Len(kept0) + 1] = p
    BY <1>2, <2>2, AppendProperties DEF kept0
  <2>4. d \in Nat /\ Len(kept0) \in Nat /\ Len(points) = Len(kept0) + d
    BY <1>1, <2>2
  <2> HIDE DEF d
  <2>5. \A i \in 1 .. Len(kept0) :
          points'[i] = points[i + d] /\ i + d \in 1 .. Len(points)
    BY <2>2, <2>3, <2>4
  <2>6. \A i \in 1 .. Len(points') : points'[i].visit \in since + 1 .. Len(visits)
    <3> SUFFICES ASSUME NEW i \in 1 .. Len(points')
                 PROVE  points'[i].visit \in since + 1 .. Len(visits)
      OBVIOUS
    <3>1. CASE i <= Len(kept0)
      BY <2>4, <2>5, <3>1 DEF WeatherInv, ShownInOrder
    <3>2. CASE i = Len(kept0) + 1
      BY <1>1, <2>3, <3>2
    <3> QED  BY <2>3, <2>4, <3>1, <3>2
  <2>7. \A i, j \in 1 .. Len(points') : i <= j => points'[i].visit <= points'[j].visit
    <3> SUFFICES ASSUME NEW i \in 1 .. Len(points'), NEW j \in 1 .. Len(points'), i <= j
                 PROVE  points'[i].visit <= points'[j].visit
      OBVIOUS
    <3>1. CASE j <= Len(kept0)
      <4>1. i \in 1 .. Len(kept0) /\ j \in 1 .. Len(kept0)
        BY <2>3, <2>4, <3>1
      <4>2. i + d <= j + d
        BY <2>4
      <4> QED  BY <2>5, <4>1, <4>2 DEF WeatherInv, ShownInOrder
    <3>2. CASE j = Len(kept0) + 1
      <4>1. points'[j].visit = Len(visits)
        BY <1>1, <2>3, <3>2
      <4> QED  BY <1>1, <2>6, <4>1
    <3> QED  BY <2>3, <2>4, <3>1, <3>2
  <2>8. points' # <<>>
    BY <2>3, <2>4
  <2>9. ShownInOrder'
    BY <2>6, <2>7 DEF ShownInOrder
  <2> QED  BY <1>2, <2>2, <2>3, <2>4, <2>8, <2>9
<1>3. CASE kind # "live"
  <2>1. points' = <<p>> /\ Len(points') = 1 /\ points'[1] = p
    BY <1>3
  <2> QED  BY <1>1, <1>3, <2>1 DEF ShownInOrder
<1> QED  BY <1>2, <1>3

LEMMA AnsweredInv ==
  ASSUME WeatherInv, NEW r \in flying, NEW empty \in BOOLEAN, Answered(r, empty)
  PROVE  WeatherInv'
<1> DEFINE p == [n |-> r.n, visit |-> r.visit, empty |-> empty]
<1>1. /\ r \in Request /\ p \in Point /\ p.visit = r.visit
      /\ flying' = flying \ {r} /\ flying' \subseteq Request
      /\ UNCHANGED <<placeVars, visits, since, asked, box>>
  BY DEF WeatherInv, WeatherTypeOK, Answered, Request, Point
<1>2. CASE Heard(r)
  <2>1. /\ points' = IF kind = "live" THEN Append(LastPoints(points), p) ELSE <<p>>
        /\ chart' = [error |-> FALSE, loading |-> FALSE] /\ DrawEffects
    BY <1>2 DEF Answered
  <2>2. /\ points' \in Seq(Point) /\ points' # <<>>
        /\ Len(points') <= IF kind = "live" THEN MaxPoints ELSE 1
        /\ ShownInOrder' /\ (kind # "live" => points'[1] = p)
    <3> HIDE DEF p
    <3> QED  BY <1>1, <1>2, <2>1, HeardPoints
  <2>3. canvas' \in [size : Boxes, drawn : Seq(Point)]
    <3>1. box \in Boxes /\ WeatherTypeOK /\ Measured \subseteq Boxes
      BY DEF WeatherInv, WeatherTypeOK, Measured, Boxes
    <3>2. SetSizeAndDraw(points', box) \in [size : Boxes, drawn : Seq(Point)]
      BY <2>2, <3>1, SetSizeType
    <3>3. NoCanvas \in [size : Boxes, drawn : Seq(Point)]
      BY DEF NoCanvas, Boxes
    <3>4. SizedToItself(points') \subseteq [size : Boxes, drawn : Seq(Point)]
      <4>1. <<>> \in Seq(Point) /\ Lines(points') \in Seq(Point)
        BY <2>2 DEF Lines
      <4>2. ASSUME NEW size \in Measured
            PROVE  [size |-> size, drawn |-> IF size = 0 THEN <<>> ELSE Lines(points')]
                     \in [size : Boxes, drawn : Seq(Point)]
        BY <3>1, <4>1
      <4> QED  BY <4>2 DEF SizedToItself
    <3> QED  BY <2>1, <3>2, <3>3, <3>4 DEF DrawEffects
  <2>4. WeatherTypeOK'
    BY <1>1, <2>1, <2>2, <2>3 DEF WeatherInv, WeatherTypeOK, placeVars
  <2>5. MountOk' /\ RunEnds'
    BY <1>1, <1>2, <2>2 DEF WeatherInv, WeatherTypeOK, MountOk, RunEnds, Heard, placeVars
  <2>6. CanvasIsShown'
    <3>1. CASE kind = "live"
      <4>1. canvas' \in SizedToItself(points') /\ kind' = kind
        BY <1>1, <2>1, <3>1 DEF DrawEffects, placeVars
      <4>2. canvas'.size # 0 => canvas'.drawn = Lines(points')
        BY <4>1 DEF SizedToItself
      <4>3. Lines(points') = Lines(points)'
        BY <4>1 DEF Lines
      <4> QED  BY <3>1, <4>1, <4>2, <4>3 DEF CanvasIsShown
    <3>2. CASE kind # "live"
      <4>1. /\ canvas' = IF HasCanvas(points') THEN SetSizeAndDraw(points', box) ELSE NoCanvas
            /\ kind' = kind /\ box' = box
        BY <1>1, <2>1, <3>2 DEF DrawEffects, placeVars
      <4>2. kind = "detail"
        BY <3>2 DEF WeatherInv, WeatherTypeOK
      <4> QED  BY <4>1, <4>2 DEF CanvasIsShown, SetSizeAndDraw, HasCanvas, Lines
    <3> QED  BY <3>1, <3>2
  <2> QED  BY <2>2, <2>4, <2>5, <2>6 DEF WeatherInv
<1>3. CASE ~Heard(r)
  <2>1. UNCHANGED <<shownVars, canvas>>
    BY <1>3 DEF Answered
  <2>2. RunEnds'
    BY <1>1, <1>3, <2>1 DEF WeatherInv, RunEnds, Heard, placeVars, shownVars
  <2> QED  BY <1>1, <2>1, <2>2 DEF WeatherInv, WeatherTypeOK, MountOk, ShownInOrder,
              CanvasIsShown, HasCanvas, Lines, placeVars, shownVars
<1> QED  BY <1>2, <1>3

LEMMA FailedInv ==
  ASSUME WeatherInv, NEW r \in flying, Failed(r)
  PROVE  WeatherInv'
<1>1. RunEnds'
  BY DEF WeatherInv, WeatherTypeOK, Failed, RunEnds, Heard, placeVars
<1>2. WeatherTypeOK'
  BY DEF WeatherInv, WeatherTypeOK, Failed, placeVars
<1> QED  BY <1>1, <1>2 DEF WeatherInv, Failed, MountOk, ShownInOrder, CanvasIsShown,
            HasCanvas, Lines, placeVars

LEMMA WeatherStep == WeatherInv /\ [WeatherNext]_weatherVars => WeatherInv'
<1> SUFFICES ASSUME WeatherInv, [WeatherNext]_weatherVars PROVE WeatherInv'
  OBVIOUS
<1>1. ASSUME NEW p \in Place \cup {NoPlace}, EditParams(p) \/ MetadataChanges(p) \/ ViewChart(p)
      PROVE  WeatherInv'
  <2>1. \E q \in Place \cup {NoPlace} : Give(q)
    BY <1>1 DEF EditParams, MetadataChanges, ViewChart, WeatherInv, WeatherTypeOK
  <2>2. UNCHANGED <<kind, box>> /\ {metaPlace, pasted}' \subseteq Place \cup {NoPlace}
    BY <1>1 DEF EditParams, MetadataChanges, ViewChart, WeatherInv, WeatherTypeOK
  <2> QED  BY <2>1, <2>2, GiveInv
<1>2. CASE Poll
  <2>1. Len(visits) \in 1 .. MaxVisits
    BY <1>2 DEF Poll, WeatherInv, WeatherTypeOK, MountOk
  <2>2. asked' \in 0 .. MaxAsked /\ flying' \subseteq Request /\ flying \subseteq flying'
    BY <1>2, <2>1, AskInv DEF Poll, WeatherInv
  <2> QED  BY <1>2, <2>2 DEF Poll, WeatherInv, WeatherTypeOK, MountOk, ShownInOrder,
              RunEnds, CanvasIsShown, HasCanvas, Lines, placeVars, shownVars
<1>3. ASSUME NEW size \in Boxes, Resize(size) PROVE WeatherInv'
  <2>1. canvas' \in [size : Boxes, drawn : Seq(Point)]
    BY <1>3, SetSizeType DEF Resize, WeatherInv, WeatherTypeOK
  <2>2. CanvasIsShown'
    <3>1. UNCHANGED <<kind, place, points>> /\ box' = size
          /\ canvas' = IF kind = "detail" /\ HasCanvas(points)
                       THEN SetSizeAndDraw(points, size) ELSE canvas
      BY <1>3 DEF Resize, placeVars, shownVars
    <3>2. CASE kind = "detail"
      BY <3>1, <3>2 DEF CanvasIsShown, SetSizeAndDraw, HasCanvas, Lines
    <3>3. CASE kind # "detail"
      BY <3>1, <3>3 DEF WeatherInv, CanvasIsShown, HasCanvas, Lines
    <3> QED  BY <3>2, <3>3
  <2> QED  BY <1>3, <2>1, <2>2 DEF Resize, WeatherInv, WeatherTypeOK, MountOk,
              ShownInOrder, RunEnds, placeVars, askVars, shownVars
<1>4. CASE UNCHANGED weatherVars
  BY <1>4 DEF weatherVars, placeVars, askVars, shownVars, WeatherInv, WeatherTypeOK,
     MountOk, ShownInOrder, RunEnds, CanvasIsShown, HasCanvas, Lines
<1> QED  BY <1>1, <1>2, <1>3, <1>4, AnsweredInv, FailedInv DEF WeatherNext

LEMMA WeatherInvariant == WeatherSpec => []WeatherInv
BY WeatherInitInv, WeatherStep, PTL DEF WeatherSpec

\* What a chart shows was asked for since it was mounted, and answers for a place never
\* follow one for a later place, in whatever order any number of requests come back; a
\* detail chart at rest is of its place; its canvas, where it is seen, is what is shown,
\* and the live chart's is, as long as it has a size.
THEOREM WeatherShown ==
  WeatherSpec => []ChartShowsAnswers
<1>1. WeatherInv => ChartShowsAnswers
  <2> SUFFICES ASSUME WeatherInv PROVE DetailOfPlace
    BY DEF WeatherInv, ChartShowsAnswers
  <2> SUFFICES ASSUME kind = "detail", place # NoPlace, ~chart.error,
                      \A r \in flying : r.visit # Len(visits)
               PROVE  Len(points) = 1 /\ visits[points[1].visit] = place
    BY DEF DetailOfPlace
  <2>1. points # <<>> /\ points[1].visit = Len(visits)
    BY DEF WeatherInv, RunEnds
  <2>2. Len(points) = 1
    <3>1. points \in Seq(Point) /\ Len(points) <= 1
      BY DEF WeatherInv, WeatherTypeOK
    <3> DEFINE n == Len(points)
    <3>2. n \in Nat /\ n # 0
      BY <2>1, <3>1, EmptySeq
    <3>3. n <= 1
      BY <3>1
    <3> HIDE DEF n
    <3>4. n = 1
      BY <3>2, <3>3
    <3> QED  BY <3>4 DEF n
  <2> QED  BY <2>1, <2>2 DEF WeatherInv, MountOk
<1> QED  BY <1>1, WeatherInvariant, PTL

-----------------------------------------------------------------------------
(* The list of private markets.                                            *)

\* A cached answer is of the account in its key.
AnswersOk ==
  /\ \A q \in asking : q.key = q.address
  /\ \A t \in Tab, k \in QueryKeys : mine[t][k] \subseteq {r \in keyRows : r.creator = k}
\* What is stored came by a key or a creator's click; what a tab has joined is stored.
StoredOk ==
  /\ storedIds \subseteq validated \cup {r.market : r \in viewed}
  /\ viewed \subseteq keyRows
  /\ validated \subseteq storedIds
JoinedOk ==
  \A t \in Tab :
    /\ tabs[t].joined \subseteq storedIds
    /\ tabs[t].unlocked # NoId => tabs[t].unlocked \in tabs[t].joined
ListInv == PrivateListTypeOK /\ AnswersOk /\ StoredOk /\ JoinedOk

LEMMA ListInitInv == PrivateListInit => ListInv
BY DEF PrivateListInit, ListInv, PrivateListTypeOK, AnswersOk, StoredOk, JoinedOk, Closed,
   EmptyCache, TabState, QueryKeys

\* What is stored only grows, as what was entered and viewed does; one tab changes.
LEMMA JoinedStep ==
  ASSUME ListInv, NEW t \in Tab, NEW s \in TabState, tabs' = [tabs EXCEPT ![t] = s],
         s.joined \subseteq storedIds', s.unlocked # NoId => s.unlocked \in s.joined,
         storedIds \subseteq storedIds'
  PROVE  tabs' \in [Tab -> TabState] /\ JoinedOk'
<1>1. tabs \in [Tab -> TabState] /\ JoinedOk
  BY DEF ListInv, PrivateListTypeOK
<1>2. \A u \in Tab : tabs'[u] = IF u = t THEN s ELSE tabs[u]
  BY <1>1
<1> QED  BY <1>1, <1>2 DEF JoinedOk

LEMMA ClosedType == \A h \in QueryKeys : Closed(h) \in TabState
BY DEF Closed, TabState, QueryKeys

\* The page is opened, left, or its account changed.
LEMMA PageStep ==
  ASSUME ListInv, NEW t \in Tab,
         \/ OpenList(t) \/ LeaveList(t) \/ ReloadTab(t)
         \/ \E h \in QueryKeys : Connect(t, h)
         \/ EnterAnother(t)
  PROVE  ListInv'
<1> DEFINE s == tabs'[t]
<1>1. tabs \in [Tab -> TabState] /\ tabs[t] \in TabState /\ tabs[t].joined \subseteq storedIds
      /\ (tabs[t].unlocked # NoId => tabs[t].unlocked \in tabs[t].joined)
  BY DEF ListInv, PrivateListTypeOK, JoinedOk
<1>2. UNCHANGED <<keyRows, storedIds, validated, viewed>>
  BY DEF OpenList, LeaveList, ReloadTab, Connect, EnterAnother, tableVars, tabVars,
     flightVars, listHistory
<1>3. tabs' = [tabs EXCEPT ![t] = s] /\ s \in TabState /\ s.joined \subseteq storedIds
      /\ (s.unlocked # NoId => s.unlocked \in s.joined)
  <2>1. CASE OpenList(t)
    <3>1. tabs' = [tabs EXCEPT ![t] = [tabs[t] EXCEPT !.open = TRUE, !.joined = storedIds]]
      BY <1>1, <2>1 DEF OpenList
    <3> QED  BY <1>1, <3>1 DEF TabState, ListInv, PrivateListTypeOK
  <2>2. CASE LeaveList(t) \/ ReloadTab(t)
    <3>1. tabs' = [tabs EXCEPT ![t] = Closed(tabs[t].account)]
      BY <2>2 DEF LeaveList, ReloadTab
    <3>2. s = Closed(tabs[t].account) /\ s \in TabState
      BY <1>1, <3>1, ClosedType DEF TabState, QueryKeys
    <3>3. s.joined = {} /\ s.unlocked = NoId
      <4>1. Closed(tabs[t].account).joined = {} /\ Closed(tabs[t].account).unlocked = NoId
        BY DEF Closed
      <4> QED  BY <3>2, <4>1
    <3>4. tabs' = [tabs EXCEPT ![t] = s]
      BY <3>1, <3>2
    <3> HIDE DEF s
    <3> QED  BY <3>2, <3>3, <3>4
  <2>3. ASSUME NEW h \in QueryKeys, Connect(t, h)
        PROVE  tabs' = [tabs EXCEPT ![t] = [tabs[t] EXCEPT !.account = h]]
    BY <2>3, <1>1 DEF Connect
  <2>4. CASE \E h \in QueryKeys : Connect(t, h)
    BY <1>1, <2>3, <2>4 DEF TabState, QueryKeys
  <2>5. CASE EnterAnother(t)
    <3>1. tabs' = [tabs EXCEPT ![t] = [tabs[t] EXCEPT !.unlocked = NoId]]
      BY <1>1, <2>5 DEF EnterAnother
    <3> QED  BY <1>1, <3>1 DEF TabState
  <2> QED  BY <2>1, <2>2, <2>4, <2>5
<1> HIDE DEF s
<1>4. tabs' \in [Tab -> TabState] /\ JoinedOk'
  BY <1>2, <1>3, JoinedStep
<1>5. /\ mine' \in [Tab -> [QueryKeys -> SUBSET KeyRow]]
      /\ asking' \subseteq asking
      /\ \A u \in Tab, k \in QueryKeys : mine'[u][k] \subseteq mine[u][k]
  BY DEF OpenList, LeaveList, ReloadTab, Connect, EnterAnother, tableVars, tabVars,
     flightVars, listHistory, ListInv, PrivateListTypeOK, EmptyCache
<1>6. checking' \subseteq Check
  <2>1. Abandoned(t) \subseteq Check
    BY DEF Abandoned, Check, ListInv, PrivateListTypeOK
  <2> QED  BY <2>1 DEF OpenList, LeaveList, ReloadTab, Connect, EnterAnother, tableVars,
              tabVars, flightVars, listHistory, ListInv, PrivateListTypeOK
<1>7. PrivateListTypeOK'
  BY <1>2, <1>4, <1>5, <1>6 DEF ListInv, PrivateListTypeOK
<1>8. AnswersOk' /\ StoredOk'
  BY <1>2, <1>5 DEF ListInv, AnswersOk, StoredOk
<1> QED  BY <1>4, <1>7, <1>8 DEF ListInv

\* Rows are registered, and asked for.
LEMMA RowsStep ==
  ASSUME ListInv,
         \/ \E k \in AccessKey, m \in PrivateId, h \in Holder : RegisterMarket(k, m, h)
         \/ \E t \in Tab : AskMine(t)
         \/ \E q \in asking : MineAnswered(q) \/ MineFails(q)
  PROVE  ListInv'
<1> USE DEF ListInv
<1>1. ASSUME NEW k \in AccessKey, NEW m \in PrivateId, NEW h \in Holder, RegisterMarket(k, m, h)
      PROVE  ListInv'
  <2>1. keyRows \subseteq keyRows' /\ keyRows' \subseteq KeyRow
    BY <1>1 DEF RegisterMarket, PrivateListTypeOK, KeyRow
  <2> QED  BY <1>1, <2>1 DEF RegisterMarket, PrivateListTypeOK, AnswersOk, StoredOk, JoinedOk,
              tabVars, flightVars, listHistory
<1>2. ASSUME NEW t \in Tab, AskMine(t) PROVE ListInv'
  <2>1. /\ tabs[t].account \in Holder
        /\ asking' = asking \cup {[tab |-> t, key |-> tabs[t].account, address |-> tabs[t].account]}
        /\ UNCHANGED <<keyRows, storedIds, tabs, mine, checking, validated, viewed>>
    BY <1>2 DEF AskMine, QueryKey, PrivateListTypeOK, TabState, tableVars, tabVars, listHistory
  <2>2. asking' \subseteq Query /\ \A q \in asking' : q.key = q.address
    BY <2>1 DEF PrivateListTypeOK, AnswersOk, Query, QueryKeys
  <2> QED  BY <2>1, <2>2 DEF PrivateListTypeOK, AnswersOk, StoredOk, JoinedOk
<1>3. ASSUME NEW q \in asking, MineAnswered(q) PROVE ListInv'
  <2> DEFINE rows == {r \in keyRows : r.creator = q.address}
  <2>1. /\ q.tab \in Tab /\ q.key \in QueryKeys /\ q.key = q.address
        /\ mine' = [mine EXCEPT ![q.tab][q.key] = rows]
        /\ asking' \subseteq asking
        /\ UNCHANGED <<keyRows, storedIds, tabs, checking, validated, viewed>>
    BY <1>3 DEF MineAnswered, PrivateListTypeOK, AnswersOk, Query, tableVars, listHistory
  <2>2. rows \subseteq keyRows /\ rows \in SUBSET KeyRow
    BY DEF PrivateListTypeOK
  <2>3. mine' \in [Tab -> [QueryKeys -> SUBSET KeyRow]]
    <3> HIDE DEF rows
    <3> QED  BY <2>1, <2>2 DEF PrivateListTypeOK
  <2>4. \A u \in Tab, k \in QueryKeys :
          mine'[u][k] = IF u = q.tab /\ k = q.key THEN rows ELSE mine[u][k]
    <3> HIDE DEF rows
    <3> QED  BY <2>1 DEF PrivateListTypeOK
  <2>5. AnswersOk'
    BY <2>1, <2>4 DEF AnswersOk
  <2> QED  BY <2>1, <2>3, <2>5 DEF PrivateListTypeOK, StoredOk, JoinedOk
<1>4. ASSUME NEW q \in asking, MineFails(q) PROVE ListInv'
  BY <1>4 DEF MineFails, PrivateListTypeOK, AnswersOk, StoredOk, JoinedOk, tableVars,
     tabVars, listHistory
<1> QED  BY <1>1, <1>2, <1>3, <1>4

\* Keys are entered and checked, and markets of the account viewed.
LEMMA KeyStep ==
  ASSUME ListInv,
         \/ \E t \in Tab : (\E k \in AccessKey : SubmitKey(t, k)) \/ \E r \in MyRows(t) : ViewMine(t, r)
         \/ \E c \in checking : KeyRefused(c) \/ \E r \in keyRows : KeyValid(c, r)
  PROVE  ListInv'
<1> USE DEF ListInv
<1>1. ASSUME NEW t \in Tab, NEW k \in AccessKey, SubmitKey(t, k) PROVE ListInv'
  <2> DEFINE s == [tabs[t] EXCEPT !.sent = k]
  <2>1. /\ tabs' = [tabs EXCEPT ![t] = s]
        /\ checking' = checking \cup {[tab |-> t, key |-> k, mounted |-> TRUE]}
        /\ UNCHANGED <<keyRows, storedIds, mine, asking, validated, viewed>>
    BY <1>1 DEF SubmitKey, PrivateListTypeOK, tableVars, listHistory
  <2>2. s \in TabState /\ s.joined = tabs[t].joined /\ s.unlocked = tabs[t].unlocked
    BY DEF PrivateListTypeOK, TabState
  <2> HIDE DEF s
  <2>3. tabs' \in [Tab -> TabState] /\ JoinedOk'
    BY <2>1, <2>2, JoinedStep DEF JoinedOk
  <2>4. checking' \subseteq Check
    <3>1. [tab |-> t, key |-> k, mounted |-> TRUE] \in Check
      BY DEF Check
    <3> QED  BY <2>1, <3>1 DEF PrivateListTypeOK
  <2> QED  BY <2>1, <2>3, <2>4 DEF PrivateListTypeOK, AnswersOk, StoredOk
<1>2. ASSUME NEW t \in Tab, NEW r \in MyRows(t), ViewMine(t, r) PROVE ListInv'
  <2> DEFINE s == [tabs[t] EXCEPT !.joined = storedIds']
  <2>1. /\ tabs' = [tabs EXCEPT ![t] = s] /\ storedIds' = storedIds \cup {r.market}
        /\ viewed' = viewed \cup {r}
        /\ UNCHANGED <<keyRows, mine, asking, checking, validated>>
    BY <1>2 DEF ViewMine, AddStored, PrivateListTypeOK, tableVars, flightVars
  <2>2. tabs[t].account \in QueryKeys
    BY DEF PrivateListTypeOK, TabState, QueryKeys
  <2>3. r \in keyRows /\ r \in KeyRow /\ r.market \in PrivateId
    BY <2>2 DEF MyRows, QueryKey, AnswersOk, PrivateListTypeOK, KeyRow
  <2>4. storedIds' \subseteq PrivateId /\ storedIds \subseteq storedIds'
    BY <2>1, <2>3 DEF PrivateListTypeOK
  <2>5. s \in TabState /\ s.joined = storedIds' /\ s.unlocked = tabs[t].unlocked
    BY <2>4 DEF PrivateListTypeOK, TabState
  <2> HIDE DEF s
  <2>6. tabs' \in [Tab -> TabState] /\ JoinedOk'
    BY <2>1, <2>4, <2>5, JoinedStep DEF JoinedOk
  <2>7. StoredOk'
    BY <2>1, <2>3 DEF StoredOk
  <2> QED  BY <2>1, <2>3, <2>4, <2>6, <2>7 DEF PrivateListTypeOK, AnswersOk
<1>3. ASSUME NEW c \in checking, KeyRefused(c) PROVE ListInv'
  <2> DEFINE s == [tabs[c.tab] EXCEPT !.sent = NoKey]
  <2>1. /\ c.tab \in Tab /\ checking' \subseteq checking
        /\ tabs' = tabs \/ tabs' = [tabs EXCEPT ![c.tab] = s]
        /\ UNCHANGED <<keyRows, storedIds, mine, asking, validated, viewed>>
    BY <1>3 DEF KeyRefused, PrivateListTypeOK, Check, tableVars, listHistory
  <2>2. s \in TabState /\ s.joined = tabs[c.tab].joined /\ s.unlocked = tabs[c.tab].unlocked
    BY <2>1 DEF PrivateListTypeOK, TabState
  <2> HIDE DEF s
  <2>3. CASE tabs' = tabs
    BY <2>1, <2>3 DEF PrivateListTypeOK, AnswersOk, StoredOk, JoinedOk
  <2>4. CASE tabs' = [tabs EXCEPT ![c.tab] = s]
    <3>1. tabs' \in [Tab -> TabState] /\ JoinedOk'
      BY <2>1, <2>2, <2>4, JoinedStep DEF JoinedOk
    <3> QED  BY <2>1, <3>1 DEF PrivateListTypeOK, AnswersOk, StoredOk
  <2> QED  BY <2>1, <2>3, <2>4
<1>4. ASSUME NEW c \in checking, NEW r \in keyRows, KeyValid(c, r) PROVE ListInv'
  <2> DEFINE s == [tabs[c.tab] EXCEPT !.unlocked = r.market, !.sent = NoKey,
                                      !.joined = @ \cup {r.market}]
  <2>1. /\ c.tab \in Tab /\ checking' \subseteq checking /\ r.market \in PrivateId
        /\ tabs' = tabs \/ tabs' = [tabs EXCEPT ![c.tab] = s]
        /\ storedIds' = storedIds \cup {r.market} /\ validated' = validated \cup {r.market}
        /\ UNCHANGED <<keyRows, mine, asking, viewed>>
    BY <1>4 DEF KeyValid, AddStored, PrivateListTypeOK, Check, KeyRow, tableVars
  <2>2. /\ s \in TabState /\ s.joined = tabs[c.tab].joined \cup {r.market}
        /\ s.unlocked = r.market
    <3> DEFINE tab == tabs[c.tab]
               j == tab.joined \cup {r.market}
    <3>1. tab \in TabState
      BY <2>1 DEF PrivateListTypeOK
    <3>2. j \in SUBSET PrivateId
      BY <2>1, <3>1 DEF TabState
    <3>3. s = [[[tab EXCEPT !.unlocked = r.market] EXCEPT !.sent = NoKey] EXCEPT !.joined = j]
      <4>1. [[tab EXCEPT !.unlocked = r.market] EXCEPT !.sent = NoKey].joined = tab.joined
        BY <3>1 DEF TabState
      <4> QED  BY <4>1
    <3> HIDE DEF tab, j
    <3>4. s \in TabState /\ s.joined = j /\ s.unlocked = r.market
      <4> HIDE DEF s
      <4> QED  BY <2>1, <3>1, <3>2, <3>3 DEF TabState
    <3> QED  BY <3>4 DEF tab, j
  <2> HIDE DEF s
  <2>3. CASE tabs' = tabs
    BY <2>1, <2>3 DEF PrivateListTypeOK, AnswersOk, StoredOk, JoinedOk
  <2>4. CASE tabs' = [tabs EXCEPT ![c.tab] = s]
    <3>1. tabs' \in [Tab -> TabState] /\ JoinedOk'
      BY <2>1, <2>2, <2>4, JoinedStep DEF JoinedOk
    <3> QED  BY <2>1, <3>1 DEF PrivateListTypeOK, AnswersOk, StoredOk
  <2> QED  BY <2>1, <2>3, <2>4
<1> QED  BY <1>1, <1>2, <1>3, <1>4

LEMMA ListStep == ListInv /\ [PrivateListNext]_privateVars => ListInv'
<1> SUFFICES ASSUME ListInv, [PrivateListNext]_privateVars PROVE ListInv'
  OBVIOUS
<1>1. CASE UNCHANGED privateVars
  BY <1>1 DEF privateVars, tableVars, tabVars, flightVars, listHistory, ListInv,
     PrivateListTypeOK, AnswersOk, StoredOk, JoinedOk
<1> QED  BY <1>1, PageStep, RowsStep, KeyStep DEF PrivateListNext, QueryKeys

LEMMA ListInvariant == PrivateListSpec => []ListInv
BY ListInitInv, ListStep, PTL DEF PrivateListSpec

\* A market listed for an account is one the page was configured with, one the account
\* created, or one that came into the browser by its key or its creator's click, in
\* any number of tabs and however answers and switches of the account are ordered.
LEMMA ListEntitled == PrivateListSpec => []ListedIsEntitled
<1>1. ListInv => ListedIsEntitled
  <2> SUFFICES ASSUME ListInv, NEW t \in Tab, tabs[t].account # NoHolder,
                      NEW m \in ListedIds(t)
               PROVE  \/ m \in KnownIds \cup validated
                      \/ \E r \in keyRows :
                           r.market = m /\ (r.creator = tabs[t].account \/ r \in viewed)
    BY DEF ListedIsEntitled
  <2>1. CASE m \in tabs[t].joined
    BY <2>1 DEF ListInv, JoinedOk, StoredOk
  <2>2. ASSUME NEW r \in MyRows(t), m = r.market
        PROVE  r \in keyRows /\ r.creator = tabs[t].account
    <3>1. tabs[t].account \in QueryKeys
      BY DEF ListInv, PrivateListTypeOK, TabState, QueryKeys
    <3> QED  BY <2>2, <3>1 DEF MyRows, QueryKey, ListInv, AnswersOk
  <2> QED  BY <2>1, <2>2 DEF ListedIds
<1> QED  BY <1>1, ListInvariant, PTL

\* What is unlocked is stored and listed, though all tabs write one entry.
LEMMA UnlockedListed == PrivateListSpec => []UnlockedStays
<1>1. ListInv => UnlockedStays
  BY DEF ListInv, StoredOk, JoinedOk, UnlockedStays, ListedIds
<1> QED  BY <1>1, ListInvariant, PTL

\* For any number of tabs, accounts and requests in flight: the list of an account has
\* nothing it may not see, and loses nothing that was unlocked.
THEOREM ListRight == PrivateListSpec => []ListIsOfAccount
<1>1. ListedIsEntitled /\ UnlockedStays => ListIsOfAccount
  BY DEF ListIsOfAccount
<1> QED  BY <1>1, ListEntitled, UnlockedListed, PTL

-----------------------------------------------------------------------------
(* Predictions.                                                            *)

\* Per request: the context it used is the one there is; what it looks up is of its
\* market; and what it computes, or found, is of a series posted for its market.
CallOk(r) ==
  /\ r.ctx \in {NoSeries, context}
  /\ r.step \in {"lookup", "keep"} => r.api = "predict" /\ r.market \in Named
  /\ r.api = "predict" /\ r.market # NoMarket /\ r.series # NoSeries =>
       <<r.market, r.series>> \in posted
KeptOk == \A m \in Named : kept[m].series # NoSeries => <<m, kept[m].series>> \in posted
ListedOk == \A i \in 1 .. Len(listed) : listed[i].market = OpenRow
PredictionInv ==
  /\ PredictionTypeOK /\ IsFiniteSet(stored)
  /\ \A c \in Call : CallOk(calls[c])
  /\ KeptOk /\ PredictedFromPosted /\ ListedOk

LEMMA NamedAreNumbers == Named \subseteq Nat /\ NoMarket \notin Named /\ MarketRow \subseteq Named
BY PredictionConstants DEF Named

LEMMA PredictionInitInv == PredictionInit => PredictionInv
<1> SUFFICES ASSUME PredictionInit PROVE PredictionInv
  OBVIOUS
<1>1. IsFiniteSet(stored)
  BY FS_EmptySet DEF PredictionInit
<1>2. IdleCall \in CallState /\ IdleCall.ctx = NoSeries /\ IdleCall.step = "idle"
      /\ IdleCall.api = "set"
  BY DEF IdleCall, CallState, Apis
<1>3. \A c \in Call : calls[c] = IdleCall
  BY DEF PredictionInit
<1>4. PredictionTypeOK
  <2>1. kept \in [Named -> [series : Series \cup {NoSeries}, at : Nat]]
    BY DEF PredictionInit, NotKept
  <2>2. listed \in Seq(Prediction) /\ clock \in 0 .. MaxClock
    BY PredictionConstants DEF PredictionInit
  <2> QED  BY <1>2, <2>1, <2>2 DEF PredictionInit, PredictionTypeOK
<1>5. \A c \in Call : CallOk(calls[c])
  BY <1>2, <1>3 DEF CallOk
<1>6. KeptOk
  BY DEF PredictionInit, KeptOk, NotKept
<1> QED  BY <1>1, <1>4, <1>5, <1>6 DEF PredictionInit, PredictionInv, PredictedFromPosted,
            ListedOk

LEMMA CallsStep ==
  ASSUME PredictionInv, NEW c \in Call, NEW r \in CallState, calls' = [calls EXCEPT ![c] = r]
  PROVE  /\ calls' \in [Call -> CallState]
         /\ \A d \in Call : calls'[d] = IF d = c THEN r ELSE calls[d]
BY DEF PredictionInv, PredictionTypeOK

\* A step that changes one request.
LEMMA OneCallStep ==
  ASSUME PredictionInv, NEW c \in Call, NEW r \in CallState, CallOk(r),
         calls' = [calls EXCEPT ![c] = r],
         UNCHANGED <<clock, kept, context, stored, listed, analysed, posted, tableRows, deleting>>
  PROVE  PredictionInv'
<1>1. /\ calls' \in [Call -> CallState]
      /\ \A d \in Call : calls'[d] = IF d = c THEN r ELSE calls[d]
  BY CallsStep
<1>3. (\A d \in Call : CallOk(calls[d]))'
  BY <1>1 DEF CallOk, PredictionInv
<1>4. PredictionTypeOK'
  BY <1>1 DEF PredictionInv, PredictionTypeOK
<1> QED  BY <1>3, <1>4 DEF PredictionInv, KeptOk, PredictedFromPosted, ListedOk

\* A step that changes no request, and keeps or forgets what it is kept for.
LEMMA KeptStep ==
  ASSUME PredictionInv, NEW k, k \in [Named -> [series : Series \cup {NoSeries}, at : Nat]],
         kept' = k, \A m \in Named : k[m] = kept[m] \/ k[m].series = NoSeries,
         UNCHANGED <<clock, context, calls, stored, listed, analysed, posted, tableRows, deleting>>
  PROVE  PredictionInv'
<1>1. PredictionTypeOK'
  BY DEF PredictionInv, PredictionTypeOK
<1>2. KeptOk'
  BY DEF PredictionInv, KeptOk
<1>3. (\A c \in Call : CallOk(calls[c]))'
  BY DEF PredictionInv, CallOk
<1> QED  BY <1>1, <1>2, <1>3 DEF PredictionInv, PredictedFromPosted, ListedOk

\* The requests that clients post.
LEMMA PostStep ==
  ASSUME PredictionInv, NEW c \in Call,
         \/ \E m \in Named \cup {NoMarket}, s \in Series \cup {NoSeries} :
              \/ PostPredict(c, m, s)
              \/ \E text \in BOOLEAN, social \in {"absent", "none", "some"} :
                   PostHybrid(c, m, s, text, social)
         \/ \E m \in Named : PostSet(c, m) \/ \E ai \in BOOLEAN : PostAi(c, m, ai)
         \/ \E text \in BOOLEAN : Analyze(c, text)
  PROVE  PredictionInv'
<1>1. ASSUME NEW m \in Named \cup {NoMarket}, NEW s \in Series \cup {NoSeries},
             PostPredict(c, m, s)
      PROVE  PredictionInv'
  <2> DEFINE r == [IdleCall EXCEPT !.api = "predict", !.market = m, !.series = s,
                     !.step = IF m = NoMarket THEN "done"
                              ELSE IF s = NoSeries THEN "stamp" ELSE "lookup"]
  <2>1. /\ calls' = [calls EXCEPT ![c] = r] /\ UNCHANGED <<tableRows, deleting>>
        /\ posted' = IF m # NoMarket /\ s # NoSeries THEN posted \cup {<<m, s>>} ELSE posted
        /\ UNCHANGED <<clock, kept, context, stored, listed, analysed>>
    BY <1>1 DEF PostPredict, Post, pageViewVars, deletionVars
  <2>2. r \in CallState /\ r.market = m /\ r.series = s /\ r.ctx = NoSeries
        /\ r.api = "predict" /\ (r.step = "lookup" => m # NoMarket) /\ r.step # "keep"
    BY DEF IdleCall, CallState, Apis
  <2> HIDE DEF r
  <2>3. /\ calls' \in [Call -> CallState]
        /\ \A d \in Call : calls'[d] = IF d = c THEN r ELSE calls[d]
    BY <2>1, <2>2, CallsStep
  <2>4. posted \subseteq posted' /\ posted' \subseteq Named \X Series
        /\ (m # NoMarket /\ s # NoSeries => <<m, s>> \in posted')
    BY <2>1 DEF PredictionInv, PredictionTypeOK
  <2>5. CallOk(r)'
    BY <2>2, <2>4 DEF CallOk
  <2>6. \A d \in Call : CallOk(calls[d])'
    <3> SUFFICES ASSUME NEW d \in Call PROVE CallOk(calls[d])'
      OBVIOUS
    <3>1. CASE d = c
      BY <2>2, <2>3, <2>4, <3>1 DEF CallOk
    <3>2. CASE d # c
      BY <2>1, <2>3, <2>4, <3>2 DEF CallOk, PredictionInv
    <3> QED  BY <3>1, <3>2
  <2>7. PredictionTypeOK'
    BY <2>1, <2>3, <2>4 DEF PredictionInv, PredictionTypeOK
  <2>8. KeptOk' /\ PredictedFromPosted' /\ ListedOk'
    BY <2>1, <2>4 DEF PredictionInv, KeptOk, PredictedFromPosted, ListedOk
  <2> QED  BY <2>1, <2>6, <2>7, <2>8 DEF PredictionInv
<1>2. ASSUME NEW m \in Named \cup {NoMarket}, NEW s \in Series \cup {NoSeries},
             NEW text \in BOOLEAN, NEW social \in {"absent", "none", "some"},
             NEW page \in BOOLEAN
      PROVE  HybridOf(m, s, text, social, page) \in CallState
             /\ CallOk(HybridOf(m, s, text, social, page))
  BY DEF HybridOf, IdleCall, CallState, Apis, CallOk
<1>3. ASSUME NEW m \in Named \cup {NoMarket}, NEW s \in Series \cup {NoSeries},
             NEW text \in BOOLEAN, NEW social \in {"absent", "none", "some"},
             PostHybrid(c, m, s, text, social)
      PROVE  PredictionInv'
  <2>1. calls' = [calls EXCEPT ![c] = HybridOf(m, s, text, social, FALSE)]
        /\ UNCHANGED <<clock, kept, context, stored, listed, analysed, posted, tableRows, deleting>>
    BY <1>3 DEF PostHybrid, Post, pageViewVars, deletionVars
  <2> QED  BY <1>2, <2>1, OneCallStep
<1>4. ASSUME NEW m \in Named, PostSet(c, m) PROVE PredictionInv'
  <2> DEFINE r == [IdleCall EXCEPT !.market = m, !.step = "stamp"]
  <2>1. calls' = [calls EXCEPT ![c] = r]
        /\ UNCHANGED <<clock, kept, context, stored, listed, analysed, posted, tableRows, deleting>>
    BY <1>4 DEF PostSet, Post, pageViewVars, deletionVars
  <2>2. r \in CallState /\ CallOk(r)
    BY DEF IdleCall, CallState, Apis, CallOk
  <2> HIDE DEF r
  <2> QED  BY <2>1, <2>2, OneCallStep
<1>5. ASSUME NEW text \in BOOLEAN, Analyze(c, text) PROVE PredictionInv'
  <2>1. PageMarketId \in Named
    BY PredictionConstants DEF PageMarketId, Named
  <2>2. calls' = [calls EXCEPT ![c] = HybridOf(PageMarketId, NoSeries, text, "none", TRUE)]
        /\ UNCHANGED <<clock, kept, context, stored, listed, analysed, posted, tableRows, deleting>>
    BY <1>5 DEF Analyze, Post, pageViewVars, deletionVars
  <2> QED  BY <1>2, <2>1, <2>2, OneCallStep
<1>6. ASSUME NEW m \in Named, NEW ai \in BOOLEAN, PostAi(c, m, ai) PROVE PredictionInv'
  <2> DEFINE r == [IdleCall EXCEPT !.api = "ai", !.market = m, !.ai = ai,
                                   !.step = IF ai THEN "stamp" ELSE "failed"]
  <2>1. calls' = [calls EXCEPT ![c] = r]
        /\ UNCHANGED <<clock, kept, context, stored, listed, analysed, posted, tableRows, deleting>>
    BY <1>6 DEF PostAi, Post, pageViewVars, deletionVars
  <2>2. r \in CallState /\ CallOk(r)
    BY DEF IdleCall, CallState, Apis, CallOk
  <2> HIDE DEF r
  <2> QED  BY <2>1, <2>2, OneCallStep
<1> QED  BY <1>1, <1>3, <1>4, <1>5, <1>6

\* The steps of a request.
LEMMA GoesStep ==
  ASSUME PredictionInv, NEW c \in Call,
         NEW step \in {"keep", "stamp", "insert", "invalidate", "done", "failed"},
         step = "keep" => At(c, "lookup")
  PROVE  [calls[c] EXCEPT !.step = step] \in CallState
         /\ CallOk([calls[c] EXCEPT !.step = step])
<1> DEFINE r == calls[c]
<1>1. r \in CallState /\ CallOk(r) /\ (step = "keep" => r.step = "lookup")
  BY DEF PredictionInv, PredictionTypeOK, At
<1> HIDE DEF r
<1>2. [r EXCEPT !.step = step] \in CallState /\ CallOk([r EXCEPT !.step = step])
  BY <1>1 DEF CallState, CallOk
<1> QED  BY <1>2 DEF r

LEMMA CacheStep ==
  ASSUME PredictionInv, NEW c \in Call, Lookup(c) \/ Keep(c) \/ Invalidate(c)
  PROVE  PredictionInv'
<1> DEFINE r == calls[c]
<1>1. r \in CallState /\ CallOk(r)
  BY DEF PredictionInv, PredictionTypeOK
<1>2. CASE Lookup(c)
  <2>1. r.api = "predict" /\ r.market \in Named /\ r.step = "lookup"
    BY <1>1, <1>2 DEF Lookup, At, CallOk
  <2>2. UNCHANGED <<clock, kept, context, stored, listed, analysed, posted, tableRows, deleting>>
    BY <1>2 DEF Lookup, pageViewVars, deletionVars
  <2>3. CASE Hit(r.market)
    <3> DEFINE s == kept[r.market].series
               q == [r EXCEPT !.step = "stamp", !.series = s]
    <3>1. s \in Series /\ <<r.market, s>> \in posted
      BY <2>1, <2>3 DEF Hit, KeyOf, PredictionInv, PredictionTypeOK, KeptOk
    <3>2. calls' = [calls EXCEPT ![c] = q]
      BY <1>2, <2>3, <1>1 DEF Lookup, KeyOf, PredictionInv, PredictionTypeOK
    <3> HIDE DEF s
    <3>3. q \in CallState /\ CallOk(q)
      <4> HIDE DEF r
      <4> QED  BY <1>1, <3>1 DEF CallState, CallOk
    <3> HIDE DEF q
    <3> QED  BY <2>2, <3>2, <3>3, OneCallStep
  <2>4. CASE ~Hit(r.market)
    <3> DEFINE q == [r EXCEPT !.step = "keep"]
    <3>1. calls' = [calls EXCEPT ![c] = q]
      BY <1>2, <2>4 DEF Lookup, PredictionInv, PredictionTypeOK
    <3>2. q \in CallState /\ CallOk(q)
      BY <2>1, GoesStep DEF At
    <3> HIDE DEF q
    <3> QED  BY <2>2, <3>1, <3>2, OneCallStep
  <2> QED  BY <2>3, <2>4
<1>3. CASE Keep(c) \/ Invalidate(c)
  <2>1. PICK step \in {"stamp", "done"} : calls' = [calls EXCEPT ![c].step = step]
    BY <1>3 DEF Keep, Invalidate, Goes
  <2> DEFINE q == [r EXCEPT !.step = step]
  <2>2. q \in CallState /\ CallOk(q)
    BY GoesStep
  <2>3. calls' = [calls EXCEPT ![c] = q]
    BY <2>1 DEF PredictionInv, PredictionTypeOK
  <2>4. UNCHANGED <<clock, context, stored, listed, analysed, posted, tableRows, deleting>>
    BY <1>3 DEF Keep, Invalidate, pageViewVars, deletionVars
  <2> DEFINE k == IF Keep(c) THEN [series |-> r.series, at |-> clock] ELSE NotKept
  <2>5. kept' = [kept EXCEPT ![r.market] = k]
    BY <1>3 DEF Keep, Invalidate, KeyOf
  <2>6. k \in [series : Series \cup {NoSeries}, at : Nat]
    <3>1. r.series \in Series \cup {NoSeries} /\ clock \in Nat
      BY <1>1 DEF PredictionInv, PredictionTypeOK, CallState
    <3> HIDE DEF r
    <3> QED  BY <3>1 DEF NotKept
  <2>7. r.market \in Named /\ k.series # NoSeries => <<r.market, k.series>> \in posted
    <3>1. CASE Keep(c)
      <4>1. r.api = "predict" /\ r.market # NoMarket
        BY <1>1, <3>1, NamedAreNumbers DEF Keep, At, CallOk
      <4>2. k.series = r.series
        BY <3>1
      <4> HIDE DEF k
      <4> QED  BY <1>1, <4>1, <4>2 DEF CallOk
    <3>2. CASE ~Keep(c)
      BY <3>2 DEF NotKept
    <3> QED  BY <3>1, <3>2
  <2> HIDE DEF k, q
  <2>8. /\ kept' \in [Named -> [series : Series \cup {NoSeries}, at : Nat]]
        /\ \A m \in Named : kept'[m] = IF m = r.market THEN k ELSE kept[m]
    BY <2>5, <2>6 DEF PredictionInv, PredictionTypeOK
  <2>9. KeptOk'
    BY <2>4, <2>7, <2>8 DEF KeptOk, PredictionInv
  <2>10. /\ calls' \in [Call -> CallState]
         /\ \A d \in Call : calls'[d] = IF d = c THEN q ELSE calls[d]
    BY <2>2, <2>3, CallsStep
  <2>11. (\A d \in Call : CallOk(calls[d]))'
    BY <2>2, <2>4, <2>10 DEF CallOk, PredictionInv
  <2>12. PredictionTypeOK'
    BY <2>4, <2>8, <2>10 DEF PredictionInv, PredictionTypeOK
  <2> QED  BY <2>4, <2>9, <2>11, <2>12 DEF PredictionInv, PredictedFromPosted, ListedOk
<1> QED  BY <1>2, <1>3

LEMMA HybridStep ==
  ASSUME PredictionInv, NEW c \in Call,
         ReadContext(c) \/ WriteContext(c) \/ \E ai \in BOOLEAN : FetchSignals(c, ai)
  PROVE  PredictionInv'
<1> DEFINE r == calls[c]
<1>1. r \in CallState /\ CallOk(r) /\ context \in Series \cup {NoSeries}
  BY DEF PredictionInv, PredictionTypeOK
<1>2. CASE ReadContext(c)
  <2> DEFINE q == [r EXCEPT !.step = IF context = NoSeries THEN "build" ELSE "fetch",
                            !.ctx = context]
  <2>1. calls' = [calls EXCEPT ![c] = q]
        /\ UNCHANGED <<clock, kept, context, stored, listed, analysed, posted, tableRows, deleting>>
    BY <1>2 DEF ReadContext, pageViewVars, deletionVars, PredictionInv, PredictionTypeOK
  <2>2. q \in CallState /\ CallOk(q)
    <3> HIDE DEF r
    <3> QED  BY <1>1 DEF CallState, CallOk
  <2> HIDE DEF q
  <2> QED  BY <2>1, <2>2, OneCallStep
<1>3. ASSUME NEW ai \in BOOLEAN, FetchSignals(c, ai) PROVE PredictionInv'
  <2> DEFINE h == r.text /\ r.social = "absent" /\ ai
             step == IF r.market = NoMarket THEN "done" ELSE "stamp"
             q == [r EXCEPT !.ai = ai, !.heard = h, !.step = step]
  <2>1. calls' = [calls EXCEPT ![c] = q]
        /\ UNCHANGED <<clock, kept, context, stored, listed, analysed, posted, tableRows, deleting>>
    <3>1. calls \in [Call -> CallState]
      BY DEF PredictionInv, PredictionTypeOK
    <3>2. calls' = [calls EXCEPT ![c] = q]
      BY <1>3, <3>1 DEF FetchSignals
    <3> QED  BY <1>3, <3>2 DEF FetchSignals, pageViewVars, deletionVars
  <2>2. h \in BOOLEAN /\ step \in {"done", "stamp"}
    OBVIOUS
  <2> HIDE DEF h, step
  <2>3. q \in CallState /\ CallOk(q)
    <3> HIDE DEF r
    <3> QED  BY <1>1, <2>2 DEF CallState, CallOk
  <2> HIDE DEF q
  <2> QED  BY <2>1, <2>3, OneCallStep
<1>4. CASE WriteContext(c)
  <2> DEFINE q == [r EXCEPT !.step = "fetch", !.ctx = context']
  <2>1. calls' = [calls EXCEPT ![c] = q] /\ context' = Built(r.series)
        /\ UNCHANGED <<clock, kept, stored, listed, analysed, posted, tableRows, deleting>>
    BY <1>4 DEF WriteContext, pageViewVars, deletionVars, PredictionInv, PredictionTypeOK
  <2>2. context' \in Series \cup {NoSeries} /\ context \in {NoSeries, context'}
    BY <1>1, <2>1 DEF Built, CallState
  <2>3. q \in CallState /\ q.ctx = context' /\ q.step = "fetch" /\ q.api = r.api
        /\ q.market = r.market /\ q.series = r.series
    <3> HIDE DEF r
    <3> QED  BY <1>1, <2>2 DEF CallState
  <2> HIDE DEF q
  <2>4. /\ calls' \in [Call -> CallState]
        /\ \A d \in Call : calls'[d] = IF d = c THEN q ELSE calls[d]
    BY <2>1, <2>3, CallsStep
  <2>5. (\A d \in Call : CallOk(calls[d]))'
    <3> SUFFICES ASSUME NEW d \in Call PROVE CallOk(calls[d])'
      OBVIOUS
    <3>1. CASE d = c
      BY <1>1, <2>1, <2>3, <2>4, <3>1 DEF CallOk
    <3>2. CASE d # c
      BY <2>1, <2>2, <2>4, <3>2 DEF CallOk, PredictionInv
    <3> QED  BY <3>1, <3>2
  <2>6. PredictionTypeOK'
    BY <2>1, <2>2, <2>4 DEF PredictionInv, PredictionTypeOK
  <2> QED  BY <2>1, <2>5, <2>6 DEF PredictionInv, KeptOk, PredictedFromPosted, ListedOk
<1> QED  BY <1>2, <1>3, <1>4

LEMMA StoreStep ==
  ASSUME PredictionInv, NEW c \in Call, Stamp(c) \/ Insert(c) \/ Vanished(c)
  PROVE  PredictionInv'
<1> DEFINE r == calls[c]
<1>1. r \in CallState /\ CallOk(r)
  BY DEF PredictionInv, PredictionTypeOK
<1>2. CASE Stamp(c)
  <2> DEFINE q == [r EXCEPT !.step = "insert", !.at = clock]
  <2>1. calls' = [calls EXCEPT ![c] = q]
        /\ UNCHANGED <<clock, kept, context, stored, listed, analysed, posted, tableRows, deleting>>
    BY <1>2 DEF Stamp, pageViewVars, deletionVars, PredictionInv, PredictionTypeOK
  <2>2. clock \in Nat
    BY DEF PredictionInv, PredictionTypeOK
  <2>3. q \in CallState /\ CallOk(q)
    <3> HIDE DEF r
    <3> QED  BY <1>1, <2>2 DEF CallState, CallOk
  <2> HIDE DEF q
  <2> QED  BY <2>1, <2>3, OneCallStep
<1>3. CASE Insert(c)
  <2>1. UNCHANGED <<clock, kept, context, listed, analysed, posted, tableRows, deleting>>
    BY <1>3 DEF Insert, pageViewVars, deletionVars
  <2>2. PICK step \in {"invalidate", "done", "failed"} : Goes(c, step)
    BY <1>3 DEF Insert
  <2> DEFINE q == [r EXCEPT !.step = step]
             p == [call |-> c, api |-> r.api, market |-> r.market, series |-> r.series,
                   page |-> r.page, at |-> r.at]
  <2>3. calls' = [calls EXCEPT ![c] = q]
    BY <2>2 DEF Goes, PredictionInv, PredictionTypeOK
  <2>4. q \in CallState /\ CallOk(q)
    BY GoesStep
  <2>5. stored' = stored \/ (r.market \in MarketRow /\ stored' = stored \cup {p})
    BY <1>3 DEF Insert, PredictionInv, PredictionTypeOK
  <2>6. r.market \in MarketRow => p \in Prediction
    <3> HIDE DEF r
    <3> QED  BY <1>1 DEF CallState, Prediction
  <2>7. r.market \in MarketRow /\ p.api = "predict" /\ p.series # NoSeries =>
          <<p.market, p.series>> \in posted
    BY <1>1, NamedAreNumbers DEF CallOk
  <2> HIDE DEF p, q
  <2>8. stored \subseteq stored' /\ stored' \subseteq Prediction /\ IsFiniteSet(stored')
    BY <2>5, <2>6, FS_AddElement DEF PredictionInv, PredictionTypeOK
  <2>9. /\ calls' \in [Call -> CallState]
        /\ \A d \in Call : calls'[d] = IF d = c THEN q ELSE calls[d]
    BY <2>3, <2>4, CallsStep
  <2>10. (\A d \in Call : CallOk(calls[d]))'
    BY <2>1, <2>4, <2>9 DEF CallOk, PredictionInv
  <2>11. PredictionTypeOK'
    BY <2>1, <2>8, <2>9 DEF PredictionInv, PredictionTypeOK
  <2>12. PredictedFromPosted'
    BY <2>1, <2>5, <2>7 DEF PredictedFromPosted, PredictionInv
  <2>13. KeptOk' /\ ListedOk'
    BY <2>1, <2>8 DEF PredictionInv, KeptOk, ListedOk
  <2> QED  BY <2>8, <2>10, <2>11, <2>12, <2>13 DEF PredictionInv
<1>4. CASE Vanished(c)
  <2> DEFINE q == [r EXCEPT !.step = "failed"]
  <2>1. calls' = [calls EXCEPT ![c] = q]
        /\ UNCHANGED <<clock, kept, context, stored, listed, analysed, posted, tableRows, deleting>>
    BY <1>4 DEF Vanished, Goes, pageViewVars, deletionVars, PredictionInv, PredictionTypeOK
  <2>2. q \in CallState /\ CallOk(q)
    BY GoesStep
  <2> HIDE DEF q
  <2> QED  BY <2>1, <2>2, OneCallStep
<1> QED  BY <1>2, <1>3, <1>4

\* The cache forgets; the server restarts; time passes.
LEMMA ForgetStep ==
  ASSUME PredictionInv,
         (\E m \in Named : InvalidateMarket(m)) \/ CleanupExpired \/ ServerRestart \/ Second
  PROVE  PredictionInv'
<1>1. NotKept \in [series : Series \cup {NoSeries}, at : Nat] /\ NotKept.series = NoSeries
  BY DEF NotKept
<1>2. kept \in [Named -> [series : Series \cup {NoSeries}, at : Nat]]
  BY DEF PredictionInv, PredictionTypeOK
<1>3. ASSUME NEW m \in Named, InvalidateMarket(m) PROVE PredictionInv'
  <2>1. kept' = [kept EXCEPT ![m] = NotKept]
        /\ UNCHANGED <<clock, context, calls, stored, listed, analysed, posted, tableRows, deleting>>
    BY <1>3 DEF InvalidateMarket, KeyOf, pageViewVars, deletionVars
  <2>2. kept' \in [Named -> [series : Series \cup {NoSeries}, at : Nat]]
        /\ \A n \in Named : kept'[n] = kept[n] \/ kept'[n].series = NoSeries
    BY <1>1, <1>2, <2>1
  <2> QED  BY <2>1, <2>2, KeptStep
<1>4. CASE CleanupExpired
  <2>1. \A n \in Named : kept'[n] = kept[n] \/ kept'[n] = NotKept
    BY <1>4 DEF CleanupExpired
  <2>2. kept' \in [Named -> [series : Series \cup {NoSeries}, at : Nat]]
    BY <1>1, <1>2, <1>4 DEF CleanupExpired
  <2>3. UNCHANGED <<clock, context, calls, stored, listed, analysed, posted, tableRows, deleting>>
    BY <1>4 DEF CleanupExpired, pageViewVars, deletionVars
  <2> QED  BY <1>1, <2>1, <2>2, <2>3, KeptStep
<1>5. CASE ServerRestart
  <2>1. /\ kept' = [m \in Named |-> NotKept] /\ context' = NoSeries
        /\ deleting' = {} /\ UNCHANGED <<clock, stored, listed, analysed, posted, tableRows>>
    BY <1>5 DEF ServerRestart, pageViewVars, deletionVars
  <2>2. \A c \in Call :
          /\ calls'[c] \in CallState /\ calls'[c].ctx = NoSeries
          /\ calls'[c].step \in {"idle", "done", "failed"}
          /\ calls'[c].api = calls[c].api /\ calls'[c].market = calls[c].market
          /\ calls'[c].series = calls[c].series
    <3> SUFFICES ASSUME NEW c \in Call
                 PROVE  /\ calls'[c] \in CallState /\ calls'[c].ctx = NoSeries
                        /\ calls'[c].step \in {"idle", "done", "failed"}
                        /\ calls'[c].api = calls[c].api /\ calls'[c].market = calls[c].market
                        /\ calls'[c].series = calls[c].series
      OBVIOUS
    <3> DEFINE r == calls[c]
               step == IF r.step \in {"idle", "done"} THEN r.step ELSE "failed"
               q == [r EXCEPT !.ctx = NoSeries, !.step = step]
    <3>1. r \in CallState
      BY DEF PredictionInv, PredictionTypeOK
    <3>2. calls'[c] = q
      <4>1. [r EXCEPT !.ctx = NoSeries].step = r.step
        <5> HIDE DEF r
        <5> QED  BY <3>1 DEF CallState
      <4> QED  BY <1>5, <4>1 DEF ServerRestart
    <3>3. step \in {"idle", "done", "failed"}
      OBVIOUS
    <3>4. /\ q \in CallState /\ q.ctx = NoSeries /\ q.step = step
          /\ q.api = r.api /\ q.market = r.market /\ q.series = r.series
      <4> HIDE DEF r, step
      <4> QED  BY <3>1, <3>3 DEF CallState
    <3> QED  BY <3>2, <3>3, <3>4
  <2>3. calls' \in [Call -> CallState]
    <3>1. calls' = [c \in Call |-> calls'[c]]
      BY <1>5 DEF ServerRestart
    <3> QED  BY <2>2, <3>1
  <2>4. (\A c \in Call : CallOk(calls[c]))'
    BY <2>1, <2>2 DEF PredictionInv, CallOk
  <2>5. PredictionTypeOK' /\ KeptOk'
    BY <1>1, <2>1, <2>3 DEF PredictionInv, PredictionTypeOK, KeptOk
  <2> QED  BY <2>1, <2>4, <2>5 DEF PredictionInv, PredictedFromPosted, ListedOk
<1>6. CASE Second
  <2>1. /\ clock' \in 0 .. MaxClock
        /\ UNCHANGED <<kept, context, calls, stored, listed, analysed, posted, tableRows, deleting>>
    BY <1>6, PredictionConstants DEF Second, memoryVars, pageViewVars, deletionVars, PredictionInv,
       PredictionTypeOK
  <2> QED  BY <2>1 DEF PredictionInv, PredictionTypeOK, CallOk, KeptOk, PredictedFromPosted,
              ListedOk
<1> QED  BY <1>3, <1>4, <1>5, <1>6

\* Predictions, and then rows, are deleted.
LEMMA DeleteStep ==
  ASSUME PredictionInv, NEW D \in SUBSET MarketRow, DeletePredictions(D) \/ DeleteRows(D)
  PROVE  PredictionInv'
<1>1. UNCHANGED <<clock, kept, context, calls, listed, analysed, posted>>
  BY DEF DeletePredictions, DeleteRows, memoryVars, pageViewVars
<1>2. stored' \subseteq stored /\ IsFiniteSet(stored')
  <2>1. stored' \subseteq stored
    BY DEF DeletePredictions, DeleteRows
  <2> QED  BY <2>1, FS_Subset DEF PredictionInv
<1>3. tableRows' \subseteq MarketRow /\ deleting' \subseteq SUBSET MarketRow
  BY DEF DeletePredictions, DeleteRows, PredictionInv, PredictionTypeOK
<1>4. PredictionTypeOK'
  BY <1>1, <1>2, <1>3 DEF PredictionInv, PredictionTypeOK
<1> QED  BY <1>1, <1>2, <1>4 DEF PredictionInv, CallOk, KeptOk, PredictedFromPosted, ListedOk

\* A listing of a finite set has all its elements, and the latest first.
LEMMA ListingProperties ==
  ASSUME NEW S, IsFiniteSet(S), NEW s \in Listings(S)
  PROVE  /\ s \in Seq(S) /\ Len(s) = Cardinality(S) /\ Len(s) \in Nat
         /\ \A i \in 1 .. Len(s) : s[i] \in S
         /\ \A p \in S : \E i \in 1 .. Len(s) : s[i] = p
         /\ \A i, j \in 1 .. Len(s) : i < j => s[i].at >= s[j].at
<1> DEFINE n == Cardinality(S)
<1>1. n \in Nat
  BY FS_CardinalityType
<1>2. s \in [1 .. n -> S]
  BY DEF Listings
<1>3. DOMAIN s = 1 .. n
  BY <1>2
<1>4. /\ \A p \in S : \E i \in 1 .. n : s[i] = p
      /\ \A i, j \in 1 .. n : i < j => s[i].at >= s[j].at
  <2>1. /\ \A p \in S : \E i \in DOMAIN s : s[i] = p
        /\ \A i, j \in DOMAIN s : i < j => s[i].at >= s[j].at
    BY DEF Listings
  <2> QED  BY <1>3, <2>1
<1> HIDE DEF n
<1>5. s \in Seq(S) /\ Len(s) = n
  BY <1>1, <1>2, IsASeq, LenProperties
<1> QED  BY <1>1, <1>2, <1>4, <1>5 DEF n

LEMMA ListedStep ==
  ASSUME PredictionInv, GenerateAnalysis \/ ListPredictions
  PROVE  PredictionInv'
<1>1. CASE GenerateAnalysis
  <2>1. analysed' \in MarketRow
        /\ UNCHANGED <<clock, kept, context, calls, stored, listed, posted, tableRows, deleting>>
    <3>1. analysed' \in AnalysedRows(PageMarketId)
      BY <1>1 DEF GenerateAnalysis
    <3>2. tableRows \subseteq MarketRow
      BY DEF PredictionInv, PredictionTypeOK
    <3>3. analysed' \in MarketRow
      BY <3>1, <3>2 DEF AnalysedRows
    <3> QED  BY <1>1, <3>3 DEF GenerateAnalysis, memoryVars, deletionVars
  <2> QED  BY <2>1 DEF PredictionInv, PredictionTypeOK, CallOk, KeptOk, PredictedFromPosted,
              ListedOk
<1>2. CASE ListPredictions
  <2> DEFINE S == {p \in stored : p.market = OpenRow}
  <2>1. listed' \in Listings(S)
        /\ UNCHANGED <<clock, kept, context, calls, stored, analysed, posted, tableRows, deleting>>
    BY <1>2 DEF ListPredictions, memoryVars, deletionVars
  <2>2. S \subseteq stored /\ \A p \in S : p.market = OpenRow
    OBVIOUS
  <2> HIDE DEF S
  <2>3. IsFiniteSet(S)
    BY <2>2, FS_Subset DEF PredictionInv
  <2>4. listed' \in Seq(S) /\ \A i \in 1 .. Len(listed') : listed'[i] \in S
    BY <2>1, <2>3, ListingProperties
  <2>5. listed' \in Seq(Prediction)
    BY <2>2, <2>4, SeqMonotonic DEF PredictionInv, PredictionTypeOK
  <2>6. ListedOk'
    BY <2>2, <2>4 DEF ListedOk
  <2> QED  BY <2>1, <2>5, <2>6 DEF PredictionInv, PredictionTypeOK, CallOk, KeptOk,
              PredictedFromPosted
<1> QED  BY <1>1, <1>2

LEMMA PredictionStep == PredictionInv /\ [PredictionNext]_predictionVars => PredictionInv'
<1> SUFFICES ASSUME PredictionInv, [PredictionNext]_predictionVars PROVE PredictionInv'
  OBVIOUS
<1>1. CASE UNCHANGED predictionVars
  BY <1>1 DEF predictionVars, memoryVars, pageViewVars, deletionVars, PredictionInv, PredictionTypeOK,
     CallOk, KeptOk, PredictedFromPosted, ListedOk
<1> QED  BY <1>1, PostStep, CacheStep, HybridStep, StoreStep, ForgetStep, DeleteStep,
            ListedStep DEF PredictionNext

LEMMA PredictionInvariant == PredictionSpec => []PredictionInv
BY PredictionInitInv, PredictionStep, PTL DEF PredictionSpec

\* All hybrid predictions of a run of the server have one context, however many
\* requests found none and built theirs.
LEMMA ContextIsOne == PredictionSpec => []OneContext
<1>1. PredictionInv => OneContext
  BY DEF PredictionInv, CallOk, OneContext
<1> QED  BY <1>1, PredictionInvariant, PTL

\* What is stored for a market was computed from a series posted for it, by this
\* request or by one whose result was kept.
LEMMA StoredFromPosted == PredictionSpec => []PredictedFromPosted
<1>1. PredictionInv => PredictedFromPosted
  BY DEF PredictionInv
<1> QED  BY <1>1, PredictionInvariant, PTL

\* For any number of requests, restarts, expiries, invalidations and deletions: what is stored for a
\* market was computed from a series posted for it, and in the context of all others.
THEOREM InputsRight == PredictionSpec => []FromPostedInContext
<1>1. PredictedFromPosted /\ OneContext => FromPostedInContext
  BY DEF FromPostedInContext
<1> QED  BY <1>1, ContextIsOne, StoredFromPosted, PTL

\* The latest prediction that a page shows, the last point of its history, never gives
\* way to an older one as long as it is stored, in whatever order rows are stamped,
\* inserted and deleted.
THEOREM LatestIsLatest == PredictionSpec => LatestStays
<1> DEFINE A == listed # <<>> /\ listed[1] \in stored' =>
                  /\ listed' # <<>> /\ listed'[1].at >= listed[1].at
                  /\ HistoryTimes' # <<>> =>
                       HistoryTimes'[Len(listed')] = listed'[1].at
<1>1. PredictionInv /\ [PredictionNext]_predictionVars => [A]_listed
  <2> SUFFICES ASSUME PredictionInv, [PredictionNext]_predictionVars, listed' # listed,
                      listed # <<>>, listed[1] \in stored'
               PROVE  /\ listed' # <<>> /\ listed'[1].at >= listed[1].at
                      /\ HistoryTimes' # <<>> =>
                           HistoryTimes'[Len(listed')] = listed'[1].at
    OBVIOUS
  <2> DEFINE S == {p \in stored : p.market = OpenRow}
  <2>1. listed' \in Listings(S) /\ stored' = stored
    BY DEF PredictionNext, predictionVars, pageViewVars, deletionVars, ListPredictions, PostPredict,
       PostHybrid, PostSet, FetchSignals, Analyze, Lookup, Keep, ReadContext, WriteContext,
       Stamp, Insert, Invalidate, InvalidateMarket, CleanupExpired, ServerRestart, Second,
       GenerateAnalysis, PostAi, Vanished, DeletePredictions, DeleteRows
  <2>2. IsFiniteSet(S) /\ S \subseteq Prediction
    BY FS_Subset DEF PredictionInv, PredictionTypeOK
  <2>3. listed[1] \in S /\ 1 \in 1 .. Len(listed)
    <3>1. listed \in Seq(Prediction)
      BY DEF PredictionInv, PredictionTypeOK
    <3>2. Len(listed) \in Nat \ {0}
      BY <3>1, EmptySeq
    <3> QED  BY <2>1, <3>2 DEF PredictionInv, ListedOk
  <2> HIDE DEF S
  <2>4. /\ listed' \in Seq(S) /\ Len(listed') \in Nat
        /\ \A i \in 1 .. Len(listed') : listed'[i] \in S
        /\ \A p \in S : \E i \in 1 .. Len(listed') : listed'[i] = p
        /\ \A i, j \in 1 .. Len(listed') : i < j => listed'[i].at >= listed'[j].at
    BY <2>1, <2>2, ListingProperties
  <2>5. PICK i \in 1 .. Len(listed') : listed'[i] = listed[1]
    BY <2>3, <2>4
  <2>6. Len(listed') >= 1 /\ 1 \in 1 .. Len(listed') /\ listed' # <<>>
    BY <2>4, <2>5
  <2>7. listed'[1].at >= listed[1].at
    <3>1. CASE i = 1
      <4>1. listed[1].at \in Nat
        BY <2>2, <2>3 DEF Prediction
      <4> QED  BY <2>5, <3>1, <4>1
    <3>2. CASE 1 < i
      BY <2>4, <2>5, <2>6, <3>2
    <3> QED  BY <2>4, <2>5, <3>1, <3>2
  <2>8. ASSUME HistoryTimes' # <<>> PROVE HistoryTimes'[Len(listed')] = listed'[1].at
    <3> DEFINE n == Len(listed')
    <3>1. HistoryTimes' = [j \in 1 .. n |-> listed'[n + 1 - j].at]
      BY <2>8 DEF HistoryTimes
    <3>2. n \in 1 .. n /\ n + 1 - n = 1
      BY <2>4, <2>6
    <3> HIDE DEF n
    <3>3. HistoryTimes'[n] = listed'[1].at
      BY <3>1, <3>2
    <3> QED  BY <3>3 DEF n
  <2> QED  BY <2>6, <2>7, <2>8
<1> QED  BY <1>1, PredictionInvariant, PTL DEF PredictionSpec, LatestStays

-----------------------------------------------------------------------------
(* Sign-in.                                                                *)

SignedOk ==
  \A s \in signatures : s.signer = s.message.address /\ s.message \in issued
\* A request sends a signature that was made, and has a nonce while it is under way.
LoginOk(r) ==
  /\ r.signature \in signatures \cup {NoEntry}
  /\ r.step \in {"set", "del", "check"} => r.nonce \in 1 .. nonces
NoncesOk ==
  /\ \A l \in Login : LoginOk(logins[l])
  /\ \A a \in Signer : entries[a] # NoEntry => entries[a].nonce <= nonces
  /\ \A t \in tokens : t.nonce <= nonces

\* In memory a nonce is in one place: with a request, in the store or in a token.
Carries(r) == r.step \in {"set", "check"}
OnePlace ==
  store = "memory" =>
    /\ \A l \in Login : logins[l].step # "del"
    /\ \A l, k \in Login :
         Carries(logins[l]) /\ Carries(logins[k]) /\ l # k => logins[l].nonce # logins[k].nonce
    /\ \A l \in Login, a \in Signer :
         Carries(logins[l]) /\ entries[a] # NoEntry => logins[l].nonce # entries[a].nonce
    /\ \A a, b \in Signer :
         entries[a] # NoEntry /\ entries[b] # NoEntry /\ a # b =>
           entries[a].nonce # entries[b].nonce
    /\ \A t \in tokens :
         /\ \A l \in Login : Carries(logins[l]) => t.nonce # logins[l].nonce
         /\ \A a \in Signer : entries[a] # NoEntry => t.nonce # entries[a].nonce
         /\ \A u \in tokens : t.nonce = u.nonce => t = u
SignInInv == SignInTypeOK /\ SignedOk /\ NoncesOk /\ OnePlace /\ TokenIsSigned

LEMMA SignInBounds == NonceTtl \in Nat /\ MaxNonce \in Nat /\ MaxSecs \in Nat
BY SignInConstants

LEMMA SignInInitInv == SignInInit => SignInInv
<1> SUFFICES ASSUME SignInInit PROVE SignInInv
  OBVIOUS
<1> DEFINE first == CHOOSE a \in Signer : TRUE
           idle == [step |-> "idle", address |-> first, now |-> 0, nonce |-> 0, exp |-> 0,
                    signature |-> NoEntry]
<1>1. first \in Signer
  BY SignInConstants
<1>2. logins = [l \in Login |-> idle]
  BY DEF SignInInit
<1> HIDE DEF first
<1>3. idle \in LoginState /\ idle.step = "idle" /\ idle.signature = NoEntry
  BY <1>1, SignInConstants DEF LoginState
<1> HIDE DEF idle
<1>4. \A l \in Login : logins[l] = idle
  BY <1>2
<1>5. SignInTypeOK
  <2>1. 0 \in 0 .. MaxSecs /\ 0 \in 0 .. MaxNonce
    BY SignInConstants
  <2>2. logins \in [Login -> LoginState]
    BY <1>2, <1>3
  <2> QED  BY <2>1, <2>2 DEF SignInInit, SignInTypeOK
<1>6. NoncesOk /\ OnePlace
  BY <1>3, <1>4 DEF SignInInit, NoncesOk, LoginOk, OnePlace, Carries
<1> QED  BY <1>5, <1>6 DEF SignInInit, SignInInv, SignedOk, TokenIsSigned

LEMMA LoginsStep ==
  ASSUME SignInInv, NEW l \in Login, NEW r \in LoginState, logins' = [logins EXCEPT ![l] = r]
  PROVE  /\ logins' \in [Login -> LoginState]
         /\ \A k \in Login : logins'[k] = IF k = l THEN r ELSE logins[k]
BY DEF SignInInv, SignInTypeOK

LEMMA EntryFacts ==
  ASSUME SignInInv
  PROVE  \A a \in Signer : entries[a] # NoEntry =>
           /\ entries[a] \in Entry /\ entries[a].nonce \in 1 .. nonces
           /\ entries[a].exp \in Nat
<1> SUFFICES ASSUME NEW a \in Signer, entries[a] # NoEntry
             PROVE  /\ entries[a] \in Entry /\ entries[a].nonce \in 1 .. nonces
                    /\ entries[a].exp \in Nat
  OBVIOUS
<1>1. entries[a] \in Entry /\ entries[a].nonce <= nonces /\ nonces \in Nat
  BY SignInConstants DEF SignInInv, SignInTypeOK, NoncesOk
<1> QED  BY <1>1, SignInConstants DEF Entry

\* A nonce is made for a challenge.
LEMMA ChallengeStep ==
  ASSUME SignInInv, NEW l \in Login, NEW a \in Signer, Challenge(l, a)
  PROVE  SignInInv'
<1> DEFINE r == logins[l]
           q == [r EXCEPT !.step = "set", !.address = a, !.now = secs, !.nonce = nonces + 1]
<1>1. /\ r \in LoginState /\ LoginOk(r) /\ nonces \in Nat /\ nonces + 1 \in 1 .. MaxNonce
      /\ secs \in 0 .. MaxSecs
  BY SignInConstants DEF SignInInv, SignInTypeOK, NoncesOk, Challenge
<1>2. logins' = [logins EXCEPT ![l] = q] /\ nonces' = nonces + 1
      /\ UNCHANGED <<store, entries, secs, issued, signatures, tokens>>
  BY DEF Challenge, storeVars, messageVars, SignInInv, SignInTypeOK
<1>3. q \in LoginState /\ q.step = "set" /\ q.nonce = nonces + 1 /\ q.signature = r.signature
  <2> DEFINE n == nonces + 1
  <2>1. n \in 0 .. MaxNonce
    BY <1>1, SignInBounds
  <2> HIDE DEF r, n
  <2>2. [r EXCEPT !.step = "set", !.address = a, !.now = secs, !.nonce = n] \in LoginState
    BY <1>1, <2>1 DEF LoginState
  <2>3. /\ [r EXCEPT !.step = "set", !.address = a, !.now = secs, !.nonce = n].step = "set"
        /\ [r EXCEPT !.step = "set", !.address = a, !.now = secs, !.nonce = n].nonce = n
        /\ [r EXCEPT !.step = "set", !.address = a, !.now = secs, !.nonce = n].signature =
             r.signature
    BY <1>1 DEF LoginState
  <2> QED  BY <2>2, <2>3 DEF n
<1> HIDE DEF q
<1>4. /\ logins' \in [Login -> LoginState]
      /\ \A k \in Login : logins'[k] = IF k = l THEN q ELSE logins[k]
  BY <1>2, <1>3, LoginsStep
<1>5. SignInTypeOK'
  BY <1>1, <1>2, <1>4 DEF SignInInv, SignInTypeOK
<1>6. \A k \in Login : k # l /\ Carries(logins[k]) => logins[k].nonce <= nonces
  BY <1>1 DEF Carries, SignInInv, NoncesOk, LoginOk
<1>7. NoncesOk'
  <2>1. (\A k \in Login : LoginOk(logins[k]))'
    BY <1>1, <1>2, <1>3, <1>4 DEF LoginOk, SignInInv, NoncesOk
  <2>2. \A e \in Signer : entries[e] # NoEntry => entries[e].nonce <= nonces + 1
    BY <1>1, EntryFacts
  <2>3. \A t \in tokens : t.nonce <= nonces + 1
    BY <1>1 DEF SignInInv, NoncesOk, SignInTypeOK, Token
  <2> QED  BY <1>2, <2>1, <2>2, <2>3 DEF NoncesOk
<1>8. OnePlace'
  <2> SUFFICES ASSUME store = "memory" PROVE OnePlace'
    BY <1>2 DEF OnePlace
  <2>1. \A k \in Login : Carries(logins'[k]) =>
          k = l \/ (Carries(logins[k]) /\ logins'[k].nonce = logins[k].nonce
                    /\ logins[k].nonce <= nonces)
    BY <1>4, <1>6
  <2>2. logins'[l].nonce = nonces + 1
    BY <1>3, <1>4
  <2>3. /\ \A e \in Signer : entries[e] # NoEntry => entries[e].nonce <= nonces
        /\ \A t \in tokens : t.nonce <= nonces
    BY DEF SignInInv, NoncesOk
  <2>4. \A k \in Login : logins'[k].step # "del"
    BY <1>3, <1>4 DEF SignInInv, OnePlace
  <2>5. ~(nonces + 1 <= nonces)
    BY <1>1
  <2>6. \A k, j \in Login :
          Carries(logins'[k]) /\ Carries(logins'[j]) /\ k # j => logins'[k].nonce # logins'[j].nonce
    BY <2>1, <2>2, <2>5 DEF SignInInv, OnePlace
  <2>7. \A k \in Login, e \in Signer :
          Carries(logins'[k]) /\ entries[e] # NoEntry => logins'[k].nonce # entries[e].nonce
    BY <2>1, <2>2, <2>3, <2>5 DEF SignInInv, OnePlace
  <2>8. \A t \in tokens, k \in Login : Carries(logins'[k]) => t.nonce # logins'[k].nonce
    BY <2>1, <2>2, <2>3, <2>5 DEF SignInInv, OnePlace
  <2> QED  BY <1>2, <2>4, <2>6, <2>7, <2>8 DEF SignInInv, OnePlace, Carries
<1> QED  BY <1>2, <1>5, <1>7, <1>8 DEF SignInInv, SignedOk, TokenIsSigned

\* It is stored, and returned in the message.
LEMMA SetNonceStep ==
  ASSUME SignInInv, NEW l \in Login, SetNonce(l)
  PROVE  SignInInv'
<1> DEFINE r == logins[l]
           q == [r EXCEPT !.step = "done"]
           e0 == [nonce |-> r.nonce, exp |-> r.now + NonceTtl, gone |-> secs + NonceTtl]
           m == [address |-> r.address, nonce |-> r.nonce, at |-> r.now]
<1>1. /\ r \in LoginState /\ LoginOk(r) /\ r.step = "set" /\ r.nonce \in 1 .. nonces
      /\ nonces \in 0 .. MaxNonce /\ secs \in 0 .. MaxSecs
  BY DEF SignInInv, SignInTypeOK, NoncesOk, SetNonce, LoginOk
<1>2. /\ logins' = [logins EXCEPT ![l] = q] /\ issued' = issued \cup {m}
      /\ UNCHANGED <<store, secs, nonces, signatures, tokens>>
  BY DEF SetNonce, SignInInv, SignInTypeOK
<1>3. \A a \in Signer : entries'[a] \in {entries[a], NoEntry} \/ (a = r.address /\ entries'[a] = e0)
  BY DEF SetNonce
<1>4. q \in LoginState /\ q.step = "done" /\ q.signature = r.signature
  <2> HIDE DEF r
  <2> QED  BY <1>1 DEF LoginState
<1>0. r.nonce \in 1 .. MaxNonce /\ r.address \in Signer /\ r.now \in 0 .. MaxSecs
  <2>1. r.address \in Signer /\ r.now \in 0 .. MaxSecs
    <3> HIDE DEF r
    <3> QED  BY <1>1 DEF LoginState
  <2> HIDE DEF r
  <2> QED  BY <1>1, <2>1, SignInBounds
<1>5. m \in Message
  <2> HIDE DEF r
  <2> QED  BY <1>0 DEF Message
<1>6. e0 \in Entry /\ e0.nonce = r.nonce
  <2>1. r.nonce \in 1 .. MaxNonce /\ r.now + NonceTtl \in Nat /\ secs + NonceTtl \in Nat
    <3> HIDE DEF r
    <3> QED  BY <1>0, <1>1, SignInBounds
  <2> QED  BY <2>1 DEF Entry
<1> HIDE DEF q, e0, m
<1>7. /\ logins' \in [Login -> LoginState]
      /\ \A k \in Login : logins'[k] = IF k = l THEN q ELSE logins[k]
  BY <1>2, <1>4, LoginsStep
<1>8. entries' \in [Signer -> Entry \cup {NoEntry}]
  <2>1. entries' = [a \in Signer |-> entries'[a]]
    BY DEF SetNonce
  <2>2. \A a \in Signer : entries'[a] \in Entry \cup {NoEntry}
    BY <1>3, <1>6 DEF SignInInv, SignInTypeOK
  <2> QED  BY <2>1, <2>2
<1>9. SignInTypeOK'
  BY <1>2, <1>5, <1>7, <1>8 DEF SignInInv, SignInTypeOK
<1>10. NoncesOk'
  <2>1. (\A k \in Login : LoginOk(logins[k]))'
    BY <1>1, <1>2, <1>4, <1>7 DEF LoginOk, SignInInv, NoncesOk
  <2>2. \A a \in Signer : entries'[a] # NoEntry => entries'[a].nonce <= nonces
    BY <1>1, <1>3, <1>6 DEF SignInInv, NoncesOk
  <2> QED  BY <1>2, <2>1, <2>2 DEF SignInInv, NoncesOk
<1>11. OnePlace'
  <2> SUFFICES ASSUME store = "memory" PROVE OnePlace'
    BY <1>2 DEF OnePlace
  <2>1. \A k \in Login : Carries(logins'[k]) => k # l /\ Carries(logins[k]) /\ logins'[k] = logins[k]
    BY <1>4, <1>7 DEF Carries
  <2>2. Carries(logins[l])
    BY <1>1 DEF Carries
  <2>3. \A a \in Signer : entries'[a] # NoEntry =>
          (entries[a] # NoEntry /\ entries'[a] = entries[a])
          \/ (a = r.address /\ entries'[a].nonce = r.nonce)
    BY <1>3, <1>6
  <2>4. \A k \in Login : logins'[k].step # "del"
    BY <1>4, <1>7 DEF SignInInv, OnePlace
  <2>5. \A k, j \in Login :
          Carries(logins'[k]) /\ Carries(logins'[j]) /\ k # j => logins'[k].nonce # logins'[j].nonce
    BY <2>1 DEF SignInInv, OnePlace
  <2>6. \A k \in Login, a \in Signer :
          Carries(logins'[k]) /\ entries'[a] # NoEntry => logins'[k].nonce # entries'[a].nonce
    BY <2>1, <2>2, <2>3 DEF SignInInv, OnePlace
  <2>7. \A a, b \in Signer :
          entries'[a] # NoEntry /\ entries'[b] # NoEntry /\ a # b =>
            entries'[a].nonce # entries'[b].nonce
    BY <2>2, <2>3 DEF SignInInv, OnePlace
  <2>8. \A t \in tokens :
          /\ \A k \in Login : Carries(logins'[k]) => t.nonce # logins'[k].nonce
          /\ \A a \in Signer : entries'[a] # NoEntry => t.nonce # entries'[a].nonce
    BY <2>1, <2>2, <2>3 DEF SignInInv, OnePlace
  <2> QED  BY <1>2, <2>4, <2>5, <2>6, <2>7, <2>8 DEF SignInInv, OnePlace, Carries
<1>12. SignedOk' /\ TokenIsSigned'
  BY <1>2 DEF SignInInv, SignedOk, TokenIsSigned
<1> QED  BY <1>9, <1>10, <1>11, <1>12 DEF SignInInv

\* A verification is sent.
LEMMA VerifyStep ==
  ASSUME SignInInv, NEW l \in Login, NEW a \in Signer, NEW s \in signatures \cup {NoEntry},
         Verify(l, a, s)
  PROVE  SignInInv'
<1> DEFINE r == logins[l]
           q == [r EXCEPT !.step = "get", !.address = a, !.now = secs, !.signature = s]
<1>1. r \in LoginState /\ secs \in 0 .. MaxSecs /\ s \in Signature \cup {NoEntry}
  BY DEF SignInInv, SignInTypeOK
<1>2. logins' = [logins EXCEPT ![l] = q]
      /\ UNCHANGED <<store, entries, secs, nonces, issued, signatures, tokens>>
  BY DEF Verify, storeVars, messageVars, SignInInv, SignInTypeOK
<1>3. q \in LoginState /\ q.step = "get" /\ q.signature = s
  <2> HIDE DEF r
  <2> QED  BY <1>1 DEF LoginState
<1> HIDE DEF q
<1>4. /\ logins' \in [Login -> LoginState]
      /\ \A k \in Login : logins'[k] = IF k = l THEN q ELSE logins[k]
  BY <1>2, <1>3, LoginsStep
<1>5. SignInTypeOK'
  BY <1>2, <1>4 DEF SignInInv, SignInTypeOK
<1>6. NoncesOk'
  BY <1>2, <1>3, <1>4 DEF LoginOk, SignInInv, NoncesOk
<1>7. OnePlace'
  BY <1>2, <1>3, <1>4 DEF SignInInv, OnePlace, Carries
<1> QED  BY <1>2, <1>5, <1>6, <1>7 DEF SignInInv, SignedOk, TokenIsSigned

\* The nonce is taken: from the memory in one step.
LEMMA GetNonceStep ==
  ASSUME SignInInv, NEW l \in Login, GetNonce(l)
  PROVE  SignInInv'
<1> DEFINE r == logins[l]
           e == entries[r.address]
           step == IF e = NoEntry THEN "no challenge" ELSE IF store = "redis" THEN "del" ELSE "check"
           n == IF e = NoEntry THEN 0 ELSE e.nonce
           x == IF e = NoEntry THEN 0 ELSE e.exp
           q == [r EXCEPT !.step = step, !.nonce = n, !.exp = x]
<1>1. /\ r \in LoginState /\ LoginOk(r) /\ r.address \in Signer /\ nonces \in 0 .. MaxNonce
      /\ store \in {"memory", "redis"} /\ r.step = "get"
  BY DEF SignInInv, SignInTypeOK, NoncesOk, LoginState, GetNonce
<1>2. /\ logins' = [logins EXCEPT ![l] = q]
      /\ UNCHANGED <<store, secs, nonces, issued, signatures, tokens>>
  BY DEF GetNonce, messageVars, SignInInv, SignInTypeOK
<1>3. entries' = IF store = "memory" THEN [entries EXCEPT ![r.address] = NoEntry] ELSE entries
  BY DEF GetNonce, Taken
<1>4. e # NoEntry => n \in 1 .. nonces /\ x \in Nat
  BY <1>1, EntryFacts
<1>5. n \in 0 .. MaxNonce /\ x \in Nat
  <2>1. CASE e = NoEntry
    BY <2>1, SignInConstants
  <2>2. CASE e # NoEntry
    <3> HIDE DEF n, x, e
    <3> QED  BY <1>1, <1>4, <2>2, SignInConstants
  <2> QED  BY <2>1, <2>2
<1>6. /\ step \in {"no challenge", "del", "check"}
      /\ step # "no challenge" => e # NoEntry
      /\ store = "memory" => step # "del"
  OBVIOUS
<1> HIDE DEF step, n, x
<1>7. q \in LoginState /\ q.step = step /\ q.nonce = n /\ q.signature = r.signature
  <2> HIDE DEF r, e
  <2> QED  BY <1>1, <1>5, <1>6 DEF LoginState
<1> HIDE DEF q
<1>8. /\ logins' \in [Login -> LoginState]
      /\ \A k \in Login : logins'[k] = IF k = l THEN q ELSE logins[k]
  BY <1>2, <1>7, LoginsStep
<1>9. entries' \in [Signer -> Entry \cup {NoEntry}]
      /\ \A a \in Signer : entries'[a] # NoEntry =>
           entries'[a] = entries[a] /\ (store = "memory" => a # r.address)
  BY <1>1, <1>3 DEF SignInInv, SignInTypeOK
<1>10. SignInTypeOK'
  BY <1>2, <1>8, <1>9 DEF SignInInv, SignInTypeOK
<1>11. NoncesOk'
  <2>1. (\A k \in Login : LoginOk(logins[k]))'
    BY <1>1, <1>2, <1>4, <1>6, <1>7, <1>8 DEF LoginOk, SignInInv, NoncesOk
  <2>2. \A a \in Signer : entries'[a] # NoEntry => entries'[a].nonce <= nonces
    BY <1>9 DEF SignInInv, NoncesOk
  <2> QED  BY <1>2, <2>1, <2>2 DEF SignInInv, NoncesOk
<1>12. OnePlace'
  <2> SUFFICES ASSUME store = "memory" PROVE OnePlace'
    BY <1>2 DEF OnePlace
  <2>1. \A k \in Login : Carries(logins'[k]) =>
          \/ k = l /\ e # NoEntry /\ logins'[k].nonce = entries[r.address].nonce
          \/ k # l /\ Carries(logins[k]) /\ logins'[k] = logins[k]
    BY <1>6, <1>7, <1>8 DEF Carries, n
  <2>2. \A a \in Signer : entries'[a] # NoEntry =>
          entries[a] # NoEntry /\ entries'[a] = entries[a] /\ a # r.address
    BY <1>9
  <2>3. e # NoEntry <=> entries[r.address] # NoEntry
    OBVIOUS
  <2> HIDE DEF e, r
  <2>4. \A k \in Login : logins'[k].step # "del"
    BY <1>6, <1>7, <1>8 DEF SignInInv, OnePlace
  <2>5. \A k, j \in Login :
          Carries(logins'[k]) /\ Carries(logins'[j]) /\ k # j => logins'[k].nonce # logins'[j].nonce
    BY <1>1, <2>1, <2>3 DEF SignInInv, OnePlace
  <2>6. \A k \in Login, a \in Signer :
          Carries(logins'[k]) /\ entries'[a] # NoEntry => logins'[k].nonce # entries'[a].nonce
    BY <1>1, <2>1, <2>2, <2>3 DEF SignInInv, OnePlace
  <2>7. \A a, b \in Signer :
          entries'[a] # NoEntry /\ entries'[b] # NoEntry /\ a # b =>
            entries'[a].nonce # entries'[b].nonce
    BY <2>2 DEF SignInInv, OnePlace
  <2>8. \A t \in tokens :
          /\ \A k \in Login : Carries(logins'[k]) => t.nonce # logins'[k].nonce
          /\ \A a \in Signer : entries'[a] # NoEntry => t.nonce # entries'[a].nonce
    BY <1>1, <2>1, <2>2, <2>3 DEF SignInInv, OnePlace
  <2> QED  BY <1>2, <2>4, <2>5, <2>6, <2>7, <2>8 DEF SignInInv, OnePlace, Carries
<1>13. SignedOk' /\ TokenIsSigned'
  BY <1>2 DEF SignInInv, SignedOk, TokenIsSigned
<1> QED  BY <1>10, <1>11, <1>12, <1>13 DEF SignInInv

\* Redis deletes it in a second step, and drops what is expired.
LEMMA DropStep ==
  ASSUME SignInInv,
         (\E l \in Login : DeleteNonce(l)) \/ \E a \in Signer : RedisExpires(a)
  PROVE  SignInInv'
<1>1. ASSUME NEW l \in Login, DeleteNonce(l) PROVE SignInInv'
  <2> DEFINE r == logins[l]
             q == [r EXCEPT !.step = "check"]
  <2>1. /\ r \in LoginState /\ LoginOk(r) /\ r.step = "del" /\ r.nonce \in 1 .. nonces
    BY <1>1 DEF SignInInv, SignInTypeOK, NoncesOk, DeleteNonce, LoginOk
  <2>2. /\ logins' = [logins EXCEPT ![l] = q]
        /\ entries' = [entries EXCEPT ![r.address] = NoEntry]
        /\ UNCHANGED <<store, secs, nonces, issued, signatures, tokens>>
    BY <1>1 DEF DeleteNonce, messageVars, SignInInv, SignInTypeOK
  <2>3. q \in LoginState /\ q.nonce = r.nonce /\ q.signature = r.signature
    <3> HIDE DEF r
    <3> QED  BY <2>1 DEF LoginState
  <2> HIDE DEF q
  <2>4. /\ logins' \in [Login -> LoginState]
        /\ \A k \in Login : logins'[k] = IF k = l THEN q ELSE logins[k]
    BY <2>2, <2>3, LoginsStep
  <2>5. entries' \in [Signer -> Entry \cup {NoEntry}]
        /\ \A a \in Signer : entries'[a] # NoEntry => entries'[a] = entries[a]
    BY <2>2 DEF SignInInv, SignInTypeOK
  <2>6. SignInTypeOK'
    BY <2>2, <2>4, <2>5 DEF SignInInv, SignInTypeOK
  <2>7. NoncesOk'
    <3>1. (\A k \in Login : LoginOk(logins[k]))'
      BY <2>1, <2>2, <2>3, <2>4 DEF LoginOk, SignInInv, NoncesOk
    <3>2. \A a \in Signer : entries'[a] # NoEntry => entries'[a].nonce <= nonces
      BY <2>5 DEF SignInInv, NoncesOk
    <3> QED  BY <2>2, <3>1, <3>2 DEF SignInInv, NoncesOk
  <2>8. store # "memory"
    BY <2>1 DEF SignInInv, OnePlace
  <2> QED  BY <2>2, <2>6, <2>7, <2>8 DEF SignInInv, SignedOk, OnePlace, TokenIsSigned
<1>2. ASSUME NEW a \in Signer, RedisExpires(a) PROVE SignInInv'
  <2>1. /\ store # "memory" /\ entries' = [entries EXCEPT ![a] = NoEntry]
        /\ UNCHANGED <<store, secs, nonces, logins, issued, signatures, tokens>>
    BY <1>2 DEF RedisExpires, messageVars
  <2>2. entries' \in [Signer -> Entry \cup {NoEntry}]
        /\ \A b \in Signer : entries'[b] # NoEntry => entries'[b] = entries[b]
    BY <2>1 DEF SignInInv, SignInTypeOK
  <2>3. NoncesOk'
    BY <2>1, <2>2 DEF SignInInv, NoncesOk, LoginOk
  <2> QED  BY <2>1, <2>2, <2>3 DEF SignInInv, SignInTypeOK, SignedOk, OnePlace, TokenIsSigned
<1> QED  BY <1>1, <1>2

\* The signer is compared, and a token returned or not.
LEMMA CheckStep ==
  ASSUME SignInInv, NEW l \in Login, CheckSigner(l)
  PROVE  SignInInv'
<1> DEFINE r == logins[l]
           ok == r.exp >= r.now /\ Recovered(l)
           step == IF r.exp < r.now THEN "expired" ELSE IF ok THEN "done" ELSE "not signed"
           q == [r EXCEPT !.step = step]
           t0 == [login |-> l, address |-> r.address, nonce |-> r.nonce, iat |-> r.now]
<1>1. /\ r \in LoginState /\ LoginOk(r) /\ r.step = "check" /\ r.nonce \in 1 .. nonces
      /\ nonces \in 0 .. MaxNonce
  BY DEF SignInInv, SignInTypeOK, NoncesOk, CheckSigner, LoginOk
<1>2. /\ logins' = [logins EXCEPT ![l] = q]
      /\ tokens' = IF ok THEN tokens \cup {t0} ELSE tokens
      /\ UNCHANGED <<store, entries, secs, nonces, issued, signatures>>
  BY DEF CheckSigner, storeVars, messageVars, SignInInv, SignInTypeOK
<1>3. step \in {"expired", "done", "not signed"}
  OBVIOUS
<1>4. q \in LoginState /\ q.step = step /\ q.signature = r.signature
  <2> HIDE DEF r, step
  <2> QED  BY <1>1, <1>3 DEF LoginState
<1>5. t0 \in Token /\ t0.nonce = r.nonce /\ t0.address = r.address /\ t0.iat = r.now
  <2>1. r.nonce \in 1 .. MaxNonce /\ r.address \in Signer /\ r.now \in 0 .. MaxSecs
    <3> HIDE DEF r
    <3>1. r.address \in Signer /\ r.now \in 0 .. MaxSecs
      BY <1>1 DEF LoginState
    <3> QED  BY <1>1, <3>1, SignInBounds
  <2> QED  BY <2>1 DEF Token
<1>6. ok => \E s \in signatures :
              /\ s.signer = t0.address /\ s.message \in issued
              /\ s.message.address = t0.address /\ s.message.nonce = t0.nonce
              /\ t0.iat <= s.message.at + NonceTtl
  <2> SUFFICES ASSUME ok
               PROVE  \E s \in signatures :
                        /\ s.signer = t0.address /\ s.message \in issued
                        /\ s.message.address = t0.address /\ s.message.nonce = t0.nonce
                        /\ t0.iat <= s.message.at + NonceTtl
    OBVIOUS
  <2> DEFINE s == r.signature
  <2>1. s \in signatures /\ s.signer = r.address
        /\ s.message = [address |-> r.address, nonce |-> r.nonce, at |-> r.now]
    BY <1>1 DEF Recovered, LoginOk
  <2>2. s.message \in issued
    BY <2>1 DEF SignInInv, SignedOk
  <2>3. r.now <= r.now + NonceTtl
    <3>1. r.now \in 0 .. MaxSecs
      <4> HIDE DEF r
      <4> QED  BY <1>1 DEF LoginState
    <3> QED  BY <3>1, SignInConstants
  <2>4. s.message.address = r.address /\ s.message.nonce = r.nonce /\ s.message.at = r.now
    BY <2>1
  <2> HIDE DEF s, t0
  <2> QED  BY <1>5, <2>1, <2>2, <2>3, <2>4
<1> HIDE DEF q, step, t0, ok
<1>7. /\ logins' \in [Login -> LoginState]
      /\ \A k \in Login : logins'[k] = IF k = l THEN q ELSE logins[k]
  BY <1>2, <1>4, LoginsStep
<1>8. SignInTypeOK'
  BY <1>2, <1>5, <1>7 DEF SignInInv, SignInTypeOK
<1>9. \A t \in tokens' : t \in tokens \/ (t = t0 /\ ok)
  BY <1>2
<1>10. NoncesOk'
  <2>1. (\A k \in Login : LoginOk(logins[k]))'
    BY <1>1, <1>2, <1>3, <1>4, <1>7 DEF LoginOk, SignInInv, NoncesOk
  <2>2. \A t \in tokens' : t.nonce <= nonces
    BY <1>1, <1>5, <1>9 DEF SignInInv, NoncesOk
  <2> QED  BY <1>2, <2>1, <2>2 DEF SignInInv, NoncesOk
<1>11. TokenIsSigned'
  BY <1>2, <1>6, <1>9 DEF SignInInv, TokenIsSigned
<1>12. OnePlace'
  <2> SUFFICES ASSUME store = "memory" PROVE OnePlace'
    BY <1>2 DEF OnePlace
  <2>1. \A k \in Login : Carries(logins'[k]) => k # l /\ Carries(logins[k]) /\ logins'[k] = logins[k]
    BY <1>3, <1>4, <1>7 DEF Carries
  <2>2. Carries(logins[l])
    BY <1>1 DEF Carries
  <2>3. \A k \in Login : logins'[k].step # "del"
    BY <1>3, <1>4, <1>7 DEF SignInInv, OnePlace
  <2>4. \A k, j \in Login :
          Carries(logins'[k]) /\ Carries(logins'[j]) /\ k # j => logins'[k].nonce # logins'[j].nonce
    BY <2>1 DEF SignInInv, OnePlace
  <2>5. \A k \in Login, a \in Signer :
          Carries(logins'[k]) /\ entries[a] # NoEntry => logins'[k].nonce # entries[a].nonce
    BY <2>1 DEF SignInInv, OnePlace
  <2>6. \A t \in tokens' :
          /\ \A k \in Login : Carries(logins'[k]) => t.nonce # logins'[k].nonce
          /\ \A a \in Signer : entries[a] # NoEntry => t.nonce # entries[a].nonce
    <3> SUFFICES ASSUME NEW t \in tokens'
                 PROVE  /\ \A k \in Login : Carries(logins'[k]) => t.nonce # logins'[k].nonce
                        /\ \A a \in Signer : entries[a] # NoEntry => t.nonce # entries[a].nonce
      OBVIOUS
    <3>1. CASE t \in tokens
      BY <2>1, <3>1 DEF SignInInv, OnePlace
    <3>2. CASE t = t0
      BY <1>5, <2>1, <2>2, <3>2 DEF SignInInv, OnePlace
    <3> QED  BY <1>9, <3>1, <3>2
  <2>7. \A t, u \in tokens' : t.nonce = u.nonce => t = u
    <3>1. \A t \in tokens : t.nonce # t0.nonce
      BY <1>5, <2>2 DEF SignInInv, OnePlace
    <3>2. \A t, u \in tokens : t.nonce = u.nonce => t = u
      BY DEF SignInInv, OnePlace
    <3> QED  BY <1>9, <3>1, <3>2
  <2> QED  BY <1>2, <2>3, <2>4, <2>5, <2>6, <2>7 DEF SignInInv, OnePlace, Carries
<1>13. SignedOk'
  BY <1>2 DEF SignInInv, SignedOk
<1> QED  BY <1>8, <1>10, <1>11, <1>12, <1>13 DEF SignInInv

LEMMA SignInStep == SignInInv /\ [SignInNext]_signInVars => SignInInv'
<1> SUFFICES ASSUME SignInInv, [SignInNext]_signInVars PROVE SignInInv'
  OBVIOUS
<1>1. ASSUME NEW m \in issued, Sign(m) PROVE SignInInv'
  <2> DEFINE s == [signer |-> m.address, message |-> m]
  <2>1. signatures' = signatures \cup {s}
        /\ UNCHANGED <<store, entries, secs, nonces, logins, issued, tokens>>
    BY <1>1 DEF Sign, storeVars
  <2>2. s \in Signature /\ s.signer = s.message.address /\ s.message \in issued
    BY DEF SignInInv, SignInTypeOK, Signature, Message
  <2> HIDE DEF s
  <2>3. SignInTypeOK' /\ SignedOk'
    BY <2>1, <2>2 DEF SignInInv, SignInTypeOK, SignedOk
  <2>4. NoncesOk' /\ OnePlace' /\ TokenIsSigned'
    BY <2>1 DEF SignInInv, NoncesOk, LoginOk, OnePlace, Carries, TokenIsSigned
  <2> QED  BY <2>3, <2>4 DEF SignInInv
<1>2. CASE OneSecond
  <2>1. secs' \in 0 .. MaxSecs
        /\ UNCHANGED <<store, entries, nonces, logins, issued, signatures, tokens>>
    BY <1>2, SignInConstants DEF OneSecond, storeVars, messageVars, SignInInv, SignInTypeOK
  <2> QED  BY <2>1 DEF SignInInv, SignInTypeOK, SignedOk, NoncesOk, LoginOk, OnePlace,
              Carries, TokenIsSigned
<1>3. CASE UNCHANGED signInVars
  BY <1>3 DEF signInVars, storeVars, messageVars, SignInInv, SignInTypeOK, SignedOk,
     NoncesOk, LoginOk, OnePlace, Carries, TokenIsSigned
<1> QED  BY <1>1, <1>2, <1>3, ChallengeStep, SetNonceStep, VerifyStep, GetNonceStep,
            DropStep, CheckStep DEF SignInNext

LEMMA SignInInvariant == SignInSpec => []SignInInv
BY SignInInitInv, SignInStep, PTL DEF SignInSpec

\* A token is for an address whose wallet signed the message of a challenge issued for
\* that address and with that nonce, in time, with either store and however many
\* requests of one address overlap.
LEMMA TokensSigned == SignInSpec => []TokenIsSigned
<1>1. SignInInv => TokenIsSigned
  BY DEF SignInInv
<1> QED  BY <1>1, SignInInvariant, PTL

\* A nonce that is kept in memory gives one token.
LEMMA NonceOnce == SignInSpec => []OneTokenPerNonce
<1>1. SignInInv => OneTokenPerNonce
  BY DEF SignInInv, OnePlace, OneTokenPerNonce
<1> QED  BY <1>1, SignInInvariant, PTL

\* However requests, signatures and clocks are interleaved, a token is for an address
\* that signed its challenge in time; and a nonce in memory gives one.
THEOREM TokensRight == SignInSpec => []TokensAreEarned
<1>1. TokenIsSigned /\ OneTokenPerNonce => TokensAreEarned
  BY DEF TokensAreEarned
<1> QED  BY <1>1, TokensSigned, NonceOnce, PTL

-----------------------------------------------------------------------------
(* The parts together.                                                     *)

\* A behavior of the four parts is, of each, a behavior of that part.
LEMMA ServicesAreParts ==
  ServicesSpec => WeatherSpec /\ PrivateListSpec /\ PredictionSpec /\ SignInSpec
<1>1. ServicesInit => WeatherInit /\ PrivateListInit /\ PredictionInit /\ SignInInit
  BY DEF ServicesInit
<1>2. ServicesNext => /\ [WeatherNext]_weatherVars /\ [PrivateListNext]_privateVars
                      /\ [PredictionNext]_predictionVars /\ [SignInNext]_signInVars
  BY DEF ServicesNext, OnlyService
<1>3. UNCHANGED serviceVars =>
        UNCHANGED <<weatherVars, privateVars, predictionVars, signInVars>>
  BY DEF serviceVars
<1>4. [ServicesNext]_serviceVars =>
        /\ [WeatherNext]_weatherVars /\ [PrivateListNext]_privateVars
        /\ [PredictionNext]_predictionVars /\ [SignInNext]_signInVars
  BY <1>2, <1>3
<1> QED  BY <1>1, <1>4, PTL DEF ServicesSpec, WeatherSpec, PrivateListSpec, PredictionSpec,
            SignInSpec

\* All variables of the four parts keep their types.
THEOREM ServicesTypeCorrect == ServicesSpec => []ServicesTypeOK
<1>1. WeatherInv /\ ListInv /\ PredictionInv /\ SignInInv => ServicesTypeOK
  BY DEF WeatherInv, ListInv, PredictionInv, SignInInv, ServicesTypeOK
<1> QED  BY <1>1, ServicesAreParts, WeatherInvariant, ListInvariant, PredictionInvariant,
            SignInInvariant, PTL
=============================================================================
