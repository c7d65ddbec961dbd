----------------------------- MODULE PriceChart -----------------------------
(***************************************************************************)
(* The price charts of the market page, BinaryChart (YES and NO of one        *)
(* market) and MultiOptionChart (a line per answer) in                        *)
(* frontend/src/components/testmarketdetails/TestMarketDetailsLayout.jsx.       *)
(* A chart shows a window that ends now and moves with a timer.  The reader    *)
(* points at a moment, or drags over a stretch of time.                       *)
(*                                                                         *)
(* Time is in ticks of the timer; what is pointed at is in half ticks.        *)
(* Probabilities and heights are in tenths of the chart.                      *)
(***************************************************************************)
EXTENDS Integers, FiniteSets

CONSTANTS None,
          Probabilities,   \* tenths a change may set
          MaxNow,          \* bound on the timer
          MaxChanges       \* bound on the changes of a line

VARIABLE chart

Height == 10
LabelHeight == 2           \* 56 or 60 of 280 pixels
Lines == {"first", "second"}
Positions == 0..2          \* left, middle and right of the chart
Drags == [from : Positions, to : Positions]
ConstantsOK ==
    /\ Probabilities \subseteq 0..10 /\ None \notin Probabilities \union Int \union Drags
    /\ MaxNow \in Nat /\ MaxNow >= 2 /\ MaxChanges \in Nat

Init ==
    /\ \E kind \in {"binary", "multi"}, p \in Probabilities, q \in Probabilities \union {None} :
           chart = [kind |-> kind, now |-> 2, range |-> "ALL", hover |-> None, drag |-> None,
                    select |-> None, revealed |-> FALSE,
                    changes |-> [first  |-> {[t |-> 1, p |-> p]},
                                 second |-> IF q = None THEN {} ELSE {[t |-> 0, p |-> q]}]]

Chart(c) == chart' = c

Earliest(S) == CHOOSE c \in S : \A d \in S : c.t <= d.t
Latest(S)   == CHOOSE c \in S : \A d \in S : c.t >= d.t

(* The last known probability, or what the market started with. *)
Current(l) == IF chart.changes[l] = {} THEN 5 ELSE Latest(chart.changes[l]).p
-----------------------------------------------------------------------------
(* The window and the lines.  NO mirrors YES.                                *)
Real == IF chart.kind = "binary" THEN {"first"} ELSE Lines
Known == UNION {chart.changes[l] : l \in Real}

Window ==
    IF chart.range # "ALL" THEN 2
    ELSE IF Cardinality(Known) > 1 THEN chart.now - Earliest(Known).t + 1 ELSE 4

WinStart == chart.now - Window
Within(l) == {c \in chart.changes[l] : c.t >= WinStart /\ c.t < chart.now}

(* Mutant of Anchor: the window starts with the current probability. *)
AnchorCurrent(l) == IF Within(l) # {} THEN Earliest(Within(l)).p ELSE Current(l)

(* What a line starts with, at the left of the window. *)
Anchor(l) ==
    LET before == {c \in chart.changes[l] : c.t < WinStart}
    IN  IF before # {} THEN Latest(before).p
        ELSE IF Within(l) # {} THEN Earliest(Within(l)).p ELSE Current(l)

(* getValAt: the last point of the line at or before a moment, in half ticks. *)
ValueOn(l, h) ==
    LET past == {c \in Within(l) : 2 * c.t <= h}
    IN  IF h >= 2 * chart.now THEN Current(l)
        ELSE IF past # {} THEN Latest(past).p ELSE Anchor(l)

ValueAt(l, h) ==
    IF chart.kind = "binary" /\ l = "second" THEN 10 - ValueOn("first", h) ELSE ValueOn(l, h)
-----------------------------------------------------------------------------
(* Pointing and dragging.                                                    *)
Moment(x) == 2 * WinStart + x * Window

Tick == chart.now < MaxNow /\ Chart([chart EXCEPT !.now = @ + 1])

(* A poll brings a change made since the last one. *)
Poll(l, p) ==
    /\ l \in Real /\ Cardinality(chart.changes[l]) < MaxChanges
    /\ \A c \in chart.changes[l] : c.t < chart.now
    /\ Chart([chart EXCEPT !.changes[l] = @ \union {[t |-> chart.now, p |-> p]}])

Reveal == ~chart.revealed /\ Chart([chart EXCEPT !.revealed = TRUE])

SetRange(r) ==
    /\ r # chart.range
    /\ Chart([chart EXCEPT !.range = r, !.hover = None, !.drag = None, !.select = None])

OnMove(x) ==
    /\ chart.revealed
    /\ IF chart.drag # None THEN Chart([chart EXCEPT !.drag.to = x, !.hover = None])
       ELSE chart.select = None /\ Chart([chart EXCEPT !.hover = Moment(x)])

OnLeave == chart.hover # None /\ chart.drag = None /\ Chart([chart EXCEPT !.hover = None])

OnDown(x) ==
    /\ chart.revealed /\ chart.drag = None
    /\ Chart([chart EXCEPT !.drag = [from |-> x, to |-> x], !.select = None, !.hover = None])

Least(x, y) == IF x < y THEN x ELSE y
Most(x, y)  == IF x < y THEN y ELSE x

(* A click that does not move selects nothing. *)
OnUp ==
    /\ chart.drag # None
    /\ LET d == chart.drag
       IN  Chart([chart EXCEPT !.drag = None,
                     !.select = IF d.from = d.to THEN None
                                ELSE [from |-> Least(d.from, d.to), to |-> Most(d.from, d.to)]])

Scrub(x) ==
    /\ chart.select = None /\ chart.revealed /\ chart.drag = None
    /\ Chart([chart EXCEPT !.hover = Moment(x)])

(* The stretch of time that is shown, with the changes over it. *)
ActiveRange == IF chart.drag # None THEN chart.drag ELSE chart.select
RangeInfo ==
    LET from == Moment(Least(ActiveRange.from, ActiveRange.to))
        to   == Moment(Most(ActiveRange.from, ActiveRange.to))
    IN  [t1 |-> from, t2 |-> to, end |-> [l \in Lines |-> ValueAt(l, to)],
         delta |-> [l \in Lines |-> ValueAt(l, to) - ValueAt(l, from)]]

(* What is drawn over the lines: the stretch of time, or the moment pointed at with a *)
(* dot on each line; the lines outside it are grey; or else a dot at the end of each. *)
Highlight == ActiveRange # None
Crosshair == chart.hover # None
Grey      == Crosshair \/ Highlight
EndDots   == chart.revealed /\ ~Grey
CloseButton == Highlight /\ chart.drag = None

ClearRange == CloseButton /\ Chart([chart EXCEPT !.select = None])

Next ==
    \/ Tick \/ Reveal \/ OnLeave \/ OnUp \/ ClearRange
    \/ \E l \in Lines, p \in Probabilities : Poll(l, p)
    \/ \E r \in {"ALL", "short"} : SetRange(r)
    \/ \E x \in Positions : OnMove(x) \/ OnDown(x) \/ Scrub(x)

Spec == Init /\ [][Next]_chart
-----------------------------------------------------------------------------
(* The labels follow the cursor, the end of the stretch, or the end of the lines. *)
LabelProbability(l) ==
    IF chart.hover # None THEN ValueAt(l, chart.hover)
    ELSE IF ActiveRange # None THEN RangeInfo.end[l] ELSE ValueAt(l, 2 * chart.now)

Y == [l \in Lines |-> Height - LabelProbability(l)]
Clamp(y) == Most(0, Least(Height - LabelHeight, y - 1))

Upper(y) == IF y["first"] <= y["second"] THEN "first" ELSE "second"

(* Mutant of BinaryTops: the labels stay where the lines are. *)
BinaryTopsLoose(y) == [l \in Lines |-> Clamp(y[l])]

(* Two labels too close are moved apart around their middle. *)
BinaryTops(y) ==
    LET sum == y["first"] + y["second"]
    IN  IF y["first"] - y["second"] \in (1 - LabelHeight)..(LabelHeight - 1)
        THEN [l \in Lines |-> Clamp(IF l = Upper(y) THEN sum \div 2 - 1 ELSE sum \div 2 + 1)]
        ELSE [l \in Lines |-> Clamp(y[l])]

(* The labels of answers are pushed down from the one above. *)
MultiTops(y) ==
    [l \in Lines |-> Clamp(IF l = Upper(y) THEN y[l] ELSE Most(y[l], y[Upper(y)] + LabelHeight))]

Tops == IF chart.kind = "binary" THEN BinaryTops(Y) ELSE MultiTops(Y)
Overlaps(tops) == tops["first"] - tops["second"] \in (1 - LabelHeight)..(LabelHeight - 1)
-----------------------------------------------------------------------------
Changes == [t : 0..MaxNow, p : Probabilities]
ChartType ==
    [kind : {"binary", "multi"}, now : 2..MaxNow, range : {"ALL", "short"},
     hover : Int \union {None}, drag : Drags \union {None}, select : Drags \union {None},
     revealed : BOOLEAN, changes : [Lines -> SUBSET Changes]]

(* The fields stay in their sets; no moment is pointed at within a stretch of time. *)
TypeOK ==
    /\ chart \in ChartType
    /\ Highlight => ~Crosshair /\ ActiveRange.from \in Positions
    /\ EndDots => \A l \in Real : LabelProbability(l) = Current(l)
    /\ \A l \in Lines : Anchor(l) \in 0..10 /\ Tops[l] \in 0..(Height - LabelHeight)

InForce(l, h) == {c \in chart.changes[l] : 2 * c.t <= h}

(* The probability told of a moment is the one then in force, whatever the window,   *)
(* unless the window has moved past the moment that is pointed at.                  *)
ChartTellsThePast ==
    LET true(l, h) == InForce(l, h) # {} => ValueAt(l, h) = Latest(InForce(l, h)).p
    IN  \A l \in Real :
            /\ (chart.hover # None /\ chart.hover >= 2 * WinStart /\ chart.hover < 2 * chart.now)
                   => true(l, chart.hover)
            /\ Highlight /\ RangeInfo.t2 < 2 * chart.now
                   => true(l, RangeInfo.t1) /\ true(l, RangeInfo.t2)

(* The labels of YES and NO never overlap; those of two answers do only at the edges of *)
(* the chart: when both are improbable, or when one is certain and the other likely.     *)
LabelsOverlapOnlyAtEdges ==
    LET atBottom == \A l \in Lines : Y[l] > Height - 2 * LabelHeight
        atTop    == Y[Upper(Y)] = 0 /\ \A l \in Lines : Y[l] <= LabelHeight
    IN  Overlaps(Tops) => chart.kind = "multi" /\ (atBottom \/ atTop)

(* A line has one change at a moment, and none to come. *)
ChangesAreOfThePast ==
    \A l \in Lines : \A c, d \in chart.changes[l] : c.t <= chart.now /\ (c.t = d.t => c = d)

(* A stretch of time is dragged or selected, and nothing is pointed at meanwhile. *)
OneHighlight ==
    /\ chart.drag # None => chart.select = None /\ chart.hover = None
    /\ chart.select # None => chart.hover = None

(* What every step keeps. *)
ChartInv == chart \in ChartType /\ ChangesAreOfThePast /\ OneHighlight
=============================================================================
