------------------------------ MODULE ShareCard ------------------------------
(***************************************************************************)
(* The card a market is shared with                                          *)
(* (frontend/src/components/modals/share/ShareModal.jsx): a picture of the last    *)
(* hour, a line for each answer with its label at the right, and the buttons that    *)
(* copy the link, copy the card as an image, or open a post.                        *)
(*                                                                         *)
(* Probabilities are in percent, heights in parts of a pixel (Part of them).          *)
(* Labels are pushed apart in five passes, halving what is missing.                   *)
(***************************************************************************)
EXTENDS Integers, Sequences, FiniteSets, SequencesExt

CONSTANTS None,
          Percents,        \* probabilities a change may set
          MaxAnswers,      \* answers on the card; none means a YES and NO market
          MaxPolls         \* bound on the changes that come while the card is open

VARIABLE card

Part == 32
Bottom == 125 * Part       \* BOT, TOP and LBL_H_PX of the code
Span   == 117 * Part
Label  == 32 * Part
Lowest == 128 * Part       \* CHART_H - 12

ConstantsOK == {MaxAnswers, MaxPolls} \subseteq Nat

Within(low, high, a) == Max({low, Min({high, a})})

(* Each answer has the probability it had before the hour, if any, and the ones since. *)
Answer == [before : Percents \union {None}, since : {<<>>} \union {<<p>> : p \in Percents}]

Init ==
    \E n \in 0..MaxAnswers : \E lines \in [1..(IF n = 0 THEN 1 ELSE n) -> Answer] :
        card = [open |-> FALSE, binary |-> n = 0, lines |-> lines, polls |-> 0,
                copying |-> None, toast |-> None]

Card(c) == card' = c
Lines == DOMAIN card.lines
-----------------------------------------------------------------------------
(* The lines.                                                                *)
Known(a) == IF a.before = None THEN a.since ELSE <<a.before>> \o a.since

(* The last probability, kept off the edges; a half when there is none. *)
Probability(a) == IF Known(a) = <<>> THEN 50 ELSE Within(1, 99, Last(Known(a)))

(* Mutant of Anchor: the hour starts with the last probability. *)
AnchorLast(a) == Probability(a)

(* What a line starts the hour with. *)
Anchor(a) ==
    IF a.before # None THEN a.before
    ELSE IF a.since # <<>> THEN Head(a.since) ELSE Probability(a)

Series(a) == <<Anchor(a)>> \o a.since \o <<Probability(a)>>
Both(S) == S \union {100 - p : p \in S}
Values ==
    LET all == UNION {Range(Series(card.lines[i])) : i \in Lines}
    IN  IF card.binary THEN Both(all) ELSE all

(* The chart is scaled to its values, with a margin: what is at the bottom, and how wide it is. *)
Margin(span) == IF card.binary THEN Max({2, span \div 10}) ELSE Max({5, span \div 4})
Between(low, high, margin) ==
    [floor |-> Max({0, low - margin}),
     wide  |-> Min({100, high + margin}) - Max({0, low - margin})]
Around(low, high) == Between(low, high, Margin(high - low))
Scale == Around(Min(Values), Max(Values))

Height(scale, p) == Bottom - ((p - scale.floor) * Span) \div scale.wide
-----------------------------------------------------------------------------
(* The labels.                                                               *)

(* One push: a label too close to the one above, and that one, move from their middle. *)
Push(ys, k) ==
    IF ys[k] - ys[k - 1] >= Label THEN ys
    ELSE LET mid == (ys[k] + ys[k - 1]) \div 2
         IN  [ys EXCEPT ![k - 1] = mid - Label \div 2, ![k] = mid + Label \div 2]

Pass(ys) == FoldLeft(Push, ys, [k \in 1..Len(ys) - 1 |-> k + 1])

Passes(ys) == FoldLeft(LAMBDA zs, round : Pass(zs), ys, <<1, 2, 3, 4, 5>>)

(* The heights of the lines' ends from the top down, then pushed and clamped. *)
AnswerLabels ==
    LET scale == Scale
        ends == SortSeq([i \in Lines |-> Height(scale, Probability(card.lines[i]))], LAMBDA a, b : a < b)
        pushed == Passes(ends)
    IN  [k \in Lines |-> Within(0, Lowest, pushed[k] - 18 * Part)]

Apart(high, low, mid) ==
    IF low - high >= Label THEN <<high, low>> ELSE <<mid - Label \div 2, mid + Label \div 2>>

YesNoEnds(scale, p) == <<Height(scale, Max({p, 100 - p})), Height(scale, Min({p, 100 - p}))>>

YesNoOf(ends) ==
    [k \in {1, 2} |-> Within(0, Lowest, Apart(ends[1], ends[2], (ends[1] + ends[2]) \div 2)[k]
                                        - 18 * Part)]

YesNoLabels == YesNoOf(YesNoEnds(Scale, Probability(card.lines[1])))

Labels == IF card.binary THEN YesNoLabels ELSE AnswerLabels
-----------------------------------------------------------------------------
(* The buttons.                                                              *)
CardShown == card.open

Open  == ~card.open /\ Card([card EXCEPT !.open = TRUE, !.toast = None])
Close == card.open /\ Card([card EXCEPT !.open = FALSE])

(* A poll of the page under the card. *)
Poll(i, p) ==
    /\ card.polls < MaxPolls
    /\ Card([card EXCEPT !.polls = @ + 1, !.lines[i].since = Append(@, p)])

CopyLink == card.open /\ \E ok \in BOOLEAN : Card([card EXCEPT !.toast = IF ok THEN "link" ELSE "failed"])
ShareX   == card.open /\ card.toast # None /\ Card([card EXCEPT !.toast = None])

CopyImage == card.open /\ card.copying = None /\ Card([card EXCEPT !.copying = "drawing"])

(* The card is drawn when its library has come; a card that was closed is not there. *)
Draw ==
    /\ card.copying = "drawing"
    /\ IF CardShown THEN Card([card EXCEPT !.copying = "writing"])
       ELSE Card([card EXCEPT !.copying = None, !.toast = "failed"])

Written ==
    /\ card.copying = "writing"
    /\ \E ok \in BOOLEAN :
        Card([card EXCEPT !.copying = None, !.toast = IF ok THEN "image" ELSE "failed"])

Next ==
    \/ Open \/ Close \/ CopyLink \/ ShareX \/ CopyImage \/ Draw \/ Written
    \/ \E i \in Lines, p \in Percents : Poll(i, p)

Spec == Init /\ [][Next]_card
-----------------------------------------------------------------------------
(* The fields stay in their sets. *)
TypeOK ==
    /\ card \in [open : BOOLEAN, binary : BOOLEAN,
                 lines : Seq([before : Percents \union {None}, since : Seq(Percents)]),
                 polls : 0..MaxPolls, copying : {None, "drawing", "writing"},
                 toast : {None, "link", "image", "failed"}]
    /\ card.lines # <<>>

(* The hour starts with what was known when it began. *)
CardTellsThePast ==
    \A i \in Lines : card.lines[i].before # None => Head(Series(card.lines[i])) = card.lines[i].before

InChart(ys) == \A k \in DOMAIN ys : ys[k] \in 0..Lowest
SpacedOut(ys) ==
    \A k \in DOMAIN ys \ {1} :
        /\ ys[k - 1] <= ys[k]
        /\ ys[k] - ys[k - 1] >= (5 * Label) \div 6 \/ ys[k - 1] = 0 \/ ys[k] = Lowest

(* The labels of up to four answers lie in the chart from the top down, and two overlap by   *)
(* more than a sixth only at an edge of it.  Five passes do not push more answers apart.        *)
CardLabelsApart == InChart(Labels) /\ (Len(card.lines) <= 4 => SpacedOut(Labels))
=============================================================================
