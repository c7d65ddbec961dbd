----------------------------- MODULE MarketCards -----------------------------
(***************************************************************************)
(* The cards of the markets (transformMarkets of frontend/src/hooks/useMarkets.js) and     *)
(* what the filters leave of them (filterAndSortCards of                                   *)
(* frontend/src/pages/newmarkets/NewMarkets.jsx).                                           *)
(*                                                                         *)
(* The markets of a group make one card, the others one each.  A text is a word; it is       *)
(* found in a title or a label when it is one of its words.  The order the reader chooses      *)
(* for the cards is left out.                                                                  *)
(***************************************************************************)
EXTENDS Naturals, FiniteSets

CONSTANTS Count,           \* the markets, numbered as the server lists them
          Groups,
          Answers,         \* the labels of the answers but the draw
          Tags, None

VARIABLES listed,          \* what the server says of each market
          filter, view

vars == <<listed, filter, view>>
Draw == "draw"
Labels == Answers \union {Draw}
Places == 1..2             \* the display order of an answer
Events == {"matches", "standings", "knockouts", "press"}

ConstantsOK == Count \in Nat /\ None \notin Groups

(* The labels of a group are different; two of its answers may have the same place.  A label  *)
(* and the title of its group are one word here.                                               *)
Listings ==
    {list \in [1..Count -> [group : Groups \union {None}, label : Labels, place : Places,
                            tag : Tags \union {None}]] :
        /\ \A i, j \in 1..Count :
              (list[i].group # None /\ list[i].group = list[j].group /\ i # j)
                  => list[i].label # list[j].label
        /\ \A i \in 1..Count : list[i].group = None => (list[i].place = 1 /\ list[i].label # Draw)}

Init ==
    /\ listed \in Listings
    /\ filter = [search |-> None, event |-> None, chip |-> None]
    /\ view = None

Standalone    == {i \in 1..Count : listed[i].group = None}
GroupChildren(g) == {i \in 1..Count : listed[i].group = g}
Listed        == {listed[i].group : i \in 1..Count} \ {None}

(* The answers in their places, those of one place as the server lists them. *)
Before(i, j) ==
    listed[i].place < listed[j].place \/ (listed[i].place = listed[j].place /\ i < j)
First(S) == CHOOSE i \in S : \A j \in S \ {i} : Before(i, j)

IsDraw(i)  == listed[i].label = Draw
Playing(g) == {i \in GroupChildren(g) : ~IsDraw(i)}
IsMatch(g) == Cardinality(GroupChildren(g)) = 3 /\ Playing(g) # GroupChildren(g)

Home(g) == First(Playing(g))
Away(g) == First(Playing(g) \ {Home(g)})

MatchCard(g) ==
    [type |-> "match", options |-> GroupChildren(g), home |-> Home(g), away |-> Away(g),
     event |-> "matches", teams |-> {listed[Home(g)].label, listed[Away(g)].label}, league |-> None]

PredictionCard(g) ==
    [type |-> "prediction", options |-> GroupChildren(g), home |-> None, away |-> None,
     event |-> "knockouts", teams |-> {listed[i].label : i \in GroupChildren(g)}, league |-> None]

GroupCard(g) == IF IsMatch(g) THEN MatchCard(g) ELSE PredictionCard(g)

QuestionCard(i) ==
    [type |-> "question", options |-> {i}, home |-> None, away |-> None, event |-> "standings",
     teams |-> {}, league |-> listed[i].tag]

Cards == {GroupCard(g) : g \in Listed} \union {QuestionCard(i) : i \in Standalone}
-----------------------------------------------------------------------------
(* The filters.                                                              *)
Texts(card) == card.teams \union {listed[i].label : i \in card.options}

Passes(card) ==
    /\ filter.search # None => filter.search \in Texts(card)
    /\ filter.event # None => card.event = filter.event
    /\ filter.chip # None => (card.league = filter.chip \/ filter.chip \in card.teams)

Shown == {card \in Cards : Passes(card)}

Choose(f) == f # filter /\ filter' = f /\ view' = None /\ UNCHANGED listed

Look == view = None /\ view' = [cards |-> Shown] /\ UNCHANGED <<listed, filter>>

Next ==
    \/ Look
    \/ \E text \in Answers \union {None} : Choose([filter EXCEPT !.search = text])
    \/ \E event \in Events \union {None} : Choose([filter EXCEPT !.event = event])
    \/ \E chip \in Tags \union {None} : Choose([filter EXCEPT !.chip = chip])

Spec == Init /\ [][Next]_vars
-----------------------------------------------------------------------------
Offered(i) == {card \in Cards : i \in card.options}

(* The fields stay in their sets; only cards there are, and that pass, are shown. *)
TypeOK ==
    /\ listed \in Listings
    /\ filter \in [search : Answers \union {None}, event : Events \union {None},
                   chip : Tags \union {None}]
    /\ view # None => view = [cards |-> Shown]

(* Every market is on one card; a match is two answers and a draw, all three different; a      *)
(* search for an answer finds its market, and a chip every market of its tag that is in no group *)
(* (the card of a group forgets its tags).                                                      *)
MarketsAreOnCards ==
    /\ \A i \in 1..Count : Cardinality(Offered(i)) = 1
    /\ \A card \in Cards :
          card.type = "match" =>
              {card.home, card.away} = {i \in card.options : ~IsDraw(i)} /\ card.home # card.away
    /\ view # None =>
          \A i \in 1..Count :
              (/\ filter.event = None /\ filter.search \in {None, listed[i].label}
               /\ filter.chip \in {None} \union (IF listed[i].group # None THEN {} ELSE {listed[i].tag}))
              => \E card \in view.cards : i \in card.options
=============================================================================
