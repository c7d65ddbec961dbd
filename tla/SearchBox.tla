------------------------------ MODULE SearchBox ------------------------------
(***************************************************************************)
(* Searching from the bar (frontend/src/components/navbar/NavSearch.jsx) and from   *)
(* the sheet of the phone (MobileSearchSheet.jsx, BottomSheet.jsx, with               *)
(* hooks/useSwipeToClose.js).                                                      *)
(*                                                                         *)
(* The bar searches a fifth of a second after the last key and forgets the search      *)
(* before it; its results stay until others come, and may be pressed meanwhile.         *)
(* A text is None, "short" (under two letters) or one of Texts.                        *)
(***************************************************************************)
EXTENDS Naturals

CONSTANTS Texts, None,
          MaxResults       \* bound on the results of a search

VARIABLE search

Search == Texts \union {"short"}
ConstantsOK == MaxResults \in Nat /\ None \notin Search /\ "short" \notin Texts

Init ==
    \E where \in {"bar", "sheet"} :
        search = [where |-> where, text |-> None, open |-> FALSE, active |-> 0,
                  timer |-> FALSE, asked |-> {}, results |-> 0, of |-> None, went |-> None,
                  dragging |-> FALSE, down |-> 0]

Box(s) == search' = s
Settled == ~search.timer /\ search.asked = {}

(* Mutant of Type: the search before it is not forgotten. *)
TypeOn(text) ==
    /\ search.where = "bar" /\ text # search.text
    /\ Box([search EXCEPT !.text = text, !.open = TRUE, !.timer = text \in Texts,
              !.results = IF text \in Texts THEN @ ELSE 0, !.of = IF text \in Texts THEN @ ELSE text])

Type(text) ==
    /\ search.where = "bar" /\ text # search.text
    /\ Box([search EXCEPT !.text = text, !.open = TRUE, !.timer = text \in Texts, !.asked = {},
              !.results = IF text \in Texts THEN @ ELSE 0, !.of = IF text \in Texts THEN @ ELSE text])

TimerFires == search.timer /\ Box([search EXCEPT !.timer = FALSE, !.asked = @ \union {search.text}])

(* A market of a group is found once for its group. *)
Found == 0..MaxResults

Answered ==
    \E text \in search.asked, n \in Found :
        Box([search EXCEPT !.asked = @ \ {text}, !.results = n, !.of = text, !.active = 0])

(* A search that fails finds nothing. *)
Failed ==
    \E text \in search.asked :
        Box([search EXCEPT !.asked = @ \ {text}, !.results = 0, !.of = text])

PanelShown == search.where = "bar" /\ search.open /\ search.text \in Texts

Move(down) ==
    /\ search.where = "bar" /\ search.open
    /\ IF down THEN search.active < search.results ELSE search.active > 0
    /\ Box([search EXCEPT !.active = IF down THEN @ + 1 ELSE @ - 1])

(* Going somewhere empties the box, which forgets the search. *)
GoTo(path) ==
    Box([search EXCEPT !.open = FALSE, !.text = None, !.timer = FALSE, !.asked = {},
           !.results = 0, !.of = None, !.went = path])

Press(i) == PanelShown /\ i \in 1..search.results /\ GoTo([market |-> i, of |-> search.of])
SeeAll   == PanelShown /\ GoTo([market |-> 0, of |-> search.text])

Enter ==
    /\ search.where = "bar" /\ search.text # None /\ search.open
    /\ GoTo(IF search.active \in 1..search.results THEN [market |-> search.active, of |-> search.of]
            ELSE [market |-> 0, of |-> search.text])

(* A press outside and Escape close the panel, and a focus opens it again. *)
ClosePanel == search.where = "bar" /\ search.open /\ Box([search EXCEPT !.open = FALSE])
Focus      == search.where = "bar" /\ ~search.open /\ Box([search EXCEPT !.open = TRUE, !.went = None])
-----------------------------------------------------------------------------
(* The sheet only writes a text and goes; it can be dragged down.            *)
SheetShown == search.where = "sheet" /\ search.open

OpenSheet == search.where = "sheet" /\ ~search.open /\ Box([search EXCEPT !.open = TRUE, !.down = 0, !.went = None])
SheetType(text) == SheetShown /\ text # search.text /\ Box([search EXCEPT !.text = text])

(* The text stays in the sheet. *)
SheetGo ==
    /\ SheetShown
    /\ Box([search EXCEPT !.open = FALSE, !.dragging = FALSE, !.went = [market |-> 0, of |-> search.text]])

Link == SheetShown /\ Box([search EXCEPT !.open = FALSE, !.dragging = FALSE, !.went = None])

Grab == SheetShown /\ ~search.dragging /\ Box([search EXCEPT !.dragging = TRUE, !.down = 0])
Drag == \E d \in 1..2 : search.dragging /\ d # search.down /\ Box([search EXCEPT !.down = d])

(* Let go far enough down, or short of it with a flick. *)
Drop(flick) ==
    /\ search.dragging
    /\ Box([search EXCEPT !.dragging = FALSE, !.down = 0,
                          !.open = ~(search.down = 2 \/ (search.down = 1 /\ flick))])

Next ==
    \/ \E text \in Search \union {None} : Type(text) \/ SheetType(text)
    \/ TimerFires \/ Answered \/ Failed \/ SeeAll \/ Enter \/ ClosePanel \/ Focus
    \/ \E down \in BOOLEAN : Move(down)
    \/ \E i \in 1..MaxResults : Press(i)
    \/ OpenSheet \/ SheetGo \/ Link \/ Grab \/ Drag
    \/ \E flick \in BOOLEAN : Drop(flick)

Spec == Init /\ [][Next]_search
-----------------------------------------------------------------------------
Places == [market : 0..MaxResults, of : Search \union {None}]
BoxType ==
    [where : {"bar", "sheet"}, text : Search \union {None}, open : BOOLEAN, active : 0..MaxResults,
     timer : BOOLEAN, asked : SUBSET Texts, results : Found, of : Search \union {None},
     went : Places \union {None}, dragging : BOOLEAN, down : 0..2]

(* The fields stay in their sets; nothing is dragged but an open sheet. *)
TypeOK == search \in BoxType /\ (search.dragging => SheetShown)

(* Results at rest are of the text in the box. *)
ResultsFit == (search.where = "bar" /\ Settled) => search.of = search.text

(* What is searched for is the text in the box. *)
AskedIsTyped ==
    /\ search.where = "sheet" => Settled
    /\ search.timer => search.text \in Texts
    /\ search.asked \subseteq {search.text}

(* What every step keeps. *)
BoxInv == TypeOK /\ ResultsFit /\ AskedIsTyped
=============================================================================
