---------------------------- MODULE MarketBrowse ----------------------------
(***************************************************************************)
(* The page of all markets and of a topic (frontend/src/pages/markets/Markets.jsx):   *)
(* its search bar (components/search/GlobalSearchBar.jsx), its panel of pinned           *)
(* markets, and its table, which loads further pages as the reader comes to its end        *)
(* (components/tables/MarketsByStatusTable.jsx).                                           *)
(*                                                                         *)
(* Going from one page to another keeps the bar and the table; another tab of statuses        *)
(* makes a new table.  The table and the search are of the topic of the page; those of the      *)
(* page of all markets are of the tag of the layout that is loaded, which until its own          *)
(* layout comes is that of the page left.  The table takes back its first request when it         *)
(* is to list something else, never the request of a further page.                                *)
(***************************************************************************)
EXTENDS Naturals, Sequences

CONSTANTS Topics, Statuses, Texts, None,
          LastPage,        \* the pages of a list are numbered from 0 to LastPage
          MaxMoves,        \* bound on the changes of page and status
          MaxSearches      \* bound on the searches sent

VARIABLES view,            \* the page, the status, the number of changes of either, and whether
                           \* the tags have been answered
          table, seek, panel

vars == <<view, table, seek, panel>>

Front    == "markets"      \* the page of all markets
Places   == Topics \union {Front}
Scopes   == Topics \union {None}
Listings == [place : Places, scope : Scopes]

Pages    == [of : Listings, page : 0..LastPage]
Requests == [of : Listings, page : 0..LastPage, append : BOOLEAN, late : BOOLEAN]
Queries  == [text : Texts \union {None}, status : Statuses, scope : Scopes]
Results  == [of : Queries, ok : BOOLEAN]
Layouts  == [of : Places, pinned : BOOLEAN, scope : Scopes]
Pins     == [of : Places]

ConstantsOK ==
    /\ {LastPage, MaxMoves, MaxSearches} \subseteq Nat /\ Front \notin Topics
    /\ None \notin Results \union Layouts \union Pins \union Places \union Texts

(* The tag a page is about: its topic, or what the loaded layout says. *)
ScopeOf(place, layout) ==
    IF place # Front THEN place ELSE IF layout = None THEN None ELSE layout.scope

Listing(place, layout) == [place |-> place, scope |-> ScopeOf(place, layout)]

Request(listing, page) == [of |-> listing, page |-> page, append |-> page # 0, late |-> FALSE]

(* A table is made with its first request sent. *)
Fresh(listing) ==
    [rows |-> <<>>, next |-> 0, hasMore |-> TRUE, loading |-> TRUE, more |-> FALSE,
     failed |-> FALSE, inFlight |-> TRUE, asked |-> {Request(listing, 0)}, ending |-> FALSE,
     crossed |-> FALSE]    \* the listing changed while a further page was loading

Blank == [text |-> None, timer |-> TRUE, searching |-> FALSE, results |-> None, asked |-> {},
          sent |-> 0, mixed |-> FALSE]      \* mixed: a search was sent before an earlier one was answered

Here == Listing(view.place, panel.layout)

Init ==
    /\ \E place \in Places, status \in Statuses :
           view = [place |-> place, status |-> status, moves |-> 0, tags |-> FALSE]
    /\ panel = [layout |-> None, asked |-> view.place, pins |-> None, pinsAsked |-> None]
    /\ table = Fresh(Here)
    /\ seek = Blank

Question == [text |-> seek.text, status |-> view.status, scope |-> Here.scope]
-----------------------------------------------------------------------------
(* The table.                                                                *)
TableShown == ~seek.searching

TableSays ==
    CASE ~TableShown -> "results" [] table.loading -> "loading" [] table.failed -> "error"
      [] OTHER -> IF table.rows = <<>> THEN "none" ELSE "rows"

EndInView == TableSays = "rows" /\ ~table.more /\ table.hasMore

(* The reader comes to the end of the rows. *)
FetchMore ==
    /\ EndInView /\ ~table.inFlight
    /\ table' = [table EXCEPT !.more = TRUE, !.failed = FALSE, !.inFlight = TRUE,
                              !.asked = @ \union {Request(Here, table.next)}]
    /\ UNCHANGED <<view, seek, panel>>

(* Only the request sent last ends the waiting, three tenths of a second later. *)
Done(r, request) ==
    [r EXCEPT !.asked = @ \ {request}, !.inFlight = @ /\ request.late, !.ending = @ \/ ~request.late]

(* Rows already shown are not shown twice. *)
Added(rows, page) ==
    IF \E i \in DOMAIN rows : rows[i] = page THEN rows ELSE Append(rows, page)

PageLoaded ==
    \E request \in table.asked :
        LET page == [of |-> request.of, page |-> request.page] IN
        /\ table' = Done([table EXCEPT !.rows = IF request.append THEN Added(@, page) ELSE <<page>>,
                                       !.next = request.page + 1,
                                       !.hasMore = request.page < LastPage], request)
        /\ UNCHANGED <<view, seek, panel>>

PageFailed ==
    \E request \in table.asked :
        /\ table' = Done([table EXCEPT !.failed = TRUE], request)
        /\ UNCHANGED <<view, seek, panel>>

Shown ==
    /\ table.ending
    /\ table' = [table EXCEPT !.ending = FALSE, !.loading = FALSE, !.more = FALSE]
    /\ UNCHANGED <<view, seek, panel>>

(* Mutant of Kept: the first request is not taken back either. *)
KeptBoth(request) == TRUE

Kept(request) == request.append

Reload(listing) ==
    [table EXCEPT !.rows = <<>>, !.hasMore = TRUE, !.next = 0, !.loading = TRUE, !.failed = FALSE,
                  !.inFlight = TRUE, !.ending = FALSE,
                  !.asked = {[r EXCEPT !.late = TRUE] : r \in {q \in @ : Kept(q)}}
                              \union {Request(listing, 0)},
                  !.crossed = @ \/ \E r \in table.asked : r.append]
-----------------------------------------------------------------------------
(* The search bar, which asks three tenths of a second after the last change. *)
Type(text) ==
    /\ text # seek.text
    /\ seek' = [seek EXCEPT !.text = text, !.timer = TRUE]
    /\ UNCHANGED <<view, table, panel>>

(* The table and the panel go when the results come in their place, and new ones come back. *)
TableAfter(r) ==
    IF r.searching THEN [Fresh(Here) EXCEPT !.asked = {}]
    ELSE IF seek.searching THEN Fresh(Here) ELSE table

Unpinned == [panel EXCEPT !.pins = None, !.pinsAsked = None]
AsksPins(place) == IF panel.layout # None /\ panel.layout.pinned THEN place ELSE None

PanelAfter(r) ==
    IF r.searching THEN Unpinned
    ELSE IF seek.searching THEN [Unpinned EXCEPT !.pinsAsked = AsksPins(view.place)] ELSE panel

Seeks(r) == seek' = r /\ table' = TableAfter(r)

TimerFires ==
    /\ seek.timer /\ seek.sent < MaxSearches
    /\ Seeks([seek EXCEPT !.timer = FALSE, !.searching = seek.text # None,
                          !.results = IF seek.text = None THEN None ELSE @,
                          !.asked = IF seek.text = None THEN @ ELSE @ \union {Question},
                          !.sent = IF seek.text = None THEN @ ELSE @ + 1,
                          !.mixed = seek.asked # {} /\ (seek.text # None \/ @)])
    /\ panel' = PanelAfter(seek') /\ UNCHANGED view

(* Whatever was asked, its answer is what is shown; a failure is shown as one. *)
SearchAnswered ==
    \E q \in seek.asked, ok \in BOOLEAN :
        /\ seek' = [seek EXCEPT !.asked = @ \ {q}, !.results = [of |-> q, ok |-> ok]]
        /\ UNCHANGED <<view, table, panel>>

Clear ==
    /\ seek.text # None
    /\ Seeks([seek EXCEPT !.text = None, !.timer = TRUE, !.results = None, !.searching = FALSE])
    /\ panel' = PanelAfter(seek') /\ UNCHANGED view

(* Mutant of Retimed: the tag is left out of what the bar asks anew for. *)
RetimedNever(there) == seek

(* Another tag is another question. *)
Retimed(there) == [seek EXCEPT !.timer = @ \/ there.scope # Here.scope]

ResultsShown == seek.searching /\ seek.results # None
-----------------------------------------------------------------------------
(* The panel: the layout of the page, then the markets it pins.              *)

(* The pins are asked for unless they are the same; a panel that is not shown asks for none. *)
PinsOf(layout) ==
    {[Unpinned EXCEPT !.layout = layout, !.asked = None,
                      !.pinsAsked = IF layout.pinned /\ TableShown THEN view.place ELSE None,
                      !.pins = IF layout.pinned THEN panel.pins ELSE None]}
    \union (IF layout.pinned /\ panel.layout # None /\ panel.layout.pinned /\ panel.layout.of = view.place
            THEN {[panel EXCEPT !.layout = layout, !.asked = None]} ELSE {})

(* The layout of the server, or that of a page without one.  One with another tag makes the *)
(* table list, and the search ask, anew.                                                      *)
LayoutAnswered ==
    \E pinned \in BOOLEAN, scope \in Scopes :
        LET layout == [of |-> panel.asked, pinned |-> pinned, scope |-> scope]
            there  == Listing(view.place, layout)
        IN  /\ panel.asked # None
            /\ panel' \in PinsOf(layout)
            /\ table' = IF there # Here /\ TableShown THEN Reload(there) ELSE table
            /\ seek' = Retimed(there)
            /\ UNCHANGED view

PanelShown == TableShown /\ panel.layout # None

PinsAnswered ==
    \E ok \in BOOLEAN :
        /\ panel.pinsAsked # None
        /\ panel' = [panel EXCEPT !.pins = IF ok THEN [of |-> panel.pinsAsked] ELSE None, !.pinsAsked = None]
        /\ UNCHANGED <<view, table, seek>>
-----------------------------------------------------------------------------
(* The search is put away, and asked again if the tag is another. *)
GoTo(place) ==
    /\ place # view.place /\ view.moves < MaxMoves
    /\ LET there == Listing(place, panel.layout)
       IN  /\ table' = IF seek.searching THEN Fresh(there) ELSE Reload(there)
           /\ seek' = [Retimed(there) EXCEPT !.results = None, !.searching = FALSE]
    /\ view' = [view EXCEPT !.place = place, !.moves = @ + 1]
    /\ panel' = [panel EXCEPT !.asked = place, !.pinsAsked = AsksPins(place)]

(* The tags come, or fail to: the layout is loaded again and the search put away, its text   *)
(* left in the bar.                                                                            *)
TagsAnswered ==
    /\ ~view.tags
    /\ view' = [view EXCEPT !.tags = TRUE]
    /\ Seeks([seek EXCEPT !.results = None, !.searching = FALSE])
    /\ panel' = [PanelAfter(seek') EXCEPT !.asked = view.place]

(* Another status: a table of its own, and the search asked again. *)
Select(status) ==
    /\ status # view.status /\ view.moves < MaxMoves
    /\ view' = [view EXCEPT !.status = status, !.moves = @ + 1]
    /\ table' = IF TableShown THEN Fresh(Here) ELSE table
    /\ seek' = [seek EXCEPT !.timer = TRUE]
    /\ UNCHANGED panel

Next ==
    \/ FetchMore \/ PageLoaded \/ PageFailed \/ Shown \/ TimerFires \/ SearchAnswered \/ Clear
    \/ LayoutAnswered \/ PinsAnswered \/ TagsAnswered
    \/ \E text \in Texts \union {None} : Type(text)
    \/ \E place \in Places : GoTo(place)
    \/ \E status \in Statuses : Select(status)

Spec == Init /\ [][Next]_vars
-----------------------------------------------------------------------------
TableType ==
    [rows : Seq(Pages), next : 0..LastPage + 1, hasMore : BOOLEAN, loading : BOOLEAN, more : BOOLEAN,
     failed : BOOLEAN, inFlight : BOOLEAN, asked : SUBSET Requests, ending : BOOLEAN,
     crossed : BOOLEAN]
SeekType ==
    [text : Texts \union {None}, timer : BOOLEAN, searching : BOOLEAN, results : Results \union {None},
     asked : SUBSET Queries, sent : 0..MaxSearches, mixed : BOOLEAN]

PanelType ==
    [layout : Layouts \union {None}, asked : Places \union {None},
     pins : Pins \union {None}, pinsAsked : Places \union {None}]

(* The view is one of the pages; results and a panel are shown only of some question. *)
TypeOK ==
    /\ view \in [place : Places, status : Statuses, moves : 0..MaxMoves, tags : BOOLEAN]
    /\ table \in TableType /\ (table.inFlight => table.loading \/ table.more)
    /\ table.hasMore => table.next <= LastPage
    /\ seek \in SeekType /\ \A q \in seek.asked : q.text # None
    /\ panel \in PanelType
    /\ (ResultsShown => seek.results.of.text \in Texts)
    /\ (PanelShown => panel.layout.of \in Places)

(* The rows are the pages of what the page in view lists, without a hole, unless that changed *)
(* while a further page was loading.                                                            *)
RowsOfTheView ==
    ~table.crossed => table.rows = [i \in 1..table.next |-> [of |-> Here, page |-> i - 1]]

(* Results at rest answer the question in the bar, unless searches were mixed; the layout at   *)
(* rest, and with it the tag of rows and results, is of the page, and so are the pins.           *)
SearchAndPanelFit ==
    /\ (seek.searching /\ ~seek.timer /\ seek.asked = {} /\ ~seek.mixed) => seek.results.of = Question
    /\ panel.asked = None => panel.layout.of = view.place
    /\ (panel.pinsAsked = None /\ panel.pins # None) => panel.pins.of = view.place

(* Rows, results, layout and pins are those of the view, with the exceptions above. *)
ListsFitTheView == RowsOfTheView /\ SearchAndPanelFit

(* But for that, the table has asked for its next page, and for nothing else. *)
NextPageAsked ==
    ~table.crossed =>
        /\ table.asked \subseteq {Request(Here, table.next)}
        /\ ~table.inFlight => table.asked = {}

(* A table that is not shown is not there. *)
HiddenIsEmpty == ~TableShown => table.asked = {} /\ table.rows = <<>> /\ table.next = 0

(* One request at most ends the waiting, and while it is under way, or has just ended, the  *)
(* table waits.                                                                              *)
OneRequestCounts ==
    /\ \A p, q \in table.asked : (~p.late /\ ~q.late) => p = q
    /\ (\E q \in table.asked : ~q.late) => table.inFlight
    /\ table.ending => ~table.inFlight /\ (table.loading \/ table.more)

(* And the bar has one search under way, which is of the question in it unless that will be *)
(* asked again.                                                                              *)
QuestionAsked ==
    /\ seek.results # None => seek.results.of.text \in Texts
    /\ ~seek.mixed =>
           /\ \A p, q \in seek.asked : p = q
           /\ (seek.searching /\ ~seek.timer) =>
                  /\ seek.asked \subseteq {Question}
                  /\ seek.asked = {} => (seek.results # None /\ seek.results.of = Question)

PanelAsked ==
    /\ panel.asked \in {None, view.place} /\ panel.pinsAsked \in {None, view.place}
    /\ panel.asked = None => panel.layout # None
    /\ panel.pins # None \/ panel.pinsAsked # None =>
           panel.layout # None /\ panel.layout.pinned /\ TableShown

(* What every step keeps. *)
BrowseInv ==
    /\ TypeOK /\ RowsOfTheView /\ SearchAndPanelFit
    /\ NextPageAsked /\ HiddenIsEmpty /\ OneRequestCounts /\ QuestionAsked /\ PanelAsked
=============================================================================
