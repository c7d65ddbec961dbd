------------------------------ MODULE CardGrid ------------------------------
(***************************************************************************)
(* The new page of the markets (frontend/src/pages/newmarkets/NewMarkets.jsx): its      *)
(* cards, kept between visits and fetched again while the page is looked at                *)
(* (hooks/useMarkets.js), its filters, which live in the address                            *)
(* (components/filtros/Filtros.jsx), and its rows, shown a few at a time                      *)
(* (hooks/usePaginatedCards.js).                                                             *)
(*                                                                         *)
(* The server's cards are a number that grows with each change.  A part is played at a       *)
(* time: the fetching ("cards"), the typing ("filters") or the scrolling ("rows").             *)
(***************************************************************************)
EXTENDS Naturals, Integers

CONSTANTS Texts, None,
          MaxNow,          \* bound on the changes of the server's cards
          MaxRows,         \* bound on the cards of a list
          Screen,          \* the cards of a screen, shown at once
          Chunk            \* the rows shown at a time

VARIABLES part, cards, filter, grid

vars == <<part, cards, filter, grid>>
Fewer(a, b) == IF a <= b THEN a ELSE b
Statuses == {"active", "resolved"}

Visits   == [at : 0..MaxNow]
CardType ==
    [status : Statuses, kept : [Statuses -> 0..MaxNow], shown : 0..MaxNow, hidden : BOOLEAN,
     timer : BOOLEAN, asked : SUBSET [number : Nat, got : Visits \union {None}, late : BOOLEAN],
     sent : Nat, now : 0..MaxNow, loading : BOOLEAN, doubled : BOOLEAN]

FilterType ==
    [url : Texts \union {None}, status : Statuses, input : Texts \union {None},
     written : Texts \union {None}, timer : BOOLEAN, drawer : BOOLEAN]

Sights   == [in : BOOLEAN]
Waits    == [upTo : 0..MaxRows]
GridType ==
    [total : 0..MaxRows, shown : 0..MaxRows, loading : BOOLEAN, timer : Waits \union {None},
     had : BOOLEAN, in : BOOLEAN, told : Sights \union {None}, ref : BOOLEAN, late : BOOLEAN]

ConstantsOK ==
    /\ {MaxRows, Screen, Chunk} \subseteq Nat /\ MaxNow \in Nat \ {0}
    /\ None \notin Visits \union Sights \union Waits

(* No cards are kept before the first visit; each status keeps its own. *)
CardsInit ==
    cards = [status |-> "active", kept |-> [s \in Statuses |-> 0], shown |-> 0, hidden |-> FALSE,
             timer |-> FALSE, asked |-> {[number |-> 0, got |-> None, late |-> FALSE]}, sent |-> 1,
             now |-> 1, loading |-> TRUE,
             doubled |-> FALSE]    \* the reader came back while a fetch was under way

FilterInit ==
    filter = [url |-> None, status |-> "active", input |-> None, written |-> None, timer |-> FALSE,
              drawer |-> FALSE]

(* Cards kept from an earlier visit are there at once, and more are asked for anyway. *)
GridInit ==
    \E n \in 0..MaxRows :
        grid = [total |-> n, shown |-> Fewer(Screen, n), loading |-> TRUE, timer |-> [upTo |-> n],
                had |-> n > 0,
                in |-> TRUE,        \* the end of the rows is in view,
                told |-> None,      \* what the browser told of it to the observer there is,
                ref |-> TRUE,       \* and what the page remembers of it
                late |-> FALSE]

Init ==
    \/ part = "cards"   /\ CardsInit    /\ filter = None /\ grid = None
    \/ part = "filters" /\ cards = None /\ FilterInit    /\ grid = None
    \/ part = "rows"    /\ cards = None /\ filter = None /\ GridInit

Cards(c)  == cards' = c  /\ UNCHANGED <<part, filter, grid>>
Filter(f) == filter' = f /\ UNCHANGED <<part, cards, grid>>
Grid(g)   == grid' = g   /\ UNCHANGED <<part, cards, filter>>
-----------------------------------------------------------------------------
(* The cards.                                                                *)
Pending == {r \in cards.asked : ~r.late}

Sent(c) == [c EXCEPT !.asked = @ \union {[number |-> c.sent, got |-> None, late |-> FALSE]}, !.sent = @ + 1]

CanSend == cards.sent <= MaxNow + 1

Changed == cards.now < MaxNow /\ Cards([cards EXCEPT !.now = @ + 1])

(* The server reads its cards at some time between the request and the answer. *)
Served ==
    \E r \in cards.asked :
        r.got = None /\ Cards([cards EXCEPT !.asked = (@ \ {r}) \union {[r EXCEPT !.got = [at |-> cards.now]]}])

(* Mutant of Scheduled: the timer is set for a page nobody looks at. *)
ScheduledAlways(c) == [c EXCEPT !.timer = TRUE]

(* The next fetch is set twenty seconds on, if the page is looked at. *)
Scheduled(c) == [c EXCEPT !.timer = ~c.hidden]

Answered ==
    \E r \in cards.asked :
        /\ r.got # None
        /\ LET rest == [cards EXCEPT !.asked = @ \ {r}] IN
           Cards(IF r.late THEN rest
                 ELSE Scheduled([rest EXCEPT !.kept[cards.status] = r.got.at, !.shown = r.got.at,
                                             !.loading = FALSE,
                                             !.doubled = @ /\ Pending # {r}]))

(* A fetch that fails leaves the last good cards. *)
Failed ==
    \E r \in cards.asked :
        LET rest == [cards EXCEPT !.asked = @ \ {r}] IN
        Cards(IF r.late THEN rest
              ELSE Scheduled([rest EXCEPT !.loading = FALSE, !.doubled = @ /\ Pending # {r}]))

TimerFires == cards.timer /\ CanSend /\ Cards(Sent([cards EXCEPT !.timer = FALSE]))

Hide == ~cards.hidden /\ Cards([cards EXCEPT !.hidden = TRUE, !.timer = FALSE])

(* Coming back fetches at once, whatever is under way. *)
ComeBack ==
    /\ cards.hidden /\ CanSend
    /\ Cards(Sent([cards EXCEPT !.hidden = FALSE, !.doubled = @ \/ Pending # {}]))

(* Another status shows the cards kept of it, and takes no notice of the fetches before. *)
Show(status) ==
    /\ status # cards.status /\ CanSend
    /\ Cards(Sent([cards EXCEPT !.status = status, !.shown = cards.kept[status],
                                !.loading = cards.kept[status] = 0, !.timer = FALSE, !.doubled = FALSE,
                                !.asked = {[r EXCEPT !.late = TRUE] : r \in @}]))

Placeholders == cards.loading /\ cards.shown = 0
-----------------------------------------------------------------------------
(* The filters.  What is typed filters at once and reaches the address three tenths of a     *)
(* second later.                                                                               *)
Type(text) ==
    /\ text # filter.input
    /\ Filter([filter EXCEPT !.input = text, !.timer = text # filter.written])

WriteSearch ==
    filter.timer /\ Filter([filter EXCEPT !.timer = FALSE, !.written = filter.input, !.url = filter.input])

(* Mutant of Picked: the text last written is not compared. *)
PickedNever(f, text) == [f EXCEPT !.url = text]

(* A text that comes with the address and was not written from here goes to the box. *)
Picked(f, text) ==
    IF text = f.written THEN [f EXCEPT !.url = text]
    ELSE [f EXCEPT !.url = text, !.written = text, !.input = text,
                   !.timer = @ /\ f.input = text]

(* Back, Forward and links of the bar. *)
Navigate(text) == text # filter.url /\ Filter(Picked(filter, text))

(* Each filter is written to the address as it is, the text there with it. *)
Choose(status) == status # filter.status /\ Filter([filter EXCEPT !.status = status])

Active == filter.input # None \/ filter.status # "active"

ClearAll ==
    /\ Active
    /\ Filter([filter EXCEPT !.input = None, !.written = None, !.url = None, !.status = "active",
                             !.timer = FALSE])

Drawer == Filter([filter EXCEPT !.drawer = ~@])
-----------------------------------------------------------------------------
(* The rows.                                                                 *)
HasMore(g) == g.shown < g.total
Skeletons == Fewer(Screen, grid.total - grid.shown)

LoadNext(g) == IF g.loading THEN g ELSE [g EXCEPT !.loading = TRUE, !.timer = [upTo |-> g.total]]

(* After a render that changed what it watches, the page asks for more rows while it remembers  *)
(* their end in view, and a new observer is told again.                                          *)
Rendered(g) ==
    IF <<g.loading, HasMore(g), g.total>> = <<grid.loading, HasMore(grid), grid.total>> THEN Grid(g)
    ELSE LET more == IF HasMore(g) /\ g.ref THEN LoadNext(g) ELSE g
         IN  Grid([more EXCEPT !.told = None])

(* The first cards replace the placeholders without a wait. *)
FirstCards(g) ==
    IF g.had \/ g.total = 0 THEN g
    ELSE [g EXCEPT !.had = TRUE, !.loading = FALSE, !.timer = None, !.shown = Fewer(Screen, g.total)]

(* The list grows or shrinks with a fetch. *)
Listed(n) == n # grid.total /\ Rendered(FirstCards([grid EXCEPT !.total = n]))

(* The half second passes: the rows asked for were counted when it began. *)
ChunkShown ==
    /\ grid.timer # None
    /\ Rendered([grid EXCEPT !.loading = FALSE, !.timer = None,
                             !.shown = Fewer(@ + Chunk, grid.timer.upTo)])

(* Mutant of Restarted: the waiting is not ended with its timer. *)
RestartedWaiting(g) == [g EXCEPT !.shown = 0, !.timer = None, !.late = TRUE]

Restarted(g) == [g EXCEPT !.shown = 0, !.loading = FALSE, !.timer = None, !.late = TRUE]

(* Other filters, other cards: the rows begin again. *)
Restart(n) == grid.had /\ Rendered(Restarted([grid EXCEPT !.total = n]))

(* Just after, the page takes the end of the rows to be in view. *)
Assumed == grid.late /\ Grid([grid EXCEPT !.late = FALSE, !.ref = TRUE])

(* The reader scrolls, and the browser tells the page afterwards. *)
Scroll == Grid([grid EXCEPT !.in = ~@])

Told ==
    /\ grid.told # [in |-> grid.in]
    /\ LET told == [grid EXCEPT !.told = [in |-> grid.in], !.ref = grid.in]
       IN  Rendered(IF grid.in /\ HasMore(grid) THEN LoadNext(told) ELSE told)

Next ==
    \/ /\ part = "cards"
       /\ \/ Changed \/ Served \/ Answered \/ Failed \/ TimerFires \/ Hide \/ ComeBack
          \/ \E status \in Statuses : Show(status)
    \/ /\ part = "filters"
       /\ \/ WriteSearch \/ ClearAll \/ Drawer
          \/ \E status \in Statuses : Choose(status)
          \/ \E text \in Texts \union {None} : Type(text) \/ Navigate(text)
    \/ /\ part = "rows"
       /\ \/ ChunkShown \/ Assumed \/ Scroll \/ Told
          \/ \E n \in 0..MaxRows : Listed(n) \/ Restart(n)

Spec == Init /\ [][Next]_vars
-----------------------------------------------------------------------------
(* The cards are of some time, the text in the box is a text, no row is shown that is not there. *)
TypeOK ==
    /\ part \in {"cards", "filters", "rows"}
    /\ part = "cards"   => (cards \in CardType /\ cards.shown <= cards.now)
    /\ part = "filters" => filter \in FilterType
    /\ part = "rows"    => (grid \in GridType /\ (Skeletons > 0 => HasMore(grid)))

(* A list never goes back to older cards, unless the reader came back to it while a fetch     *)
(* was under way.                                                                              *)
StepsForward ==
    (part = "cards" /\ cards'.status = cards.status /\ ~cards.doubled)
        => cards'.shown >= cards.shown

(* No step of the grid does. *)
CardsGoForward == [][StepsForward]_vars

(* The box and the address agree when no text is on its way to the address. *)
AddressFollows == (part = "filters" /\ ~filter.timer) => filter.input = filter.url

(* While the browser has told that the end of the rows is in view, more rows are on their     *)
(* way: nothing waits without its timer.                                                        *)
RowsKeepComing ==
    part = "rows" =>
        /\ grid.loading => grid.timer # None
        /\ (grid.in /\ grid.told = [in |-> TRUE] /\ HasMore(grid)) => grid.loading

(* What is kept was there, and what was read later is later. *)
CardsAreOfThePast ==
    part = "cards" =>
        /\ \A s \in Statuses : cards.kept[s] <= cards.now
        /\ \A r \in cards.asked : r.number < cards.sent /\ (r.got # None => r.got.at <= cards.now)

(* But for that visit one fetch is under way at most, or the next is timed, and what it has *)
(* read is no older than what is shown.                                                      *)
OneFetch ==
    (part = "cards" /\ ~cards.doubled) =>
        /\ \A r, s \in Pending : r = s
        /\ cards.timer => Pending = {}
        /\ \A r \in Pending : r.got # None => r.got.at >= cards.shown

HiddenRests == (part = "cards" /\ cards.hidden) => ~cards.timer

(* The text last written is the one in the address. *)
WrittenIsUrl == part = "filters" => filter.written = filter.url

(* More rows are on their way also if the reader has scrolled on since. *)
TimersRun ==
    part = "rows" =>
        /\ grid.loading <=> grid.timer # None
        /\ (grid.told = [in |-> TRUE] /\ HasMore(grid)) => grid.loading

(* What every step keeps. *)
GridInv ==
    /\ TypeOK /\ CardsAreOfThePast /\ OneFetch /\ HiddenRests
    /\ WrittenIsUrl /\ AddressFollows /\ TimersRun
=============================================================================
