---------------------------- MODULE ActivityFeed ----------------------------
(***************************************************************************)
(* The lists of what was done in a market: bets, positions and ranks.          *)
(*                                                                         *)
(* The card of the market page has tabs, and lists that follow the live tick   *)
(* of the page                                                               *)
(* (frontend/src/components/tabs, frontend/src/components/layouts/activity/dark). *)
(* One row is a page.  Only the tab that is shown is mounted, so there is one  *)
(* view at a time; its fetch is always of its market and page, because every   *)
(* change of them cancels the one before.                                    *)
(*                                                                         *)
(* The older page of a group has lists with pages of their own                 *)
(* (components/marketDetails/GroupedMarketDetailsLayout.jsx); a refresh of the  *)
(* page, after a trade or a resolution, counts up a trigger.  One of the two is *)
(* looked at.                                                                *)
(***************************************************************************)
EXTENDS Naturals

CONSTANTS Markets, None,
          Languages,
          MaxRows,    \* bound on the bets and on the positions of a market
          MaxPage, MaxRefreshes    \* bounds on the pages of the older lists and their refreshes

VARIABLES feed,
          ledger,     \* the bets and the open positions of each market
          list        \* of the older page

vars == <<feed, ledger, list>>

Tabs == {"comments", "bets", "positions", "leaderboard"}

(* Bets, and the ranks a visitor sees, are fetched page by page; positions, and the *)
(* ranks made of them, are fetched whole and cut into pages.                       *)
Paged(f) == f.tab \in {"bets", "leaderboard"} /\ (f.tab = "leaderboard" => ~f.token)
Whole(f) == f.tab \in {"positions", "leaderboard"} /\ f.token

Loud == [silent |-> FALSE]
Silent == [silent |-> TRUE]
Fresh == [page |-> 0, rows |-> None, status |-> "loading", fetch |-> Loud,
          replaced |-> FALSE]   \* a tick cancelled the loud fetch that set the status

(* A tab is remembered by its label, which depends on the language. *)
FeedInit ==
    /\ \E m \in Markets, token \in BOOLEAN, l \in Languages :
           feed = [market |-> m, token |-> token, language |-> l, tab |-> "comments", labelled |-> l,
                   view |-> None, comments |-> <<>>, sort |-> "recent"]
    /\ ledger = [m \in Markets |-> [bets |-> 1, positions |-> 1]]

(* The labels of the tabs have changed: none of them is the one remembered. *)
Blank == feed.labelled # feed.language
Feed(f) == feed' = f /\ UNCHANGED ledger

Mounted(f) ==
    [f EXCEPT !.view = IF Paged(f) \/ Whole(f) THEN Fresh ELSE None,
              !.comments = <<>>, !.sort = "recent"]

SelectTab(t) ==
    /\ t # feed.tab \/ Blank
    /\ Feed(Mounted([feed EXCEPT !.tab = t, !.labelled = feed.language]))

(* The content unmounts; a language that brings the label back mounts it anew. *)
SwitchLanguage(l) ==
    /\ l # feed.language
    /\ Feed(IF l = feed.labelled THEN Mounted([feed EXCEPT !.language = l])
            ELSE [feed EXCEPT !.language = l, !.view = None, !.comments = <<>>])

View == feed.view
Listed == View # None

(* Mutant of Started: the status is left as it was. *)
StartedQuietly(v) == [v EXCEPT !.fetch = Loud, !.replaced = FALSE]

(* A fetch of another market or page, or after a trade: the rows stay meanwhile. *)
Started(v) == [v EXCEPT !.status = "loading", !.fetch = Loud, !.replaced = FALSE]

(* The option whose activity is shown, and a trade: both go back to the first page. *)
SwitchMarket(m) ==
    /\ m # feed.market
    /\ Feed([feed EXCEPT !.market = m, !.view = IF Listed THEN Started([@ EXCEPT !.page = 0]) ELSE @])

Traded == Listed /\ Feed([feed EXCEPT !.view = Started([@ EXCEPT !.page = 0])])

(* The tick cancels what is under way.  The bets of a later page are not fetched again. *)
LiveTick ==
    /\ Listed
    /\ Feed([feed EXCEPT !.view =
           [View EXCEPT !.fetch = IF feed.tab = "bets" /\ View.page # 0 THEN None ELSE Silent,
                        !.replaced = View.replaced \/ View.fetch = Loud]])

Total == IF feed.tab = "bets" THEN ledger[feed.market].bets ELSE ledger[feed.market].positions

(* The answer holds the page, and whether there is a next one, or all rows. *)
FetchAnswered ==
    /\ Listed /\ View.fetch # None
    /\ Feed([feed EXCEPT !.view =
           [@ EXCEPT !.fetch = None, !.status = "ready", !.replaced = FALSE,
                     !.rows = [market |-> feed.market, page |-> IF Paged(feed) THEN View.page ELSE None,
                               total |-> Total]]])

(* A silent fetch that fails changes nothing, not even a status left loading. *)
FetchFailed ==
    /\ Listed /\ View.fetch # None
    /\ Feed([feed EXCEPT !.view =
           [View EXCEPT !.fetch = None,
                        !.status = IF View.fetch = Loud THEN "error" ELSE View.status]])

(* What of the rows is on the page that is shown. *)
RowsOnPage ==
    IF View.rows = None THEN 0
    ELSE LET page == IF Paged(feed) THEN View.rows.page ELSE View.page
         IN  IF View.rows.total > page THEN 1 ELSE 0

Shows ==
    IF View.status = "loading" /\ RowsOnPage = 0 THEN "skeleton"
    ELSE IF View.status = "error" THEN "error"
    ELSE IF RowsOnPage = 0 THEN "empty" ELSE "rows"

HasNext == View.rows.total > (IF Paged(feed) THEN View.rows.page ELSE View.page) + 1

(* Pages of a whole list only cut it; the others are fetched. *)
Paging(page) ==
    Feed([feed EXCEPT !.view =
        IF Paged(feed) THEN Started([@ EXCEPT !.page = page]) ELSE [@ EXCEPT !.page = page]])

NextPage == Listed /\ Shows = "rows" /\ HasNext /\ View.page < MaxRows /\ Paging(View.page + 1)
PrevPage == Listed /\ Shows = "rows" /\ View.page > 0 /\ Paging(View.page - 1)
-----------------------------------------------------------------------------
(* Comments live in the tab only. *)
Commenting == feed.tab = "comments" /\ ~Blank

AddComment ==
    /\ Commenting /\ feed.token /\ feed.comments = <<>>
    /\ Feed([feed EXCEPT !.comments = <<FALSE>>, !.sort = "recent"])

ToggleLike == Commenting /\ feed.comments # <<>> /\ Feed([feed EXCEPT !.comments = <<~feed.comments[1]>>])

SortComments(s) ==
    /\ Commenting /\ feed.comments # <<>> /\ s # feed.sort
    /\ Feed([feed EXCEPT !.sort = s])

(* Others trade; somebody who sells out has no open position any more (external). *)
LedgerMoves(m) ==
    /\ ledger[m].bets < MaxRows
    /\ \E n \in 0..MaxRows :
           ledger' = [ledger EXCEPT ![m] = [bets |-> @.bets + 1, positions |-> n]]
    /\ UNCHANGED feed

FeedNext ==
    \/ \E t \in Tabs : SelectTab(t)
    \/ \E l \in Languages : SwitchLanguage(l)
    \/ \E m \in Markets : SwitchMarket(m) \/ LedgerMoves(m)
    \/ Traded \/ LiveTick \/ FetchAnswered \/ FetchFailed \/ NextPage \/ PrevPage
    \/ AddComment \/ ToggleLike \/ \E s \in {"recent", "top"} : SortComments(s)

-----------------------------------------------------------------------------
(* The lists of the older page.                                            *)
Kinds == {"bets", "positions", "leaderboard"}

(* A tab is unmounted while another is shown: its list starts again on page 0. *)
Opened(kind, trigger, token) ==
    [kind |-> kind, page |-> 0, trigger |-> trigger, token |-> token,
     load |-> None, effect |-> TRUE, rows |-> None, failed |-> FALSE]

ListInit == \E kind \in Kinds, token \in BOOLEAN : list = Opened(kind, 0, token)

List(l) == list' = l

OpenTab(kind) ==
    /\ kind # list.kind /\ List(Opened(kind, list.trigger, list.token))

(* After a refresh only the first page is loaded. *)
Skipped == list.trigger > 0 /\ list.page # 0

LoggedOut == list.kind = "positions" /\ ~list.token

(* The effect of a new page or trigger cancels the load before it. *)
Load ==
    /\ list.effect
    /\ List(IF Skipped THEN [list EXCEPT !.effect = FALSE, !.load = None]
            ELSE IF LoggedOut THEN [list EXCEPT !.effect = FALSE, !.load = None,
                                                !.failed = FALSE, !.rows = None]
            ELSE [list EXCEPT !.effect = FALSE, !.failed = FALSE,
                              !.load = [page |-> list.page, trigger |-> list.trigger]])

LoadAnswered ==
    /\ list.load # None /\ ~list.effect
    /\ \E more \in BOOLEAN :
         List([list EXCEPT !.load = None,
                 !.rows = [page |-> list.load.page, trigger |-> list.load.trigger,
                           more |-> more /\ list.load.page < MaxPage]])

LoadFailed ==
    /\ list.load # None /\ ~list.effect
    /\ List([list EXCEPT !.load = None, !.rows = None, !.failed = TRUE])

HasNextPage == list.rows # None /\ list.rows.more

TurnOn == list.page < MaxPage /\ HasNextPage /\ List([list EXCEPT !.page = @ + 1, !.effect = TRUE])
Previous == list.page > 0 /\ List([list EXCEPT !.page = @ - 1, !.effect = TRUE])

(* Both effects run: the page goes back to the first. *)
Refresh ==
    /\ list.trigger < MaxRefreshes
    /\ List([list EXCEPT !.trigger = @ + 1, !.page = 0, !.effect = TRUE])

LogIn == ~list.token /\ List([list EXCEPT !.token = TRUE, !.page = 0, !.effect = TRUE])

ListNext ==
    \/ \E kind \in Kinds : OpenTab(kind)
    \/ Load \/ LoadAnswered \/ LoadFailed \/ TurnOn \/ Previous \/ Refresh \/ LogIn

(* What the list shows. *)
Header == [page |-> list.page, next |-> HasNextPage]
PositionRowsShown == list.kind = "positions" /\ list.token /\ list.rows # None
LeaderboardShown  == list.kind = "leaderboard" /\ list.rows # None
BetsShown         == list.kind = "bets" /\ list.rows # None
RowsShown == PositionRowsShown \/ LeaderboardShown \/ BetsShown

-----------------------------------------------------------------------------
Init ==
    \/ FeedInit /\ list = None
    \/ ListInit /\ feed = None /\ ledger = None

Next ==
    \/ feed # None /\ FeedNext /\ UNCHANGED list
    \/ list # None /\ ListNext /\ UNCHANGED <<feed, ledger>>

Spec == Init /\ [][Next]_vars
-----------------------------------------------------------------------------
Pages    == 0..MaxRows
Cuts     == [market : Markets, page : Pages \union {None}, total : Pages]
ViewType ==
    [page : Pages, rows : Cuts \union {None}, status : {"loading", "ready", "error"},
     fetch : {None, Loud, Silent}, replaced : BOOLEAN]
FeedType ==
    [market : Markets, token : BOOLEAN, language : Languages, tab : Tabs, labelled : Languages,
     view : ViewType \union {None}, comments : {<<>>, <<FALSE>>, <<TRUE>>}, sort : {"recent", "top"}]

Turns    == [page : 0..MaxPage, trigger : 0..MaxRefreshes]
Rows     == [page : 0..MaxPage, trigger : 0..MaxRefreshes, more : BOOLEAN]
ListType ==
    [kind : Kinds, page : 0..MaxPage, trigger : 0..MaxRefreshes, token : BOOLEAN,
     load : Turns \union {None}, effect : BOOLEAN, rows : Rows \union {None}, failed : BOOLEAN]

ConstantsOK ==
    /\ MaxRows \in Nat \ {0} /\ {MaxPage, MaxRefreshes} \subseteq Nat
    /\ None \notin Cuts \union ViewType \union Turns \union Rows /\ None \notin {Loud, Silent} \union Nat
    /\ None \notin ListType \union FeedType

(* The fields stay in their sets; a pager that offers more stands over rows. *)
TypeOK ==
    /\ feed # None => feed \in FeedType /\ ledger \in [Markets -> [bets : Pages, positions : Pages]]
    /\ list # None => list \in ListType /\ (Header.next => RowsShown) /\ (list.failed => ~RowsShown)

(* Rows that are not marked as loading are those of the market and page that are    *)
(* shown; and a list that loads has its fetch under way, unless a live tick had      *)
(* cancelled it: then the page asked for may never come.                          *)
ListIsCurrent ==
    (feed # None /\ Listed) =>
        /\ View.status = "ready" =>
               View.rows.market = feed.market /\ View.rows.page \in {None, View.page}
        /\ View.status = "loading" /\ View.fetch = None => View.replaced

(* The card stands empty, no tab selected, only after the language was changed; and a *)
(* list of positions claims there are none while there are only past its last page. *)
EmptyOnlyIf ==
    feed # None =>
        /\ (View = None /\ (Paged(feed) \/ Whole(feed))) => Blank
        /\ (Listed /\ Shows = "empty" /\ View.rows.total > 0) => View.page > 0

(* What every step keeps of them: a list that is paged has rows of a page. *)
FeedRows ==
    (feed # None /\ Listed) =>
        /\ Paged(feed) \/ Whole(feed)
        /\ View.status = "ready" =>
               /\ View.rows # None /\ View.rows.market = feed.market
               /\ View.rows.page = IF Paged(feed) THEN View.page ELSE None
        /\ View.status = "loading" => (View.fetch = Loud \/ View.replaced)

(* Rows at rest belong to the page the header names and to the last refresh, unless the  *)
(* page was turned after a refresh: then nothing is loaded and the old rows stay.        *)
RowsOfThePage ==
    (list # None /\ RowsShown /\ ~list.effect /\ list.load = None /\ (list.trigger = 0 \/ list.page = 0)) =>
        list.rows.page = Header.page /\ list.rows.trigger = list.trigger

LoadIsCurrent ==
    list # None =>
        /\ LoggedOut => list.load = None /\ list.rows = None
        /\ list.load # None => ~list.failed
        /\ list.failed => list.rows = None
        /\ (~list.effect /\ list.load # None) => list.load = [page |-> list.page, trigger |-> list.trigger]
        /\ (~list.effect /\ list.load = None /\ list.rows # None /\ (list.trigger = 0 \/ list.page = 0)) =>
               (list.rows.page = list.page /\ list.rows.trigger = list.trigger)

(* What every step keeps. *)
FeedInv == TypeOK /\ FeedRows /\ EmptyOnlyIf /\ LoadIsCurrent
=============================================================================
