---------------------------- MODULE MarketPage ----------------------------
(***************************************************************************)
(* The market page: the hook that loads and polls the market                 *)
(* (frontend/src/hooks/useMarketDetails.jsx), the page that renders its       *)
(* details or an error, and MultiChoiceLayout, which loads the group of the   *)
(* market and keeps the option the user looks at                             *)
(* (frontend/src/components/testmarketdetails/TestMarketDetailsLayout.jsx).   *)
(*                                                                         *)
(* A fetch whose effect was cleaned up is simply dropped; of each effect at   *)
(* most one fetch is live, so each has one slot.  The options of the group    *)
(* are a sequence on the server, where an approved addition may come first.   *)
(***************************************************************************)
EXTENDS Naturals, Sequences, SequencesExt, FiniteSets

CONSTANTS Options,       \* the market ids of the group at first, in displayOrder
          Added,         \* an answer approved later, shown before the others
          None,
          MaxAttempts    \* retries after a 429: 3 in the code

VARIABLES page,     \* state of the page, the hook and the layout
          options   \* what the server lists

vars == <<page, options>>

Markets == Range(Options)
Lists   == {Options, <<Added>> \o Options}
Fetches == [market : Markets, silent : BOOLEAN, attempt : 0..MaxAttempts, backoff : BOOLEAN]

ConstantsOK ==
    /\ Options \in Seq(Markets) /\ Options # <<>> /\ MaxAttempts \in Nat
    /\ None \notin Markets \union {Added} /\ None \notin Lists /\ None \notin Fetches
NoGroup == [options |-> <<>>, loading |-> TRUE, loaded |-> FALSE, load |-> None, poll |-> None,
            selected |-> 1, activity |-> 1, urlIdx |-> 0, chosen |-> None]

Fetch(market, silent, attempt) ==
    [market |-> market, silent |-> silent, attempt |-> attempt, backoff |-> FALSE]

Init ==
    /\ options = Options
    /\ \E m \in Markets :
           page = [url |-> m, address |-> m, visible |-> TRUE, details |-> None, error |-> FALSE,
                   fetch |-> Fetch(m, FALSE, 0), refetch |-> FALSE,
                   tags |-> "loading", group |-> NoGroup]

(* What the page renders; the layout is mounted only on the market itself.      *)
NotFound == page.error
SkeletonMarket == ~page.error /\ page.details = None
View == IF NotFound THEN "not found" ELSE IF SkeletonMarket THEN "skeleton" ELSE "market"

(* The parts of the layout.  A group whose load failed has a chart but no panel. *)
Loading == SkeletonMarket \/ page.group.loading
NoOptions == page.group.options = <<>>
ChartPart == IF Loading THEN "skeleton" ELSE IF NoOptions THEN "flat" ELSE "lines"
TradePart == IF Loading THEN "skeleton" ELSE IF NoOptions THEN "none" ELSE "panel"
ActivityPart == IF SkeletonMarket THEN "skeleton" ELSE IF NoOptions THEN "list" ELSE "picker"

(* The tags: their column is kept while they load, and becomes a row without room. *)
TagSidebar == ~NotFound /\ page.tags \in {"loading", "loaded"}
TagRow == ~NotFound /\ page.tags = "loaded"

(* Mounting the layout starts the load of the group, leaving the page drops it. *)
Mounted(p) ==
    IF p.error \/ p.details = None THEN [p EXCEPT !.group = NoGroup]
    ELSE IF View = "market" THEN p
    ELSE [p EXCEPT !.group.load = options]

(* Mutant of Navigate: the cleanup does not cancel the fetch of the old market. *)
NavigateUncancelled(m) ==
    /\ m # page.url
    /\ page' = [page EXCEPT !.url = m, !.address = m, !.details = None, !.error = FALSE,
                            !.group = NoGroup]
    /\ UNCHANGED options

(* The route changed: details are cleared and the market loads aloud. *)
Navigate(m) ==
    /\ m # page.url
    /\ page' = [page EXCEPT !.url = m, !.address = m, !.details = None, !.error = FALSE,
                            !.fetch = Fetch(m, FALSE, 0), !.group = NoGroup]
    /\ UNCHANGED options

(* usePollWhileVisible of the hook: nothing to poll before the first success. *)
Poll ==
    /\ page.visible /\ page.details # None
    /\ page' = [page EXCEPT !.fetch = Fetch(page.url, TRUE, 0)]
    /\ UNCHANGED options

SwitchTab ==
    /\ page' = [page EXCEPT !.visible = ~@,
                            !.fetch = IF page.visible \/ page.details = None THEN @
                                      ELSE Fetch(page.url, TRUE, 0),
                            !.group.poll = IF page.visible \/ View # "market" THEN @ ELSE options]
    /\ UNCHANGED options

(* A bet, a sale or a resolution succeeded; two seconds later all is refetched. *)
Traded == View = "market" /\ TradePart = "panel" /\ page' = [page EXCEPT !.refetch = TRUE] /\ UNCHANGED options

RefetchData ==
    /\ page.refetch
    /\ page' = Mounted([page EXCEPT !.refetch = FALSE, !.error = FALSE,
                                    !.fetch = Fetch(page.url, FALSE, 0),
                                    !.group.load = IF View = "market" THEN options ELSE @,
                                    !.group.loading = ~page.group.loaded])
    /\ UNCHANGED options

Idle == [page EXCEPT !.fetch = None]

FetchSucceeded ==
    /\ page.fetch # None /\ ~page.fetch.backoff
    /\ page' = Mounted([Idle EXCEPT !.details = page.fetch.market])
    /\ UNCHANGED options

(* Mutant of FetchTooMany: no limit is left to give up at. *)
FetchTooManySilently ==
    /\ page.fetch # None /\ ~page.fetch.backoff
    /\ page' = IF page.fetch.attempt < MaxAttempts THEN [page EXCEPT !.fetch.backoff = TRUE]
               ELSE Idle
    /\ UNCHANGED options

(* The catch of fetchData: silent fetches keep what is on screen.  Nothing but   *)
(* RefetchData and Navigate clears the error, a poll that succeeds does not.     *)
Failed == IF page.fetch.silent THEN Idle ELSE Mounted([Idle EXCEPT !.error = TRUE])

(* A 429 is retried after a growing delay, three times; then it is an error.    *)
FetchTooMany ==
    /\ page.fetch # None /\ ~page.fetch.backoff
    /\ page' = IF page.fetch.attempt < MaxAttempts THEN [page EXCEPT !.fetch.backoff = TRUE]
               ELSE Failed
    /\ UNCHANGED options

RetryFires ==
    /\ page.fetch # None /\ page.fetch.backoff
    /\ page' = [page EXCEPT !.fetch.attempt = @ + 1, !.fetch.backoff = FALSE]
    /\ UNCHANGED options

FetchFailed == page.fetch # None /\ ~page.fetch.backoff /\ page' = Failed /\ UNCHANGED options

TagsAnswered ==
    /\ page.tags = "loading"
    /\ \E result \in {"loaded", "failed"} : page' = [page EXCEPT !.tags = result]
    /\ UNCHANGED options

-----------------------------------------------------------------------------
(* MultiChoiceLayout.                                                        *)
SelectedAnswer == page.group.options[page.group.selected]

IndexIn(list, m) == IF m \in Range(list) THEN CHOOSE i \in DOMAIN list : list[i] = m ELSE 0

(* Mutant of Preselected: the URL preselects its option at every answer. *)
PreselectedAlways(g, idx) == idx # 0

(* The effect that preselects the option of the URL runs when its place changed. *)
Preselected(g, idx) == idx \notin {0, g.urlIdx}

(* New options on screen.  chosen is what the user picked among these options.   *)
WithOptions(g, list) ==
    LET idx == IndexIn(list, page.url)
        placed == [g EXCEPT !.options = list, !.urlIdx = idx,
                            !.chosen = IF list = g.options THEN @ ELSE None]
    IN  IF Preselected(g, idx) THEN [placed EXCEPT !.selected = idx, !.activity = idx]
        ELSE placed

GroupPoll ==
    /\ View = "market" /\ page.visible
    /\ page' = [page EXCEPT !.group.poll = options]
    /\ UNCHANGED options

GroupPollAnswered ==
    /\ page.group.poll # None
    /\ \E ok \in BOOLEAN :
           page' = [page EXCEPT !.group =
                       [(IF ok THEN WithOptions(@, page.group.poll) ELSE @) EXCEPT !.poll = None]]
    /\ UNCHANGED options

(* Mutant of GroupLoadFailed: every failed load empties the page. *)
GroupLoadFailedEmpties ==
    /\ page.group.load # None
    /\ page' = [page EXCEPT !.group.load = None, !.group.loading = FALSE,
                            !.group.options = <<>>]
    /\ UNCHANGED options

(* A failed first load empties the group even if a poll had filled it. *)
GroupLoadFailed ==
    /\ page.group.load # None
    /\ LET g == [page.group EXCEPT !.load = None, !.loading = FALSE]
       IN  page' = [page EXCEPT !.group =
                       IF g.loaded THEN g
                       ELSE [g EXCEPT !.options = <<>>, !.urlIdx = 0, !.chosen = None]]
    /\ UNCHANGED options

GroupLoaded ==
    /\ page.group.load # None
    /\ page' = [page EXCEPT !.group =
                   [WithOptions(@, page.group.load) EXCEPT !.load = None, !.loading = FALSE,
                                                           !.loaded = TRUE]]
    /\ UNCHANGED options

(* handleSelectIdx: replaceState shows the option in the address, the route stays. *)
SelectIdx(i) ==
    /\ View = "market" /\ i \in DOMAIN page.group.options
    /\ ChartPart = "lines" \/ TradePart = "panel"
    /\ page' = [page EXCEPT !.group.selected = i, !.group.activity = i,
                            !.group.chosen = page.group.options[i],
                            !.address = page.group.options[i]]
    /\ UNCHANGED options

(* The activity filter picks whose bets are listed, not what is traded. *)
PickActivity(i) ==
    /\ View = "market" /\ ActivityPart = "picker" /\ i \in DOMAIN page.group.options
    /\ page' = [page EXCEPT !.group.activity = i]
    /\ UNCHANGED options

(* The server: a proposed answer is approved into the group (external). *)
AnswerAdded == options = Options /\ options' = <<Added>> \o options /\ UNCHANGED page

Next ==
    \/ \E m \in Markets : Navigate(m)
    \/ Poll \/ SwitchTab \/ Traded \/ RefetchData \/ TagsAnswered
    \/ FetchSucceeded \/ FetchTooMany \/ RetryFires \/ FetchFailed
    \/ GroupPoll \/ GroupPollAnswered \/ GroupLoaded \/ GroupLoadFailed
    \/ \E i \in 1..(Len(Options) + 1) : SelectIdx(i) \/ PickActivity(i)
    \/ AnswerAdded

(* The server or the browser ends every request, a timer that is set fires. *)
FetchEnds == FetchSucceeded \/ FetchTooMany \/ FetchFailed
Fairness  == WF_vars(FetchEnds) /\ WF_vars(RetryFires)
Spec == Init /\ [][Next]_vars /\ Fairness
-----------------------------------------------------------------------------
Places    == 1..(Len(Options) + 1)
GroupType ==
    [options : Lists \union {<<>>}, loading : BOOLEAN, loaded : BOOLEAN, load : Lists \union {None},
     poll : Lists \union {None}, selected : Places, activity : Places,
     urlIdx : Places \union {0}, chosen : Markets \union {Added, None}]
PageType ==
    [url : Markets, address : Markets \union {Added}, visible : BOOLEAN,
     details : Markets \union {None}, error : BOOLEAN, fetch : Fetches \union {None},
     refetch : BOOLEAN, tags : {"loading", "loaded", "failed"}, group : GroupType]

(* The fields stay in their sets and an index points at an option. *)
TypeOK ==
    /\ page \in PageType /\ options \in Lists
    /\ page.fetch # None /\ page.fetch.backoff => page.fetch.attempt < MaxAttempts

(* What is on screen is the market of the route: a late answer for the market    *)
(* the user left never replaces it (the cancelled flag of the effect).           *)
DetailsOfTheMarket ==
    /\ page.details \in {None, page.url}
    /\ page.fetch # None => page.fetch.market = page.url

(* A group that was once loaded never disappears while the page stays open: a     *)
(* failed refresh, in whatever order with polls, leaves the options in place.     *)
LoadedGroupStays == page.group.loaded => page.group.options # <<>>

(* The option the user chose stays selected, and in the address, as long as the   *)
(* group keeps its options: no poll, refresh or preselection moves it.            *)
ChosenOptionStays ==
    page.group.chosen # None =>
        SelectedAnswer = page.group.chosen /\ page.address = page.group.chosen

(* The place preselected last is the place of the market in the list on screen. *)
PlaceIsKnown == page.group.urlIdx = IndexIn(page.group.options, page.url)

(* What every step keeps. *)
PageInv ==
    TypeOK /\ DetailsOfTheMarket /\ LoadedGroupStays /\ ChosenOptionStays /\ PlaceIsKnown

(* A page that loads settles on the market or on an error, through its retries,  *)
(* unless the user keeps navigating; nothing leaves the skeleton up for ever.     *)
LoadSettles ==
    []<><<page'.url # page.url>>_vars \/ (View = "skeleton" ~> View # "skeleton")
=============================================================================
