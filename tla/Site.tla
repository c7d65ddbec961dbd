-------------------------------- MODULE Site --------------------------------
(***************************************************************************)
(* What visitors and traders see and send: the page of a market with its      *)
(* group, activity, chart and share card, the older page of a group, the lists *)
(* of markets, their search and their bookmarks, the proposal form, the        *)
(* session and the bar at the top.  They share nothing but the server, so one   *)
(* of them runs at a time, in the variables that the others would use; only     *)
(* the market page has its own, for its temporal property reads them always.    *)
(***************************************************************************)
EXTENDS Integers, Sequences

CONSTANTS None,
          GroupSize, MaxAttempts,                                      \* the market page
          Followed, Languages, MaxListed, MaxPage, MaxRefreshes,       \* the lists of what was done
          Probabilities, MaxTicks, MaxChanges,                         \* the price chart
          Percents, MaxAnswers, MaxPolls,                              \* the share card
          Answers,                                                     \* the older page
          Windows, MaxToggles,                                         \* the bookmarks, of Followed
          SearchTexts, MaxResults,                                     \* the search of the bar
          Topics, TableStatuses, BarTexts, LastPage, MaxMoves,         \* the tables of markets
          MaxSearches,
          GridTexts, MaxVersions, MaxCards, Screen, Chunk,             \* the grid of cards
          MarketCount, CardGroups, CardAnswers, CardTags,              \* the cards
          ProposalLabels, ProposalTags, MaxTags, HardCap, SetupCap,    \* the proposal form
          Members, Roles, Visited, MaxTimers,                          \* the session
          Users, MaxTrades, PageEnd,                                   \* the bar at the top
          MaxLogins,                                                   \* of these two
          MaxRequests                                                  \* of the older page and the form

VARIABLES form,            \* the component that runs
          page, options,   \* the market page
          ui, second, third, fourth   \* the variables of any other, in its order

shared == <<ui, second, third, fourth>>
vars   == <<form, page, options, shared>>

(* The answers of the group, in the order of their display. *)
TheOptions == [i \in 1..GroupSize |-> i]

Market    == INSTANCE MarketPage WITH Options <- TheOptions, Added <- 0
Feed      == INSTANCE ActivityFeed WITH
    feed <- ui, ledger <- second, list <- third, Markets <- Followed, MaxRows <- MaxListed
Chart     == INSTANCE PriceChart WITH chart <- ui, MaxNow <- MaxTicks
Share     == INSTANCE ShareCard WITH card <- ui
Older     == INSTANCE GroupPage WITH page <- ui, contract <- second
Bookmarks == INSTANCE Watchlist WITH kept <- ui, tab <- second, Tabs <- Windows, Markets <- Followed
Search    == INSTANCE SearchBox WITH search <- ui, Texts <- SearchTexts
Browse    == INSTANCE MarketBrowse WITH
    view <- ui, table <- second, seek <- third, panel <- fourth,
    Statuses <- TableStatuses, Texts <- BarTexts
Grid      == INSTANCE CardGrid WITH
    part <- ui, cards <- second, filter <- third, grid <- fourth, Texts <- GridTexts,
    MaxNow <- MaxVersions, MaxRows <- MaxCards
Deck      == INSTANCE MarketCards WITH
    listed <- ui, filter <- second, view <- third, Count <- MarketCount, Groups <- CardGroups,
    Answers <- CardAnswers, Tags <- CardTags
Proposal  == INSTANCE ProposalForm WITH proposal <- ui, Labels <- ProposalLabels, Tags <- ProposalTags
Login     == INSTANCE Session WITH session <- ui, accounts <- second, Users <- Members
Bar       == INSTANCE NavBar WITH bar <- ui, balance <- second, Bottom <- PageEnd

ASSUME SiteAssumption ==
    /\ Market!ConstantsOK /\ Feed!ConstantsOK /\ Older!ConstantsOK /\ Bookmarks!ConstantsOK
    /\ Search!ConstantsOK /\ Browse!ConstantsOK /\ Grid!ConstantsOK /\ Proposal!ConstantsOK
    /\ Login!ConstantsOK /\ Bar!ConstantsOK /\ Chart!ConstantsOK /\ Share!ConstantsOK
    /\ Deck!ConstantsOK
-----------------------------------------------------------------------------
(* A component of fewer variables leaves the rest alone. *)
One == second = None /\ third = None /\ fourth = None
Two == third = None /\ fourth = None
Three == fourth = None
StillOne == UNCHANGED <<second, third, fourth>>
StillTwo == UNCHANGED <<third, fourth>>
StillThree == UNCHANGED fourth

InitShared ==
    \/ form = "feed" /\ Feed!Init /\ Three
    \/ form = "chart" /\ Chart!Init /\ One
    \/ form = "share" /\ Share!Init /\ One
    \/ form = "older" /\ Older!Init /\ Two
    \/ form = "bookmarks" /\ Bookmarks!Init /\ Two
    \/ form = "search" /\ Search!Init /\ One
    \/ form = "browse" /\ Browse!Init
    \/ form = "grid" /\ Grid!Init
    \/ form = "deck" /\ Deck!Init /\ Three
    \/ form = "proposal" /\ Proposal!Init /\ One
    \/ form = "login" /\ Login!Init /\ Two
    \/ form = "bar" /\ Bar!Init /\ Two

Init ==
    \/ form = "market" /\ Market!Init /\ ui = None /\ One
    \/ Market!Init /\ page.url = 1 /\ InitShared

NextShared ==
    \/ form = "feed" /\ Feed!Next /\ StillThree
    \/ form = "chart" /\ Chart!Next /\ StillOne
    \/ form = "share" /\ Share!Next /\ StillOne
    \/ form = "older" /\ Older!Next /\ StillTwo
    \/ form = "bookmarks" /\ Bookmarks!Next /\ StillTwo
    \/ form = "search" /\ Search!Next /\ StillOne
    \/ form = "browse" /\ Browse!Next
    \/ form = "grid" /\ Grid!Next
    \/ form = "deck" /\ Deck!Next /\ StillThree
    \/ form = "proposal" /\ Proposal!Next /\ StillOne
    \/ form = "login" /\ Login!Next /\ StillTwo
    \/ form = "bar" /\ Bar!Next /\ StillTwo

StillShared == UNCHANGED <<form, shared>>

Next ==
    \/ form = "market" /\ Market!Next /\ StillShared
    \/ form # "market" /\ NextShared /\ UNCHANGED <<form, page, options>>

(* The fairness of the market page, which only its own steps can satisfy. *)
Spec ==
    /\ Init /\ [][Next]_vars
    /\ WF_vars(form = "market" /\ Market!FetchEnds /\ StillShared)
    /\ WF_vars(form = "market" /\ Market!RetryFires /\ StillShared)
-----------------------------------------------------------------------------
(* The types of the components, each stated in its module. *)
TypeOK ==
    /\ Market!TypeOK
    /\ form = "feed" => Feed!TypeOK
    /\ form = "chart" => Chart!TypeOK
    /\ form = "share" => Share!TypeOK
    /\ form = "older" => Older!TypeOK
    /\ form = "bookmarks" => Bookmarks!TypeOK
    /\ form = "search" => Search!TypeOK
    /\ form = "browse" => Browse!TypeOK
    /\ form = "grid" => Grid!TypeOK
    /\ form = "deck" => Deck!TypeOK
    /\ form = "proposal" => Proposal!TypeOK
    /\ form = "login" => Login!TypeOK
    /\ form = "bar" => Bar!TypeOK

(* The market page shows the market of the route, keeps a group it has loaded and the   *)
(* option the user chose, whatever loads, polls and refreshes answer and in which order. *)
PageShowsTheMarket ==
    Market!DetailsOfTheMarket /\ Market!LoadedGroupStays /\ Market!ChosenOptionStays

(* The market page settles on its market or on an error, unless the user keeps moving. *)
LoadSettles == form = "market" => Market!LoadSettles

(* A list, a search result, a page of rows or a credit at rest is the one that was asked   *)
(* for last; each module names the orders of answers in its code that leave an older one.  *)
AnswersFit ==
    /\ form = "feed" => Feed!ListIsCurrent /\ Feed!EmptyOnlyIf /\ Feed!RowsOfThePage
    /\ form = "search" => Search!ResultsFit
    /\ form = "browse" => Browse!RowsOfTheView /\ Browse!SearchAndPanelFit
    /\ form = "bookmarks" => Bookmarks!CopyIsCurrent
    /\ form = "bar" => Bar!CreditIsCurrent

(* Every market has its card, the rows below the screen come when they are scrolled to, and *)
(* the filter in the box is the one in the address.                                          *)
CardsAreComplete ==
    /\ form = "deck" => Deck!MarketsAreOnCards
    /\ form = "grid" => Grid!RowsKeepComing /\ Grid!AddressFollows

(* The price chart and the shared card tell of a moment what was true of it, and the labels *)
(* of the chart are apart but at its edges; ...                                              *)
ChartsTellThePast ==
    /\ form = "chart" => Chart!ChartTellsThePast /\ Chart!LabelsOverlapOnlyAtEdges
    /\ form = "share" => Share!CardTellsThePast

(* ... and the labels of the shared card are pushed apart, within its picture. *)
ChartsAreTrue == ChartsTellThePast /\ (form = "share" => Share!CardLabelsApart)

(* A proposal is paid, an amendment recorded and a market resolved once, with the exceptions  *)
(* the forms leave: a press while a proposal is under way, a retry after a part failed, a      *)
(* market confirmed again before the server was done.  The policy that is shown is the saved    *)
(* one, but after a lost answer, or a failure behind a load that had moved the toggle.          *)
SentOnce ==
    /\ form = "older" => /\ Older!AmendedTwiceOnlyAfterFailure /\ Older!OneResolutionOfGroup
                         /\ Older!PolicyShownIsSaved
    /\ form = "proposal" => Proposal!PaidTwiceOnlyAfterPress /\ Proposal!GroupsAreGroups

(* A login outlives a reload until it ends, a password that must be changed is asked for on *)
(* the gated pages, and the links that are offered open their pages, but for an admin's own.  *)
LoginIsKept ==
    form = "login" => Login!StorageFollows /\ Login!MustChangeIsGated /\ Login!LinksOpen

(* A tab undoes no other tab's bookmark, and a list of cards never goes back in time. *)
NothingIsUndone ==
    [][/\ form = "bookmarks" => Bookmarks!TogglesOneMarket
       /\ form = "grid" => Grid!StepsForward]_vars
=============================================================================
