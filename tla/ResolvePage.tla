---------------------------- MODULE ResolvePage ----------------------------
(***************************************************************************)
(* Resolving from the market page: what MultiChoiceLayout and BinaryLayout   *)
(* show of a resolution, and the modal the steward resolves with             *)
(* (frontend/src/components/testmarketdetails/TestMarketDetailsLayout.jsx,    *)
(* frontend/src/components/modals/resolution/ResolveModalDark.jsx).           *)
(*                                                                         *)
(* The market of the route is option 1.  The group is loaded once and then    *)
(* both polled and refreshed; the two are not ordered, so an old answer may   *)
(* come last.  The modal computes its mode anew from whatever is shown.       *)
(***************************************************************************)
EXTENDS Naturals

CONSTANTS Count,       \* options of the group
          Elsewhere,   \* bound: the results that others give
          None

VARIABLES page, modal,
          server   \* the result of each option, "open" while it has none

vars == <<page, modal, server>>

Options == 1..Count
Results == {"YES", "NO", "N/A"}
Servers == [Options -> Results \union {"open"}]
Open == [o \in Options |-> "open"]

Requests == [kind : {"group", "single"}, market : Options, result : Results, picked : BOOLEAN]

Pages ==
    [grouped : BOOLEAN, preview : BOOLEAN, user : {"out", "trader", "steward"},
     market : Results \union {"open"}, shown : Servers \union {None}, load : BOOLEAN,
     poll : Servers \union {None}, ended : BOOLEAN, activity : Options,
     picker : Options \union {None}, dialog : {"none", "login", "forgot"},
     request : Requests \union {None}]

Modals ==
    [open : BOOLEAN, selected : {"YES", "NO", None}, target : Options \union {None},
     submitting : BOOLEAN, error : BOOLEAN, picked : BOOLEAN]

ConstantsOK == Count \in Nat \ {0} /\ Elsewhere \subseteq Results /\ None \notin Servers

Closed == [open |-> FALSE, selected |-> None, target |-> None, submitting |-> FALSE,
           error |-> FALSE,
           picked |-> FALSE]   \* the user picked the target since the modal was opened

Init ==
    /\ server = Open
    /\ \E grouped, preview \in BOOLEAN, user \in {"out", "trader", "steward"} :
           page = [grouped |-> grouped, preview |-> preview /\ grouped, user |-> user,
                   market |-> "open", shown |-> None, load |-> grouped, poll |-> None,
                   ended |-> FALSE, activity |-> 1, picker |-> None, dialog |-> "none",
                   request |-> None]
    /\ modal = Closed

-----------------------------------------------------------------------------
(* What is shown.                                                            *)
Loaded == page.shown # None
Shown(o) == page.shown[o]
Resolved == IF Loaded THEN {o \in Options : Shown(o) # "open"} ELSE {}
Winners == {o \in Resolved : Shown(o) = "YES"}
First(S) == CHOOSE o \in S : \A p \in S : o <= p

(* GroupResolutionAlert. *)
GroupAlert ==
    IF Resolved = {} THEN "none"
    ELSE IF Resolved # Options THEN "partial"
    ELSE IF \A o \in Options : Shown(o) = "N/A" THEN "cancelled"
    ELSE IF Winners # {} THEN "winners" ELSE "no winner"

(* GroupResolvedPanel: the first option that won, None for "no winner". *)
GroupPanelWinner == IF Winners = {} THEN None ELSE First(Winners)

(* MatchBanner: final once any option is resolved. *)
BannerFinal == Resolved # {}
BannerWinner == IF Winners = {} THEN None ELSE First(Winners)

MarketOpen == page.market = "open" /\ ~page.ended

(* The trade panel of the group, and of a market of its own. *)
GroupPanel ==
    IF ~Loaded THEN "preview"
    ELSE IF Resolved # {} THEN "resolved"
    ELSE IF page.user = "out" THEN "sign in"
    ELSE IF ~MarketOpen THEN "closed" ELSE "trade"

BinaryPanel ==
    IF page.market # "open" THEN "resolved"
    ELSE IF ~MarketOpen THEN "closed"
    ELSE IF page.user = "out" THEN "sign in" ELSE "trade"

Panel == IF page.grouped THEN GroupPanel ELSE BinaryPanel

(* A single market or, until its group is loaded, the option of the route. *)
CanResolve ==
    /\ page.user = "steward"
    /\ IF Loaded \/ page.preview THEN Loaded /\ Resolved # Options ELSE page.market = "open"

IsGroup == Loaded
WinnerMode == IsGroup /\ Resolved = {}
Ready == IF WinnerMode THEN modal.target # None ELSE modal.selected # None

(* Mutant of Kept: the modal outlives its button. *)
KeptAlways(canResolve) == modal

(* The button and its modal unmount when nothing is left to resolve. *)
Kept(canResolve) == IF canResolve THEN modal ELSE Closed
-----------------------------------------------------------------------------
(* The data of the page.                                                     *)
Show(p) ==
    /\ page' = p
    /\ modal' = Kept(CanResolve')
    /\ UNCHANGED server

GroupLoaded == page.load /\ Show([page EXCEPT !.load = FALSE, !.shown = server])

(* A poll remembers the group as it was when it was asked. *)
GroupPoll ==
    /\ page.grouped /\ page.poll = None
    /\ page' = [page EXCEPT !.poll = server]
    /\ UNCHANGED <<modal, server>>

GroupPollAnswered ==
    /\ page.poll # None
    /\ Show([page EXCEPT !.poll = None, !.shown = page.poll])

DetailsPolled == page.market # server[1] /\ Show([page EXCEPT !.market = server[1]])

MarketEnds ==
    /\ ~page.ended /\ page' = [page EXCEPT !.ended = TRUE]
    /\ UNCHANGED <<modal, server>>

(* Somebody else resolves an option (external). *)
ResolvedElsewhere(o, result) ==
    /\ server[o] = "open"
    /\ server' = [server EXCEPT ![o] = result]
    /\ UNCHANGED <<page, modal>>
-----------------------------------------------------------------------------
(* ResolveModalDark.                                                         *)
Modal(m) == modal' = m /\ UNCHANGED <<page, server>>

(* Mutant of Preselection: the option whose activity is shown is preselected always. *)
PreselectionAlways == page.activity

(* The option of the activity card if it is unresolved, else the first that is;   *)
(* a single market keeps the target of an earlier opening.                      *)
Preselection ==
    IF WinnerMode THEN None
    ELSE IF ~IsGroup THEN modal.target
    ELSE IF page.activity \notin Resolved THEN page.activity ELSE First(Options \ Resolved)

ButtonShown == CanResolve /\ ~modal.open

HandleOpen ==
    /\ ButtonShown
    /\ Modal([modal EXCEPT !.open = TRUE, !.selected = None, !.error = FALSE, !.picked = FALSE,
                           !.target = Preselection])

(* While a request is under way neither the cross nor the backdrop closes. *)
CanClose == modal.open /\ ~modal.submitting

HandleClose ==
    /\ CanClose
    /\ Modal([modal EXCEPT !.open = FALSE, !.selected = None, !.error = FALSE])

PickOption(o) ==
    /\ modal.open /\ IsGroup /\ o \notin Resolved
    /\ Modal([modal EXCEPT !.target = o, !.selected = None, !.picked = TRUE])

SelectOutcome(result) ==
    /\ modal.open /\ ~WinnerMode /\ (IsGroup => modal.target # None)
    /\ Modal([modal EXCEPT !.selected = result])

(* Mutant of Request: the winner is resolved alone. *)
RequestAlone ==
    [kind |-> "single", market |-> IF IsGroup THEN modal.target ELSE 1,
     result |-> IF WinnerMode THEN "YES" ELSE modal.selected, picked |-> ~IsGroup]

(* What is sent; picked also tells, of a single market, that no group was shown. *)
Request ==
    IF WinnerMode
    THEN [kind |-> "group", market |-> modal.target, result |-> "YES", picked |-> modal.picked]
    ELSE [kind |-> "single", market |-> IF IsGroup THEN modal.target ELSE 1,
          result |-> modal.selected, picked |-> ~IsGroup]

CanConfirm == modal.open /\ Ready /\ ~modal.submitting

(* One request at a time: a modal that was unmounted and opened again while its  *)
(* request is under way waits for it here, where the code does not.               *)
HandleConfirm ==
    /\ CanConfirm /\ page.request = None
    /\ IF Request.market = None THEN modal' = [modal EXCEPT !.error = TRUE] /\ UNCHANGED page
       ELSE /\ modal' = [modal EXCEPT !.submitting = TRUE, !.error = FALSE]
            /\ page' = [page EXCEPT !.request = Request]
    /\ UNCHANGED server

(* The server takes a whole group while no option has a result, an option while it has none. *)
Accepts(r) == IF r.kind = "group" THEN server = Open ELSE server[r.market] = "open"

After(r) == IF r.kind = "group"
            THEN [o \in Options |-> IF o = r.market THEN "YES" ELSE "NO"]
            ELSE [server EXCEPT ![r.market] = r.result]

(* Success closes the modal and refetches; the details come with their own poll. *)
ResolutionAccepted ==
    /\ page.request # None /\ Accepts(page.request)
    /\ server' = After(page.request)
    /\ page' = [page EXCEPT !.request = None, !.load = page.grouped]
    /\ modal' = [modal EXCEPT !.open = FALSE, !.submitting = FALSE]

ResolutionRefused ==
    /\ page.request # None
    /\ page' = [page EXCEPT !.request = None]
    /\ modal' = IF modal.submitting THEN [modal EXCEPT !.submitting = FALSE, !.error = TRUE] ELSE modal
    /\ UNCHANGED server
-----------------------------------------------------------------------------
(* ActivityOptionPicker and the dialogs of a visitor, under no open modal.      *)
Shows(p) == ~modal.open /\ page' = p /\ UNCHANGED <<modal, server>>

Next1(o) == (o % Count) + 1
Prev1(o) == ((o + Count - 2) % Count) + 1

OpenPicker ==
    /\ Loaded /\ page.picker = None
    /\ Shows([page EXCEPT !.picker = page.activity])

FocusPicker(o) ==
    /\ page.picker # None /\ o \in {Next1(page.picker), Prev1(page.picker), 1, Count}
    /\ Shows([page EXCEPT !.picker = o])

ChoosePicker == page.picker # None /\ Shows([page EXCEPT !.activity = page.picker, !.picker = None])

ClosePicker == page.picker # None /\ Shows([page EXCEPT !.picker = None])

(* Every button of the panel asks a visitor to log in. *)
AskLogin == Panel = "sign in" /\ page.dialog = "none" /\ Shows([page EXCEPT !.dialog = "login"])

SwitchDialog ==
    /\ page.dialog # "none"
    /\ \E d \in {"none", "login", "forgot"} \ {page.dialog} : Shows([page EXCEPT !.dialog = d])

LoggedIn ==
    /\ page.dialog = "login"
    /\ Shows([page EXCEPT !.dialog = "none", !.user = "trader"])

Next ==
    \/ GroupLoaded \/ GroupPoll \/ GroupPollAnswered \/ DetailsPolled \/ MarketEnds
    \/ \E o \in Options, r \in Elsewhere : ResolvedElsewhere(o, r)
    \/ HandleOpen \/ HandleClose \/ HandleConfirm \/ ResolutionAccepted \/ ResolutionRefused
    \/ \E o \in Options : PickOption(o) \/ FocusPicker(o)
    \/ \E r \in {"YES", "NO"} : SelectOutcome(r)
    \/ OpenPicker \/ ChoosePicker \/ ClosePicker \/ AskLogin \/ SwitchDialog \/ LoggedIn

Spec == Init /\ [][Next]_vars
-----------------------------------------------------------------------------
(* What the page says of a group: the alert, the panel and the banner agree. *)
ToldAlike ==
    /\ GroupAlert = "winners" => GroupPanelWinner \in Winners /\ BannerWinner = GroupPanelWinner
    /\ GroupAlert \in {"cancelled", "no winner"} => GroupPanelWinner = None
    /\ (page.grouped /\ GroupAlert # "none") => Panel = "resolved" /\ BannerFinal

(* What was read of the server has come true of it, for good. *)
TrueOf(read) == \A o \in Options : read[o] # "open" => server[o] = read[o]

(* The fields stay in their sets; what is shown was once true of the server, and *)
(* told alike by the parts of the page; the modal is open only on something open. *)
TypeOK ==
    /\ page \in Pages /\ modal \in Modals /\ server \in Servers
    /\ Loaded => TrueOf(page.shown)
    /\ modal.open => CanResolve
    /\ ToldAlike

(* A group is resolved at once only with the winner the steward picked in this      *)
(* opening of the modal ("never preselect a winner"), although an old poll can turn  *)
(* the modal of one option, which does preselect, into the modal of a winner: the    *)
(* server refuses what that modal sends.                                          *)
PickedAtOnce ==
    (page.request # None /\ page'.request = None /\ server' # server
        /\ page.request.kind = "group") => page.request.picked

(* No step of the page or of its modal does otherwise. *)
WinnerWasPicked == [][PickedAtOnce]_vars

(* The modal resolves an option on its own while its group is untouched, after    *)
(* which the group cannot be resolved at once, only if it was confirmed before the *)
(* group was loaded.                                                             *)
AloneUngrouped ==
    (page.grouped /\ server = Open /\ server' # Open /\ page.request # None
        /\ page'.request = None /\ page.request.kind = "single")
    => page.request.picked

(* No step of the page or of its modal does otherwise. *)
AloneOnlyBeforeGroup == [][AloneUngrouped]_vars

(* What makes these inductive: what a poll will show is true as well; ... *)
PollIsTrue == page.poll # None => TrueOf(page.poll)

(* ... a modal that preselects an option knows of a result, and so the server has one; ... *)
PreselectsKnown ==
    /\ ~Loaded => modal.target = None
    /\ server = Open /\ modal.target # None => modal.picked

(* ... and a request the server can still take as untouched says so. *)
UntouchedWasPicked == page.request # None /\ server = Open => page.request.picked

ResolveInv == TypeOK /\ PollIsTrue /\ PreselectsKnown /\ UntouchedWasPicked
=============================================================================
