------------------------------- MODULE Forms -------------------------------
(***************************************************************************)
(* What is filled in and sent: the trade panel of a market and the modal of    *)
(* the older page, and what stewards, moderators and administrators work with,  *)
(* the resolution of a market, the settings and texts of the site, the queues   *)
(* of what waits for a decision, the stewards and the tags of the markets.      *)
(* They share nothing but the server, so one of them runs at a time, in the      *)
(* variables that the others would use.                                          *)
(***************************************************************************)
EXTENDS Integers

CONSTANTS None,
          Answers, MaxAmount, Steps, MaxHeld, StartHeld, MaxLoads,    \* the trade panel
          MaxFetches,
          MaxMounts, MaxOrders,                                       \* the older modal
          GroupSize, Elsewhere,                                       \* the resolution page
          Settings, MaxVersion, MaxOpens, MaxRevision,                \* settings and texts
          Rows, Views, Stewards, Tags, MaxTags, MaxDecisions,         \* the queues
          Topics, MaxLayouts, MaxPins, MaxSaves,                      \* the pages of the topics
          MaxRequests                                                 \* of any other form

VARIABLES form,                \* the component that runs
          ui, second, third    \* its variables, in its order

vars == <<form, ui, second, third>>

Buy       == INSTANCE BuyForm WITH buy <- ui
Sell      == INSTANCE SellForm WITH sell <- ui, held <- second
Position  == INSTANCE PositionPanel WITH position <- ui
Modal     == INSTANCE TradeModal WITH modal <- ui
Resolve   == INSTANCE ResolvePage WITH
    page <- ui, modal <- second, server <- third, Count <- GroupSize
Setting   == INSTANCE GovernanceForms WITH form <- ui, server <- second
Queue     == INSTANCE ReviewQueue WITH queue <- ui, MaxRequests <- MaxDecisions
Steward   == INSTANCE Stewardship WITH queue <- ui, steward <- second
TheTags   == INSTANCE TagDesk WITH desk <- ui, server <- second
Desk      == INSTANCE ReviewDesk WITH desk <- ui, pending <- second
Discovery == INSTANCE DiscoveryEditor WITH editor <- ui, pages <- second, MaxVersion <- MaxLayouts
Cms       == INSTANCE CmsForm WITH form <- ui, content <- second

ASSUME FormsAssumption ==
    /\ Buy!ConstantsOK /\ Sell!ConstantsOK /\ Position!ConstantsOK /\ Resolve!ConstantsOK
    /\ Setting!ConstantsOK /\ Queue!ConstantsOK /\ Steward!ConstantsOK /\ TheTags!ConstantsOK
    /\ Desk!ConstantsOK /\ Discovery!ConstantsOK /\ Cms!ConstantsOK
-----------------------------------------------------------------------------
(* A component of fewer variables leaves the rest alone. *)
One == second = None /\ third = None
Two == third = None
StillOne == UNCHANGED <<second, third>>
StillTwo == UNCHANGED third

Init ==
    \/ form = "buy" /\ Buy!Init /\ One
    \/ form = "sell" /\ Sell!Init /\ Two
    \/ form = "position" /\ Position!Init /\ One
    \/ form = "modal" /\ Modal!Init /\ One
    \/ form = "resolve" /\ Resolve!Init
    \/ form = "settings" /\ Setting!Init /\ Two
    \/ form = "queue" /\ Queue!Init /\ One
    \/ form = "stewards" /\ Steward!Init /\ Two
    \/ form = "tags" /\ TheTags!Init /\ Two
    \/ form = "desk" /\ Desk!Init /\ Two
    \/ form = "discovery" /\ Discovery!Init /\ Two
    \/ form = "cms" /\ Cms!Init /\ Two

Next ==
    /\ \/ form = "buy" /\ Buy!Next /\ StillOne
       \/ form = "sell" /\ Sell!Next /\ StillTwo
       \/ form = "position" /\ Position!Next /\ StillOne
       \/ form = "modal" /\ Modal!Next /\ StillOne
       \/ form = "resolve" /\ Resolve!Next
       \/ form = "settings" /\ Setting!Next /\ StillTwo
       \/ form = "queue" /\ Queue!Next /\ StillOne
       \/ form = "stewards" /\ Steward!Next /\ StillTwo
       \/ form = "tags" /\ TheTags!Next /\ StillTwo
       \/ form = "desk" /\ Desk!Next /\ StillTwo
       \/ form = "discovery" /\ Discovery!Next /\ StillTwo
       \/ form = "cms" /\ Cms!Next /\ StillTwo
    /\ UNCHANGED form

Spec == Init /\ [][Next]_vars
-----------------------------------------------------------------------------
(* The types of the components, each stated in its module. *)
TypeOK ==
    /\ form = "buy" => Buy!TypeOK
    /\ form = "sell" => Sell!TypeOK
    /\ form = "position" => Position!TypeOK
    /\ form = "modal" => Modal!TypeOK
    /\ form = "resolve" => Resolve!TypeOK
    /\ form = "settings" => Setting!TypeOK
    /\ form = "queue" => Queue!TypeOK
    /\ form = "stewards" => Steward!TypeOK
    /\ form = "tags" => TheTags!TypeOK
    /\ form = "desk" => Desk!TypeOK
    /\ form = "discovery" => Discovery!TypeOK
    /\ form = "cms" => Cms!TypeOK

(* Two orders are under way together only after one was clicked on the success of another,     *)
(* the buy form stays frozen only after an exception, and the modal says PURCHASED only after  *)
(* its panel sent an order or was clicked when the login had ended, which sends none.          *)
OrderedOnce ==
    /\ form = "buy" => Buy!OrdersOverlapOnlyAfterSuccess /\ Buy!FrozenOnlyByThrow
    /\ form = "modal" => Modal!PurchasedOnlyAfterOrder

(* Two sales are under way together only from two openings of the modal, and what the panel    *)
(* sells is what a quote just allowed, whatever was picked or typed between the two.           *)
SoldOnce ==
    /\ form = "sell" => Sell!OneSaleAtATime /\ Sell!SaleAsQuoted
    /\ form = "modal" => Modal!SalesOverlapOnlyAcrossMounts

(* What the panel shows, the projection, the shares and the position, is of the answer that   *)
(* is picked, but for an answer to an earlier load and one that failed.                       *)
PanelFits ==
    /\ form = "buy" => Buy!LastProjectionIsCurrent
    /\ form = "sell" => Sell!ForeignSharesOnlyByLateLoad
    /\ form = "position" => Position!ForeignPositionOnlyUnanswered

(* A group is resolved at once with the winner the steward picked, and none of its options  *)
(* alone before, but for a modal confirmed before the group was shown.                       *)
ResolvedAsPicked == [][form = "resolve" => Resolve!PickedAtOnce /\ Resolve!AloneUngrouped]_vars

(* A save overwrites no setting of another form and no text its form has not seen, but for   *)
(* the two gaps of the versions, 0 after a failed load and 1 for the defaults; and a poll of  *)
(* the price alone does not change the amount that was typed, nor load the shares anew.       *)
ChangesAreKept ==
    [][/\ form = "settings" => Setting!SavesItsOwn
       /\ form = "cms" => Cms!SavesWhatItSaw
       /\ form = "sell" => Sell!AmountKept]_vars

(* A row is decided twice at once only after a decision of it overlapped another decision, the  *)
(* reload of one, or a save of tags: the page remembers one busy row, and any failure, reload   *)
(* or saved tags forget it.                                                                    *)
TwiceOnlyAfterMixing == form = "queue" => Queue!TwiceOnlyAfterMixing

(* A list at rest is of the search in the box and true of the server, but for the orders of  *)
(* answers its module names: a reload of a decision, an answer that was overtaken or lost.   *)
QueuesAreCurrent ==
    /\ form = "queue" => Queue!ForeignListOnlyLate
    /\ form = "stewards" => Steward!StewardshipListIsCurrent
    /\ form = "desk" => Desk!DeskListIsCurrent

(* A page of a topic keeps its own texts, unless its slot was mixed up before it was saved; no  *)
(* market has more tags than the limit, and one that is listed shows the tags it has, unless    *)
(* the last answer about it was lost or came from two saves at once, or it changed under a load. *)
SavedWhereItBelongs ==
    /\ form = "discovery" => Discovery!SavedUnderItsTopic
    /\ form = "tags" => TheTags!MarketTagsAreKept
=============================================================================
