--------------------------- MODULE DiscoveryEditor ---------------------------
(***************************************************************************)
(* The editor of the market discovery pages                                  *)
(* (frontend/src/pages/admin/MarketDiscoveryLayoutEditor.jsx): the TOP page     *)
(* and one secondary page for each topic, their texts and their pins.           *)
(*                                                                         *)
(* One slot holds the secondary page, whichever topic is chosen.  It is filled  *)
(* by the load of the chosen topic, by the answer of a save, and with blanks    *)
(* when the TOP page's load lands.  A page is abstracted to the page its texts   *)
(* came from, its version, and how many pins it has.                            *)
(***************************************************************************)
EXTENDS Naturals

CONSTANTS Topics, None,
          MaxVersion,      \* bound on the versions of a page
          MaxPins,         \* bound on the pins of a page
          MaxSaves         \* bound on the saves

VARIABLES editor,
          pages            \* the pages the server keeps

vars == <<editor, pages>>

Slugs == {"markets"} \union Topics
Blank == [of |-> None, version |-> 0, pins |-> 0]     \* defaultPageState
Silent == [phase |-> "none", found |-> FALSE]

Slots == [of : Slugs \union {None}, version : 0..MaxVersion, pins : 0..MaxPins]
Saves ==
    [kind : {"layout", "pins"}, mode : {"top", "secondary"}, slug : Slugs, body : Slots, got : BOOLEAN]

Editors ==
    [loading : BOOLEAN, tags : {"asked", "loaded", "failed"}, mode : {"top", "secondary"},
     topic : Topics \union {None}, tab : {"layout", "marketPins", "preview", "topicPins"},
     top : Slots, secondary : Slots, loadingTopic : BOOLEAN, saves : SUBSET Saves, sent : Nat,
     search : [phase : {"none", "timer", "asked"}, found : BOOLEAN], mixed : BOOLEAN]

ConstantsOK ==
    MaxVersion \in Nat \ {0} /\ MaxPins \in Nat /\ MaxSaves \in Nat /\ None \notin Slugs

Init ==
    /\ pages = [s \in Slugs |-> [of |-> s, version |-> 1, pins |-> 0]]
    /\ editor = [loading |-> TRUE, tags |-> "asked", mode |-> "top", topic |-> None, tab |-> "layout",
                 top |-> Blank, secondary |-> Blank,
                 loadingTopic |-> FALSE, saves |-> {}, sent |-> 0, search |-> Silent,
                 mixed |-> FALSE]   \* the slot holds what is not the chosen topic's

Edit(e) == editor' = e /\ UNCHANGED pages

(* A page as it is shown: its pins in order, blanks for what is missing. *)
Normal(page) == [of |-> page.of, version |-> page.version, pins |-> page.pins]

(* The two pages load side by side; TOP's answer also empties the secondary slot. *)
TopLoaded ==
    /\ editor.loading
    /\ \/ Edit([editor EXCEPT !.loading = FALSE, !.top = Normal(pages["markets"]), !.secondary = Blank,
                  !.mixed = @ \/ (editor.topic # None /\ ~editor.loadingTopic)])
       \/ Edit([editor EXCEPT !.loading = FALSE, !.mixed = TRUE])

(* The first tag becomes the chosen topic. *)
TagsLoaded ==
    /\ editor.tags = "asked"
    /\ \/ \E t \in Topics : Edit([editor EXCEPT !.tags = "loaded", !.topic = t, !.loadingTopic = TRUE])
       \/ Edit([editor EXCEPT !.tags = "failed"])

(* A failed load leaves the page of the topic before it. *)
TopicLoaded ==
    /\ editor.loadingTopic
    /\ \/ Edit([editor EXCEPT !.loadingTopic = FALSE, !.secondary = Normal(pages[editor.topic])])
       \/ Edit([editor EXCEPT !.loadingTopic = FALSE, !.mixed = TRUE])

Shown == ~editor.loading
State == IF editor.mode = "top" THEN editor.top ELSE editor.secondary
Slug  == IF editor.mode = "top" THEN "markets" ELSE editor.topic
CanEdit == editor.mode = "top" \/ editor.topic # None
Saving(kind) == \E s \in editor.saves : s.kind = kind

Put(e, mode, page) == IF mode = "top" THEN [e EXCEPT !.top = page] ELSE [e EXCEPT !.secondary = page]
-----------------------------------------------------------------------------
(* Choosing what to edit.                                                    *)
SelectMode(mode) ==
    /\ Shown /\ mode # editor.mode
    /\ Edit([editor EXCEPT !.mode = mode, !.search = Silent,
               !.tab = IF mode = "secondary" /\ @ = "topicPins" THEN "layout" ELSE @])

(* The texts, and the topic of a secondary page.  Typing keeps them the page's own. *)
LayoutShown == Shown /\ editor.tab = "layout"

TagOptions == IF editor.tags = "loaded" THEN Topics ELSE {}

EditorTabs == {"layout", "marketPins", "preview"}
              \union (IF editor.mode = "top" THEN {"topicPins"} ELSE {})

SelectTab(tab) ==
    /\ Shown /\ tab \in EditorTabs \ {editor.tab}
    /\ Edit([editor EXCEPT !.tab = tab, !.search = Silent])

TopicSelectShown == LayoutShown /\ editor.mode = "secondary"

(* The load before it is cancelled; a save that is under way is not. *)
SelectTopic(t) ==
    /\ TopicSelectShown /\ t \in TagOptions \ {editor.topic}
    /\ Edit([editor EXCEPT !.topic = t, !.loadingTopic = TRUE,
                        !.mixed = @ \/ \E s \in editor.saves : s.mode = "secondary"])
-----------------------------------------------------------------------------
(* Editing.                                                                  *)
TopicPinsShown  == Shown /\ editor.tab = "topicPins" /\ editor.mode = "top"
MarketPinsShown == Shown /\ editor.tab = "marketPins"

PinOffered ==
    \/ TopicPinsShown /\ TagOptions # {}
    \/ MarketPinsShown /\ CanEdit /\ ~editor.loadingTopic

AddPin ==
    /\ PinOffered /\ State.pins < MaxPins
    /\ Edit(Put(editor, editor.mode, [State EXCEPT !.pins = @ + 1]))

RemovePin ==
    /\ TopicPinsShown \/ MarketPinsShown
    /\ State.pins > 0
    /\ Edit(Put(editor, editor.mode, [State EXCEPT !.pins = @ - 1]))

(* The market of a pin is searched a quarter of a second after the last key. *)
TypeSearch ==
    /\ MarketPinsShown /\ State.pins > 0
    /\ Edit([editor EXCEPT !.search.phase = "timer"])

SearchFires ==
    /\ editor.search.phase = "timer"
    /\ Edit([editor EXCEPT !.search.phase = "asked"])

SearchAnswered ==
    /\ editor.search.phase = "asked"
    /\ \E found \in BOOLEAN : Edit([editor EXCEPT !.search = [phase |-> "none", found |-> found]])

ResultsShown == MarketPinsShown /\ State.pins > 0 /\ editor.search.found

SelectMarket == ResultsShown /\ Edit([editor EXCEPT !.search = Silent])
-----------------------------------------------------------------------------
(* Saving.                                                                   *)
(* Mutant of SaveLayoutOffered: the button stays enabled while the topic's page loads. *)
SaveOfferedLoading == LayoutShown /\ ~Saving("layout") /\ CanEdit

SaveLayoutOffered ==
    LayoutShown /\ ~Saving("layout") /\ ~editor.loadingTopic /\ CanEdit

SavePinsOffered ==
    /\ ~Saving("pins")
    /\ \/ TopicPinsShown
       \/ MarketPinsShown /\ CanEdit /\ ~editor.loadingTopic

Body(kind) == IF kind = "pins" THEN [Blank EXCEPT !.pins = State.pins] ELSE [State EXCEPT !.pins = 0]

Save(kind) ==
    /\ editor.sent < MaxSaves
    /\ Edit([editor EXCEPT !.sent = @ + 1, !.saves = @ \union
            {[kind |-> kind, mode |-> editor.mode, slug |-> Slug, body |-> Body(kind), got |-> FALSE]}])

SaveLayout == SaveLayoutOffered /\ Save("layout")
SavePins   == SavePinsOffered /\ Save("pins")

Accepts(s) == s.kind = "pins" \/ s.body.version = 0 \/ s.body.version = pages[s.slug].version

Saved(page, s) ==
    IF s.kind = "pins" THEN [page EXCEPT !.pins = s.body.pins]
    ELSE [page EXCEPT !.of = s.body.of, !.version = page.version + 1]

(* The server takes the texts when the version fits, or when there is none.  Pins *)
(* are replaced whatever the version (external).                                  *)
ServerSaves ==
    \E s \in editor.saves :
        /\ ~s.got /\ Accepts(s) /\ pages[s.slug].version < MaxVersion
        /\ editor' = [editor EXCEPT !.saves = (@ \ {s}) \union {[s EXCEPT !.got = TRUE, !.body = Blank]}]
        /\ pages' = [pages EXCEPT ![s.slug] = Saved(@, s)]

(* The answer fills the slot of the mode in which the save was pressed. *)
SaveAnswered ==
    \E s \in editor.saves :
        /\ s.got
        /\ Edit([Put(editor, s.mode, Normal(pages[s.slug])) EXCEPT !.saves = @ \ {s}])

SaveFailed == \E s \in editor.saves : Edit([editor EXCEPT !.saves = @ \ {s}])

Next ==
    \/ TopLoaded \/ TagsLoaded \/ TopicLoaded
    \/ \E mode \in {"top", "secondary"} : SelectMode(mode)
    \/ \E tab \in EditorTabs : SelectTab(tab)
    \/ \E t \in Topics : SelectTopic(t)
    \/ AddPin \/ RemovePin \/ TypeSearch \/ SearchFires \/ SearchAnswered \/ SelectMarket
    \/ SaveLayout \/ SavePins \/ ServerSaves \/ SaveAnswered \/ SaveFailed

Spec == Init /\ [][Next]_vars
-----------------------------------------------------------------------------
(* The preview counts the pins of the page that is edited. *)
PreviewPins == IF Shown /\ editor.tab = "preview" THEN State.pins ELSE 0

(* The fields stay in their sets; a topic is chosen when its page loads. *)
TypeOK ==
    /\ editor \in Editors /\ pages \in [Slugs -> Slots]
    /\ editor.tab \in EditorTabs /\ PreviewPins \in 0..MaxPins
    /\ \A s \in Slugs : pages[s].version >= 1
    /\ editor.loadingTopic => editor.topic # None
    /\ editor.tags = "asked" => editor.topic = None

(* A page on the server keeps its own texts, unless the editor's slot was filled by     *)
(* something else: a load that failed, a save answered after the topic was switched, or   *)
(* TOP's page landing after the topic's.                                                  *)
SavedUnderItsTopic == ~editor.mixed => \A s \in Slugs : pages[s].of = s

(* What makes it inductive: the two slots hold the pages they stand for, ... *)
SlotsHoldTheirPages ==
    ~editor.mixed =>
        /\ Shown => editor.top.of = "markets"
        /\ editor.topic # None /\ ~editor.loadingTopic => editor.secondary.of = editor.topic

(* ... and a save goes where the slot it was taken from belongs. *)
SavesGoHome ==
    ~editor.mixed =>
        \A s \in editor.saves :
            /\ s.slug = IF s.mode = "top" THEN "markets" ELSE editor.topic
            /\ s.kind = "layout" /\ ~s.got => s.body.of = s.slug

DiscoveryInv == TypeOK /\ SavedUnderItsTopic /\ SlotsHoldTheirPages /\ SavesGoHome
=============================================================================
