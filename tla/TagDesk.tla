------------------------------ MODULE TagDesk ------------------------------
(***************************************************************************)
(* Tags on the moderation page: the vocabulary the admins keep               *)
(* (MarketTaxonomyAdmin) and the tags of each market in the review queue      *)
(* (the tag editor of AdminMarketQueue), both in                             *)
(* frontend/src/components/layouts/admin/ModeratorMarketReview.jsx.           *)
(* One busy tag and one busy market are remembered; creating a tag has no      *)
(* busy flag at all.  The queue is loaded again by a search, a page or a        *)
(* decision, never by a save of tags; the reviewing itself is in ReviewQueue.   *)
(* The two parts are tabs of one page: only one is mounted, and always anew.     *)
(***************************************************************************)
EXTENDS Naturals, FiniteSets

CONSTANTS Rows, Tags, None,
          MaxTags,       \* tags a market may have: 5 in the code
          MaxRequests    \* bound on the requests

VARIABLES desk,    \* the two parts of the page, and the requests between it and the server
          server   \* the state of each tag, and the tags of each market

vars == <<desk, server>>

EmptyTagForm == [tag |-> None, colors |-> FALSE]

States == {"none", "active", "inactive"}
Allowed == {chosen \in SUBSET Tags : Cardinality(chosen) <= MaxTags}

(* A request is lost once the page was told that it failed while it is on its way.  *)
TagRequests ==
    [id : Nat, kind : {"create", "state"}, subject : Tags, value : States,
     done : BOOLEAN, lost : BOOLEAN]
MarketRequests ==
    [id : Nat, kind : {"market"}, subject : Rows, value : Allowed, done : BOOLEAN, lost : BOOLEAN]

(* A load of the queue: what it read of the server, None until then, and the markets *)
(* that were given other tags since.                                                *)
Loads ==
    [id : Nat, by : {"search", "decision"}, got : [Rows -> Allowed] \union {None},
     missed : SUBSET Rows]

Tabs == {"tags", "queue"}

Desks ==
    [tab : Tabs, list : [Tags -> States], loading : BOOLEAN,
     form : [tag : Tags \union {None}, colors : BOOLEAN], busyTag : Tags \union {None},
     editable : SUBSET Tags, drafts : [Rows -> Allowed \union {None}],
     fetching : BOOLEAN, shown : SUBSET Rows, markets : [Rows -> Allowed],
     busy : Rows \union {None}, flight : SUBSET (TagRequests \union MarketRequests),
     loads : SUBSET Loads, deciding : SUBSET Nat, sent : Nat,
     mixed : SUBSET (Rows \union Tags), stale : SUBSET Rows]

ConstantsOK ==
    /\ IsFiniteSet(Tags) /\ Tags # {} /\ MaxTags \in Nat \ {0} /\ MaxRequests \in Nat
    /\ Rows \intersect Tags = {} /\ None \notin Tags

NewLoad(id, by) == [id |-> id, by |-> by, got |-> None, missed |-> {}]

(* A tab that is mounted starts empty and loads; what the one before it asked for   *)
(* goes on without anybody waiting for it.                                         *)
Mounted(tab, kept, before) ==
    LET left == {[f EXCEPT !.lost = TRUE] : f \in {g \in before.flight : ~g.done}}
    IN  [tab |-> tab, list |-> [t \in Tags |-> "none"], loading |-> tab = "tags",
         form |-> EmptyTagForm, busyTag |-> None, editable |-> {},
         drafts |-> [r \in Rows |-> None], fetching |-> TRUE, shown |-> {},
         markets |-> kept, busy |-> None, flight |-> left,
         loads |-> IF tab = "queue" THEN {NewLoad(before.sent, "search")} ELSE {},
         deciding |-> {}, sent |-> before.sent,
         mixed |-> {x \in before.mixed : \E f \in left : f.subject = x},
                                    \* asked about again before an answer came
         stale |-> {}]              \* rows whose last answer was lost, mixed or overtaken

Init ==
    /\ LET first == CHOOSE t \in Tags : TRUE
       IN  server = [tags |-> [t \in Tags |-> IF t = first THEN "active" ELSE "none"],
                     markets |-> [r \in Rows |-> {first}]]
    /\ \E tab \in Tabs :
           desk = Mounted(tab, server.markets, [flight |-> {}, mixed |-> {}, sent |-> 0])

Desk(d) == desk' = d /\ UNCHANGED server
About(subject) == {f \in desk.flight : f.subject = subject}
CanSend == desk.sent < MaxRequests

Send(d, kind, subject, value) ==
    /\ CanSend
    /\ Desk([d EXCEPT !.sent = @ + 1,
                      !.mixed = IF About(subject) = {} THEN @ ELSE @ \union {subject},
                      !.flight = @ \union {[id |-> desk.sent + 1, kind |-> kind,
                                            subject |-> subject, value |-> value,
                                            done |-> FALSE, lost |-> FALSE]}])

SelectTab(tab) == Desk(Mounted(tab, server.markets, desk))
-----------------------------------------------------------------------------
(* The vocabulary.                                                           *)
TagsLoaded ==
    /\ desk.loading
    /\ \E ok \in BOOLEAN :
           Desk([desk EXCEPT !.loading = FALSE,
                             !.list = IF ok THEN server.tags ELSE [t \in Tags |-> "none"]])

(* The form; the picker of colors closes with a choice. *)
FormShown == desk.tab = "tags" /\ ~desk.loading
TypeTag(t) == FormShown /\ desk.form.tag # t /\ Desk([desk EXCEPT !.form.tag = t])
OpenColors == FormShown /\ Desk([desk EXCEPT !.form.colors = ~@])

(* Nothing stops a second click. *)
CreateTag == FormShown /\ desk.form.tag # None /\ Send(desk, "create", desk.form.tag, "active")

Listed(t) == FormShown /\ desk.list[t] # "none"
TagButton(t) == Listed(t) /\ desk.busyTag # t

(* Deactivating asks first; a confirmed click is one step. *)
SetTagActive(t) ==
    /\ TagButton(t)
    /\ Send([desk EXCEPT !.busyTag = t], "state", t,
            IF desk.list[t] = "active" THEN "inactive" ELSE "active")
-----------------------------------------------------------------------------
(* The queue: every load shows the spinner, and every decision takes the busy row.  *)
Load(d, by) ==
    [d EXCEPT !.sent = @ + 1, !.fetching = TRUE,
              !.loads = @ \union {NewLoad(d.sent + 1, by)}]

(* The timer of a search or a page ended. *)
SearchMarkets == desk.tab = "queue" /\ CanSend /\ Desk(Load(desk, "search"))

(* The answer shows any of the markets, the ones searched for, as they were when the  *)
(* server read them; a failed load shows none.  The drafts stay.                     *)
MarketsLoaded ==
    \E l \in desk.loads, found \in SUBSET Rows :
        LET answered == [desk EXCEPT !.fetching = FALSE, !.loads = @ \ {l}, !.shown = {},
                                     !.busy = IF l.by = "decision" THEN None ELSE @]
        IN  Desk(IF l.got = None THEN answered
                 ELSE [answered EXCEPT !.shown = found, !.markets = l.got, !.stale = l.missed])

VisibleRows == IF desk.fetching THEN {} ELSE desk.shown

(* A market is approved or rejected; the load that follows ends with it. *)
DecideMarket(r) ==
    /\ r \in VisibleRows /\ desk.busy # r /\ CanSend
    /\ Desk([desk EXCEPT !.sent = @ + 1, !.busy = r, !.deciding = @ \union {desk.sent + 1}])

DecisionEnded ==
    \E id \in desk.deciding :
        LET ended == [desk EXCEPT !.deciding = @ \ {id}]
        IN  \/ CanSend /\ Desk(Load(ended, "decision"))
            \/ Desk([ended EXCEPT !.busy = None])
-----------------------------------------------------------------------------
(* The tags of a market.                                                      *)
ActiveTagsLoaded ==
    /\ desk.tab = "queue" /\ desk.editable = {}
    /\ Desk([desk EXCEPT !.editable = {t \in Tags : server.tags[t] = "active"}])

SelectedTags(r) == IF desk.drafts[r] = None THEN desk.markets[r] ELSE desk.drafts[r]

(* Active tags when the queue was mounted, and those the market has. *)
TagChoices(r) == desk.editable \union desk.markets[r]

(* Mutant of AtLimit: one more than the limit. *)
AtLimitPlusOne(r) == Cardinality(SelectedTags(r)) > MaxTags
AtLimit(r) == Cardinality(SelectedTags(r)) >= MaxTags

CanToggle(r, t) ==
    /\ r \in VisibleRows /\ t \in TagChoices(r) /\ desk.busy # r
    /\ t \notin SelectedTags(r) => ~AtLimit(r) /\ t \in desk.editable

ToggleMarketTag(r, t) ==
    /\ CanToggle(r, t)
    /\ Desk([desk EXCEPT !.drafts[r] = (SelectedTags(r) \ {t}) \union ({t} \ SelectedTags(r))])

CanSaveTags(r) == r \in VisibleRows /\ desk.busy # r /\ SelectedTags(r) # desk.markets[r]

SaveMarketTags(r) == CanSaveTags(r) /\ Send([desk EXCEPT !.busy = r], "market", r, SelectedTags(r))
-----------------------------------------------------------------------------
(* The server: a tag exists once; everything else it does as it is told (external). *)
Refused(f) == f.kind = "create" /\ server.tags[f.subject] # "none"

(* A load that has read the tags of r misses what r is given next. *)
Overtaken(r) ==
    {IF l.got = None THEN l ELSE [l EXCEPT !.missed = @ \union {r}] : l \in desk.loads}

(* A subject is mixed until the last request about it ended. *)
Ended(f) ==
    [desk EXCEPT !.flight = @ \ {f},
                 !.mixed = IF About(f.subject) = {f} THEN @ \ {f.subject} ELSE @]

(* Nobody waits for a request that was lost: the page does not show what it did. *)
ServerDoes ==
    \E f \in desk.flight :
        /\ ~f.done /\ ~Refused(f)
        /\ server' = IF f.kind = "market" THEN [server EXCEPT !.markets[f.subject] = f.value]
                     ELSE [server EXCEPT !.tags[f.subject] = f.value]
        /\ LET did == IF f.lost THEN Ended(f)
                      ELSE [desk EXCEPT !.flight = (@ \ {f}) \union {[f EXCEPT !.done = TRUE]}]
           IN  desk' = IF f.kind # "market" THEN did
                       ELSE [did EXCEPT !.loads = Overtaken(f.subject),
                                        !.stale = IF f.lost THEN @ \union {f.subject} ELSE @]

ServerReads ==
    \E l \in desk.loads :
        /\ l.got = None
        /\ Desk([desk EXCEPT !.loads =
                     (@ \ {l}) \union {[l EXCEPT !.got = server.markets]}])

(* The finally of each handler. *)
Freed(d, f) ==
    CASE f.kind = "market" -> [d EXCEPT !.busy = None]
      [] f.kind = "state"  -> [d EXCEPT !.busyTag = None]
      [] f.kind = "create" -> d

Answered(f) == Freed(Ended(f), f)
RowOf(f) == Rows \intersect {f.subject}

(* The row takes the tags the server kept; what was clicked meanwhile is dropped. *)
MarketTagsSaved ==
    \E f \in desk.flight :
        /\ f.done /\ f.kind = "market"
        /\ Desk([Answered(f) EXCEPT
                     !.markets[f.subject] = f.value, !.drafts[f.subject] = None,
                     !.stale = IF f.subject \in desk.mixed THEN @ \union {f.subject}
                               ELSE @ \ {f.subject}])

(* A created tag is appended and empties the form, whatever it holds by now. *)
TagCreated ==
    \E f \in desk.flight :
        /\ f.done /\ f.kind = "create"
        /\ Desk([Answered(f) EXCEPT !.list[f.subject] = f.value, !.form = EmptyTagForm])

TagUpdated ==
    \E f \in desk.flight :
        /\ f.done /\ f.kind = "state"
        /\ Desk([Answered(f) EXCEPT !.list[f.subject] = f.value])

(* The server refused, or was never reached. *)
RequestFailed ==
    \E f \in desk.flight :
        /\ ~f.done /\ ~f.lost
        /\ Desk([Answered(f) EXCEPT !.stale = @ \union (RowOf(f) \intersect desk.mixed)])

(* The page is told of a failure, and the server has done it or will. *)
AnswerLost ==
    \E f \in desk.flight :
        /\ ~f.lost
        /\ Desk(IF f.done THEN [Answered(f) EXCEPT !.stale = @ \union RowOf(f)]
                ELSE Freed([desk EXCEPT !.flight = (@ \ {f}) \union {[f EXCEPT !.lost = TRUE]}], f))

Next ==
    \/ \E tab \in Tabs : SelectTab(tab)
    \/ TagsLoaded \/ ActiveTagsLoaded \/ OpenColors \/ CreateTag
    \/ \E t \in Tags : TypeTag(t) \/ SetTagActive(t) \/ \E r \in Rows : ToggleMarketTag(r, t)
    \/ \E r \in Rows : SaveMarketTags(r) \/ DecideMarket(r)
    \/ SearchMarkets \/ MarketsLoaded \/ DecisionEnded
    \/ ServerDoes \/ ServerReads
    \/ MarketTagsSaved \/ TagCreated \/ TagUpdated \/ RequestFailed \/ AnswerLost

Spec == Init /\ [][Next]_vars
-----------------------------------------------------------------------------
(* The fields stay in their sets; tags and markets are never confused, and no draft,   *)
(* request or market has more tags than allowed.                                      *)
TypeOK == desk \in Desks /\ server \in [tags : [Tags -> States], markets : [Rows -> Allowed]]

(* No market ever has more tags than allowed, however drafts and saves overlap; and   *)
(* with no save of it under way a market that is listed shows the tags it has, unless   *)
(* the last answer about it was lost, or came from two saves at once, or it changed      *)
(* between the reading and the answer of the load shown.  The page names none of these.  *)
MarketTagsAreKept ==
    \A r \in Rows :
        /\ Cardinality(server.markets[r]) <= MaxTags
        /\ r \in desk.shown \ desk.stale /\ About(r) = {} => desk.markets[r] = server.markets[r]

(* What makes it inductive: a market that is not mixed has one request at a time, and a  *)
(* mixed one has some; ...                                                              *)
Calm == {f \in desk.flight : f.subject \notin desk.mixed}
OneEach ==
    /\ \A f, g \in Calm : f.subject = g.subject => f = g
    /\ \A x \in desk.mixed : About(x) # {}

(* ... a market shows the tags the server has, or will once its request is answered; ... *)
TagsAreTrue ==
    \A r \in Rows \ desk.mixed :
        /\ \A f \in About(r) : f.done => server.markets[r] = f.value
        /\ r \notin desk.stale /\ (\A f \in About(r) : ~f.done) =>
               desk.markets[r] = server.markets[r]

(* ... and what a load has read is still so where it missed nothing. *)
ReadsAreTrue ==
    \A l \in desk.loads : l.got # None =>
        \A r \in Rows \ l.missed : l.got[r] = server.markets[r]

TagsInv == TypeOK /\ OneEach /\ TagsAreTrue /\ ReadsAreTrue
=============================================================================
