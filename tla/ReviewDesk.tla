----------------------------- MODULE ReviewDesk -----------------------------
(***************************************************************************)
(* The admin review page                                                     *)
(* (frontend/src/pages/testadminmarketsreview/TestAdminMarketsReview.jsx): a    *)
(* tab for each queue, shortcuts and badges that count what is pending.        *)
(*                                                                         *)
(* Three queues reload after a decision and cancel no load; here the search     *)
(* box stays while a list that is not empty loads.  The stewardship list        *)
(* cancels its loads and updates a row in place, and so does the list of tags,   *)
(* which is loaded once.  A save of a market's tags takes the busy row of its    *)
(* queue and reloads nothing.  A view is a search text with a page.             *)
(***************************************************************************)
EXTENDS Naturals, FiniteSets

CONSTANTS Rows, Views, None,
          MaxRequests      \* bound on loads and actions

VARIABLES desk,
          pending          \* the rows each queue lists, on the server

vars == <<desk, pending>>

Deciding == {"markets", "amendments", "answers"}
InPlace  == {"stewardship", "tags"}
Kinds    == Deciding \union InPlace

Requests ==
    [id : Nat, kind : {"load", "decide", "save"}, row : Rows \union {None}, keeps : BOOLEAN,
     view : Views, got : (SUBSET Rows) \union {None}]

Uis ==
    [kind : Kinds, view : Views, timer : BOOLEAN, rows : SUBSET Rows, of : Views \union {None},
     spinning : BOOLEAN, busy : Rows \union {None}, reasons : SUBSET Rows, late : BOOLEAN]

Desks ==
    [ui : Uis, counts : [Deciding -> 0..Cardinality(Rows)] \union {None}, counting : BOOLEAN,
     flight : SUBSET Requests, sent : Nat]

ConstantsOK ==
    /\ IsFiniteSet(Rows) /\ Views # {} /\ MaxRequests \in Nat
    /\ None \notin Rows /\ \A r \in Rows : None # {r}

Opened(kind) ==
    [kind |-> kind, view |-> CHOOSE v \in Views : TRUE, timer |-> TRUE, rows |-> {}, of |-> None,
     spinning |-> TRUE, busy |-> None, reasons |-> {},
     late |-> FALSE]       \* loads, or a load and an action, were under way together

Init ==
    /\ pending = [k \in Kinds |-> Rows]
    /\ \E k \in Kinds :
        desk = [ui |-> Opened(k), counts |-> None, counting |-> FALSE, flight |-> {}, sent |-> 0]

Ui == desk.ui
Desk(d) == desk' = d /\ UNCHANGED pending
CanSend == desk.sent < MaxRequests
Of(kind) == {f \in desk.flight : f.kind = kind}

(* A tab or a shortcut: what the queue before it asked for is answered to nobody. *)
SwitchTab(kind) ==
    /\ kind # Ui.kind
    /\ Desk([desk EXCEPT !.ui = Opened(kind), !.flight = {}])

Send(d, f) ==
    [d EXCEPT !.sent = @ + 1,
              !.ui.late = desk.flight # {} \/ (@ /\ f.kind # "load"),
              !.flight = @ \union {[id |-> desk.sent, kind |-> f.kind, row |-> f.row,
                                    keeps |-> f.keeps, view |-> Ui.view, got |-> None]}]

LoadOf == [kind |-> "load", row |-> None, keeps |-> FALSE]
-----------------------------------------------------------------------------
(* Searching.                                                                *)
Empty == Ui.rows = {}
SpinnerShown == Ui.spinning /\ Empty
SearchShown == ~SpinnerShown /\ Ui.kind # "tags"

Search(v) ==
    /\ SearchShown /\ v # Ui.view
    /\ Desk([desk EXCEPT !.ui.view = v, !.ui.timer = TRUE,
               !.flight = IF Ui.kind = "stewardship" THEN @ \ Of("load") ELSE @])

TimerFires ==
    /\ Ui.timer /\ CanSend
    /\ Desk(Send([desk EXCEPT !.ui.timer = FALSE, !.ui.spinning = TRUE], LoadOf))

(* The server reads what is pending at some moment of the request (external). *)
LoadRead ==
    \E f \in Of("load") :
        /\ f.got = None
        /\ Desk([desk EXCEPT !.flight = (@ \ {f}) \union {[f EXCEPT !.got = pending[Ui.kind]]}])

(* Any answer is shown, of whatever was searched then. *)
LoadAnswered ==
    \E f \in Of("load") :
        /\ f.got # None
        /\ Desk([desk EXCEPT !.flight = @ \ {f}, !.ui.rows = f.got, !.ui.of = f.view,
                   !.ui.spinning = FALSE, !.ui.busy = IF f.row = None THEN @ ELSE None])

LoadFailed ==
    \E f \in Of("load") :
        Desk([desk EXCEPT !.flight = @ \ {f}, !.ui.rows = {}, !.ui.of = f.view,
                   !.ui.spinning = FALSE, !.ui.busy = IF f.row = None THEN @ ELSE None])
-----------------------------------------------------------------------------
(* Deciding.                                                                 *)
RowsShown == IF SpinnerShown THEN {} ELSE Ui.rows

WriteReason(r) ==
    /\ r \in RowsShown \ Ui.reasons /\ Ui.kind # "tags"
    /\ Desk([desk EXCEPT !.ui.reasons = @ \union {r}])

(* The buttons under a row.  Approving a market or an answer takes no reason. *)
MarketButton(r, status)    == Ui.kind = "markets" /\ (status = "rejected" => r \in Ui.reasons)
AmendmentButton(r)         == Ui.kind = "amendments" /\ r \in Ui.reasons
AnswerButton(r, status)    == Ui.kind = "answers" /\ (status = "rejected" => r \in Ui.reasons)
StewardButton(r)           == Ui.kind = "stewardship" /\ r \in Ui.reasons
TagButton                  == Ui.kind = "tags"

(* keeps: what was written about the row stays when the answer comes. *)
Act(kind, r, keeps) ==
    /\ r \in RowsShown /\ r # Ui.busy /\ CanSend
    /\ Desk(Send([desk EXCEPT !.ui.busy = r], [kind |-> kind, row |-> r, keeps |-> keeps]))

DecideMarket(r, status)    == MarketButton(r, status) /\ Act("decide", r, status = "approved")
DecideAmendment(r)         == AmendmentButton(r) /\ Act("decide", r, FALSE)
DecideAnswer(r, status)    == AnswerButton(r, status) /\ Act("decide", r, FALSE)
Reassign(r)                == StewardButton(r) /\ Act("decide", r, FALSE)
SetTagActive(r)            == TagButton /\ Act("decide", r, FALSE)
SaveMarketTags(r)          == Ui.kind = "markets" /\ Act("save", r, TRUE)

(* The server decides, if it still waits; a new steward or another state of a tag leaves *)
(* the row in its list (external).                                                       *)
ServerDecides ==
    \E f \in Of("decide") :
        /\ f.got = None
        /\ desk' = [desk EXCEPT !.flight = (@ \ {f}) \union {[f EXCEPT !.got = {f.row}]}]
        /\ pending' = IF Ui.kind \in InPlace THEN pending
                      ELSE [pending EXCEPT ![Ui.kind] = @ \ {f.row}]

(* Mutant of Reload: nothing is loaded after a decision. *)
ReloadNever(f) == Desk([desk EXCEPT !.flight = @ \ {f}, !.ui.busy = None])

Rewritten(f) == IF f.keeps THEN {} ELSE {f.row}

(* A reload of the text and page the decision was made with. *)
Reload(f) ==
    /\ CanSend
    /\ Desk([desk EXCEPT !.sent = @ + 1, !.ui.spinning = TRUE,
               !.ui.reasons = @ \ Rewritten(f),
               !.ui.late = @ \/ desk.flight # {f} \/ Ui.timer \/ f.view # Ui.view,
               !.flight = (@ \ {f}) \union {[id |-> desk.sent, kind |-> "load", row |-> f.row,
                                             keeps |-> FALSE, view |-> f.view, got |-> None]}])

(* The row is updated where it is, and can be acted on again. *)
UpdateRow(f) ==
    Desk([desk EXCEPT !.flight = @ \ {f}, !.ui.busy = None,
                      !.ui.reasons = @ \ Rewritten(f), !.ui.late = @ \/ desk.flight # {f}])

DecideAnswered ==
    \E f \in Of("decide") :
        /\ f.got # None
        /\ IF Ui.kind \in Deciding THEN Reload(f) ELSE UpdateRow(f)

(* The tags of a market are saved, or not. *)
SaveAnswered == \E f \in Of("save") : UpdateRow(f)

(* Refused, or the answer was lost: the list stays as it is. *)
DecideFailed ==
    \E f \in Of("decide") :
        Desk([desk EXCEPT !.flight = @ \ {f}, !.ui.busy = None,
                          !.ui.late = @ \/ f.got # None \/ desk.flight # {f}])
-----------------------------------------------------------------------------
(* The badges, counted every minute.                                         *)
Count == ~desk.counting /\ CanSend /\ Desk([desk EXCEPT !.counting = TRUE, !.sent = @ + 1])

CountAnswered ==
    /\ desk.counting
    /\ \/ Desk([desk EXCEPT !.counting = FALSE,
                  !.counts = [k \in Deciding |-> Cardinality(pending[k])]])
       \/ Desk([desk EXCEPT !.counting = FALSE, !.counts = [k \in Deciding |-> 0]])

Badge(kind) == IF desk.counts = None THEN 0 ELSE desk.counts[kind]

(* A shortcut tells a count and opens its tab. *)
Shortcut(kind) == kind \in Kinds \ {"tags"} /\ SwitchTab(kind)

Next ==
    \/ \E k \in Kinds : SwitchTab(k) \/ Shortcut(k)
    \/ \E v \in Views : Search(v)
    \/ TimerFires \/ LoadRead \/ LoadAnswered \/ LoadFailed
    \/ \E r \in Rows :
          \/ WriteReason(r) \/ DecideAmendment(r) \/ Reassign(r) \/ SetTagActive(r)
          \/ SaveMarketTags(r)
          \/ \E status \in {"approved", "rejected"} :
                DecideMarket(r, status) \/ DecideAnswer(r, status)
    \/ ServerDecides \/ DecideAnswered \/ SaveAnswered \/ DecideFailed \/ Count \/ CountAnswered

Spec == Init /\ [][Next]_vars
-----------------------------------------------------------------------------
(* The fields stay in their sets; badges never count more than there was. *)
TypeOK ==
    /\ desk \in Desks /\ pending \in [Kinds -> SUBSET Rows]
    /\ \A f \in Of("decide") : f.row # None
    /\ \A k \in Deciding : Badge(k) \in 0..Cardinality(Rows)

(* A list at rest is of the search in the box and holds what is pending, unless it came   *)
(* while something else was under way: a later search, another decision, a lost answer.    *)
DeskListIsCurrent ==
    (desk.flight = {} /\ ~Ui.timer /\ ~Ui.spinning /\ ~Ui.late) =>
        Ui.of = Ui.view /\ (Ui.rows # {} => Ui.rows = pending[Ui.kind])

(* What makes it inductive: without an overlap one request is under way, ... *)
OneAtATime == ~Ui.late => \A f, g \in desk.flight : f = g

(* ... what a load of the search has read is pending still, ... *)
LoadsAreTrue ==
    ~Ui.late /\ ~Ui.timer =>
        \A f \in Of("load") : f.view = Ui.view /\ (f.got # None => f.got = pending[Ui.kind])

(* ... and the rows are what is pending, but for those just decided. *)
Decided ==
    IF Ui.kind \in InPlace THEN {} ELSE {f.row : f \in {g \in Of("decide") : g.got # None}}

RowsAreTrue ==
    ~Ui.late /\ ~Ui.timer /\ ~Ui.spinning =>
        Ui.of = Ui.view /\ (Ui.rows # {} => Ui.rows \ Decided = pending[Ui.kind])

DeskInv == TypeOK /\ OneAtATime /\ LoadsAreTrue /\ RowsAreTrue
=============================================================================
