---------------------------- MODULE ReviewQueue ----------------------------
(***************************************************************************)
(* The review queues of the moderation page: proposed markets, description    *)
(* amendments and answer additions                                           *)
(* (frontend/src/components/layouts/admin/ModeratorMarketReview.jsx).  They    *)
(* share their control: a debounced load of what is searched, one busy row,   *)
(* and a reload after every decision.  Nothing cancels a load.  Saving the     *)
(* tags of a proposed market takes and frees the same busy row (what it saves  *)
(* is in TagDesk).                                                           *)
(*                                                                         *)
(* A view is a search text with a page; a 429 only lengthens a load.          *)
(***************************************************************************)
EXTENDS Naturals, FiniteSets

CONSTANTS Rows,          \* the pending rows
          Views,         \* what can be searched
          None,
          MaxRequests    \* bound on loads and decisions

VARIABLE queue

Kinds == {"markets", "amendments", "answers"}

Loads     == [kind : {"load"}, mount : Nat, id : Nat, view : Views, by : {"search", "decision"}]
Decisions == [kind : {"decision"}, mount : Nat, id : Nat, row : Rows, view : Views,
              status : {"approved", "rejected"}]
Saves     == [kind : {"save"}, mount : Nat, id : Nat, row : Rows]

Queues ==
    [kind : Kinds, mount : Nat, view : Views, timer : BOOLEAN, loading : BOOLEAN,
     rows : SUBSET Rows, of : Views \union {None}, by : {"none", "search", "decision"},
     shown : Nat, searched : Nat, busy : Rows \union {None}, reasons : SUBSET Rows]

ConstantsOK == Views # {} /\ None \notin Rows \union Views /\ MaxRequests \in Nat

Mounted(kind, mount) ==
    [kind |-> kind, mount |-> mount, view |-> CHOOSE v \in Views : TRUE, timer |-> TRUE,
     loading |-> TRUE, rows |-> {}, of |-> None, by |-> "none", shown |-> 0, searched |-> 0,
     busy |-> None, reasons |-> {}]

Init == \E k \in Kinds :
    queue = [ui |-> Mounted(k, 1), decided |-> {}, flight |-> {}, mixed |-> {}, sent |-> 0]

Ui == queue.ui
Pending(kind) == {r \in queue.flight : r.kind = kind /\ r.mount = Ui.mount}
CanSend == queue.sent < MaxRequests

(* The tabs of the page render only the active queue and mount it anew. *)
SwitchTab(k) ==
    /\ Ui.mount < 2
    /\ queue' = [queue EXCEPT !.ui = Mounted(k, @.mount + 1), !.mixed = {}]

Load(q, view, by) ==
    [q EXCEPT !.sent = @ + 1, !.ui.loading = TRUE,
              !.flight = @ \union {[kind |-> "load", mount |-> q.ui.mount, id |-> q.sent + 1,
                                    view |-> view, by |-> by]}]

(* While loading the spinner replaces the search box, the pages and the rows. *)
Visible == ~Ui.loading
VisibleRows == IF Visible THEN Ui.rows ELSE {}

(* Mutant of Search: the page is left out of what restarts the timer. *)
SearchUntimed(v) ==
    /\ Visible /\ v # Ui.view
    /\ queue' = [queue EXCEPT !.ui.view = v]

(* The text or the page changed: both effects end in one restarted timer. *)
Search(v) ==
    /\ Visible /\ v # Ui.view
    /\ queue' = [queue EXCEPT !.ui.view = v, !.ui.timer = TRUE]

TimerFires ==
    /\ Ui.timer /\ CanSend
    /\ queue' = Load([queue EXCEPT !.ui.timer = FALSE, !.ui.searched = queue.sent + 1],
                     Ui.view, "search")

(* An answer is shown whatever was searched since; a failed load empties the list. *)
LoadAnswered ==
    \E r \in queue.flight, ok \in BOOLEAN :
        /\ r.kind = "load"
        /\ LET done == [queue EXCEPT !.flight = @ \ {r}]
           IN  queue' = IF r.mount # Ui.mount THEN done
                        ELSE [done EXCEPT !.ui.loading = FALSE, !.ui.of = r.view, !.ui.by = r.by,
                                          !.ui.shown = r.id,
                                          !.ui.rows = IF ok THEN Rows \ queue.decided ELSE {},
                                          !.ui.busy = IF r.by = "decision" THEN None ELSE @]

WriteReason(row) ==
    /\ row \in VisibleRows \ Ui.reasons
    /\ queue' = [queue EXCEPT !.ui.reasons = @ \union {row}]

(* Mutant of Decidable: a busy row keeps its buttons. *)
DecidableBusy(row) == row \in VisibleRows

Decidable(row) == row \in VisibleRows /\ row # Ui.busy

(* What will free the busy row: decisions, their reloads, and saves of tags. *)
Work == Pending("decision") \union Pending("save")
Deciding  == {r.row : r \in Pending("decision")}
Reloading == \E r \in Pending("load") : r.by = "decision"
Beside(row) == {r \in Work : r.kind = "save" \/ r.row # row}

(* One busy row is remembered, the last one that was decided or saved.  Mixed are *)
(* the rows decided beside another row, a reload, or a save of tags.              *)
Decide(row, status) ==
    /\ Decidable(row) /\ CanSend
    /\ queue' = [queue EXCEPT
               !.sent = @ + 1, !.ui.busy = row,
               !.mixed = IF Beside(row) = {} /\ ~Reloading THEN @
                         ELSE @ \union Deciding \union {row},
               !.flight = @ \union {[kind |-> "decision", mount |-> Ui.mount,
                                     id |-> queue.sent + 1, row |-> row, view |-> Ui.view,
                                     status |-> status]}]

(* The buttons under a row.  Approving a market or an answer takes no reason. *)
MarketButtons(row, status) ==
    /\ Ui.kind = "markets" /\ row \in VisibleRows
    /\ status = "rejected" => row \in Ui.reasons

AmendmentButtons(row) ==
    Ui.kind = "amendments" /\ row \in VisibleRows /\ row \in Ui.reasons

AnswerButtons(row, status) ==
    /\ Ui.kind = "answers" /\ row \in VisibleRows
    /\ status = "rejected" => row \in Ui.reasons

ApproveMarket(row) == MarketButtons(row, "approved") /\ Decide(row, "approved")
RejectMarket(row)  == MarketButtons(row, "rejected") /\ Decide(row, "rejected")
ReviewAmendment(row, status) == AmendmentButtons(row) /\ Decide(row, status)
ReviewAddition(row, status) == AnswerButtons(row, status) /\ Decide(row, status)

(* The tags of a market are saved: its row is busy until the answer, good or bad, *)
(* which frees whatever row is busy by then and reloads nothing.                  *)
SaveMarketTags(row) ==
    /\ Ui.kind = "markets" /\ Decidable(row) /\ CanSend
    /\ queue' = [queue EXCEPT
               !.sent = @ + 1, !.ui.busy = row, !.mixed = @ \union Deciding,
               !.flight = @ \union {[kind |-> "save", mount |-> Ui.mount,
                                     id |-> queue.sent + 1, row |-> row]}]

Freed(r) == IF r.mount = Ui.mount THEN None ELSE Ui.busy

SaveAnswered ==
    \E r \in queue.flight :
        /\ r.kind = "save"
        /\ queue' = [queue EXCEPT !.flight = @ \ {r}, !.ui.busy = Freed(r)]

(* A decision reloads what was searched when it was clicked.  The server refuses *)
(* a row that is no longer pending.  Approving a market keeps what was written.    *)
Rewritten(r) == IF Ui.kind = "markets" /\ r.status = "approved" THEN {} ELSE {r.row}

DecisionSucceeded ==
    \E r \in queue.flight :
        /\ r.kind = "decision" /\ r.row \notin queue.decided
        /\ r.mount = Ui.mount => CanSend
        /\ LET done == [queue EXCEPT !.flight = @ \ {r}, !.decided = @ \union {r.row}]
           IN  queue' = IF r.mount # Ui.mount THEN done
                        ELSE Load([done EXCEPT !.ui.reasons = @ \ Rewritten(r)], r.view, "decision")

(* A failure is a refusal, or the answer of a decision the server took is lost. *)
DecisionFailed ==
    \E r \in queue.flight, lost \in BOOLEAN :
        /\ r.kind = "decision"
        /\ queue' = [queue EXCEPT !.flight = @ \ {r}, !.ui.busy = Freed(r),
                                  !.decided = IF lost THEN @ \union {r.row} ELSE @]

Next ==
    \/ \E k \in Kinds : SwitchTab(k)
    \/ \E v \in Views : Search(v)
    \/ TimerFires \/ LoadAnswered
    \/ SaveAnswered
    \/ \E row \in Rows : \/ WriteReason(row) \/ SaveMarketTags(row) \/ ApproveMarket(row) \/ RejectMarket(row)
                         \/ \E st \in {"approved", "rejected"} :
                                ReviewAmendment(row, st) \/ ReviewAddition(row, st)
    \/ DecisionSucceeded \/ DecisionFailed

Spec == Init /\ [][Next]_queue
-----------------------------------------------------------------------------
(* The fields stay in their sets; every request was sent by this mount or an earlier one. *)
TypeOK ==
    /\ queue \in [ui : Queues, decided : SUBSET Rows, flight : SUBSET (Loads \union Decisions \union Saves),
                  mixed : SUBSET Rows, sent : Nat]
    /\ \A r \in queue.flight : r.id <= queue.sent /\ r.mount <= Ui.mount
    /\ Ui.searched <= queue.sent

(* A row is decided twice at once only if another decision, the reload that follows    *)
(* one, or a save of some market's tags was under way beside its own: the page         *)
(* remembers one busy row, and any failure, reload or saved tags forget it.             *)
TwiceOnlyAfterMixing ==
    \A r, s \in Pending("decision") : r # s /\ r.row = s.row => r.row \in queue.mixed

(* A settled list is of another search than the box shows only if the reload of a   *)
(* decision, or a load that a later one overtook, was answered last.                *)
ForeignListOnlyLate ==
    ~Ui.timer /\ Pending("load") = {} /\ Ui.of # Ui.view
        => Ui.by = "decision" \/ Ui.shown < Ui.searched

(* What makes them inductive: a decision that was never mixed is the only work, its row is *)
(* the busy one, and no reload is due to forget it; ...                                     *)
UnmixedIsBusy ==
    \A r \in Pending("decision") : r.row \notin queue.mixed =>
        Ui.busy = r.row /\ ~Reloading /\ Work = {r}

(* ... and the search last sent, or its answer, is of the view in the box. *)
SearchedIsInTheBox ==
    /\ \A r \in Pending("load") : r.by = "search" =>
           r.id <= Ui.searched /\ (~Ui.timer /\ r.id = Ui.searched => r.view = Ui.view)
    /\ Ui.by = "search" =>
           Ui.shown <= Ui.searched /\ (~Ui.timer /\ Ui.shown = Ui.searched => Ui.of = Ui.view)
    /\ Ui.by = "none" => Ui.timer \/ Pending("load") # {}

QueueInv == TypeOK /\ UnmixedIsBusy /\ SearchedIsInTheBox
=============================================================================
