---------------------------- MODULE Stewardship ----------------------------
(***************************************************************************)
(* The stewardship queue of the moderation page (MarketStewardshipQueue in   *)
(* frontend/src/components/layouts/admin/ModeratorMarketReview.jsx): markets   *)
(* are searched, and each can be given another steward for a reason.  Here a   *)
(* later search cancels an earlier load, and a reassignment updates its row    *)
(* in place instead of loading the list again.                               *)
(***************************************************************************)
EXTENDS Naturals

CONSTANTS Rows, Stewards,
          Views,         \* a search text with a page
          None,
          MaxRequests    \* bound on loads and reassignments

VARIABLES queue,
          steward        \* the steward of each row on the server

vars == <<queue, steward>>

First(S) == CHOOSE s \in S : TRUE
EmptyForm == [steward |-> None, reason |-> FALSE]

Lists == [view : Views, stewards : [Rows -> Stewards]]
Loads == [view : Views, stewards : [Rows -> Stewards] \union {None}]
Requests == [row : Rows, steward : Stewards, id : Nat, done : BOOLEAN]

Queues ==
    [view : Views, timer : BOOLEAN, load : Loads \union {None}, rows : Lists \union {None},
     busy : Rows \union {None}, moderators : {"loading", "loaded", "none", "failed"},
     forms : [Rows -> [steward : Stewards \union {None}, reason : BOOLEAN]],
     flight : SUBSET Requests, sent : Nat, raced : SUBSET Rows]

ConstantsOK ==
    /\ Stewards # {} /\ Views # {} /\ MaxRequests \in Nat
    /\ None \notin [Rows -> Stewards] /\ None \notin Loads

Init ==
    /\ steward = [r \in Rows |-> First(Stewards)]
    /\ queue = [view |-> First(Views), timer |-> TRUE, load |-> None, rows |-> None, busy |-> None,
                moderators |-> "loading", forms |-> [r \in Rows |-> EmptyForm], flight |-> {},
                sent |-> 0,
                raced |-> {}]   \* rows reassigned while a load, or another reassignment, was under way

CanSend == queue.sent < MaxRequests
Desk(q) == queue' = q /\ UNCHANGED steward

(* The spinner replaces the queue only while there is nothing to show. *)
Shown == queue.rows # None
RowsShown == IF Shown THEN DOMAIN queue.rows.stewards ELSE {}
PageLoading == queue.load # None
Spinner == ~Shown /\ (PageLoading \/ queue.sent = 0)

(* Whom a field suggests; any name may be typed. *)
ModeratorsLoaded ==
    /\ queue.moderators = "loading"
    /\ \E result \in {"loaded", "none", "failed"} : Desk([queue EXCEPT !.moderators = result])

(* A new text or page cancels what is under way and restarts the timer. *)
Search(v) ==
    /\ v # queue.view /\ ~Spinner
    /\ Desk([queue EXCEPT !.view = v, !.timer = TRUE, !.load = None])

TimerFires ==
    /\ queue.timer /\ CanSend
    /\ Desk([queue EXCEPT !.timer = FALSE, !.sent = @ + 1,
                          !.load = [view |-> queue.view, stewards |-> None],
                          !.raced = {f.row : f \in queue.flight}])

(* The server reads the markets at some moment of the request (external). *)
LoadRead ==
    /\ PageLoading /\ queue.load.stewards = None
    /\ Desk([queue EXCEPT !.load.stewards = steward])

LoadAnswered ==
    /\ PageLoading /\ queue.load.stewards # None
    /\ Desk([queue EXCEPT !.load = None, !.rows = queue.load])

LoadFailed ==
    /\ PageLoading
    /\ Desk([queue EXCEPT !.load = None, !.rows = None])

(* Fields stay editable whatever the row does. *)
TypeSteward(r, s) ==
    /\ r \in RowsShown /\ queue.forms[r].steward # s
    /\ Desk([queue EXCEPT !.forms[r].steward = s])

TypeReason(r) ==
    /\ r \in RowsShown /\ ~queue.forms[r].reason
    /\ Desk([queue EXCEPT !.forms[r].reason = TRUE])

Current(r) == queue.rows.stewards[r]

(* A field never typed in shows the current steward. *)
Selected(r) == IF queue.forms[r].steward = None THEN Current(r) ELSE queue.forms[r].steward

CanSubmit(r) ==
    /\ r \in RowsShown /\ queue.busy # r
    /\ queue.forms[r].reason /\ Selected(r) # Current(r)

InFlight(r) == {f \in queue.flight : f.row = r}

Reassign(r) ==
    /\ CanSubmit(r) /\ CanSend
    /\ Desk([queue EXCEPT !.busy = r, !.sent = @ + 1,
               !.raced = IF InFlight(r) = {} THEN @ ELSE @ \union {r},
               !.flight = @ \union {[row |-> r, steward |-> Selected(r), id |-> queue.sent + 1,
                                     done |-> FALSE]}])

(* The server reassigns and answers later (external). *)
ServerReassigns ==
    \E f \in queue.flight :
        /\ ~f.done
        /\ steward' = [steward EXCEPT ![f.row] = f.steward]
        /\ queue' = [queue EXCEPT !.flight = (@ \ {f}) \union {[f EXCEPT !.done = TRUE]}]

(* Mutant of Updated: the row keeps the steward it was loaded with. *)
UpdatedNowhere(r, s) == queue.rows

(* updateMarketInQueues: the row if it is on the page, all rows of its group. *)
Updated(r, s) == IF r \in RowsShown THEN [queue.rows EXCEPT !.stewards[r] = s] ELSE queue.rows

Without(f) == [queue EXCEPT !.flight = @ \ {f}, !.busy = None]

ReassignAnswered ==
    \E f \in queue.flight :
        /\ f.done
        /\ Desk([Without(f) EXCEPT
                   !.rows = Updated(f.row, f.steward),
                   !.forms[f.row] = [steward |-> f.steward, reason |-> FALSE],
                   !.raced = IF PageLoading THEN @ \union {f.row} ELSE @])

(* The answer is lost or the server refuses. *)
ReassignFailed == \E f \in queue.flight :
    Desk([Without(f) EXCEPT !.raced = IF f.done THEN @ \union {f.row} ELSE @])

Next ==
    \/ ModeratorsLoaded \/ \E v \in Views : Search(v)
    \/ TimerFires \/ LoadRead \/ LoadAnswered \/ LoadFailed
    \/ \E r \in Rows : TypeReason(r) \/ Reassign(r) \/ \E s \in Stewards : TypeSteward(r, s)
    \/ ServerReassigns \/ ReassignAnswered \/ ReassignFailed

Spec == Init /\ [][Next]_vars
-----------------------------------------------------------------------------
(* The fields stay in their sets; a busy row has a request under way. *)
TypeOK ==
    /\ queue \in Queues /\ steward \in [Rows -> Stewards]
    /\ queue.busy # None => InFlight(queue.busy) # {}

AtRest == Shown /\ ~queue.timer /\ ~PageLoading

(* A list at rest is of the search in the box, and shows the stewards the server    *)
(* has, unless a reassignment of the row overlapped a load or another one of the same  *)
(* row (two busy rows are remembered as one), or its answer was lost.                *)
StewardshipListIsCurrent ==
    AtRest =>
        /\ queue.rows.view = queue.view
        /\ \A r \in Rows : Current(r) # steward[r] /\ InFlight(r) = {} => r \in queue.raced

(* What makes it inductive: a row that did not race has one request at a time, and once  *)
(* that is done the server has its steward; ...                                         *)
Calm == {f \in queue.flight : f.row \notin queue.raced}
OneEach == \A f, g \in Calm : f.row = g.row => f = g
DoneIsTrue == \A f \in Calm : f.done => steward[f.row] = f.steward

(* ... and a list that was read tells every row that did not race and has nothing done.   *)
TrueList(stewards) ==
    \A r \in Rows \ queue.raced :
        (\A f \in InFlight(r) : ~f.done) => stewards[r] = steward[r]

LoadIsTrue ==
    PageLoading => /\ ~queue.timer /\ queue.load.view = queue.view
                   /\ queue.load.stewards # None => TrueList(queue.load.stewards)

ListIsTrue == AtRest => queue.rows.view = queue.view /\ TrueList(queue.rows.stewards)

StewardshipInv == TypeOK /\ OneEach /\ DoneIsTrue /\ LoadIsTrue /\ ListIsTrue
=============================================================================
