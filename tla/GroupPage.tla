----------------------------- MODULE GroupPage -----------------------------
(***************************************************************************)
(* The older page of a market, for a steward: one market                     *)
(* (frontend/src/components/marketDetails/MarketDetailsLayout.jsx) or a group   *)
(* of answers (GroupedMarketDetailsLayout.jsx).  Its forms trade, resolve,      *)
(* amend the description of every answer, and set who approves new answers.    *)
(***************************************************************************)
EXTENDS Naturals

CONSTANTS Answers, None,
          MaxRequests      \* bound on what is sent

VARIABLES page,
          contract         \* what the server holds

vars == <<page, contract>>

Options == IF page.kind = "group" THEN Answers ELSE {CHOOSE a \in Answers : TRUE}
NoForm == [sending |-> FALSE, out |-> {}, failed |-> {}]    \* failed: the submissions that did

Snapshots == [resolved : BOOLEAN, policy : BOOLEAN]
Loads     == [got : Snapshots \union {None}]
Savings   == [policy : BOOLEAN, done : BOOLEAN, moved : BOOLEAN]

ConstantsOK ==
    Answers # {} /\ MaxRequests \in Nat /\ None \notin Snapshots \union Loads \union Savings \union Answers

Init ==
    /\ contract = [resolved |-> FALSE, marks |-> 0, policy |-> FALSE, notes |-> [a \in Answers |-> 0]]
    /\ \E kind \in {"group", "single"} :
        page = [kind |-> kind, seen |-> None, load |-> [got |-> None], failed |-> FALSE, open |-> TRUE,
                modal |-> "none", trade |-> None, trading |-> 0, winner |-> None,
                mode |-> "exclusive_yes", resolutions |-> {}, text |-> FALSE, amend |-> NoForm,
                policy |-> FALSE, saving |-> None, queue |-> "loading", sent |-> 0,
                overlapped |-> FALSE,   \* a resolution was confirmed while another was at the server
                astray |-> FALSE,       \* a save failed after a load had moved its toggle
                lost |-> FALSE]         \* the answer of a save that was done, till a load moves the toggle

CanSend == page.sent < MaxRequests
Page(p) == page' = p /\ UNCHANGED contract
Snapshot == [resolved |-> contract.resolved, policy |-> contract.policy]
-----------------------------------------------------------------------------
(* The details.                                                              *)
\* A failure is shown only before there is something to show; later ones stay silent.
Loading == page.seen = None /\ ~page.failed
Ready   == page.seen # None

(* A new refresh key drops the load under way. *)
Reloading(p) == [p EXCEPT !.load = [got |-> None]]

LoadRead ==
    /\ page.load # None /\ page.load.got = None
    /\ Page([page EXCEPT !.load.got = Snapshot])

Moves(snapshot) == snapshot.policy # (Ready /\ page.seen.policy)

(* The first answer is the winner and the answer to trade until another is picked;   *)
(* a policy other than the one seen before moves the toggle.                       *)
LoadAnswered ==
    /\ page.load # None /\ page.load.got # None
    /\ Page([page EXCEPT !.load = None, !.seen = page.load.got, !.failed = FALSE,
               !.winner = IF @ = None THEN CHOOSE a \in Options : TRUE ELSE @,
               !.trade  = IF @ = None THEN CHOOSE a \in Options : TRUE ELSE @,
               !.policy = IF Moves(page.load.got) THEN page.load.got.policy ELSE @,
               !.saving = IF @ # None /\ Moves(page.load.got) THEN [@ EXCEPT !.moved = TRUE] ELSE @,
               !.lost = @ /\ ~(Moves(page.load.got) /\ page.load.got.policy = contract.policy)])

LoadFailed ==
    /\ page.load # None
    /\ Page([page EXCEPT !.load = None, !.failed = TRUE])

CloseTimePasses == page.open /\ Page([page EXCEPT !.open = FALSE])
-----------------------------------------------------------------------------
(* Trading.                                                                  *)
CanTrade == Ready /\ page.open /\ ~page.seen.resolved
CanTradeSingle == CanTrade /\ page.kind = "single"
TradeOffered == IF page.kind = "group" THEN CanTrade ELSE CanTradeSingle

OpenTrade == TradeOffered /\ page.modal = "none" /\ Page([page EXCEPT !.modal = "trade"])

SelectTrade(a) ==
    /\ page.modal = "trade" /\ a # page.trade /\ a \in Options
    /\ Page([page EXCEPT !.trade = a])

(* The trade tabs send an order, and tell the page when it is answered (external). *)
Order ==
    /\ page.modal = "trade" /\ CanTrade /\ CanSend
    /\ Page([page EXCEPT !.trading = @ + 1, !.sent = @ + 1])

HandleTransactionSuccess ==
    /\ page.trading > 0
    /\ Page(Reloading([page EXCEPT !.trading = @ - 1,
                                   !.modal = IF @ = "trade" THEN "none" ELSE @]))

CloseModal == page.modal # "none" /\ Page([page EXCEPT !.modal = "none"])
-----------------------------------------------------------------------------
(* Resolving.  The confirmation of a group waits for the answer, of one market not. *)
CanResolve == Ready /\ ~page.seen.resolved
ResolveShown == page.modal = "resolve" /\ Ready

OpenResolve == CanResolve /\ page.modal = "none" /\ Page([page EXCEPT !.modal = "resolve"])

SetResolveMode(m) ==
    /\ ResolveShown /\ page.mode # m /\ Page([page EXCEPT !.mode = m])

SetWinner(a) ==
    /\ ResolveShown /\ page.mode = "exclusive_yes" /\ a \in Options /\ a # page.winner
    /\ Page([page EXCEPT !.winner = a])

(* Mutant of Confirmable: the confirmation of a group does not wait either. *)
ConfirmableBusy == TRUE

Confirmable == page.kind = "group" => \A r \in page.resolutions : r.lost

AtServer(r) == r.stage \in {"sent", "found open"}

ConfirmResolution ==
    /\ ResolveShown /\ Confirmable /\ CanSend
    /\ page.kind = "group" => CanResolve
    /\ Page([page EXCEPT !.sent = @ + 1, !.overlapped = @ \/ \E r \in page.resolutions : AtServer(r),
               !.resolutions = @ \union {[id |-> page.sent, stage |-> "sent", lost |-> FALSE]}])

Staged(r, stage) == (page.resolutions \ {r}) \union {[r EXCEPT !.stage = stage]}

(* The server looks whether the market is open, and later marks it resolved. *)
ServerLooks ==
    \E r \in page.resolutions :
        /\ r.stage = "sent"
        /\ Page([page EXCEPT !.resolutions =
                     Staged(r, IF contract.resolved THEN "refused" ELSE "found open")])

(* The mark of a group is refused when it is there; a market is marked again. *)
Markable == page.kind = "single" \/ ~contract.resolved

ServerMarks ==
    \E r \in page.resolutions :
        /\ r.stage = "found open"
        /\ page' = [page EXCEPT !.resolutions = Staged(r, IF Markable THEN "accepted" ELSE "refused")]
        /\ contract' = [contract EXCEPT !.resolved = TRUE, !.marks = IF Markable THEN @ + 1 ELSE @]

(* The modal of one market closes whatever the answer was. *)
Closes(modal, accepted) ==
    IF modal = "resolve" /\ (accepted \/ page.kind = "single") THEN "none" ELSE modal

ResolutionAnswered ==
    \E r \in page.resolutions :
        LET accepted == r.stage = "accepted"
            left == [page EXCEPT !.resolutions = @ \ {r}, !.modal = Closes(@, accepted)]
        IN  /\ ~r.lost /\ ~AtServer(r)
            /\ Page(IF accepted THEN Reloading(left) ELSE left)

(* The answer is lost; the server goes on. *)
ResolutionLost ==
    \E r \in page.resolutions :
        /\ ~r.lost
        /\ Page([page EXCEPT !.resolutions = (@ \ {r}) \union {[r EXCEPT !.lost = TRUE]},
                             !.modal = Closes(@, FALSE)])
-----------------------------------------------------------------------------
(* Amending the description, with one request for each answer.                 *)
CanProposeDescriptionAmendment ==
    /\ Ready /\ ~page.seen.resolved
    /\ page.kind = "group" => page.open

WriteAmendment ==
    /\ CanProposeDescriptionAmendment /\ ~page.text
    /\ page.amend = NoForm /\ \A a \in Answers : contract.notes[a] = 0
    /\ Page([page EXCEPT !.text = TRUE])

(* Mutant of AmendButton: the button does not wait for the answers. *)
AmendButtonBusy == CanProposeDescriptionAmendment /\ page.text

AmendButton == CanProposeDescriptionAmendment /\ page.text /\ ~page.amend.sending

SubmitAmendment ==
    /\ AmendButton /\ CanSend
    /\ Page([page EXCEPT !.sent = @ + 1, !.amend.sending = TRUE,
               !.amend.out = @ \union {[answer |-> a, id |-> page.sent, done |-> FALSE] : a \in Options}])

ServerAmends ==
    \E m \in page.amend.out :
        /\ ~m.done
        /\ contract' = [contract EXCEPT !.notes[m.answer] = @ + 1]
        /\ page' = [page EXCEPT !.amend.out = (@ \ {m}) \union {[m EXCEPT !.done = TRUE]}]

(* The form clears when every answer of the submission has come. *)
AmendmentAnswered ==
    \E m \in page.amend.out :
        LET left == page.amend.out \ {m}
            all  == m.id \notin page.amend.failed /\ \A n \in left : n.id # m.id
        IN  /\ m.done
            /\ Page([page EXCEPT !.amend.out = left, !.amend.sending = @ /\ ~all,
                       !.text = @ /\ ~all])

(* The first failure of a submission ends its wait; what else was sent goes on. *)
AmendmentFails ==
    \E m \in page.amend.out :
        Page([page EXCEPT !.amend = [sending |-> @.sending /\ m.id \in @.failed,
                                     out |-> @.out \ {m}, failed |-> @.failed \union {m.id}]])
-----------------------------------------------------------------------------
(* Who approves new answers: the toggle moves at once and back on a failure.    *)
CanManageAnswerAdditions ==
    /\ page.kind = "group" /\ Ready /\ page.open /\ ~page.seen.resolved

ToggleAnswerAdditionPolicy ==
    /\ CanManageAnswerAdditions /\ page.saving = None /\ CanSend
    /\ Page([page EXCEPT !.sent = @ + 1, !.policy = ~@,
               !.saving = [policy |-> ~page.policy, done |-> FALSE, moved |-> FALSE]])

ServerSaves ==
    /\ page.saving # None /\ ~page.saving.done
    /\ contract' = [contract EXCEPT !.policy = page.saving.policy]
    /\ page' = [page EXCEPT !.saving.done = TRUE]

SaveAnswered ==
    /\ page.saving # None /\ page.saving.done
    /\ Page(Reloading([page EXCEPT !.saving = None, !.astray = FALSE, !.lost = FALSE]))

(* Mutant of Reverted: a failure leaves the toggle where it was moved to. *)
RevertedNever(p) == p

Reverted(p) ==
    [p EXCEPT !.policy = ~p.saving.policy, !.astray = @ \/ p.saving.moved, !.lost = @ \/ p.saving.done]

(* The server refused, or its answer is lost, which the page does not tell apart. *)
SaveFailed ==
    /\ page.saving # None
    /\ Page([Reverted(page) EXCEPT !.saving = None])

(* Adding an answer reloads the group. *)
SubmitAnswerAddition ==
    /\ CanManageAnswerAdditions /\ page.load = None /\ CanSend
    /\ Page(Reloading([page EXCEPT !.sent = @ + 1]))

(* The queue of proposed answers loads when the page is first shown, and again after a  *)
(* review; its spinner replaces the buttons.                                        *)
QueueLoads ==
    /\ CanManageAnswerAdditions /\ page.queue = "loading"
    /\ Page([page EXCEPT !.queue = "ready"])

ReviewButtons == CanManageAnswerAdditions /\ page.queue = "ready"

ReviewAddition == ReviewButtons /\ CanSend /\ Page([page EXCEPT !.queue = "busy", !.sent = @ + 1])

AdditionReviewed ==
    /\ page.queue = "busy"
    /\ \/ Page(Reloading([page EXCEPT !.queue = "loading"]))
       \/ Page([page EXCEPT !.queue = "ready"])

Next ==
    \/ LoadRead \/ LoadAnswered \/ LoadFailed \/ CloseTimePasses
    \/ OpenTrade \/ Order \/ HandleTransactionSuccess \/ CloseModal
    \/ OpenResolve \/ ConfirmResolution \/ ServerLooks \/ ServerMarks \/ ResolutionAnswered \/ ResolutionLost
    \/ \E m \in {"exclusive_yes", "manual", "na"} : SetResolveMode(m)
    \/ \E a \in Answers : SelectTrade(a) \/ SetWinner(a)
    \/ WriteAmendment \/ SubmitAmendment \/ ServerAmends \/ AmendmentAnswered \/ AmendmentFails
    \/ ToggleAnswerAdditionPolicy \/ ServerSaves \/ SaveAnswered \/ SaveFailed
    \/ SubmitAnswerAddition \/ QueueLoads \/ ReviewAddition \/ AdditionReviewed

Spec == Init /\ [][Next]_vars
-----------------------------------------------------------------------------
Amendments  == [answer : Answers, id : 0..MaxRequests, done : BOOLEAN]
Stages      == {"sent", "found open", "refused", "accepted"}
Resolutions == [id : 0..MaxRequests, stage : Stages, lost : BOOLEAN]
PageType ==
    [kind : {"group", "single"}, seen : Snapshots \union {None}, load : Loads \union {None},
     failed : BOOLEAN, open : BOOLEAN, modal : {"none", "trade", "resolve"},
     trade : Answers \union {None}, trading : Nat, winner : Answers \union {None},
     mode : {"exclusive_yes", "manual", "na"}, resolutions : SUBSET Resolutions, text : BOOLEAN,
     amend : [sending : BOOLEAN, out : SUBSET Amendments, failed : SUBSET (0..MaxRequests)],
     policy : BOOLEAN, saving : Savings \union {None}, queue : {"loading", "ready", "busy"},
     sent : 0..MaxRequests, overlapped : BOOLEAN, astray : BOOLEAN, lost : BOOLEAN]

(* The fields stay in their sets; a loading page shows no form. *)
TypeOK ==
    /\ page \in PageType
    /\ contract \in [resolved : BOOLEAN, marks : Nat, policy : BOOLEAN, notes : [Answers -> Nat]]
    /\ ~Ready => page.modal = "none" /\ ~page.text /\ page.winner = None

(* An amendment is recorded twice on an answer only after a submission of it failed   *)
(* for some answer: the ones that went through are not told apart when it is sent again. *)
AmendedTwiceOnlyAfterFailure ==
    (\E a \in Answers : contract.notes[a] > 1) => page.amend.failed # {}

(* Until a submission fails, one is under way and records each answer once. *)
AmendedOnceSoFar ==
    page.amend.failed = {} =>
        /\ \A m, n \in page.amend.out : m.id = n.id /\ (m.answer = n.answer => m = n)
        /\ \A m \in page.amend.out : ~m.done => contract.notes[m.answer] = 0
        /\ \A a \in Answers : contract.notes[a] <= 1
        /\ page.amend.out # {} => page.amend.sending
        /\ (page.text /\ ~page.amend.sending) => \A a \in Answers : contract.notes[a] = 0

(* With nothing under way the toggle shows the saved policy, unless the last load failed: *)
(* only the load after a change repairs what an earlier one, arriving during it, moved.   *)
(* A save that fails has no such load: it puts the toggle where it was before that, and also *)
(* when it was done and only its answer is lost.                                             *)
PolicyShownIsSaved ==
    (Ready /\ ~page.failed /\ page.load = None /\ page.saving = None /\ ~page.astray /\ ~page.lost)
        => page.policy = contract.policy

Unserved == page.saving = None \/ ~page.saving.done

(* What was loaded last is what is saved, but for a save that went through since; and a toggle *)
(* that shows another policy is put right by the next load, for it brings another one.        *)
LoadRepairs ==
    LET right(shown) == shown = contract.policy \/ (Ready /\ page.seen.policy # contract.policy)
    IN  /\ ~Ready => (page.saving = None /\ ~page.policy /\ ~contract.policy)
        /\ (Unserved /\ page.load # None /\ page.load.got # None /\ ~page.lost) =>
               page.load.got.policy = contract.policy
        /\ (Unserved /\ Ready /\ ~page.failed /\ page.load = None /\ ~page.lost) =>
               page.seen.policy = contract.policy
        /\ (page.saving = None /\ ~page.astray /\ ~page.lost) => right(page.policy)
        /\ page.saving # None =>
               /\ page.policy = page.saving.policy \/ page.seen.policy = page.policy
               /\ (page.saving.done => page.saving.policy = contract.policy)
               /\ (~page.saving.done /\ ~page.saving.moved /\ ~page.astray /\ ~page.lost) =>
                      right(~page.saving.policy)

(* One resolution of a group waits for its answer, and one is accepted.  A market can be  *)
(* resolved twice, if it was confirmed again before the server was done with the first.    *)
OneResolutionOfGroup ==
    /\ page.kind = "group" =>
           /\ contract.marks <= 1
           /\ \A r, s \in page.resolutions : (~r.lost /\ ~s.lost) => r = s
    /\ contract.marks > 1 => page.overlapped

(* Without an overlap one resolution at most is at the server, of a market not yet resolved. *)
MarksAreCounted ==
    /\ contract.resolved = (contract.marks > 0)
    /\ ~page.overlapped =>
           /\ \A r, s \in page.resolutions : (AtServer(r) /\ AtServer(s)) => r = s
           /\ \A r \in page.resolutions : r.stage = "found open" => ~contract.resolved

(* What every step keeps. *)
GroupInv ==
    /\ TypeOK /\ AmendedOnceSoFar /\ LoadRepairs
    /\ OneResolutionOfGroup /\ MarksAreCounted
=============================================================================
