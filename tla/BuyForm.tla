------------------------------ MODULE BuyForm ------------------------------
(***************************************************************************)
(* The buy side of MultiChoiceTradePanel                                     *)
(* (frontend/src/components/testmarketdetails/TestMarketDetailsLayout.jsx).  *)
(*                                                                         *)
(* One variable holds what the component keeps: React state, the debounce    *)
(* timer of the projection, the timer of the success animation, and the      *)
(* requests in flight.  Answers arrive in any order, and the live poll of    *)
(* the page changes prices and market status under the form at any time.     *)
(*                                                                         *)
(* An amount of 0 stands for every value the form rejects ("" or below 1).   *)
(***************************************************************************)
EXTENDS Integers, FiniteSets

CONSTANTS Answers,      \* market ids of the answers, one per option row
          None,
          MaxAmount,    \* bound on what is typed
          Steps,        \* what +, - and the presets add: 10, 50, 100 in the code
          MaxRequests   \* bound on the requests sent while the page is open

VARIABLE buy

Outcomes == {"YES", "NO"}
Inputs   == [answer : Answers, amount : 1..MaxAmount, outcome : Outcomes, price : BOOLEAN]

(* The market has answers, an amount can be typed, and None is no input of the form. *)
ConstantsOK ==
    /\ Answers # {} /\ None \notin Inputs
    /\ MaxAmount \in Nat \ {0} /\ Steps \subseteq Nat /\ MaxRequests \in Nat

(* A request for a projection, and an order; ids count both. *)
Projections == [kind : {"projection"}, id : Nat, of : Inputs]
Orders      == [kind : {"order"}, id : Nat]

Panel ==
    [answer : Answers, outcome : Outcomes, amount : 0..MaxAmount, price : BOOLEAN, open : BOOLEAN,
     debounce : Inputs \union {None}, shown : Inputs \union {None}, shownBy : Nat,
     projecting : Nat, projLoading : BOOLEAN, submitting : BOOLEAN, phase : {"idle", "success"},
     error : BOOLEAN, flight : SUBSET (Projections \union Orders), sent : Nat, threw : BOOLEAN,
     hurried : BOOLEAN]   \* an order was clicked on the success of another, and not all are answered

InputOf(form) == [answer |-> form.answer, amount |-> form.amount, outcome |-> form.outcome,
                  price |-> form.price]

PanelInit ==
    [answer |-> CHOOSE a \in Answers : TRUE, outcome |-> "YES", amount |-> 1,
     price |-> FALSE, open |-> TRUE,
     debounce |-> None, shown |-> None, shownBy |-> 0, projecting |-> 0, projLoading |-> FALSE,
     submitting |-> FALSE, phase |-> "idle", error |-> FALSE,
     flight |-> {}, sent |-> 0, threw |-> FALSE, hurried |-> FALSE]

(* Mutant of ProjectionEffect: the outcome is missing from the dependencies. *)
ProjectionEffectWithoutOutcome(old, form) ==
    IF InputOf([form EXCEPT !.outcome = old.outcome]) = InputOf(old) THEN form
    ELSE IF form.amount = 0 THEN [form EXCEPT !.debounce = None, !.shown = None]
    ELSE [form EXCEPT !.debounce = InputOf(form)]

(* The projection effect, run when an input differs from the last render: a     *)
(* valid amount restarts the timer, any other stops it and clears the projection. *)
ProjectionEffect(old, form) ==
    IF InputOf(form) = InputOf(old) THEN form
    ELSE IF form.amount = 0 THEN [form EXCEPT !.debounce = None, !.shown = None]
    ELSE [form EXCEPT !.debounce = InputOf(form)]

Edit(form) == buy' = ProjectionEffect(buy, form)

Init == buy = [PanelInit EXCEPT !.debounce = InputOf(PanelInit)]

(* A closed or resolved market shows the options and a notice, never the form. *)
FormShown == buy.open

Select(a) ==
    /\ FormShown
    /\ Edit([buy EXCEPT !.answer = a, !.shown = None, !.error = FALSE])

(* A click on the chart selects the answer without handleSelect's clearing. *)
SelectOnChart(a) == Edit([buy EXCEPT !.answer = a])

ChooseOutcome(o) == FormShown /\ Edit([buy EXCEPT !.outcome = o])

TypeAmount(n) == FormShown /\ Edit([buy EXCEPT !.amount = n])

StepAmount(d) ==
    /\ FormShown
    /\ \/ buy.amount + d <= MaxAmount /\ Edit([buy EXCEPT !.amount = @ + d])
       \/ Edit([buy EXCEPT !.amount = IF @ - d < 1 THEN 1 ELSE @ - d])

(* The live poll replaces the answers: the selected one has a new price, or the *)
(* market has closed or been resolved.                                         *)
PollPrice == buy.open /\ Edit([buy EXCEPT !.price = ~@])
PollEnd   == buy.open /\ buy' = [buy EXCEPT !.open = FALSE]

Send(form, r) == [form EXCEPT !.flight = @ \union {r}, !.sent = @ + 1]

DebounceFires ==
    /\ buy.debounce # None /\ buy.sent < MaxRequests
    /\ buy' = Send([buy EXCEPT !.debounce = None, !.projLoading = TRUE,
                               !.projecting = buy.sent + 1],
                   [kind |-> "projection", id |-> buy.sent + 1, of |-> buy.debounce])

(* An answer sets the projection whatever the form holds by now. *)
ProjectionAnswered ==
    \E r \in buy.flight, ok \in BOOLEAN :
        /\ r.kind = "projection"
        /\ buy' = [buy EXCEPT !.flight = @ \ {r}, !.projLoading = FALSE,
                              !.shown = IF ok THEN r.of ELSE None,
                              !.shownBy = r.id]

NewProbability == IF buy.projLoading /\ buy.shown = None THEN "..." ELSE buy.shown

OrdersInFlight == {r \in buy.flight : r.kind = "order"}

(* Mutant of BuyDisabled: a form that only refuses bad amounts. *)
BuyDisabledOnAmount == buy.amount = 0 /\ buy.phase # "success"

(* The disabled attribute of the button: nothing disables it while it still     *)
(* celebrates the last purchase.                                               *)
BuyDisabled == (buy.submitting \/ buy.amount = 0) /\ buy.phase # "success"

BuyLabel == IF buy.phase = "success" THEN "purchased"
            ELSE IF buy.submitting THEN "processing" ELSE "buy"

(* validateOrder of tradeApi.js throws on these. *)
Rejected(form) == form.amount < 1

(* handleBuy.  placeBet validates before it returns a promise, so for a bad      *)
(* amount submitBet throws and neither callback ever runs.                      *)
ClickBuy ==
    /\ FormShown /\ ~BuyDisabled /\ buy.sent < MaxRequests
    /\ LET clicked == [buy EXCEPT !.error = FALSE, !.submitting = TRUE]
       IN  buy' = IF Rejected(buy) THEN [clicked EXCEPT !.threw = TRUE]
                  ELSE Send([clicked EXCEPT !.hurried =
                                 @ \/ (buy.phase = "success" /\ OrdersInFlight # {})],
                            [kind |-> "order", id |-> buy.sent + 1])

(* Either callback of the order. *)
Ended(r) == [buy EXCEPT !.flight = @ \ {r}, !.submitting = FALSE, !.threw = FALSE,
                        !.hurried = @ /\ OrdersInFlight # {r}]

OrderPlaced ==
    \E r \in buy.flight :
        /\ r.kind = "order"
        /\ buy' = [Ended(r) EXCEPT !.phase = "success"]

(* Mutant of OrderRefused: the error callback only shows the message. *)
OrderRefusedStillSubmitting ==
    \E r \in buy.flight :
        /\ r.kind = "order"
        /\ buy' = [buy EXCEPT !.flight = @ \ {r}, !.error = TRUE]

OrderRefused ==
    \E r \in buy.flight :
        /\ r.kind = "order"
        /\ buy' = [Ended(r) EXCEPT !.error = TRUE]

(* The success animation ends after 2.8 seconds. *)
PhaseResets == buy.phase = "success" /\ buy' = [buy EXCEPT !.phase = "idle"]

Next ==
    \/ \E a \in Answers : Select(a) \/ SelectOnChart(a)
    \/ \E o \in Outcomes : ChooseOutcome(o)
    \/ \E n \in 0..MaxAmount : TypeAmount(n)
    \/ \E d \in Steps : StepAmount(d)
    \/ PollPrice \/ PollEnd
    \/ DebounceFires \/ ProjectionAnswered
    \/ ClickBuy \/ OrderPlaced \/ OrderRefused \/ PhaseResets

Spec == Init /\ [][Next]_buy
-----------------------------------------------------------------------------
(* The fields stay in their sets; requests are numbered as they are sent. *)
TypeOK ==
    /\ buy \in Panel
    /\ \A r \in buy.flight : r.id \in 1..buy.sent
    /\ buy.projecting <= buy.sent /\ buy.shownBy <= buy.sent

(* Two orders are under way only if the second was clicked while the button showed *)
(* the success of an earlier one (handleBuy has no guard but the disabled           *)
(* attribute), or after such a click as long as orders remain unanswered.           *)
OrdersOverlapOnlyAfterSuccess == \A r, s \in OrdersInFlight : r # s => buy.hurried

(* A form that says "processing" with no order under way was clicked with an     *)
(* amount placeBet throws on; no refusal, lost race or late answer freezes it.   *)
FrozenOnlyByThrow == BuyLabel = "processing" /\ OrdersInFlight = {} => buy.threw

(* When the projection last asked for is on screen and no other is due, it is    *)
(* the projection of what the form holds: every input restarts the timer.        *)
LastProjectionIsCurrent ==
    buy.shown # None /\ buy.shownBy = buy.projecting /\ buy.debounce = None /\ buy.amount # 0
        => buy.shown = InputOf(buy)

(* What makes them inductive: a form that submits awaits an order or threw; an order      *)
(* that nobody hurried keeps the button disabled; and the timer, or else the last request   *)
(* or its answer, is for what the form holds.                                               *)
SubmittingAwaits == buy.submitting /\ OrdersInFlight = {} => buy.threw

OneOrderUnhurried == OrdersInFlight # {} /\ ~buy.hurried => buy.submitting

AwaitedIsCurrent ==
    /\ buy.debounce # None => buy.debounce = InputOf(buy)
    /\ buy.debounce = None /\ buy.amount # 0 =>
           \A r \in buy.flight : r.kind = "projection" /\ r.id = buy.projecting => r.of = InputOf(buy)

BuyInv ==
    /\ TypeOK /\ OrdersOverlapOnlyAfterSuccess /\ LastProjectionIsCurrent
    /\ SubmittingAwaits /\ OneOrderUnhurried /\ AwaitedIsCurrent
=============================================================================
