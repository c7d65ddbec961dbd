---------------------------- MODULE FormsProofs ----------------------------
(***************************************************************************)
(* Theorems about the forms for all their constants.  For each form: how its   *)
(* steps change its state, that Init establishes its inductive invariant and    *)
(* that every step keeps it; at the end the forms together.                     *)
(***************************************************************************)
EXTENDS Forms, FiniteSetTheorems, WellFoundedInduction, TLAPS

-----------------------------------------------------------------------------
(* The buy form. *)
LEMMA BuyInitInv == Buy!ConstantsOK /\ Buy!Init => Buy!BuyInv
<1> SUFFICES ASSUME Buy!ConstantsOK, Buy!Init
             PROVE  Buy!BuyInv
  OBVIOUS
<1>1. PICK first \in Answers : first = CHOOSE a \in Answers : TRUE
  BY DEF Buy!ConstantsOK
<1>2. /\ ui = [answer |-> first, outcome |-> "YES", amount |-> 1,
               price |-> FALSE, open |-> TRUE,
               debounce |-> Buy!InputOf(ui), shown |-> None, shownBy |-> 0, projecting |-> 0,
               projLoading |-> FALSE, submitting |-> FALSE, phase |-> "idle", error |-> FALSE,
               flight |-> {}, sent |-> 0, threw |-> FALSE, hurried |-> FALSE]
      /\ Buy!InputOf(ui) = [answer |-> first, amount |-> 1, outcome |-> "YES", price |-> FALSE]
  BY <1>1 DEF Buy!Init, Buy!PanelInit, Buy!InputOf
<1>3. Buy!InputOf(ui) \in Buy!Inputs
  BY <1>2 DEF Buy!Inputs, Buy!Outcomes, Buy!ConstantsOK
<1>4. ui \in Buy!Panel
  <2> DEFINE input == Buy!InputOf(ui)
  <2>1. input \in Buy!Inputs
    BY <1>3
  <2> HIDE DEF input
  <2>2. ui = [answer |-> first, outcome |-> "YES", amount |-> 1, price |-> FALSE, open |-> TRUE,
              debounce |-> input, shown |-> None, shownBy |-> 0, projecting |-> 0,
              projLoading |-> FALSE, submitting |-> FALSE, phase |-> "idle", error |-> FALSE,
              flight |-> {}, sent |-> 0, threw |-> FALSE, hurried |-> FALSE]
    BY <1>2 DEF input
  <2>3. 1 \in 0..MaxAmount
    BY DEF Buy!ConstantsOK
  <2> QED
    BY <2>1, <2>2, <2>3 DEF Buy!Panel, Buy!Outcomes, Buy!ConstantsOK
<1>5. /\ ui.flight = {} /\ ui.shown = None /\ ui.debounce = Buy!InputOf(ui)
      /\ ui.sent = 0 /\ ui.projecting = 0 /\ ui.shownBy = 0
      /\ ui.phase = "idle" /\ ~ui.submitting
  BY <1>2
<1> QED
  BY <1>3, <1>4, <1>5 DEF Buy!BuyInv, Buy!TypeOK, Buy!OrdersInFlight, Buy!ConstantsOK,
     Buy!OrdersOverlapOnlyAfterSuccess, Buy!SubmittingAwaits, Buy!LastProjectionIsCurrent,
     Buy!OneOrderUnhurried, Buy!AwaitedIsCurrent

(* A change of the inputs: an effect restarts the timer. *)
LEMMA BuyEdits ==
    ASSUME Buy!ConstantsOK, Buy!BuyInv, NEW next \in Buy!Panel, Buy!Edit(next),
           next.shown \in {ui.shown, None}, next.debounce = ui.debounce,
           next.shownBy = ui.shownBy, next.projecting = ui.projecting,
           next.submitting = ui.submitting, next.phase = ui.phase, next.flight = ui.flight,
           next.sent = ui.sent, next.threw = ui.threw, next.hurried = ui.hurried
    PROVE  Buy!BuyInv'
<1> USE DEF Buy!BuyInv, Buy!TypeOK
<1>1. CASE Buy!InputOf(next) = Buy!InputOf(ui)
  <2>1. ui' = next
    BY <1>1 DEF Buy!Edit, Buy!ProjectionEffect
  <2>2. next.amount = ui.amount
    BY <1>1 DEF Buy!InputOf
  <2> QED
    BY <1>1, <2>1, <2>2 DEF Buy!OrdersInFlight, Buy!OrdersOverlapOnlyAfterSuccess, Buy!SubmittingAwaits,
       Buy!LastProjectionIsCurrent, Buy!OneOrderUnhurried, Buy!AwaitedIsCurrent
<1>2. CASE Buy!InputOf(next) # Buy!InputOf(ui) /\ next.amount = 0
  <2>1. ui' = [next EXCEPT !.debounce = None, !.shown = None]
    BY <1>2 DEF Buy!Edit, Buy!ProjectionEffect
  <2>2. ui' \in Buy!Panel
    BY <2>1 DEF Buy!Panel
  <2> QED
    BY <1>2, <2>1, <2>2 DEF Buy!Panel, Buy!OrdersInFlight, Buy!OrdersOverlapOnlyAfterSuccess, Buy!SubmittingAwaits,
       Buy!LastProjectionIsCurrent, Buy!OneOrderUnhurried, Buy!AwaitedIsCurrent
<1>3. CASE Buy!InputOf(next) # Buy!InputOf(ui) /\ next.amount # 0
  <2>1. ui' = [next EXCEPT !.debounce = Buy!InputOf(next)]
    BY <1>3 DEF Buy!Edit, Buy!ProjectionEffect
  <2>2. Buy!InputOf(next) \in Buy!Inputs
    BY <1>3 DEF Buy!InputOf, Buy!Inputs, Buy!Panel, Buy!ConstantsOK
  <2>3. ui' \in Buy!Panel
    BY <2>1, <2>2 DEF Buy!Panel
  <2>4. ui'.debounce = Buy!InputOf(ui') /\ ui'.debounce # None
    BY <2>1, <2>2 DEF Buy!Panel, Buy!InputOf, Buy!ConstantsOK
  <2> QED
    BY <1>3, <2>1, <2>3, <2>4 DEF Buy!Panel, Buy!OrdersInFlight, Buy!OrdersOverlapOnlyAfterSuccess,
       Buy!SubmittingAwaits, Buy!LastProjectionIsCurrent, Buy!OneOrderUnhurried,
       Buy!AwaitedIsCurrent
<1> QED
  BY <1>1, <1>2, <1>3

LEMMA BuyUserInv ==
    ASSUME Buy!ConstantsOK, Buy!BuyInv,
           \/ \E a \in Answers : Buy!Select(a) \/ Buy!SelectOnChart(a)
           \/ \E o \in Buy!Outcomes : Buy!ChooseOutcome(o)
           \/ \E n \in 0..MaxAmount : Buy!TypeAmount(n)
           \/ \E d \in Steps : Buy!StepAmount(d)
           \/ Buy!PollPrice
    PROVE  Buy!BuyInv'
<1> USE DEF Buy!BuyInv, Buy!TypeOK
<1>1. ui \in Buy!Panel
  OBVIOUS
<1>2. ASSUME NEW a \in Answers, Buy!Select(a)
      PROVE  Buy!BuyInv'
  <2> DEFINE next == [ui EXCEPT !.answer = a, !.shown = None, !.error = FALSE]
  <2>1. next \in Buy!Panel /\ Buy!Edit(next)
    BY <1>1, <1>2 DEF Buy!Select, Buy!Panel
  <2> QED
    BY <1>1, <2>1, BuyEdits DEF Buy!Panel
<1>3. ASSUME NEW a \in Answers, Buy!SelectOnChart(a)
      PROVE  Buy!BuyInv'
  <2> DEFINE next == [ui EXCEPT !.answer = a]
  <2>1. next \in Buy!Panel /\ Buy!Edit(next)
    BY <1>1, <1>3 DEF Buy!SelectOnChart, Buy!Panel
  <2> QED
    BY <1>1, <2>1, BuyEdits DEF Buy!Panel
<1>4. ASSUME NEW o \in Buy!Outcomes, Buy!ChooseOutcome(o)
      PROVE  Buy!BuyInv'
  <2> DEFINE next == [ui EXCEPT !.outcome = o]
  <2>1. next \in Buy!Panel /\ Buy!Edit(next)
    BY <1>1, <1>4 DEF Buy!ChooseOutcome, Buy!Panel
  <2> QED
    BY <1>1, <2>1, BuyEdits DEF Buy!Panel
<1>5. ASSUME NEW n \in 0..MaxAmount, Buy!Edit([ui EXCEPT !.amount = n])
      PROVE  Buy!BuyInv'
  <2> DEFINE next == [ui EXCEPT !.amount = n]
  <2>1. next \in Buy!Panel /\ Buy!Edit(next)
    BY <1>1, <1>5 DEF Buy!Panel
  <2> QED
    BY <1>1, <2>1, BuyEdits DEF Buy!Panel
<1>6. ASSUME NEW n \in 0..MaxAmount, Buy!TypeAmount(n)
      PROVE  Buy!BuyInv'
  BY <1>5, <1>6 DEF Buy!TypeAmount
<1>7. ASSUME NEW d \in Steps, Buy!StepAmount(d)
      PROVE  Buy!BuyInv'
  <2>1. d \in Nat /\ ui.amount \in 0..MaxAmount /\ MaxAmount \in Nat \ {0}
    BY <1>1 DEF Buy!ConstantsOK, Buy!Panel
  <2>2. CASE ui.amount + d <= MaxAmount /\ Buy!Edit([ui EXCEPT !.amount = ui.amount + d])
    BY <1>5, <2>1, <2>2
  <2>3. CASE Buy!Edit([ui EXCEPT !.amount = IF ui.amount - d < 1 THEN 1 ELSE ui.amount - d])
    BY <1>5, <2>1, <2>3
  <2> QED
    BY <1>1, <1>7, <2>2, <2>3 DEF Buy!StepAmount, Buy!Panel
<1>8. ASSUME Buy!PollPrice
      PROVE  Buy!BuyInv'
  <2> DEFINE next == [ui EXCEPT !.price = ~ui.price]
  <2>1. next \in Buy!Panel /\ Buy!Edit(next)
    BY <1>1, <1>8 DEF Buy!PollPrice, Buy!Panel
  <2> QED
    BY <1>1, <2>1, BuyEdits DEF Buy!Panel
<1> QED
  BY <1>2, <1>3, <1>4, <1>6, <1>7, <1>8

LEMMA BuyNextInv == Buy!ConstantsOK /\ Buy!BuyInv /\ [Buy!Next]_ui => Buy!BuyInv'
<1> SUFFICES ASSUME Buy!ConstantsOK, Buy!BuyInv, [Buy!Next]_ui
             PROVE  Buy!BuyInv'
  OBVIOUS
<1> USE DEF Buy!BuyInv, Buy!TypeOK
<1>1. ui \in Buy!Panel
  OBVIOUS
<1>2. CASE Buy!PollEnd
  <2>1. ui' = [ui EXCEPT !.open = FALSE] /\ ui' \in Buy!Panel
    BY <1>1, <1>2 DEF Buy!PollEnd, Buy!Panel
  <2> QED
    BY <1>1, <2>1 DEF Buy!Panel, Buy!InputOf, Buy!OrdersInFlight, Buy!OrdersOverlapOnlyAfterSuccess,
       Buy!SubmittingAwaits, Buy!LastProjectionIsCurrent, Buy!OneOrderUnhurried,
       Buy!AwaitedIsCurrent
<1>3. CASE Buy!DebounceFires
  <2> DEFINE r == [kind |-> "projection", id |-> ui.sent + 1, of |-> ui.debounce]
  <2>1. ui' = [ui EXCEPT !.debounce = None, !.projLoading = TRUE, !.projecting = ui.sent + 1,
                         !.flight = ui.flight \union {r}, !.sent = ui.sent + 1]
    BY <1>1, <1>3 DEF Buy!DebounceFires, Buy!Send, Buy!Panel
  <2>2. r \in Buy!Projections /\ r.of = Buy!InputOf(ui)
    BY <1>1, <1>3 DEF Buy!DebounceFires, Buy!Panel, Buy!Projections, Buy!AwaitedIsCurrent
  <2>3. ui' \in Buy!Panel
    <3> HIDE DEF r
    <3> DEFINE flight == ui.flight \union {r}
               sent   == ui.sent + 1
    <3>1. flight \in SUBSET (Buy!Projections \union Buy!Orders) /\ sent \in Nat
      BY <1>1, <2>2 DEF Buy!Panel
    <3> HIDE DEF flight, sent
    <3>2. ui' = [ui EXCEPT !.debounce = None, !.projLoading = TRUE, !.projecting = sent,
                           !.flight = flight, !.sent = sent]
      BY <2>1 DEF flight, sent
    <3> QED
      BY <1>1, <3>1, <3>2 DEF Buy!Panel
  <2>4. Buy!InputOf(ui') = Buy!InputOf(ui)
    BY <1>1, <2>1 DEF Buy!Panel, Buy!InputOf
  <2>5. Buy!OrdersInFlight' = Buy!OrdersInFlight
    BY <1>1, <2>1 DEF Buy!Panel, Buy!OrdersInFlight
  <2>6. Buy!TypeOK'
    BY <1>1, <2>1, <2>3 DEF Buy!Panel
  <2>7. Buy!AwaitedIsCurrent'
    BY <1>1, <2>1, <2>2, <2>4 DEF Buy!Panel, Buy!AwaitedIsCurrent
  <2>8. Buy!LastProjectionIsCurrent'
    BY <1>1, <2>1 DEF Buy!Panel, Buy!LastProjectionIsCurrent
  <2> QED
    BY <1>1, <2>1, <2>5, <2>6, <2>7, <2>8 DEF Buy!Panel, Buy!OrdersOverlapOnlyAfterSuccess,
       Buy!SubmittingAwaits, Buy!OneOrderUnhurried
<1>4. CASE Buy!ProjectionAnswered
  <2>1. PICK r \in ui.flight, ok \in BOOLEAN :
            /\ r.kind = "projection"
            /\ ui' = [ui EXCEPT !.flight = ui.flight \ {r}, !.projLoading = FALSE,
                                !.shown = IF ok THEN r.of ELSE None, !.shownBy = r.id]
    BY <1>4 DEF Buy!ProjectionAnswered
  <2>2. r \in Buy!Projections /\ r.id <= ui.sent
    BY <1>1, <2>1 DEF Buy!Panel, Buy!Orders, Buy!Projections
  <2>3. ui' \in Buy!Panel
    BY <1>1, <2>1, <2>2 DEF Buy!Panel, Buy!Projections
  <2>4. Buy!InputOf(ui') = Buy!InputOf(ui)
    BY <1>1, <2>1 DEF Buy!Panel, Buy!InputOf
  <2>5. Buy!OrdersInFlight' = Buy!OrdersInFlight
    BY <1>1, <2>1 DEF Buy!Panel, Buy!OrdersInFlight
  <2>6. Buy!TypeOK'
    BY <1>1, <2>1, <2>2, <2>3 DEF Buy!Panel
  <2>7. Buy!AwaitedIsCurrent' /\ Buy!LastProjectionIsCurrent'
    BY <1>1, <2>1, <2>4 DEF Buy!Panel, Buy!AwaitedIsCurrent, Buy!LastProjectionIsCurrent
  <2> QED
    BY <1>1, <2>1, <2>5, <2>6, <2>7 DEF Buy!Panel, Buy!OrdersOverlapOnlyAfterSuccess,
       Buy!SubmittingAwaits, Buy!OneOrderUnhurried
<1>5. CASE Buy!ClickBuy
  <2>0. CASE Buy!Rejected(ui)
    <3>1. ui' = [ui EXCEPT !.error = FALSE, !.submitting = TRUE, !.threw = TRUE]
      BY <1>1, <1>5, <2>0 DEF Buy!ClickBuy, Buy!Panel
    <3>2. ui' \in Buy!Panel
      BY <1>1, <3>1 DEF Buy!Panel
    <3> QED
      BY <1>1, <3>1, <3>2 DEF Buy!Panel, Buy!InputOf, Buy!OrdersInFlight, Buy!OrdersOverlapOnlyAfterSuccess,
         Buy!SubmittingAwaits, Buy!LastProjectionIsCurrent, Buy!OneOrderUnhurried,
         Buy!AwaitedIsCurrent
  <2> SUFFICES ASSUME ~Buy!Rejected(ui) PROVE Buy!BuyInv'
    BY <2>0
  <2> DEFINE r == [kind |-> "order", id |-> ui.sent + 1]
             h == ui.hurried \/ (ui.phase = "success" /\ Buy!OrdersInFlight # {})
  <2>1. /\ ui' = [ui EXCEPT !.error = FALSE, !.submitting = TRUE, !.hurried = h,
                            !.flight = ui.flight \union {r}, !.sent = ui.sent + 1]
        /\ ~ui.submitting \/ ui.phase = "success"
    BY <1>1, <1>5 DEF Buy!ClickBuy, Buy!Send, Buy!Panel, Buy!BuyDisabled
  <2>2. r \in Buy!Orders /\ r.kind = "order" /\ r.id = ui.sent + 1
    BY <1>1 DEF Buy!Panel, Buy!Orders
  <2>12. h \in BOOLEAN /\ (ui.submitting \/ Buy!OrdersInFlight = {} \/ h)
                     /\ (Buy!OrdersInFlight # {} => h)
    BY <1>1, <2>1 DEF Buy!Panel, Buy!OneOrderUnhurried
  <2> HIDE DEF r, h
  <2>3. ui' \in Buy!Panel
    <3> DEFINE flight == ui.flight \union {r}
               sent   == ui.sent + 1
    <3>1. flight \in SUBSET (Buy!Projections \union Buy!Orders) /\ sent \in Nat
      BY <1>1, <2>2 DEF Buy!Panel
    <3> HIDE DEF flight, sent
    <3>2. ui' = [ui EXCEPT !.error = FALSE, !.submitting = TRUE, !.hurried = h,
                           !.flight = flight, !.sent = sent]
      BY <2>1 DEF flight, sent
    <3> QED
      BY <1>1, <2>12, <3>1, <3>2 DEF Buy!Panel
  <2>4. Buy!InputOf(ui') = Buy!InputOf(ui)
    BY <1>1, <2>1 DEF Buy!Panel, Buy!InputOf
  <2>5. Buy!OrdersInFlight' = Buy!OrdersInFlight \union {r}
    BY <1>1, <2>1, <2>2 DEF Buy!Panel, Buy!OrdersInFlight
  <2>6. Buy!TypeOK'
    BY <1>1, <2>1, <2>2, <2>3 DEF Buy!Panel
  <2>7. Buy!AwaitedIsCurrent' /\ Buy!LastProjectionIsCurrent'
    BY <1>1, <2>1, <2>2, <2>4 DEF Buy!Panel, Buy!AwaitedIsCurrent, Buy!LastProjectionIsCurrent
  <2>8. Buy!OneOrderUnhurried'
    BY <1>1, <2>1 DEF Buy!Panel, Buy!OneOrderUnhurried
  <2>9. ui'.hurried \/ Buy!OrdersInFlight = {}
    BY <1>1, <2>1, <2>12 DEF Buy!Panel
  <2>10. Buy!OrdersOverlapOnlyAfterSuccess'
    BY <2>5, <2>9 DEF Buy!OrdersOverlapOnlyAfterSuccess
  <2>11. Buy!SubmittingAwaits'
    BY <2>5 DEF Buy!SubmittingAwaits
  <2> QED
    BY <2>6, <2>7, <2>8, <2>10, <2>11
<1>6. ASSUME NEW r \in ui.flight, r.kind = "order",
             NEW phase \in {"idle", "success"}, NEW error \in BOOLEAN,
             ui' = [Buy!Ended(r) EXCEPT !.phase = phase, !.error = error]
      PROVE  Buy!BuyInv'
  <2> DEFINE h == ui.hurried /\ Buy!OrdersInFlight # {r}
  <2>1. ui' = [ui EXCEPT !.flight = ui.flight \ {r}, !.submitting = FALSE, !.threw = FALSE,
                         !.hurried = h, !.phase = phase, !.error = error]
    BY <1>1, <1>6 DEF Buy!Ended, Buy!Panel
  <2>2. h \in BOOLEAN /\ (ui.hurried /\ Buy!OrdersInFlight # {r} => h)
    BY <1>1 DEF Buy!Panel
  <2> HIDE DEF h
  <2>3. ui' \in Buy!Panel
    <3> DEFINE flight == ui.flight \ {r}
    <3>1. flight \in SUBSET (Buy!Projections \union Buy!Orders)
      BY <1>1 DEF Buy!Panel
    <3> HIDE DEF flight
    <3>2. ui' = [ui EXCEPT !.flight = flight, !.submitting = FALSE, !.threw = FALSE,
                           !.hurried = h, !.phase = phase, !.error = error]
      BY <2>1 DEF flight
    <3> QED
      BY <1>1, <1>6, <2>2, <3>1, <3>2 DEF Buy!Panel
  <2>4. Buy!InputOf(ui') = Buy!InputOf(ui)
    BY <1>1, <2>1 DEF Buy!Panel, Buy!InputOf
  <2>5. Buy!OrdersInFlight' = Buy!OrdersInFlight \ {r} /\ r \in Buy!OrdersInFlight
    BY <1>1, <1>6, <2>1 DEF Buy!Panel, Buy!OrdersInFlight
  <2>6. Buy!TypeOK'
    BY <1>1, <2>1, <2>3 DEF Buy!Panel
  <2>7. Buy!AwaitedIsCurrent' /\ Buy!LastProjectionIsCurrent'
    BY <1>1, <2>1, <2>4 DEF Buy!Panel, Buy!AwaitedIsCurrent, Buy!LastProjectionIsCurrent
  <2>8. Buy!OrdersInFlight' # {} => ui'.hurried
    <3>1. SUFFICES ASSUME Buy!OrdersInFlight' # {} PROVE ui'.hurried
      OBVIOUS
    <3>2. PICK s \in Buy!OrdersInFlight : s # r
      BY <2>5, <3>1
    <3>3. ui.hurried
      BY <2>5, <3>2 DEF Buy!OrdersOverlapOnlyAfterSuccess
    <3> QED
      BY <1>1, <2>1, <2>2, <2>5, <3>2, <3>3 DEF Buy!Panel
  <2>9. ~ui'.submitting
    BY <1>1, <2>1 DEF Buy!Panel
  <2> QED
    BY <2>6, <2>7, <2>8, <2>9 DEF Buy!OrdersOverlapOnlyAfterSuccess, Buy!SubmittingAwaits,
       Buy!OneOrderUnhurried
<1>7. CASE Buy!OrderPlaced
  <2>1. PICK r \in ui.flight : r.kind = "order" /\ ui' = [Buy!Ended(r) EXCEPT !.phase = "success"]
    BY <1>7 DEF Buy!OrderPlaced
  <2>2. ui.error \in BOOLEAN /\ ui.phase \in {"idle", "success"}
    BY <1>1 DEF Buy!Panel
  <2>3. [Buy!Ended(r) EXCEPT !.phase = "success"]
          = [Buy!Ended(r) EXCEPT !.phase = "success", !.error = ui.error]
    BY <1>1 DEF Buy!Ended, Buy!Panel
  <2> HIDE DEF Buy!BuyInv, Buy!TypeOK
  <2> QED
    BY <1>6, <2>1, <2>2, <2>3
<1>8. CASE Buy!OrderRefused
  <2>1. PICK r \in ui.flight : r.kind = "order" /\ ui' = [Buy!Ended(r) EXCEPT !.error = TRUE]
    BY <1>8 DEF Buy!OrderRefused
  <2>2. /\ ui' = [Buy!Ended(r) EXCEPT !.phase = ui.phase, !.error = TRUE]
        /\ ui.phase \in {"idle", "success"}
    BY <1>1, <2>1 DEF Buy!Ended, Buy!Panel
  <2> QED
    BY <1>6, <2>1, <2>2
<1>9. CASE Buy!PhaseResets
  <2>1. ui' = [ui EXCEPT !.phase = "idle"] /\ ui' \in Buy!Panel
    BY <1>1, <1>9 DEF Buy!PhaseResets, Buy!Panel
  <2> QED
    BY <1>1, <2>1 DEF Buy!Panel, Buy!InputOf, Buy!OrdersInFlight, Buy!OrdersOverlapOnlyAfterSuccess,
       Buy!SubmittingAwaits, Buy!LastProjectionIsCurrent, Buy!OneOrderUnhurried,
       Buy!AwaitedIsCurrent
<1>10. CASE UNCHANGED ui
  BY <1>10 DEF Buy!InputOf, Buy!OrdersInFlight, Buy!OrdersOverlapOnlyAfterSuccess,
     Buy!SubmittingAwaits, Buy!LastProjectionIsCurrent, Buy!OneOrderUnhurried, Buy!AwaitedIsCurrent
<1> QED
  BY <1>2, <1>3, <1>4, <1>5, <1>7, <1>8, <1>9, <1>10, BuyUserInv DEF Buy!Next
-----------------------------------------------------------------------------
(* The sell form. *)
SellRequests == Sell!Loads \union Sell!Quotes \union Sell!Sold

LEMMA SellFields ==
    ASSUME Sell!SellInv
    PROVE  /\ ui \in Sell!Forms /\ second \in [Answers -> Sell!Held]
           /\ ui.answer \in Answers /\ ui.tab \in {"buy", "sell"} /\ ui.shares \in Sell!Shares
           /\ ui.loads \in Nat /\ ui.side \in Sell!Sides /\ ui.amount \in Sell!Amounts
           /\ ui.loading \in BOOLEAN /\ ui.selling \in BOOLEAN
           /\ ui.flight \in SUBSET SellRequests
  BY DEF Sell!SellInv, Sell!TypeOK, Sell!Forms, SellRequests

LEMMA SellRequestTypes ==
    \A r \in SellRequests :
        /\ r.kind = "sale" => r \in Sell!Sold /\ r.of \in Sell!Sales /\ r.quoted \in Sell!Sales
        /\ r.kind \in {"requote", "quote", "confirm"} => r \in Sell!Quotes /\ r.of \in Sell!Sales
        /\ r.kind \in {"load", "refresh"} => r \in Sell!Loads /\ r.answer \in Answers /\ r.load \in Nat
  BY DEF SellRequests, Sell!Sold, Sell!Quotes, Sell!Loads

(* The sales: no step but that of a sale touches them. *)
LEMMA SalesKept ==
    ASSUME Sell!SellInv, ui'.selling = ui.selling,
           \A r \in ui'.flight : r.kind \in {"confirm", "sale"} => r \in ui.flight
    PROVE  Sell!SaleAsQuoted' /\ Sell!OneSaleAtATime'
<1>1. \A r \in Sell!Pending("confirm")' \union Sell!Pending("sale")' :
          r \in Sell!Pending("confirm") \union Sell!Pending("sale")
  BY DEF Sell!Pending
<1>2. \A r \in Sell!Pending("sale")' : r \in Sell!Pending("sale")
  BY DEF Sell!Pending
<1> QED
  BY <1>1, <1>2 DEF Sell!SellInv, Sell!SaleAsQuoted, Sell!OneSaleAtATime

(* The loads: with the tab and the answer unchanged no load is sent. *)
LEMMA LoadsKept ==
    ASSUME Sell!SellInv, ui'.tab = ui.tab, ui'.answer = ui.answer, ui'.loads = ui.loads,
           \/ ui'.shares = ui.shares /\ ui'.loading = ui.loading
           \/ ui'.shares.of \in {None, ui.answer},
           \A r \in ui'.flight : \/ r \in ui.flight
                                 \/ r.kind \notin {"load", "refresh"}
                                 \/ r.kind = "refresh" /\ r.answer = ui.answer
    PROVE  Sell!ForeignSharesOnlyByLateLoad' /\ Sell!LoadsAreOfTheAnswer'
<1>1. Sell!ForeignSharesOnlyByLateLoad'
  BY DEF Sell!SellInv, Sell!ForeignSharesOnlyByLateLoad
<1>2. \A r \in Sell!Pending("load")' : r \in Sell!Pending("load")
  BY DEF Sell!Pending
<1>3. \A r \in Sell!Pending("refresh")' : r \in Sell!Pending("refresh") \/ r.answer = ui.answer
  BY DEF Sell!Pending
<1>4. Sell!LoadsAreOfTheAnswer'
  BY <1>2, <1>3 DEF Sell!SellInv, Sell!LoadsAreOfTheAnswer
<1> QED
  BY <1>1, <1>4

LEMMA SellInitInv == Sell!ConstantsOK /\ Sell!Init => Sell!SellInv
<1> SUFFICES ASSUME Sell!ConstantsOK, Sell!Init
             PROVE  Sell!SellInv
  OBVIOUS
<1>1. PICK first \in Answers : first = CHOOSE a \in Answers : TRUE
  BY DEF Sell!ConstantsOK
<1>2. second \in [Answers -> Sell!Held]
  BY DEF Sell!ConstantsOK, Sell!Init, Sell!Held
<1>3. Sell!NoShares \in Sell!Shares /\ 1 \in Sell!Amounts
  BY DEF Sell!NoShares, Sell!Shares, Sell!Held, Sell!ConstantsOK, Sell!Amounts
<1> DEFINE shares == Sell!NoShares
<1>4. shares \in Sell!Shares /\ shares.of = None
  BY <1>3 DEF Sell!NoShares
<1> HIDE DEF shares
<1>5. ui = [open |-> TRUE, tab |-> "buy", answer |-> first, shares |-> shares,
            loading |-> FALSE, loads |-> 0, side |-> "YES", amount |-> 1, quote |-> None,
            quoting |-> FALSE, selling |-> FALSE, flight |-> {}]
  BY <1>1 DEF Sell!Init, shares
<1>6. ui \in Sell!Forms
  BY <1>3, <1>4, <1>5 DEF Sell!Forms, Sell!Sides
<1>7. ui.flight = {} /\ ui.tab = "buy"
  BY <1>5
<1> QED
  BY <1>2, <1>6, <1>7 DEF Sell!SellInv, Sell!TypeOK, Sell!SaleAsQuoted, Sell!OneSaleAtATime,
     Sell!ForeignSharesOnlyByLateLoad, Sell!LoadsAreOfTheAnswer, Sell!Pending

(* What the user edits: the side, the amount and the quote. *)
LEMMA SellEdited ==
    ASSUME Sell!SellInv, NEW side \in Sell!Sides, NEW amount \in Sell!Amounts,
           NEW quote \in BOOLEAN \union {None},
           ui' = [ui EXCEPT !.side = side, !.amount = amount, !.quote = quote], second' = second
    PROVE  Sell!SellInv'
<1>1. /\ ui' \in Sell!Forms /\ ui'.flight = ui.flight /\ ui'.selling = ui.selling
      /\ ui'.tab = ui.tab /\ ui'.answer = ui.answer /\ ui'.loads = ui.loads
      /\ ui'.shares = ui.shares /\ ui'.loading = ui.loading
  BY SellFields DEF Sell!Forms
<1>2. Sell!TypeOK'
  BY <1>1, SellFields DEF Sell!TypeOK
<1> QED
  BY <1>1, <1>2, SalesKept, LoadsKept DEF Sell!SellInv

(* An input of the form stays within what can be sold. *)
LEMMA CappedAmounts ==
    ASSUME Sell!ConstantsOK, Sell!SellInv, Sell!FormShown, NEW n \in Nat
    PROVE  Sell!Capped(n) \in Sell!Amounts
<1>1. ui.shares.n \in Sell!Held /\ ui.side \in Sell!Sides
  BY SellFields DEF Sell!Shares
<1> DEFINE yes == ui.shares.n["YES"]
           no == ui.shares.n["NO"]
<1>2. /\ yes \in 0..MaxHeld /\ no \in 0..MaxHeld
      /\ ui.shares.n[ui.side] \in {yes, no}
  BY <1>1 DEF Sell!Held, Sell!Sides
<1>3. yes >= 1 \/ no >= 1
  BY DEF Sell!FormShown, Sell!Owned
<1>4. Sell!MaxSellCredits = IF ui.shares.n[ui.side] > 0 THEN ui.shares.n[ui.side] ELSE yes + no
  BY DEF Sell!MaxSellCredits, Sell!SellableOf, Sell!TotalValue
<1> HIDE DEF yes, no
<1>5. Sell!MaxSellCredits \in 1..(2 * MaxHeld)
  BY <1>2, <1>3, <1>4 DEF Sell!ConstantsOK
<1> HIDE DEF Sell!MaxSellCredits
<1> QED
  BY <1>5 DEF Sell!Capped, Sell!Amounts, Sell!ConstantsOK

LEMMA SellEdits ==
    ASSUME Sell!ConstantsOK, Sell!SellInv, Sell!UserEdits
    PROVE  Sell!SellInv'
<1>1. /\ ui.side \in Sell!Sides /\ ui.amount \in Sell!Amounts /\ ui.quote \in BOOLEAN \union {None}
      /\ 1 \in Sell!Amounts /\ Sell!Amounts \subseteq Nat
  BY SellFields DEF Sell!Amounts, Sell!ConstantsOK, Sell!Forms
<1>2. ASSUME NEW s \in Sell!Sides, Sell!ChooseSide(s)
      PROVE  Sell!SellInv'
  <2>1. ui' = [ui EXCEPT !.side = s, !.amount = 1, !.quote = None] /\ second' = second
    BY <1>2 DEF Sell!ChooseSide
  <2> QED
    BY <1>1, <2>1, SellEdited
<1>3. ASSUME NEW n \in Sell!Amounts, Sell!TypeAmount(n)
      PROVE  Sell!SellInv'
  <2> DEFINE amount == Sell!Capped(n)
  <2>1. amount \in Sell!Amounts
    BY <1>1, <1>3, CappedAmounts DEF Sell!TypeAmount
  <2>2. ui' = [ui EXCEPT !.side = ui.side, !.amount = amount, !.quote = None] /\ second' = second
    BY <1>3, SellFields DEF Sell!TypeAmount, Sell!Forms
  <2> HIDE DEF amount
  <2> QED
    BY <1>1, <2>1, <2>2, SellEdited
<1>4. ASSUME NEW n \in Sell!Amounts, Sell!SelectSuggested(n)
      PROVE  Sell!SellInv'
  <2>1. ui' = [ui EXCEPT !.side = ui.side, !.amount = n, !.quote = None] /\ second' = second
    BY <1>4, SellFields DEF Sell!SelectSuggested, Sell!Forms
  <2> QED
    BY <1>1, <2>1, SellEdited
<1>5. CASE Sell!StepAmount
  <2>1. PICK amount \in {Sell!Capped(ui.amount + 1), IF ui.amount <= 2 THEN 1 ELSE ui.amount - 1} :
          ui' = [ui EXCEPT !.amount = amount] /\ second' = second
    BY <1>5 DEF Sell!StepAmount
  <2>2. Sell!Capped(ui.amount + 1) \in Sell!Amounts
    BY <1>1, <1>5, CappedAmounts DEF Sell!StepAmount
  <2>3. amount \in Sell!Amounts
    BY <1>1, <2>2 DEF Sell!Amounts, Sell!ConstantsOK
  <2>4. ui' = [ui EXCEPT !.side = ui.side, !.amount = amount, !.quote = ui.quote]
    BY <2>1, SellFields DEF Sell!Forms
  <2> QED
    BY <1>1, <2>1, <2>3, <2>4, SellEdited
<1> QED
  BY <1>2, <1>3, <1>4, <1>5 DEF Sell!UserEdits

(* What is asked and answered beside a sale: quotes and what the live price refreshes. *)
LEMMA SellAsks ==
    ASSUME Sell!SellInv, ui' \in Sell!Forms, second' = second,
           ui'.selling = ui.selling, ui'.tab = ui.tab, ui'.answer = ui.answer,
           ui'.loads = ui.loads, ui'.loading = ui.loading, ui'.amount = ui.amount,
           ui'.shares = ui.shares \/ ui'.shares.of = ui.answer,
           \A r \in ui'.flight : \/ r \in ui.flight
                                 \/ r.kind \in {"quote", "requote"}
                                 \/ r.kind = "refresh" /\ r.answer = ui.answer
    PROVE  Sell!SellInv' /\ ui'.amount = ui.amount /\ ui'.loads = ui.loads
<1>1. Sell!TypeOK'
  BY SellFields DEF Sell!TypeOK
<1>2. Sell!SaleAsQuoted' /\ Sell!OneSaleAtATime'
  BY SalesKept
<1>3. Sell!ForeignSharesOnlyByLateLoad' /\ Sell!LoadsAreOfTheAnswer'
  <2>1. \/ ui'.shares = ui.shares /\ ui'.loading = ui.loading
        \/ ui'.shares.of \in {None, ui.answer}
    OBVIOUS
  <2>2. \A r \in ui'.flight : \/ r \in ui.flight
                              \/ r.kind \notin {"load", "refresh"}
                              \/ r.kind = "refresh" /\ r.answer = ui.answer
    OBVIOUS
  <2> QED
    BY <2>1, <2>2, LoadsKept
<1> QED
  BY <1>1, <1>2, <1>3 DEF Sell!SellInv

LEMMA SaleDataType == Sell!SellInv => Sell!SaleData \in Sell!Sales
  BY SellFields DEF Sell!SaleData, Sell!Sales

LEMMA SellAnswers ==
    ASSUME Sell!ConstantsOK, Sell!SellInv,
           \/ Sell!RequestQuote \/ Sell!QuoteAnswered \/ Sell!RequoteAnswered
           \/ Sell!PollPrice \/ Sell!RefreshAnswered \/ Sell!PollEnd
    PROVE  Sell!SellInv' /\ ui'.amount = ui.amount /\ ui'.loads = ui.loads
<1>1. /\ ui \in Sell!Forms /\ ui.shares \in Sell!Shares
      /\ ui.flight \in SUBSET SellRequests /\ \A t \in ui.flight : t \in ui.flight
  BY SellFields DEF Sell!Forms
<1>2. CASE Sell!PollEnd
  <2>1. /\ ui' \in Sell!Forms /\ second' = second
        /\ ui'.selling = ui.selling /\ ui'.tab = ui.tab /\ ui'.answer = ui.answer
        /\ ui'.loads = ui.loads /\ ui'.loading = ui.loading /\ ui'.amount = ui.amount
        /\ ui'.shares = ui.shares /\ \A t \in ui'.flight : t \in ui.flight
    BY <1>1, <1>2 DEF Sell!PollEnd, Sell!Forms
  <2> QED
    BY <2>1, SellAsks
<1>3. CASE Sell!RequestQuote
  <2> DEFINE r == [kind |-> "quote", of |-> Sell!SaleData]
             flight == ui.flight \union {r}
  <2>1. r \in SellRequests /\ r.kind = "quote"
    BY SaleDataType DEF SellRequests, Sell!Quotes
  <2>2. ui' = [ui EXCEPT !.quoting = TRUE, !.flight = flight] /\ second' = second
    BY <1>1, <1>3 DEF Sell!RequestQuote, Sell!Send, Sell!Forms
  <2> HIDE DEF r
  <2>3. flight \in SUBSET SellRequests /\ \A t \in flight : t \in ui.flight \/ t.kind = "quote"
    BY <1>1, <2>1
  <2> HIDE DEF flight
  <2>4. /\ ui' \in Sell!Forms /\ second' = second
        /\ ui'.selling = ui.selling /\ ui'.tab = ui.tab /\ ui'.answer = ui.answer
        /\ ui'.loads = ui.loads /\ ui'.loading = ui.loading /\ ui'.amount = ui.amount
        /\ ui'.shares = ui.shares /\ ui'.flight = flight
    BY <1>1, <2>2, <2>3 DEF Sell!Forms, SellRequests
  <2>5. \A t \in ui'.flight : t \in ui.flight \/ t.kind \in {"quote", "requote"}
    BY <2>3, <2>4
  <2> QED
    BY <2>4, <2>5, SellAsks
<1>4. CASE Sell!QuoteAnswered
  <2>1. PICK r \in Sell!Pending("quote"), quote \in BOOLEAN \union {None} :
          ui' = [ui EXCEPT !.flight = @ \ {r}, !.quote = quote, !.quoting = FALSE]
    BY <1>4 DEF Sell!QuoteAnswered
  <2> DEFINE flight == ui.flight \ {r}
  <2>2. flight \in SUBSET SellRequests /\ \A t \in flight : t \in ui.flight
    BY <1>1
  <2>3. ui' = [ui EXCEPT !.flight = flight, !.quote = quote, !.quoting = FALSE]
    BY <2>1
  <2> HIDE DEF flight
  <2>4. /\ ui' \in Sell!Forms /\ second' = second
        /\ ui'.selling = ui.selling /\ ui'.tab = ui.tab /\ ui'.answer = ui.answer
        /\ ui'.loads = ui.loads /\ ui'.loading = ui.loading /\ ui'.amount = ui.amount
        /\ ui'.shares = ui.shares /\ ui'.flight = flight
    BY <1>1, <1>4, <2>2, <2>3 DEF Sell!Forms, SellRequests, Sell!QuoteAnswered
  <2> QED
    BY <2>2, <2>4, SellAsks
<1>5. CASE Sell!RequoteAnswered
  <2>1. PICK r \in Sell!Pending("requote"), allowed \in BOOLEAN \union {ui.quote} :
          ui' = [ui EXCEPT !.flight = @ \ {r}, !.quote = allowed]
    BY <1>5 DEF Sell!RequoteAnswered
  <2> DEFINE flight == ui.flight \ {r}
  <2>2. flight \in SUBSET SellRequests /\ \A t \in flight : t \in ui.flight
    BY <1>1
  <2>3. ui' = [ui EXCEPT !.flight = flight, !.quote = allowed]
    BY <2>1
  <2> HIDE DEF flight
  <2>4. /\ ui' \in Sell!Forms /\ second' = second
        /\ ui'.selling = ui.selling /\ ui'.tab = ui.tab /\ ui'.answer = ui.answer
        /\ ui'.loads = ui.loads /\ ui'.loading = ui.loading /\ ui'.amount = ui.amount
        /\ ui'.shares = ui.shares /\ ui'.flight = flight
    BY <1>1, <1>5, <2>2, <2>3 DEF Sell!Forms, SellRequests, Sell!RequoteAnswered
  <2> QED
    BY <2>2, <2>4, SellAsks
<1>6. CASE Sell!RefreshAnswered
  <2>1. PICK r \in Sell!Pending("refresh"), ok \in BOOLEAN :
          ui' = [ui EXCEPT !.flight = @ \ {r},
                           !.shares = IF ok THEN Sell!SharesFrom(r) ELSE @]
    BY <1>6 DEF Sell!RefreshAnswered
  <2> DEFINE flight == ui.flight \ {r}
             shares == IF ok THEN Sell!SharesFrom(r) ELSE ui.shares
  <2>2. r \in SellRequests /\ r.kind = "refresh" /\ r.answer = ui.answer
    BY <1>1 DEF Sell!Pending, Sell!SellInv, Sell!LoadsAreOfTheAnswer
  <2>3. r.answer \in Answers /\ r.load \in Nat
    BY <2>2, SellRequestTypes
  <2>4. shares \in Sell!Shares /\ (shares = ui.shares \/ shares.of = ui.answer)
    BY <1>1, <2>2, <2>3, SellFields DEF Sell!SharesFrom, Sell!Shares
  <2>5. flight \in SUBSET SellRequests /\ \A t \in flight : t \in ui.flight
    BY <1>1
  <2>6. ui' = [ui EXCEPT !.flight = flight, !.shares = shares]
    BY <2>1
  <2> HIDE DEF flight, shares
  <2>7. /\ ui' \in Sell!Forms /\ second' = second
        /\ ui'.selling = ui.selling /\ ui'.tab = ui.tab /\ ui'.answer = ui.answer
        /\ ui'.loads = ui.loads /\ ui'.loading = ui.loading /\ ui'.amount = ui.amount
        /\ ui'.shares = shares /\ ui'.flight = flight
    BY <1>1, <1>6, <2>4, <2>5, <2>6 DEF Sell!Forms, SellRequests, Sell!RefreshAnswered
  <2> QED
    BY <2>4, <2>5, <2>7, SellAsks
<1>7. CASE Sell!PollPrice
  <2> DEFINE left == {t \in ui.flight : t.kind \notin {"refresh", "requote"}}
             clean == [ui EXCEPT !.flight = left]
             r == [kind |-> "refresh", answer |-> ui.answer, load |-> ui.loads]
             q == [kind |-> "requote", of |-> Sell!SaleData]
  <2>1. r \in SellRequests /\ r.kind = "refresh" /\ r.answer = ui.answer
    BY SellFields DEF SellRequests, Sell!Loads
  <2>2. q \in SellRequests /\ q.kind = "requote"
    BY SaleDataType DEF SellRequests, Sell!Quotes
  <2>3. /\ second' = second
        /\ \/ ui' = clean
           \/ ui' = Sell!Send(clean, r)
           \/ ui' = Sell!Send(Sell!Send(clean, r), q)
    BY <1>7 DEF Sell!PollPrice, Sell!PriceCleanup, Sell!Without
  <2>4. left \in SUBSET SellRequests /\ \A t \in left : t \in ui.flight
    BY <1>1
  <2> HIDE DEF left, r, q
  <2>5. PICK flight \in {left, left \union {r}, left \union {r} \union {q}} :
          ui' = [ui EXCEPT !.flight = flight]
    <3>1. clean.flight = left
      BY SellFields DEF Sell!Forms
    <3>2. Sell!Send(clean, r) = [ui EXCEPT !.flight = left \union {r}]
      BY <3>1, SellFields DEF Sell!Send, Sell!Forms
    <3>3. Sell!Send(Sell!Send(clean, r), q) = [ui EXCEPT !.flight = left \union {r} \union {q}]
      BY <3>2, SellFields DEF Sell!Send, Sell!Forms
    <3> QED
      BY <2>3, <3>2, <3>3
  <2>6. /\ flight \in SUBSET SellRequests
        /\ \A t \in flight : \/ t \in ui.flight
                             \/ t.kind \in {"quote", "requote"}
                             \/ t.kind = "refresh" /\ t.answer = ui.answer
    BY <2>1, <2>2, <2>4
  <2>7. /\ ui' \in Sell!Forms /\ second' = second
        /\ ui'.selling = ui.selling /\ ui'.tab = ui.tab /\ ui'.answer = ui.answer
        /\ ui'.loads = ui.loads /\ ui'.loading = ui.loading /\ ui'.amount = ui.amount
        /\ ui'.shares = ui.shares /\ ui'.flight = flight
    BY <1>1, <2>3, <2>5, <2>6 DEF Sell!Forms, SellRequests
  <2> QED
    BY <2>6, <2>7, SellAsks
<1> QED
  BY <1>2, <1>3, <1>4, <1>5, <1>6, <1>7

(* A change of the tab or the answer, with the effect that loads the shares. *)
LEMMA SellSwitches ==
    ASSUME Sell!ConstantsOK, Sell!SellInv, NEW tab \in {"buy", "sell"}, NEW answer \in Answers,
           NEW quote \in BOOLEAN \union {None}, NEW flight \in SUBSET ui.flight,
           answer # ui.answer => \A r \in flight : r.kind # "refresh",
           ui' = Sell!LoadEffect([ui EXCEPT !.tab = tab, !.answer = answer, !.quote = quote,
                                            !.flight = flight]),
           second' = second
    PROVE  /\ Sell!SellInv' /\ ui'.amount = ui.amount
           /\ ui'.loads # ui.loads => ui'.tab # ui.tab \/ ui'.answer # ui.answer
<1>1. flight \in SUBSET SellRequests /\ \A r \in flight : r \in ui.flight
  BY SellFields
<1>2. CASE tab = ui.tab /\ answer = ui.answer
  <2>1. ui' = [ui EXCEPT !.tab = tab, !.answer = answer, !.quote = quote, !.flight = flight]
    BY <1>2, SellFields DEF Sell!LoadEffect, Sell!Forms
  <2>2. /\ ui' \in Sell!Forms
        /\ ui'.selling = ui.selling /\ ui'.tab = ui.tab /\ ui'.answer = ui.answer
        /\ ui'.loads = ui.loads /\ ui'.loading = ui.loading /\ ui'.amount = ui.amount
        /\ ui'.shares = ui.shares /\ ui'.flight = flight
    BY <1>1, <1>2, <2>1, SellFields DEF Sell!Forms, SellRequests
  <2>3. Sell!SellInv' /\ ui'.amount = ui.amount /\ ui'.loads = ui.loads
    BY <1>1, <2>2, SellAsks
  <2> QED
    BY <2>3
<1>3. CASE ~(tab = ui.tab /\ answer = ui.answer) /\ tab = "buy"
  <2> DEFINE shares == Sell!NoShares
  <2>1. shares \in Sell!Shares
    BY DEF Sell!NoShares, Sell!Shares, Sell!Held, Sell!ConstantsOK
  <2>2. ui' = [ui EXCEPT !.tab = tab, !.answer = answer, !.quote = None, !.flight = flight,
                         !.shares = shares]
    BY <1>3, SellFields DEF Sell!LoadEffect, Sell!Forms
  <2> HIDE DEF shares
  <2>3. /\ ui' \in Sell!Forms /\ ui'.flight = flight /\ ui'.selling = ui.selling
        /\ ui'.tab = "buy" /\ ui'.answer = answer /\ ui'.loads = ui.loads /\ ui'.amount = ui.amount
    BY <1>1, <1>3, <2>1, <2>2, SellFields DEF Sell!Forms, SellRequests
  <2>4. Sell!TypeOK'
    BY <2>3, SellFields DEF Sell!TypeOK
  <2>5. Sell!SaleAsQuoted' /\ Sell!OneSaleAtATime'
    BY <1>1, <2>3, SalesKept
  <2>6. Sell!ForeignSharesOnlyByLateLoad' /\ Sell!LoadsAreOfTheAnswer'
    BY <2>3 DEF Sell!ForeignSharesOnlyByLateLoad, Sell!LoadsAreOfTheAnswer, Sell!SellInv, Sell!Pending
  <2> QED
    BY <2>3, <2>4, <2>5, <2>6 DEF Sell!SellInv
<1>4. CASE ~(tab = ui.tab /\ answer = ui.answer) /\ tab = "sell"
  <2> DEFINE loads == ui.loads + 1
             r == [kind |-> "load", answer |-> answer, load |-> loads]
             sent == flight \union {r}
  <2>1. loads \in Nat /\ loads > ui.loads
    BY SellFields
  <2>2. ui' = [ui EXCEPT !.tab = tab, !.answer = answer, !.quote = quote, !.loading = TRUE,
                         !.loads = loads, !.flight = sent]
    <3>1. ui.loads \in Nat /\ DOMAIN ui = DOMAIN [ui EXCEPT !.tab = tab, !.answer = answer, !.quote = quote, !.flight = flight]
      BY SellFields
    <3> QED
      BY <1>4, SellFields DEF Sell!LoadEffect, Sell!Send, Sell!Forms
  <2> HIDE DEF loads
  <2>3. r \in SellRequests /\ r.kind = "load" /\ r.answer = answer /\ r.load = loads
    BY <2>1 DEF SellRequests, Sell!Loads
  <2> HIDE DEF r
  <2>4. sent \in SUBSET SellRequests /\ \A t \in sent : t \in flight \/ t = r
    BY <1>1, <2>3
  <2> HIDE DEF sent
  <2>5. /\ ui' \in Sell!Forms /\ ui'.flight = sent /\ ui'.selling = ui.selling /\ ui'.loading
        /\ ui'.tab = "sell" /\ ui'.answer = answer /\ ui'.loads = loads /\ ui'.amount = ui.amount
    BY <1>4, <2>1, <2>2, <2>4, SellFields DEF Sell!Forms, SellRequests
  <2>6. Sell!TypeOK'
    BY <2>5, SellFields DEF Sell!TypeOK
  <2>7. Sell!SaleAsQuoted' /\ Sell!OneSaleAtATime'
    BY <1>1, <2>3, <2>4, <2>5, SalesKept
  <2>8. Sell!ForeignSharesOnlyByLateLoad'
    BY <2>5 DEF Sell!ForeignSharesOnlyByLateLoad
  <2>9. Sell!LoadsAreOfTheAnswer'
    <3>1. \A t \in Sell!Pending("load")' : t = r \/ (t.load \in Nat /\ t.load <= ui.loads)
      BY <1>1, <2>4, <2>5, SellFields, SellRequestTypes DEF Sell!Pending, Sell!SellInv,
         Sell!LoadsAreOfTheAnswer
    <3>2. \A t \in Sell!Pending("load")' :
              /\ t.load <= ui'.loads
              /\ ui'.tab = "sell" /\ t.load = ui'.loads => t.answer = ui'.answer
      BY <2>1, <2>3, <2>5, <3>1, SellFields
    <3>3. \A t \in Sell!Pending("refresh")' : t.answer = ui'.answer
      BY <1>1, <2>3, <2>4, <2>5 DEF Sell!Pending, Sell!SellInv, Sell!LoadsAreOfTheAnswer
    <3> QED
      BY <3>2, <3>3 DEF Sell!LoadsAreOfTheAnswer
  <2>10. ui'.tab # ui.tab \/ ui'.answer # ui.answer
    BY <1>4, <2>5
  <2> QED
    BY <2>5, <2>6, <2>7, <2>8, <2>9, <2>10 DEF Sell!SellInv
<1> QED
  BY <1>2, <1>3, <1>4

LEMMA SellChooses ==
    ASSUME Sell!ConstantsOK, Sell!SellInv,
           \/ \E t \in {"buy", "sell"} : Sell!SwitchTab(t)
           \/ \E a \in Answers : Sell!Select(a) \/ Sell!SelectOnChart(a)
    PROVE  /\ Sell!SellInv' /\ ui'.amount = ui.amount
           /\ ui'.loads # ui.loads => ui'.tab # ui.tab \/ ui'.answer # ui.answer
<1>1. ui.quote \in BOOLEAN \union {None}
  BY SellFields DEF Sell!Forms
<1> DEFINE left == {t \in ui.flight : t.kind \notin {"refresh", "requote"}}
<1>2. left \in SUBSET ui.flight /\ \A r \in left : r.kind # "refresh"
  OBVIOUS
<1>3. ASSUME NEW t \in {"buy", "sell"}, Sell!SwitchTab(t)
      PROVE  /\ Sell!SellInv' /\ ui'.amount = ui.amount
             /\ ui'.loads # ui.loads => ui'.tab # ui.tab \/ ui'.answer # ui.answer
  <2>1. [ui EXCEPT !.tab = t] = [ui EXCEPT !.tab = t, !.answer = ui.answer, !.quote = ui.quote,
                                            !.flight = ui.flight]
    BY SellFields DEF Sell!Forms
  <2>2. /\ ui' = Sell!LoadEffect([ui EXCEPT !.tab = t, !.answer = ui.answer, !.quote = ui.quote,
                                            !.flight = ui.flight])
        /\ second' = second
    BY <1>3, <2>1 DEF Sell!SwitchTab
  <2> QED
    BY <1>1, <2>2, SellFields, SellSwitches
<1>4. ASSUME NEW a \in Answers, Sell!Select(a)
      PROVE  /\ Sell!SellInv' /\ ui'.amount = ui.amount
             /\ ui'.loads # ui.loads => ui'.tab # ui.tab \/ ui'.answer # ui.answer
  <2>1. PICK flight \in SUBSET ui.flight :
          /\ a # ui.answer => flight = left
          /\ ui' = Sell!LoadEffect([ui EXCEPT !.tab = ui.tab, !.answer = a, !.quote = None,
                                              !.flight = flight])
    <3>1. CASE a = ui.answer
      <4>1. [ui EXCEPT !.answer = a, !.quote = None]
              = [ui EXCEPT !.tab = ui.tab, !.answer = a, !.quote = None, !.flight = ui.flight]
        BY SellFields DEF Sell!Forms
      <4> QED
        BY <1>4, <3>1, <4>1 DEF Sell!Select
    <3>2. CASE a # ui.answer
      <4>1. Sell!PriceCleanup([ui EXCEPT !.answer = a, !.quote = None])
              = [ui EXCEPT !.tab = ui.tab, !.answer = a, !.quote = None, !.flight = left]
        BY SellFields DEF Sell!Forms, Sell!PriceCleanup, Sell!Without
      <4> QED
        BY <1>2, <1>4, <3>2, <4>1 DEF Sell!Select
    <3> QED
      BY <3>1, <3>2
  <2> HIDE DEF left
  <2>2. /\ ui.tab \in {"buy", "sell"} /\ None \in BOOLEAN \union {None}
        /\ a # ui.answer => \A r \in flight : r.kind # "refresh"
    BY <1>2, <2>1, SellFields
  <2>3. second' = second
    BY <1>4 DEF Sell!Select
  <2> QED
    BY <2>1, <2>2, <2>3, SellSwitches
<1>5. ASSUME NEW a \in Answers, Sell!SelectOnChart(a)
      PROVE  /\ Sell!SellInv' /\ ui'.amount = ui.amount
             /\ ui'.loads # ui.loads => ui'.tab # ui.tab \/ ui'.answer # ui.answer
  <2>1. Sell!PriceCleanup([ui EXCEPT !.answer = a])
          = [ui EXCEPT !.tab = ui.tab, !.answer = a, !.quote = ui.quote, !.flight = left]
    BY SellFields DEF Sell!Forms, Sell!PriceCleanup, Sell!Without
  <2>2. /\ ui' = Sell!LoadEffect([ui EXCEPT !.tab = ui.tab, !.answer = a, !.quote = ui.quote,
                                            !.flight = left])
        /\ second' = second
    BY <1>5, <2>1 DEF Sell!SelectOnChart
  <2> HIDE DEF left
  <2> QED
    BY <1>1, <1>2, <2>2, SellFields, SellSwitches
<1> QED
  BY <1>3, <1>4, <1>5

(* The answer to a load shows the shares of its own answer, the latest those selected. *)
LEMMA SellLoaded ==
    ASSUME Sell!ConstantsOK, Sell!SellInv, Sell!LoadAnswered
    PROVE  Sell!SellInv' /\ ui'.loads = ui.loads
<1>1. PICK r \in Sell!Pending("load"), ok \in BOOLEAN :
        LET done == [ui EXCEPT !.flight = @ \ {r}, !.loading = FALSE]
            side == IF second[r.answer]["YES"] >= 1 \/ second[r.answer]["NO"] < 1
                    THEN "YES" ELSE "NO"
            worth == Sell!SellableOf(second[r.answer], side)
        IN  ui' = IF ok
                  THEN [done EXCEPT !.shares = Sell!SharesFrom(r), !.side = side,
                                    !.amount = IF worth < 1 THEN 1 ELSE worth,
                                    !.quote = None]
                  ELSE [done EXCEPT !.shares = Sell!NoShares]
  BY DEF Sell!LoadAnswered
<1> DEFINE flight == ui.flight \ {r}
           side == IF second[r.answer]["YES"] >= 1 \/ second[r.answer]["NO"] < 1 THEN "YES" ELSE "NO"
           worth == Sell!SellableOf(second[r.answer], side)
           amount == IF worth < 1 THEN 1 ELSE worth
           shares == IF ok THEN Sell!SharesFrom(r) ELSE Sell!NoShares
<1>2. /\ r \in ui.flight /\ r \in SellRequests /\ r.kind = "load" /\ r.answer \in Answers
      /\ r.load \in Nat
  BY SellFields, SellRequestTypes DEF Sell!Pending
<1>3. side \in Sell!Sides /\ amount \in Sell!Amounts
  <2>1. second[r.answer] \in Sell!Held
    BY <1>2, SellFields
  <2>2. \A n \in Sell!Held, s \in Sell!Sides : Sell!SellableOf(n, s) \in 0..(2 * MaxHeld)
    BY DEF Sell!Held, Sell!SellableOf, Sell!TotalValue, Sell!Sides, Sell!ConstantsOK
  <2>3. side \in Sell!Sides
    BY DEF Sell!Sides
  <2> HIDE DEF side
  <2>4. worth \in 0..(2 * MaxHeld)
    BY <2>1, <2>2, <2>3
  <2> HIDE DEF worth
  <2> QED
    BY <2>3, <2>4 DEF Sell!Amounts, Sell!ConstantsOK
<1>4. /\ shares \in Sell!Shares
      /\ ok => shares.of = r.answer /\ shares.kind = "load" /\ shares.load = r.load
      /\ ~ok => shares.of = None
  <2>1. Sell!NoShares \in Sell!Shares /\ Sell!NoShares.of = None
    BY DEF Sell!NoShares, Sell!Shares, Sell!Held, Sell!ConstantsOK
  <2>2. second[r.answer] \in Sell!Held
    BY <1>2, SellFields
  <2> QED
    BY <1>2, <2>1, <2>2 DEF Sell!SharesFrom, Sell!Shares
<1>5. flight \in SUBSET SellRequests /\ \A t \in flight : t \in ui.flight
  BY SellFields
<1>6. \/ ui' = [ui EXCEPT !.flight = flight, !.loading = FALSE, !.shares = shares, !.side = side,
                          !.amount = amount, !.quote = None]
      \/ ui' = [ui EXCEPT !.flight = flight, !.loading = FALSE, !.shares = shares]
  BY <1>1
<1> HIDE DEF flight, side, worth, amount, shares
<1>7. /\ ui' \in Sell!Forms /\ ui'.selling = ui.selling /\ ui'.tab = ui.tab
      /\ ui'.answer = ui.answer /\ ui'.loads = ui.loads /\ ui'.shares = shares
      /\ ui'.flight = flight
  <2>1. ui \in Sell!Forms
    BY SellFields
  <2>2. CASE ui' = [ui EXCEPT !.flight = flight, !.loading = FALSE, !.shares = shares, !.side = side,
                              !.amount = amount, !.quote = None]
    BY <1>3, <1>4, <1>5, <2>1, <2>2 DEF Sell!Forms, SellRequests
  <2>3. CASE ui' = [ui EXCEPT !.flight = flight, !.loading = FALSE, !.shares = shares]
    BY <1>3, <1>4, <1>5, <2>1, <2>3 DEF Sell!Forms, SellRequests
  <2> QED
    BY <1>6, <2>2, <2>3
<1>8. Sell!TypeOK'
  BY <1>7, SellFields DEF Sell!TypeOK, Sell!LoadAnswered
<1>9. Sell!SaleAsQuoted' /\ Sell!OneSaleAtATime'
  BY <1>5, <1>7, SalesKept
<1>10. Sell!ForeignSharesOnlyByLateLoad'
  <2>1. /\ r.load <= ui.loads
        /\ ui.tab = "sell" /\ r.load = ui.loads => r.answer = ui.answer
    BY <1>2 DEF Sell!SellInv, Sell!LoadsAreOfTheAnswer, Sell!Pending
  <2>2. ui.tab = "sell" /\ shares.of \notin {None, ui.answer}
          => shares.kind = "load" /\ shares.load < ui.loads
    BY <1>2, <1>4, <2>1, SellFields
  <2> QED
    BY <1>7, <2>2 DEF Sell!ForeignSharesOnlyByLateLoad
<1>11. Sell!LoadsAreOfTheAnswer'
  BY <1>5, <1>7 DEF Sell!SellInv, Sell!LoadsAreOfTheAnswer, Sell!Pending
<1> QED
  BY <1>7, <1>8, <1>9, <1>10, <1>11 DEF Sell!SellInv

(* A step of a sale leaves the loads alone. *)
LEMMA SaleSteps ==
    ASSUME Sell!SellInv, ui' \in Sell!Forms, second' \in [Answers -> Sell!Held],
           ui'.tab = ui.tab, ui'.answer = ui.answer, ui'.loads = ui.loads,
           ui'.loading = ui.loading, ui'.shares = ui.shares \/ ui'.shares.of = None,
           \A r \in ui'.flight : r \in ui.flight \/ r.kind \in {"confirm", "sale"},
           \A r, s \in ui'.flight :
               r.kind \in {"confirm", "sale"} /\ s.kind \in {"confirm", "sale"} => r = s,
           \A r \in ui'.flight : r.kind \in {"confirm", "sale"} => ui'.selling,
           \A r \in ui'.flight : r.kind = "sale" => r.of = r.quoted /\ r.of.amount >= 1
    PROVE  Sell!SellInv'
<1>1. Sell!TypeOK'
  BY DEF Sell!TypeOK
<1>2. Sell!OneSaleAtATime' /\ Sell!SaleAsQuoted'
  <2>1. \A r \in Sell!Pending("confirm")' \union Sell!Pending("sale")' :
            r \in ui'.flight /\ r.kind \in {"confirm", "sale"}
    BY DEF Sell!Pending
  <2>2. \A r \in Sell!Pending("sale")' : r \in ui'.flight /\ r.kind = "sale"
    BY DEF Sell!Pending
  <2> QED
    BY <2>1, <2>2 DEF Sell!OneSaleAtATime, Sell!SaleAsQuoted
<1>3. Sell!ForeignSharesOnlyByLateLoad' /\ Sell!LoadsAreOfTheAnswer'
  <2>1. \A r \in ui'.flight : \/ r \in ui.flight
                              \/ r.kind \notin {"load", "refresh"}
                              \/ r.kind = "refresh" /\ r.answer = ui.answer
    OBVIOUS
  <2>2. \/ ui'.shares = ui.shares /\ ui'.loading = ui.loading
        \/ ui'.shares.of \in {None, ui.answer}
    OBVIOUS
  <2> QED
    BY <2>1, <2>2, LoadsKept
<1> QED
  BY <1>1, <1>2, <1>3 DEF Sell!SellInv

LEMMA SalesBefore ==
    ASSUME Sell!SellInv
    PROVE  /\ \A r, s \in ui.flight :
                 r.kind \in {"confirm", "sale"} /\ s.kind \in {"confirm", "sale"} => r = s
           /\ \A r \in ui.flight : r.kind \in {"confirm", "sale"} => ui.selling
           /\ \A r \in ui.flight : r.kind = "sale" => r.of = r.quoted /\ r.of.amount >= 1
<1>1. \A r \in ui.flight : r.kind \in {"confirm", "sale"} =>
          r \in Sell!Pending("confirm") \union Sell!Pending("sale")
  BY DEF Sell!Pending
<1>2. \A r \in ui.flight : r.kind = "sale" => r \in Sell!Pending("sale")
  BY DEF Sell!Pending
<1> QED
  BY <1>1, <1>2 DEF Sell!SellInv, Sell!OneSaleAtATime, Sell!SaleAsQuoted

LEMMA SellConfirms ==
    ASSUME Sell!SellInv, Sell!ConfirmSale
    PROVE  Sell!SellInv' /\ ui'.amount = ui.amount /\ ui'.loads = ui.loads
<1> DEFINE r == [kind |-> "confirm", of |-> Sell!SaleData]
           flight == ui.flight \union {r}
<1>1. r \in SellRequests /\ r.kind = "confirm"
  BY SaleDataType DEF SellRequests, Sell!Quotes
<1>2. ui' = [ui EXCEPT !.selling = TRUE, !.flight = flight] /\ second' = second /\ ~ui.selling
  BY SellFields DEF Sell!ConfirmSale, Sell!Send, Sell!Forms, Sell!SellActionDisabled
<1> HIDE DEF r
<1>3. flight \in SUBSET SellRequests /\ \A t \in flight : t \in ui.flight \/ t = r
  BY <1>1, SellFields
<1> HIDE DEF flight
<1>4. /\ ui' \in Sell!Forms /\ ui'.selling /\ ui'.tab = ui.tab /\ ui'.answer = ui.answer
      /\ ui'.loads = ui.loads /\ ui'.loading = ui.loading /\ ui'.amount = ui.amount
      /\ ui'.shares = ui.shares /\ ui'.flight = flight
  BY <1>2, <1>3, SellFields DEF Sell!Forms, SellRequests
<1>5. \A t \in flight : t.kind \in {"confirm", "sale"} => t = r
  BY <1>2, <1>3, SalesBefore
<1>6. Sell!SellInv'
  <2>1. \A t \in ui'.flight : t \in ui.flight \/ t.kind \in {"confirm", "sale"}
    BY <1>1, <1>3, <1>4
  <2>2. \A t \in ui'.flight : t.kind = "sale" => t.of = t.quoted /\ t.of.amount >= 1
    BY <1>1, <1>4, <1>5
  <2> QED
    BY <1>2, <1>4, <1>5, <2>1, <2>2, SellFields, SaleSteps
<1> QED
  BY <1>4, <1>6

LEMMA SellConfirmed ==
    ASSUME Sell!SellInv, Sell!ConfirmAnswered
    PROVE  Sell!SellInv' /\ ui'.amount = ui.amount /\ ui'.loads = ui.loads
<1>1. PICK r \in Sell!Pending("confirm") :
        LET done == [ui EXCEPT !.flight = @ \ {r}]
        IN  \/ ui' = [done EXCEPT !.selling = FALSE]
            \/ r.of.amount >= 1 /\ ui' = [done EXCEPT !.selling = FALSE, !.quote = FALSE]
            \/ /\ r.of.amount >= 1
               /\ ui' = Sell!Send([done EXCEPT !.quote = TRUE],
                                  [kind |-> "sale", of |-> Sell!Submitted(r), quoted |-> r.of])
  BY DEF Sell!ConfirmAnswered
<1> DEFINE left == ui.flight \ {r}
           sale == [kind |-> "sale", of |-> r.of, quoted |-> r.of]
           sent == left \union {sale}
<1>2. r \in ui.flight /\ r.kind = "confirm" /\ r.of \in Sell!Sales /\ ui.selling
  BY SellFields, SellRequestTypes, SalesBefore DEF Sell!Pending
<1>3. sale \in SellRequests /\ sale.kind = "sale" /\ sale.of = r.of /\ sale.quoted = r.of
  BY <1>2 DEF SellRequests, Sell!Sold
<1>4. \/ ui' = [ui EXCEPT !.flight = left, !.selling = FALSE]
      \/ ui' = [ui EXCEPT !.flight = left, !.selling = FALSE, !.quote = FALSE]
      \/ ui' = [ui EXCEPT !.flight = sent, !.quote = TRUE] /\ r.of.amount >= 1
  <2>1. Sell!Send([[ui EXCEPT !.flight = left] EXCEPT !.quote = TRUE], sale)
          = [ui EXCEPT !.flight = sent, !.quote = TRUE]
    BY SellFields DEF Sell!Send, Sell!Forms
  <2> QED
    BY <1>1, <2>1 DEF Sell!Submitted
<1> HIDE DEF sale
<1>5. /\ left \in SUBSET SellRequests /\ sent \in SUBSET SellRequests
      /\ \A t \in left : t \in ui.flight /\ t.kind \notin {"confirm", "sale"}
      /\ \A t \in sent : t \in left \/ t = sale
  BY <1>2, <1>3, SellFields, SalesBefore
<1> HIDE DEF left, sent
<1>6. second' = second /\ ui \in Sell!Forms
  BY SellFields DEF Sell!ConfirmAnswered
<1>7. CASE ui' = [ui EXCEPT !.flight = left, !.selling = FALSE]
  <2>1. /\ ui' \in Sell!Forms /\ ui'.tab = ui.tab /\ ui'.answer = ui.answer
        /\ ui'.loads = ui.loads /\ ui'.loading = ui.loading /\ ui'.amount = ui.amount
        /\ ui'.shares = ui.shares /\ ui'.flight = left
    BY <1>5, <1>6, <1>7 DEF Sell!Forms, SellRequests
  <2> QED
    BY <1>5, <1>6, <2>1, SellFields, SaleSteps
<1>8. CASE ui' = [ui EXCEPT !.flight = left, !.selling = FALSE, !.quote = FALSE]
  <2>1. /\ ui' \in Sell!Forms /\ ui'.tab = ui.tab /\ ui'.answer = ui.answer
        /\ ui'.loads = ui.loads /\ ui'.loading = ui.loading /\ ui'.amount = ui.amount
        /\ ui'.shares = ui.shares /\ ui'.flight = left
    BY <1>5, <1>6, <1>8 DEF Sell!Forms, SellRequests
  <2> QED
    BY <1>5, <1>6, <2>1, SellFields, SaleSteps
<1>9. CASE ui' = [ui EXCEPT !.flight = sent, !.quote = TRUE] /\ r.of.amount >= 1
  <2>1. /\ ui' \in Sell!Forms /\ ui'.tab = ui.tab /\ ui'.answer = ui.answer
        /\ ui'.loads = ui.loads /\ ui'.loading = ui.loading /\ ui'.amount = ui.amount
        /\ ui'.shares = ui.shares /\ ui'.flight = sent /\ ui'.selling = ui.selling
    BY <1>5, <1>6, <1>9 DEF Sell!Forms, SellRequests
  <2>2. \A t \in sent : t.kind \in {"confirm", "sale"} => t = sale
    BY <1>5
  <2>3. \A t \in ui'.flight : t.kind = "sale" => t.of = t.quoted /\ t.of.amount >= 1
    BY <1>3, <1>9, <2>1, <2>2
  <2>4. \A t \in ui'.flight : t \in ui.flight \/ t.kind \in {"confirm", "sale"}
    BY <1>3, <1>5, <2>1
  <2> QED
    BY <1>2, <1>6, <2>1, <2>2, <2>3, <2>4, SellFields, SaleSteps
<1> QED
  BY <1>4, <1>7, <1>8, <1>9

LEMMA SellSold ==
    ASSUME Sell!ConstantsOK, Sell!SellInv, Sell!SaleDone \/ Sell!SaleFailed
    PROVE  Sell!SellInv' /\ ui'.loads = ui.loads /\ (~Sell!SaleDone => ui'.amount = ui.amount)
<1>1. ASSUME NEW r \in Sell!Pending("sale")
      PROVE  LET left == ui.flight \ {r}
             IN  /\ left \in SUBSET SellRequests
                 /\ \A t \in left : t \in ui.flight /\ t.kind \notin {"confirm", "sale"}
                 /\ r.of \in Sell!Sales
  BY <1>1, SellFields, SalesBefore, SellRequestTypes DEF Sell!Pending
<1>2. CASE Sell!SaleFailed
  <2>1. PICK r \in Sell!Pending("sale") : ui' = [ui EXCEPT !.flight = @ \ {r}, !.selling = FALSE]
    BY <1>2 DEF Sell!SaleFailed
  <2> DEFINE left == ui.flight \ {r}
  <2>2. /\ left \in SUBSET SellRequests
        /\ \A t \in left : t \in ui.flight /\ t.kind \notin {"confirm", "sale"}
    BY <1>1
  <2>3. ui' = [ui EXCEPT !.flight = left, !.selling = FALSE] /\ second' = second
    BY <1>2, <2>1 DEF Sell!SaleFailed
  <2> HIDE DEF left
  <2>4. /\ ui' \in Sell!Forms /\ ui'.tab = ui.tab /\ ui'.answer = ui.answer
        /\ ui'.loads = ui.loads /\ ui'.loading = ui.loading /\ ui'.amount = ui.amount
        /\ ui'.shares = ui.shares /\ ui'.flight = left
    BY <2>2, <2>3, SellFields DEF Sell!Forms, SellRequests
  <2> QED
    BY <2>2, <2>3, <2>4, SellFields, SaleSteps
<1>3. CASE Sell!SaleDone
  <2>1. PICK r \in Sell!Pending("sale") :
          /\ second' = [second EXCEPT ![r.of.answer][r.of.side] =
                            IF r.of.amount > @ THEN 0 ELSE @ - r.of.amount]
          /\ ui' = [ui EXCEPT !.flight = @ \ {r}, !.shares = Sell!NoShares, !.amount = 1,
                              !.quote = None, !.selling = FALSE]
    BY <1>3 DEF Sell!SaleDone
  <2> DEFINE left == ui.flight \ {r}
             shares == Sell!NoShares
  <2>2. /\ left \in SUBSET SellRequests /\ r.of \in Sell!Sales
        /\ \A t \in left : t \in ui.flight /\ t.kind \notin {"confirm", "sale"}
    BY <1>1
  <2>3. ui' = [ui EXCEPT !.flight = left, !.shares = shares, !.amount = 1, !.quote = None,
                         !.selling = FALSE]
    BY <2>1
  <2>4. shares \in Sell!Shares /\ shares.of = None /\ 1 \in Sell!Amounts
    BY DEF Sell!NoShares, Sell!Shares, Sell!Held, Sell!Amounts, Sell!ConstantsOK
  <2>5. second' \in [Answers -> Sell!Held]
    <3> DEFINE had == second[r.of.answer]
               sold == [had EXCEPT ![r.of.side] =
                          IF r.of.amount > had[r.of.side] THEN 0 ELSE had[r.of.side] - r.of.amount]
    <3>1. /\ r.of.answer \in Answers /\ r.of.side \in Sell!Sides /\ r.of.amount \in Nat
          /\ had \in Sell!Held
      BY <2>2, SellFields DEF Sell!Sales, Sell!Amounts, Sell!ConstantsOK
    <3>2. sold \in Sell!Held
      BY <3>1 DEF Sell!Held, Sell!ConstantsOK
    <3>3. second' = [second EXCEPT ![r.of.answer] = sold]
      BY <2>1
    <3> HIDE DEF sold
    <3> QED
      BY <3>1, <3>2, <3>3, SellFields
  <2> HIDE DEF left, shares
  <2>6. /\ ui' \in Sell!Forms /\ ui'.tab = ui.tab /\ ui'.answer = ui.answer
        /\ ui'.loads = ui.loads /\ ui'.loading = ui.loading
        /\ ui'.shares = shares /\ ui'.flight = left
    BY <2>2, <2>3, <2>4, SellFields DEF Sell!Forms, SellRequests
  <2> QED
    BY <1>3, <2>2, <2>4, <2>5, <2>6, SaleSteps
<1> QED
  BY <1>2, <1>3

LEMMA SellNextInv ==
    Sell!ConstantsOK /\ Sell!SellInv /\ [Sell!Next]_<<ui, second>>
        => Sell!SellInv' /\ Sell!AmountKept
<1> SUFFICES ASSUME Sell!ConstantsOK, Sell!SellInv, [Sell!Next]_<<ui, second>>
             PROVE  Sell!SellInv' /\ Sell!AmountKept
  OBVIOUS
<1>1. CASE UNCHANGED <<ui, second>>
  BY <1>1 DEF Sell!SellInv, Sell!TypeOK, Sell!SaleAsQuoted, Sell!OneSaleAtATime,
     Sell!ForeignSharesOnlyByLateLoad, Sell!LoadsAreOfTheAnswer, Sell!Pending, Sell!AmountKept
<1>2. CASE Sell!UserEdits
  <2>1. ui'.loads = ui.loads
    BY <1>2, SellFields DEF Sell!Forms, Sell!UserEdits, Sell!ChooseSide, Sell!TypeAmount,
       Sell!StepAmount, Sell!SelectSuggested
  <2> QED
    BY <1>2, <2>1, SellEdits DEF Sell!AmountKept
<1>3. CASE \/ Sell!RequestQuote \/ Sell!QuoteAnswered \/ Sell!RequoteAnswered
           \/ Sell!PollPrice \/ Sell!RefreshAnswered \/ Sell!PollEnd
  BY <1>3, SellAnswers DEF Sell!AmountKept
<1>4. CASE \/ \E t \in {"buy", "sell"} : Sell!SwitchTab(t)
           \/ \E a \in Answers : Sell!Select(a) \/ Sell!SelectOnChart(a)
  BY <1>4, SellChooses DEF Sell!AmountKept
<1>5. CASE Sell!LoadAnswered
  BY <1>5, SellLoaded DEF Sell!AmountKept
<1>6. CASE Sell!ConfirmSale
  BY <1>6, SellConfirms DEF Sell!AmountKept
<1>7. CASE Sell!ConfirmAnswered
  BY <1>7, SellConfirmed DEF Sell!AmountKept
<1>8. CASE Sell!SaleDone \/ Sell!SaleFailed
  BY <1>8, SellSold DEF Sell!AmountKept
<1> QED
  BY <1>1, <1>2, <1>3, <1>4, <1>5, <1>6, <1>7, <1>8 DEF Sell!Next
-----------------------------------------------------------------------------
(* The position on the panel. *)
LEMMA PositionInitInv == Position!ConstantsOK /\ Position!Init => Position!PositionInv
<1> SUFFICES ASSUME Position!ConstantsOK, Position!Init
             PROVE  Position!PositionInv
  OBVIOUS
<1>1. PICK first \in Answers : first = CHOOSE a \in Answers : TRUE
  BY DEF Position!ConstantsOK
<1>2. ui = [answer |-> first, login |-> TRUE, shown |-> None, held |-> FALSE, live |-> 0,
            sent |-> 0, flight |-> {}, failed |-> FALSE]
  BY <1>1 DEF Position!Init
<1> QED
  BY <1>2 DEF Position!PositionInv, Position!TypeOK, Position!Panel, Position!LiveIsOfTheAnswer,
     Position!ForeignPositionOnlyUnanswered, Position!Line

(* The effect, run for whatever answer is selected and whoever is logged in. *)
LEMMA PositionEffects ==
    ASSUME Position!PositionInv, NEW a \in Answers, NEW login \in BOOLEAN,
           ui' = Position!PositionEffect([ui EXCEPT !.answer = a, !.login = login])
    PROVE  Position!PositionInv'
<1> USE DEF Position!PositionInv, Position!TypeOK
<1>1. ui \in Position!Panel
  OBVIOUS
<1>2. CASE login
  <2> DEFINE r == [id |-> ui.sent + 1, of |-> a]
             flight == ui.flight \union {r}
             sent == ui.sent + 1
  <2>1. r \in Position!Fetches /\ r.id = sent /\ r.of = a /\ sent \in Nat /\ sent > ui.sent
    BY <1>1 DEF Position!Panel, Position!Fetches
  <2>2. ui' = [ui EXCEPT !.answer = a, !.login = TRUE, !.sent = sent, !.live = sent,
                         !.failed = FALSE, !.flight = flight]
    BY <1>1, <1>2 DEF Position!PositionEffect, Position!Panel
  <2> HIDE DEF r
  <2>3. flight \in SUBSET Position!Fetches
    BY <1>1, <2>1 DEF Position!Panel
  <2>4. \A s \in ui.flight : s \in Position!Fetches /\ s.id <= ui.sent /\ s.id \in Nat
    BY <1>1 DEF Position!Panel, Position!Fetches
  <2>5. \A s \in flight : s.id <= sent /\ (s.id = sent => s.of = a)
    BY <1>1, <2>1, <2>4 DEF Position!Panel
  <2>6. r \in flight
    OBVIOUS
  <2> HIDE DEF flight, sent
  <2>7. ui' \in Position!Panel
    BY <1>1, <2>1, <2>2, <2>3 DEF Position!Panel
  <2>8. /\ ui'.answer = a /\ ui'.login /\ ui'.live = sent /\ ui'.sent = sent
        /\ ui'.flight = flight
    BY <1>1, <2>2 DEF Position!Panel
  <2> QED
    BY <2>1, <2>5, <2>6, <2>7, <2>8 DEF Position!LiveIsOfTheAnswer,
       Position!ForeignPositionOnlyUnanswered
<1>3. CASE ~login
  <2>1. ui' = [ui EXCEPT !.answer = a, !.login = FALSE, !.live = 0, !.shown = None]
    BY <1>1, <1>3 DEF Position!PositionEffect, Position!Panel
  <2>2. \A r \in ui.flight : r.id # 0
    BY <1>1 DEF Position!Panel, Position!Fetches
  <2>3. ui' \in Position!Panel
    <3>1. \A p \in Position!Panel :
             [p EXCEPT !.answer = a, !.login = FALSE, !.live = 0, !.shown = None]
                \in Position!Panel
      BY DEF Position!Panel
    <3> QED
      BY <1>1, <2>1, <3>1
  <2>4. /\ ui'.live = 0 /\ ui'.shown = None /\ ~ui'.login /\ ui'.flight = ui.flight
        /\ ui'.sent = ui.sent
    BY <1>1, <2>1 DEF Position!Panel
  <2> QED
    BY <1>1, <2>2, <2>3, <2>4 DEF Position!LiveIsOfTheAnswer, Position!Panel,
       Position!ForeignPositionOnlyUnanswered, Position!Line
<1> QED
  BY <1>2, <1>3

LEMMA PositionNextInv ==
    Position!ConstantsOK /\ Position!PositionInv /\ [Position!Next]_ui => Position!PositionInv'
<1> SUFFICES ASSUME Position!ConstantsOK, Position!PositionInv, [Position!Next]_ui
             PROVE  Position!PositionInv'
  OBVIOUS
<1> USE DEF Position!PositionInv, Position!TypeOK
<1>1. ui \in Position!Panel
  OBVIOUS
<1>2. CASE Position!Open \/ Position!Traded
  <2>1. ui' = Position!PositionEffect([ui EXCEPT !.answer = ui.answer, !.login = ui.login])
    BY <1>1, <1>2 DEF Position!Open, Position!Traded, Position!Change, Position!Panel
  <2> QED
    BY <1>1, <2>1, PositionEffects DEF Position!Panel
<1>3. ASSUME NEW a \in Answers, Position!Select(a)
      PROVE  Position!PositionInv'
  <2>1. ui' = Position!PositionEffect([ui EXCEPT !.answer = a, !.login = ui.login])
    BY <1>1, <1>3 DEF Position!Select, Position!Change, Position!Panel
  <2> QED
    BY <1>1, <2>1, PositionEffects DEF Position!Panel
<1>4. CASE Position!Login
  <2>1. ui' = Position!PositionEffect([ui EXCEPT !.answer = ui.answer, !.login = ~ui.login])
    BY <1>1, <1>4 DEF Position!Login, Position!Change, Position!Panel
  <2> QED
    BY <1>1, <2>1, PositionEffects DEF Position!Panel
<1>5. CASE Position!Answered
  <2>1. PICK r \in ui.flight, ok \in BOOLEAN, held \in BOOLEAN :
          LET done == [ui EXCEPT !.flight = ui.flight \ {r}]
          IN  ui' = IF r.id # ui.live THEN done
                    ELSE IF ok THEN [done EXCEPT !.shown = r.of, !.held = held]
                    ELSE [done EXCEPT !.failed = TRUE]
    BY <1>5 DEF Position!Answered
  <2>2. r.of \in Answers
    BY <1>1 DEF Position!Panel, Position!Fetches
  <2>3. CASE r.id # ui.live
    BY <1>1, <2>1, <2>3 DEF Position!Panel, Position!LiveIsOfTheAnswer,
       Position!ForeignPositionOnlyUnanswered, Position!Line
  <2>4. CASE r.id = ui.live /\ ok
    BY <1>1, <2>1, <2>2, <2>4 DEF Position!Panel, Position!LiveIsOfTheAnswer, Position!Fetches,
       Position!ForeignPositionOnlyUnanswered, Position!Line
  <2>5. CASE r.id = ui.live /\ ~ok
    BY <1>1, <2>1, <2>5 DEF Position!Panel, Position!LiveIsOfTheAnswer, Position!Fetches,
       Position!ForeignPositionOnlyUnanswered, Position!Line
  <2> QED
    BY <2>3, <2>4, <2>5
<1>6. CASE UNCHANGED ui
  BY <1>6 DEF Position!LiveIsOfTheAnswer, Position!ForeignPositionOnlyUnanswered, Position!Line
<1> QED
  BY <1>2, <1>3, <1>4, <1>5, <1>6 DEF Position!Next
-----------------------------------------------------------------------------
(* The trade modal of the older page. *)
LEMMA ModalFields ==
    ASSUME Modal!ModalInv
    PROVE  /\ ui.panel \in Modal!Panels /\ ui.mount \in Nat /\ ui.sent \in Nat
           /\ ui.token \in BOOLEAN /\ ui.emptied \in BOOLEAN
           /\ ui.sentHere \in BOOLEAN /\ ui.closers \in Nat /\ ui.refreshes \in 0..1
           /\ ui.flight \in SUBSET Modal!Requests
           /\ ui = [panel |-> ui.panel, mount |-> ui.mount, token |-> ui.token,
                    emptied |-> ui.emptied, sent |-> ui.sent,
                    sentHere |-> ui.sentHere, closers |-> ui.closers, refreshes |-> ui.refreshes,
                    flight |-> ui.flight]
           /\ \A r \in ui.flight : r \in Modal!Requests /\ r.mount \in Nat /\ r.mount <= ui.mount
<1>1. \A r \in Modal!Requests : r.mount \in Nat
  BY DEF Modal!Requests
<1> QED
  BY <1>1 DEF Modal!ModalInv, Modal!TypeOK

LEMMA ModalClosed ==
    /\ Modal!Closed \in Modal!Panels /\ Modal!Closed.phase = "idle" /\ ~Modal!Closed.armed
    /\ Modal!Closed.tab = "none"
  BY DEF Modal!Closed, Modal!Panel, Modal!Panels, Modal!Sides

(* A step that starts no sale, and leaves the sales of the panel to it. *)
LEMMA ModalMoves ==
    ASSUME Modal!ModalInv,
           NEW panel \in Modal!Panels, NEW sent \in Nat, NEW sentHere \in BOOLEAN,
           NEW closers \in Nat, NEW refreshes \in 0..1, NEW flight \in SUBSET Modal!Requests,
           NEW token \in BOOLEAN, NEW emptied \in BOOLEAN,
           ui' = [panel |-> panel, mount |-> ui.mount, token |-> token,
                  emptied |-> emptied, sent |-> sent, sentHere |-> sentHere,
                  closers |-> closers, refreshes |-> refreshes, flight |-> flight],
           panel.phase = "success" \/ panel.armed => sentHere \/ emptied,
           \A r \in flight : \/ r \in ui.flight
                             \/ r.mount = ui.mount /\ r.kind \notin {"confirm", "sale"},
           panel.tab = "sell" => ui.panel.tab = "sell" /\ panel.selling = ui.panel.selling
    PROVE  Modal!ModalInv'
<1>1. /\ ui'.panel = panel /\ ui'.mount = ui.mount /\ ui'.sentHere = sentHere
      /\ ui'.flight = flight /\ ui'.emptied = emptied
  OBVIOUS
<1>2. Modal!TypeOK'
  <2>1. \A r \in flight : r.mount <= ui.mount
    BY ModalFields
  <2>2. ui' \in [panel : Modal!Panels, mount : Nat, token : BOOLEAN, emptied : BOOLEAN,
                 sent : Nat, sentHere : BOOLEAN, closers : Nat,
                 refreshes : 0..1, flight : SUBSET Modal!Requests]
    BY ModalFields
  <2> QED
    BY <1>1, <2>1, <2>2 DEF Modal!TypeOK
<1>3. \A r \in Modal!Sales' : r \in Modal!Sales
  BY <1>1 DEF Modal!Sales, Modal!Pending
<1> QED
  BY <1>1, <1>2, <1>3 DEF Modal!ModalInv, Modal!PurchasedOnlyAfterOrder,
     Modal!ArmedOnlyAfterOrder, Modal!SalesOverlapOnlyAcrossMounts, Modal!SellingWhileSold,
     Modal!OnSell, Modal!Here

(* A step that changes the panel alone, and neither its tab, its timers nor its sale. *)
LEMMA ModalShows ==
    ASSUME Modal!ModalInv, NEW panel \in Modal!Panels, ui' = [ui EXCEPT !.panel = panel],
           panel.phase = "success" \/ panel.armed => ui.panel.phase = "success" \/ ui.panel.armed,
           panel.tab = ui.panel.tab, panel.selling = ui.panel.selling
    PROVE  Modal!ModalInv'
<1>1. ui' = [panel |-> panel, mount |-> ui.mount, token |-> ui.token,
             emptied |-> ui.emptied, sent |-> ui.sent, sentHere |-> ui.sentHere,
             closers |-> ui.closers, refreshes |-> ui.refreshes, flight |-> ui.flight]
  BY ModalFields
<1>2. panel.phase = "success" \/ panel.armed => ui.sentHere \/ ui.emptied
  BY DEF Modal!ModalInv, Modal!PurchasedOnlyAfterOrder, Modal!ArmedOnlyAfterOrder
<1> QED
  BY <1>1, <1>2, ModalFields, ModalMoves

(* A request that is sent by the panel, and one that is answered to it. *)
LEMMA ModalSends ==
    ASSUME Modal!ModalInv, NEW panel \in Modal!Panels, NEW r \in Modal!Requests,
           r.mount = ui.mount, r.kind \notin {"confirm", "sale"},
           NEW flight, flight = ui.flight \union {r},
           ui' = [panel |-> panel, mount |-> ui.mount, token |-> ui.token,
                  emptied |-> ui.emptied, sent |-> ui.sent, sentHere |-> ui.sentHere,
                  closers |-> ui.closers, refreshes |-> ui.refreshes, flight |-> flight],
           panel.phase = "success" \/ panel.armed => ui.panel.phase = "success" \/ ui.panel.armed,
           panel.tab = ui.panel.tab, panel.selling = ui.panel.selling
    PROVE  Modal!ModalInv'
<1>1. panel.phase = "success" \/ panel.armed => ui.sentHere \/ ui.emptied
  BY DEF Modal!ModalInv, Modal!PurchasedOnlyAfterOrder, Modal!ArmedOnlyAfterOrder
<1>2. /\ flight \in SUBSET Modal!Requests
      /\ \A s \in flight : \/ s \in ui.flight
                           \/ s.mount = ui.mount /\ s.kind \notin {"confirm", "sale"}
  BY ModalFields
<1> QED
  BY <1>1, <1>2, ModalFields, ModalMoves

LEMMA ModalHears ==
    ASSUME Modal!ModalInv, NEW panel \in Modal!Panels, NEW r \in ui.flight, NEW closers \in Nat,
           NEW flight, flight = ui.flight \ {r},
           ui' = [panel |-> panel, mount |-> ui.mount, token |-> ui.token,
                  emptied |-> ui.emptied, sent |-> ui.sent, sentHere |-> ui.sentHere,
                  closers |-> closers, refreshes |-> ui.refreshes, flight |-> flight],
           panel.phase = "success" \/ panel.armed => ui.panel.phase = "success" \/ ui.panel.armed,
           panel.tab = ui.panel.tab, panel.selling = ui.panel.selling
    PROVE  Modal!ModalInv'
<1>1. panel.phase = "success" \/ panel.armed => ui.sentHere \/ ui.emptied
  BY DEF Modal!ModalInv, Modal!PurchasedOnlyAfterOrder, Modal!ArmedOnlyAfterOrder
<1>2. flight \in SUBSET Modal!Requests /\ \A s \in flight : s \in ui.flight
  BY ModalFields
<1> QED
  BY <1>1, <1>2, ModalFields, ModalMoves

LEMMA ModalInitInv == Modal!Init => Modal!ModalInv
<1> SUFFICES ASSUME Modal!Init
             PROVE  Modal!ModalInv
  OBVIOUS
<1>1. ui = [panel |-> Modal!Closed, token |-> TRUE, mount |-> 0, sent |-> 0, closers |-> 0,
            refreshes |-> 0, flight |-> {}, sentHere |-> FALSE, emptied |-> FALSE]
  BY DEF Modal!Init
<1> QED
  BY <1>1, ModalClosed DEF Modal!ModalInv, Modal!TypeOK, Modal!PurchasedOnlyAfterOrder,
     Modal!ArmedOnlyAfterOrder, Modal!SalesOverlapOnlyAcrossMounts, Modal!SellingWhileSold,
     Modal!Sales, Modal!Pending

(* A panel mounted anew has sold nothing. *)
LEMMA ModalMounts ==
    ASSUME Modal!ModalInv, NEW tab \in {"buy", "sell"}, ui' = Modal!Mount(tab)
    PROVE  Modal!ModalInv'
<1> DEFINE loads == tab = "sell" /\ ui.token
           panel == Modal!Panel(tab, loads)
           mount == ui.mount + 1
           r == [kind |-> "load", mount |-> mount, id |-> ui.sent, data |-> None]
           flight == IF loads THEN ui.flight \union {r} ELSE ui.flight
<1>1. panel \in Modal!Panels /\ panel.phase = "idle" /\ ~panel.armed
  BY DEF Modal!Panel, Modal!Panels, Modal!Sides
<1>2. mount \in Nat /\ mount > ui.mount
  BY ModalFields
<1>3. /\ flight \in SUBSET Modal!Requests
      /\ \A s \in flight : s \in ui.flight \/ s = r
      /\ r.mount = mount /\ r.kind = "load"
  <2>1. r \in Modal!Requests
    BY <1>2, ModalFields DEF Modal!Requests
  <2> HIDE DEF loads
  <2> QED
    BY <2>1, ModalFields
<1>4. ui' = [panel |-> panel, token |-> ui.token, mount |-> mount, sent |-> ui.sent,
             closers |-> ui.closers, refreshes |-> ui.refreshes, flight |-> flight,
             sentHere |-> FALSE, emptied |-> FALSE]
  <2>1. CASE ~loads
    <3>1. ui' = [ui EXCEPT !.mount = mount, !.sentHere = FALSE, !.emptied = FALSE, !.panel = panel]
      BY <2>1 DEF Modal!Mount
    <3> HIDE DEF panel, loads
    <3> QED
      BY <2>1, <3>1, ModalFields
  <2>2. CASE loads
    <3>1. [Modal!Request("load", None) EXCEPT !.mount = mount] = r
      BY DEF Modal!Request
    <3>2. ui' = [[ui EXCEPT !.mount = mount, !.sentHere = FALSE, !.emptied = FALSE,
                            !.panel = panel] EXCEPT !.flight = @ \union {r}]
      BY <2>2, <3>1 DEF Modal!Mount
    <3> HIDE DEF panel, r, loads
    <3> QED
      BY <2>2, <3>2, ModalFields
  <2> QED
    BY <2>1, <2>2
<1> HIDE DEF loads, panel, mount, r, flight
<1>5. /\ ui'.panel = panel /\ ui'.mount = mount /\ ui'.flight = flight
      /\ ui' \in [panel : Modal!Panels, mount : Nat, token : BOOLEAN, emptied : BOOLEAN,
                  sent : Nat, sentHere : BOOLEAN, closers : Nat,
                  refreshes : 0..1, flight : SUBSET Modal!Requests]
  BY <1>1, <1>2, <1>3, <1>4, ModalFields
<1>6. Modal!TypeOK'
  <2>1. \A s \in flight : s.mount <= mount
    BY <1>2, <1>3, ModalFields
  <2> QED
    BY <1>5, <2>1 DEF Modal!TypeOK
<1>7. \A s \in Modal!Sales' : s \in Modal!Sales /\ s.mount # mount
  BY <1>2, <1>3, <1>5, ModalFields DEF Modal!Sales, Modal!Pending
<1> QED
  BY <1>1, <1>5, <1>6, <1>7 DEF Modal!ModalInv, Modal!PurchasedOnlyAfterOrder,
     Modal!ArmedOnlyAfterOrder, Modal!SalesOverlapOnlyAcrossMounts, Modal!SellingWhileSold,
     Modal!OnSell, Modal!Here

(* The choices of a panel, the terms and its timers. *)
LEMMA ModalChoices ==
    ASSUME Modal!ModalInv, NEW side \in Modal!Sides, NEW n \in 0..1,
           \/ Modal!ChooseSide(side) \/ Modal!TypeBet(n) \/ Modal!TypeSale(n) \/ Modal!ToggleTerms
           \/ Modal!ShowPurchased \/ Modal!PhaseResets
    PROVE  Modal!ModalInv'
<1>1. CASE Modal!ChooseSide(side)
  <2> DEFINE panel == [ui.panel EXCEPT !.side = side, !.terms = FALSE]
  <2>1. ui' = [ui EXCEPT !.panel = panel]
    BY <1>1, ModalFields DEF Modal!ChooseSide
  <2>2. /\ panel \in Modal!Panels /\ panel.phase = ui.panel.phase /\ panel.armed = ui.panel.armed
        /\ panel.tab = ui.panel.tab /\ panel.selling = ui.panel.selling
    BY ModalFields DEF Modal!Panels
  <2> HIDE DEF panel
  <2> QED
    BY <2>1, <2>2, ModalShows
<1>2. CASE Modal!TypeBet(n)
  <2> DEFINE panel == [ui.panel EXCEPT !.amount = n, !.terms = FALSE]
  <2>1. ui' = [ui EXCEPT !.panel = panel]
    BY <1>2, ModalFields DEF Modal!TypeBet
  <2>2. /\ panel \in Modal!Panels /\ panel.phase = ui.panel.phase /\ panel.armed = ui.panel.armed
        /\ panel.tab = ui.panel.tab /\ panel.selling = ui.panel.selling
    BY ModalFields DEF Modal!Panels
  <2> HIDE DEF panel
  <2> QED
    BY <2>1, <2>2, ModalShows
<1>3. CASE Modal!TypeSale(n)
  <2> DEFINE panel == [ui.panel EXCEPT !.amount = n, !.quote = None, !.failed = FALSE]
  <2>1. ui' = [ui EXCEPT !.panel = panel]
    BY <1>3, ModalFields DEF Modal!TypeSale
  <2>2. /\ panel \in Modal!Panels /\ panel.phase = ui.panel.phase /\ panel.armed = ui.panel.armed
        /\ panel.tab = ui.panel.tab /\ panel.selling = ui.panel.selling
    BY ModalFields DEF Modal!Panels
  <2> HIDE DEF panel
  <2> QED
    BY <2>1, <2>2, ModalShows
<1>4. CASE Modal!ToggleTerms
  <2> DEFINE terms == ~ui.panel.terms
  <2>0. terms \in BOOLEAN
    OBVIOUS
  <2> DEFINE panel == [ui.panel EXCEPT !.terms = terms, !.projecting = FALSE]
  <2>1. ui' = [ui EXCEPT !.panel = panel]
    BY <1>4, ModalFields DEF Modal!ToggleTerms
  <2> HIDE DEF terms
  <2>2. /\ panel \in Modal!Panels /\ panel.phase = ui.panel.phase /\ panel.armed = ui.panel.armed
        /\ panel.tab = ui.panel.tab /\ panel.selling = ui.panel.selling
    BY <2>0, ModalFields DEF Modal!Panels
  <2> HIDE DEF panel
  <2> QED
    BY <2>1, <2>2, ModalShows
<1>5. CASE Modal!ShowPurchased
  <2> DEFINE panel == [ui.panel EXCEPT !.armed = FALSE, !.phase = "success"]
  <2>1. ui' = [ui EXCEPT !.panel = panel] /\ ui.panel.armed
    BY <1>5, ModalFields DEF Modal!ShowPurchased
  <2>2. panel \in Modal!Panels /\ panel.tab = ui.panel.tab /\ panel.selling = ui.panel.selling
    BY ModalFields DEF Modal!Panels
  <2> HIDE DEF panel
  <2> QED
    BY <2>1, <2>2, ModalShows
<1>6. CASE Modal!PhaseResets
  <2> DEFINE panel == [ui.panel EXCEPT !.phase = "idle"]
  <2>1. ui' = [ui EXCEPT !.panel = panel] /\ ui.panel.phase = "success"
    BY <1>6, ModalFields DEF Modal!PhaseResets
  <2>2. panel \in Modal!Panels /\ panel.tab = ui.panel.tab /\ panel.selling = ui.panel.selling
    BY ModalFields DEF Modal!Panels
  <2> HIDE DEF panel
  <2> QED
    BY <2>1, <2>2, ModalShows
<1> QED
  BY <1>1, <1>2, <1>3, <1>4, <1>5, <1>6

(* What a panel sends that is no sale: a projection, a quote, an order. *)
LEMMA ModalQuotes ==
    ASSUME Modal!ModalInv, NEW side \in Modal!Sides, NEW amount \in 0..1,
           ui' = Modal!Quoting(side, amount)
    PROVE  Modal!ModalInv'
<1> DEFINE panel == [ui.panel EXCEPT !.side = side, !.amount = amount, !.quoting = TRUE,
                                     !.failed = FALSE]
           r == [kind |-> "quote", mount |-> ui.mount, id |-> ui.sent,
                 data |-> [side |-> side, amount |-> amount]]
           flight == ui.flight \union {r}
<1>1. r \in Modal!Requests /\ r.mount = ui.mount /\ r.kind = "quote"
  BY ModalFields DEF Modal!Requests
<1>2. /\ panel \in Modal!Panels /\ panel.phase = ui.panel.phase /\ panel.armed = ui.panel.armed
      /\ panel.tab = ui.panel.tab /\ panel.selling = ui.panel.selling
  BY ModalFields DEF Modal!Panels
<1>3. ui' = [ui EXCEPT !.panel = panel, !.flight = flight]
  BY ModalFields DEF Modal!Quoting, Modal!Send, Modal!Request
<1>4. ui' = [panel |-> panel, mount |-> ui.mount, token |-> ui.token,
             emptied |-> ui.emptied, sent |-> ui.sent, sentHere |-> ui.sentHere,
             closers |-> ui.closers, refreshes |-> ui.refreshes, flight |-> flight]
  <2> HIDE DEF panel, flight
  <2> QED
    BY <1>3, ModalFields
<1> HIDE DEF panel, r
<1> QED
  BY <1>1, <1>2, <1>4, ModalSends

LEMMA ModalOrders ==
    ASSUME Modal!ModalInv,
           Modal!UpdateProjection \/ Modal!ConfirmBet \/ Modal!SelectSuggested
             \/ Modal!ConfirmUnsent \/ \E s \in Modal!Sides : Modal!Terms(s)
    PROVE  Modal!ModalInv'
<1>1. CASE Modal!UpdateProjection
  <2> DEFINE panel == [ui.panel EXCEPT !.projecting = TRUE]
             r == [kind |-> "projection", mount |-> ui.mount, id |-> ui.sent, data |-> None]
             flight == ui.flight \union {r}
  <2>1. r \in Modal!Requests /\ r.mount = ui.mount /\ r.kind = "projection"
    BY ModalFields DEF Modal!Requests
  <2>2. /\ panel \in Modal!Panels /\ panel.phase = ui.panel.phase /\ panel.armed = ui.panel.armed
        /\ panel.tab = ui.panel.tab /\ panel.selling = ui.panel.selling
    BY ModalFields DEF Modal!Panels
  <2>3. ui' = [ui EXCEPT !.panel = panel, !.flight = flight]
    BY <1>1, ModalFields DEF Modal!UpdateProjection, Modal!Send, Modal!Request
  <2>4. ui' = [panel |-> panel, mount |-> ui.mount, token |-> ui.token,
               emptied |-> ui.emptied, sent |-> ui.sent, sentHere |-> ui.sentHere,
               closers |-> ui.closers, refreshes |-> ui.refreshes, flight |-> flight]
    <3> HIDE DEF panel, flight
    <3> QED
      BY <2>3, ModalFields
  <2> HIDE DEF panel, r
  <2> QED
    BY <2>1, <2>2, <2>4, ModalSends
<1>2. CASE Modal!ConfirmBet
  <2> DEFINE armed == ui.panel.phase = "idle" \/ ui.panel.armed
             r == [kind |-> "order", mount |-> ui.mount, id |-> ui.sent, data |-> None]
             flight == ui.flight \union {r}
             sent == ui.sent + 1
  <2>1. r \in Modal!Requests /\ r.mount = ui.mount /\ r.kind = "order"
    BY ModalFields DEF Modal!Requests
  <2>2. armed \in BOOLEAN /\ sent \in Nat
    BY ModalFields
  <2> HIDE DEF armed
  <2> DEFINE panel == [ui.panel EXCEPT !.armed = armed]
  <2>3. /\ panel \in Modal!Panels /\ panel.tab = ui.panel.tab /\ panel.selling = ui.panel.selling
    BY <2>2, ModalFields DEF Modal!Panels
  <2>4. ui' = [ui EXCEPT !.sent = sent, !.sentHere = TRUE, !.panel = panel, !.flight = flight]
    BY <1>2, ModalFields DEF Modal!ConfirmBet, Modal!Send, Modal!Request, armed
  <2>5. ui' = [panel |-> panel, mount |-> ui.mount, token |-> ui.token,
               emptied |-> ui.emptied, sent |-> sent, sentHere |-> TRUE,
               closers |-> ui.closers, refreshes |-> ui.refreshes, flight |-> flight]
    <3> HIDE DEF panel, flight, sent
    <3> QED
      BY <2>4, ModalFields
  <2> HIDE DEF panel, r, sent
  <2>6. /\ flight \in SUBSET Modal!Requests
        /\ \A s \in flight : \/ s \in ui.flight
                             \/ s.mount = ui.mount /\ s.kind \notin {"confirm", "sale"}
    BY <2>1, ModalFields
  <2> HIDE DEF flight
  <2>7. /\ TRUE \in BOOLEAN /\ (panel.phase = "success" \/ panel.armed => TRUE \/ ui.emptied)
        /\ (panel.tab = "sell" => ui.panel.tab = "sell" /\ panel.selling = ui.panel.selling)
    BY <2>3
  <2> QED
    BY <2>2, <2>3, <2>5, <2>6, <2>7, ModalFields, ModalMoves
<1>3. CASE Modal!SelectSuggested
  <2>1. ui.panel.side \in Modal!Sides
    BY <1>3, ModalFields DEF Modal!SelectSuggested, Modal!Panels
  <2> QED
    BY <1>3, <2>1, ModalQuotes DEF Modal!SelectSuggested
<1>4. ASSUME NEW s \in Modal!Sides, Modal!Terms(s)
      PROVE  Modal!ModalInv'
  <2>1. ui.panel.amount \in 0..1
    BY ModalFields DEF Modal!Panels
  <2> QED
    BY <1>4, <2>1, ModalQuotes DEF Modal!Terms
<1>5. CASE Modal!ConfirmUnsent
  <2> DEFINE armed == ui.panel.phase = "idle" \/ ui.panel.armed
  <2>1. armed \in BOOLEAN
    BY ModalFields
  <2> HIDE DEF armed
  <2> DEFINE panel == [ui.panel EXCEPT !.armed = armed]
  <2>2. panel \in Modal!Panels /\ panel.tab = ui.panel.tab /\ panel.selling = ui.panel.selling
    BY <2>1, ModalFields DEF Modal!Panels
  <2>3. ui' = [ui EXCEPT !.emptied = TRUE, !.panel = panel]
    BY <1>5, ModalFields DEF Modal!ConfirmUnsent, armed
  <2> HIDE DEF panel
  <2>4. ui' = [panel |-> panel, mount |-> ui.mount, token |-> ui.token,
               emptied |-> TRUE, sent |-> ui.sent, sentHere |-> ui.sentHere,
               closers |-> ui.closers, refreshes |-> ui.refreshes, flight |-> ui.flight]
    BY <2>3, ModalFields
  <2> QED
    BY <2>2, <2>4, ModalFields, ModalMoves
<1> QED
  BY <1>1, <1>2, <1>3, <1>4, <1>5

(* What is answered, but for a sale and its quote. *)
LEMMA ModalAnswers ==
    ASSUME Modal!ModalInv,
           Modal!OrderAnswered \/ Modal!LoadAnswered \/ Modal!QuoteAnswered \/ Modal!ProjectionAnswered
    PROVE  Modal!ModalInv'
<1>1. CASE Modal!OrderAnswered
  <2>1. PICK r \in ui.flight, ok \in BOOLEAN :
          ui' = [ui EXCEPT !.flight = ui.flight \ {r},
                           !.closers = IF ok THEN ui.closers + 1 ELSE ui.closers]
    BY <1>1, ModalFields DEF Modal!OrderAnswered, Modal!Pending
  <2> DEFINE closers == IF ok THEN ui.closers + 1 ELSE ui.closers
             flight == ui.flight \ {r}
  <2>3. closers \in Nat
    BY ModalFields
  <2> HIDE DEF closers
  <2>2. ui' = [panel |-> ui.panel, mount |-> ui.mount, token |-> ui.token,
               emptied |-> ui.emptied, sent |-> ui.sent, sentHere |-> ui.sentHere,
               closers |-> closers, refreshes |-> ui.refreshes, flight |-> flight]
    BY <2>1, ModalFields DEF closers
  <2> HIDE DEF flight
  <2> QED
    BY <2>2, <2>3, ModalFields, ModalHears DEF flight
<1>2. CASE Modal!LoadAnswered
  <2>1. PICK r \in Modal!Pending("load"), sides \in SUBSET Modal!Sides, ok \in BOOLEAN :
          ui' = LET done == [ui EXCEPT !.flight = @ \ {r}]
                    only == IF \E s \in Modal!Sides : sides = {s} THEN CHOOSE s \in sides : TRUE
                            ELSE None
                IN  IF ~Modal!Here(r) \/ ~Modal!OnSell THEN done
                    ELSE [done EXCEPT !.panel.shares = IF ok THEN sides ELSE {},
                                      !.panel.side = IF ok THEN only ELSE None,
                                      !.panel.amount = 1, !.panel.loading = FALSE]
    BY <1>2 DEF Modal!LoadAnswered
  <2> DEFINE only == IF \E s \in Modal!Sides : sides = {s} THEN CHOOSE s \in sides : TRUE ELSE None
             shares == IF ok THEN sides ELSE {}
             side == IF ok THEN only ELSE None
             flight == ui.flight \ {r}
  <2>6. r \in ui.flight /\ 1 \in 0..1
    BY DEF Modal!Pending
  <2>2. shares \in SUBSET Modal!Sides /\ side \in Modal!Sides \union {None}
    <3>1. only \in Modal!Sides \union {None}
      OBVIOUS
    <3> QED
      BY <3>1
  <2> HIDE DEF only, shares, side
  <2> DEFINE shown == [ui.panel EXCEPT !.shares = shares, !.side = side, !.amount = 1,
                                       !.loading = FALSE]
  <2>3. /\ shown \in Modal!Panels /\ shown.phase = ui.panel.phase /\ shown.armed = ui.panel.armed
        /\ shown.tab = ui.panel.tab /\ shown.selling = ui.panel.selling
    BY <2>2, <2>6, ModalFields DEF Modal!Panels
  <2>4. \/ ui' = [ui EXCEPT !.flight = flight]
        \/ ui' = [ui EXCEPT !.flight = flight, !.panel = shown]
    <3> DEFINE done == [ui EXCEPT !.flight = flight]
    <3>1. \/ ui' = done
          \/ ui' = [done EXCEPT !.panel.shares = shares, !.panel.side = side,
                                !.panel.amount = 1, !.panel.loading = FALSE]
      BY <2>1 DEF only, shares, side
    <3>2. done.panel = ui.panel
      BY ModalFields
    <3>3. [done EXCEPT !.panel.shares = shares, !.panel.side = side,
                       !.panel.amount = 1, !.panel.loading = FALSE]
            = [ui EXCEPT !.flight = flight, !.panel = shown]
      BY <3>2, ModalFields DEF Modal!Panels
    <3> QED
      BY <3>1, <3>3
  <2> HIDE DEF shown
  <2>5. PICK panel \in {ui.panel, shown} :
          ui' = [panel |-> panel, mount |-> ui.mount, token |-> ui.token,
                 emptied |-> ui.emptied, sent |-> ui.sent, sentHere |-> ui.sentHere,
                 closers |-> ui.closers, refreshes |-> ui.refreshes, flight |-> flight]
    BY <2>4, ModalFields
  <2> HIDE DEF flight
  <2> QED
    BY <2>3, <2>5, <2>6, ModalFields, ModalHears DEF flight
<1>3. CASE Modal!QuoteAnswered
  <2>1. PICK r \in ui.flight, quote \in BOOLEAN \union {None} :
          ui' = LET done == [ui EXCEPT !.flight = @ \ {r}]
                IN  IF ~Modal!Here(r) \/ ~Modal!OnSell THEN done
                    ELSE [done EXCEPT !.panel.quote = quote, !.panel.quoting = FALSE,
                                      !.panel.failed = (quote = None)]
    BY <1>3 DEF Modal!QuoteAnswered, Modal!Pending
  <2> DEFINE failed == quote = None
             flight == ui.flight \ {r}
  <2>2. failed \in BOOLEAN
    OBVIOUS
  <2> HIDE DEF failed
  <2> DEFINE shown == [ui.panel EXCEPT !.quote = quote, !.quoting = FALSE, !.failed = failed]
  <2>3. /\ shown \in Modal!Panels /\ shown.phase = ui.panel.phase /\ shown.armed = ui.panel.armed
        /\ shown.tab = ui.panel.tab /\ shown.selling = ui.panel.selling
    BY <2>2, ModalFields DEF Modal!Panels
  <2>4. \/ ui' = [ui EXCEPT !.flight = flight]
        \/ ui' = [ui EXCEPT !.flight = flight, !.panel = shown]
    BY <2>1, ModalFields DEF Modal!Panels, failed
  <2> HIDE DEF shown
  <2>5. PICK panel \in {ui.panel, shown} :
          ui' = [panel |-> panel, mount |-> ui.mount, token |-> ui.token,
                 emptied |-> ui.emptied, sent |-> ui.sent, sentHere |-> ui.sentHere,
                 closers |-> ui.closers, refreshes |-> ui.refreshes, flight |-> flight]
    BY <2>4, ModalFields
  <2> HIDE DEF flight
  <2> QED
    BY <2>3, <2>5, ModalFields, ModalHears DEF flight
<1>4. CASE Modal!ProjectionAnswered
  <2>1. PICK r \in ui.flight :
          ui' = [ui EXCEPT !.flight = @ \ {r},
                           !.panel.projecting = IF Modal!Here(r) THEN FALSE ELSE @]
    BY <1>4 DEF Modal!ProjectionAnswered, Modal!Pending
  <2> DEFINE projecting == IF Modal!Here(r) THEN FALSE ELSE ui.panel.projecting
             flight == ui.flight \ {r}
  <2>2. projecting \in BOOLEAN
    BY ModalFields DEF Modal!Panels
  <2> HIDE DEF projecting
  <2> DEFINE panel == [ui.panel EXCEPT !.projecting = projecting]
  <2>3. /\ panel \in Modal!Panels /\ panel.phase = ui.panel.phase /\ panel.armed = ui.panel.armed
        /\ panel.tab = ui.panel.tab /\ panel.selling = ui.panel.selling
    BY <2>2, ModalFields DEF Modal!Panels
  <2>4. ui' = [ui EXCEPT !.flight = flight, !.panel = panel]
    BY <2>1, ModalFields DEF Modal!Panels, projecting
  <2> HIDE DEF panel
  <2>5. ui' = [panel |-> panel, mount |-> ui.mount, token |-> ui.token,
               emptied |-> ui.emptied, sent |-> ui.sent, sentHere |-> ui.sentHere,
               closers |-> ui.closers, refreshes |-> ui.refreshes, flight |-> flight]
    BY <2>4, ModalFields
  <2> HIDE DEF flight
  <2> QED
    BY <2>3, <2>5, ModalFields, ModalHears DEF flight
<1> QED
  BY <1>1, <1>2, <1>3, <1>4

(* What closes the modal. *)
LEMMA ModalCloses ==
    ASSUME Modal!ModalInv, NEW closers \in Nat, NEW refreshes \in 0..1, NEW flight \in SUBSET ui.flight,
           ui' = [panel |-> Modal!Closed, mount |-> ui.mount, token |-> ui.token,
                  emptied |-> ui.emptied, sent |-> ui.sent,
                  sentHere |-> ui.sentHere, closers |-> closers, refreshes |-> refreshes,
                  flight |-> flight]
    PROVE  Modal!ModalInv'
<1>1. flight \in SUBSET Modal!Requests /\ \A r \in flight : r \in ui.flight
  BY ModalFields
<1> QED
  BY <1>1, ModalFields, ModalClosed, ModalMoves

(* A step of the sales: those of the panel keep it busy, and no two are of one mount. *)
LEMMA ModalSells ==
    ASSUME Modal!ModalInv,
           NEW panel \in Modal!Panels, NEW flight \in SUBSET Modal!Requests,
           ui' = [panel |-> panel, mount |-> ui.mount, token |-> ui.token,
                  emptied |-> ui.emptied, sent |-> ui.sent, sentHere |-> ui.sentHere,
                  closers |-> ui.closers, refreshes |-> ui.refreshes, flight |-> flight],
           panel.phase = ui.panel.phase, panel.armed = ui.panel.armed,
           \A r \in flight : r.mount <= ui.mount,
           \A r, s \in flight : /\ r.kind \in {"confirm", "sale"} /\ s.kind \in {"confirm", "sale"}
                               /\ r.mount = s.mount
                               => r = s,
           \A r \in flight : /\ panel.tab = "sell" /\ r.kind \in {"confirm", "sale"}
                            /\ r.mount = ui.mount
                            => panel.selling
    PROVE  Modal!ModalInv'
<1>1. /\ ui'.panel = panel /\ ui'.mount = ui.mount /\ ui'.sentHere = ui.sentHere
      /\ ui'.flight = flight /\ ui'.emptied = ui.emptied
  OBVIOUS
<1>2. Modal!TypeOK'
  <2>1. ui' \in [panel : Modal!Panels, mount : Nat, token : BOOLEAN, emptied : BOOLEAN,
                 sent : Nat, sentHere : BOOLEAN, closers : Nat,
                 refreshes : 0..1, flight : SUBSET Modal!Requests]
    BY ModalFields
  <2> QED
    BY <1>1, <2>1 DEF Modal!TypeOK
<1>3. Modal!Sales' = {r \in flight : r.kind \in {"confirm", "sale"}}
  BY <1>1 DEF Modal!Sales, Modal!Pending
<1>4. Modal!SalesOverlapOnlyAcrossMounts'
  BY <1>3 DEF Modal!SalesOverlapOnlyAcrossMounts
<1>5. Modal!SellingWhileSold'
  BY <1>1, <1>3 DEF Modal!SellingWhileSold, Modal!OnSell, Modal!Here
<1> QED
  BY <1>1, <1>2, <1>4, <1>5 DEF Modal!ModalInv, Modal!PurchasedOnlyAfterOrder,
     Modal!ArmedOnlyAfterOrder

LEMMA ModalSalesBefore ==
    ASSUME Modal!ModalInv
    PROVE  /\ \A r, s \in ui.flight :
                 /\ r.kind \in {"confirm", "sale"} /\ s.kind \in {"confirm", "sale"}
                 /\ r.mount = s.mount
                 => r = s
           /\ \A r \in ui.flight : /\ ui.panel.tab = "sell" /\ r.kind \in {"confirm", "sale"}
                                  /\ r.mount = ui.mount
                                  => ui.panel.selling
  BY DEF Modal!ModalInv, Modal!SalesOverlapOnlyAcrossMounts, Modal!SellingWhileSold,
     Modal!OnSell, Modal!Here, Modal!Sales, Modal!Pending

LEMMA ModalConfirms ==
    ASSUME Modal!ModalInv, NEW side \in Modal!Sides, Modal!ConfirmSale(side)
    PROVE  Modal!ModalInv'
<1> DEFINE panel == [ui.panel EXCEPT !.side = side, !.selling = TRUE]
           new == [kind |-> "confirm", mount |-> ui.mount, id |-> ui.sent,
                   data |-> [side |-> side, amount |-> ui.panel.amount]]
           flight == ui.flight \union {new}
<1>1. new \in Modal!Requests /\ new.mount = ui.mount /\ new.kind = "confirm"
  BY ModalFields DEF Modal!Requests, Modal!Panels
<1>2. /\ panel \in Modal!Panels /\ panel.phase = ui.panel.phase /\ panel.armed = ui.panel.armed
      /\ panel.selling
  BY ModalFields DEF Modal!Panels
<1>3. ui' = [ui EXCEPT !.panel = panel, !.flight = flight]
  BY ModalFields DEF Modal!ConfirmSale, Modal!Send, Modal!Request
<1>4. ui' = [panel |-> panel, mount |-> ui.mount, token |-> ui.token,
             emptied |-> ui.emptied, sent |-> ui.sent, sentHere |-> ui.sentHere,
             closers |-> ui.closers, refreshes |-> ui.refreshes, flight |-> flight]
  <2> HIDE DEF panel, flight
  <2> QED
    BY <1>3, ModalFields
<1> HIDE DEF panel, new
<1>5. \A r \in ui.flight : r.kind \in {"confirm", "sale"} => r.mount # ui.mount
  BY ModalSalesBefore DEF Modal!ConfirmSale, Modal!OnSell, Modal!ActionDisabled
<1>6. /\ flight \in SUBSET Modal!Requests /\ \A r \in flight : r.mount <= ui.mount
      /\ \A r, s \in flight : /\ r.kind \in {"confirm", "sale"} /\ s.kind \in {"confirm", "sale"}
                              /\ r.mount = s.mount
                              => r = s
  <2>1. \A r \in flight : r \in ui.flight \/ r = new
    OBVIOUS
  <2>2. flight \in SUBSET Modal!Requests /\ \A r \in flight : r.mount <= ui.mount
    BY <1>1, ModalFields
  <2> HIDE DEF flight
  <2> QED
    BY <1>1, <1>5, <2>1, <2>2, ModalSalesBefore
<1> HIDE DEF flight
<1> QED
  BY <1>2, <1>4, <1>6, ModalSells

(* The answer to the quote of a sale: the sale follows it, or nothing does. *)
LEMMA ModalConfirmed ==
    ASSUME Modal!ModalInv, Modal!ConfirmAnswered
    PROVE  Modal!ModalInv'
<1>1. PICK r \in Modal!Pending("confirm"), quote \in BOOLEAN \union {None} :
        LET done == [ui EXCEPT !.flight = @ \ {r}]
            seen == IF Modal!Here(r) /\ Modal!OnSell
                    THEN [done EXCEPT !.panel.selling = (quote = TRUE),
                                      !.panel.quote = IF quote = None THEN @ ELSE quote,
                                      !.panel.failed = (quote = None) \/ @]
                    ELSE done
        IN  ui' = IF quote = TRUE THEN Modal!Send(seen, [r EXCEPT !.kind = "sale"]) ELSE seen
  BY DEF Modal!ConfirmAnswered
<1>2. r \in ui.flight /\ r.kind = "confirm" /\ r \in Modal!Requests /\ r.mount <= ui.mount
  BY ModalFields DEF Modal!Pending
<1> DEFINE selling == quote = TRUE
           shown == IF quote = None THEN ui.panel.quote ELSE quote
           failed == (quote = None) \/ ui.panel.failed
           sale == [r EXCEPT !.kind = "sale"]
           left == ui.flight \ {r}
           flight == IF selling THEN left \union {sale} ELSE left
<1>3. selling \in BOOLEAN /\ failed \in BOOLEAN /\ shown \in BOOLEAN \union {None}
  BY ModalFields DEF Modal!Panels
<1>4. sale \in Modal!Requests /\ sale.kind = "sale" /\ sale.mount = r.mount
  BY <1>2 DEF Modal!Requests
<1>5. \/ /\ Modal!Here(r) /\ Modal!OnSell
         /\ ui' = [[ui EXCEPT !.flight = left] EXCEPT
                     !.panel = [ui.panel EXCEPT !.selling = selling, !.quote = shown,
                                                !.failed = failed],
                     !.flight = flight]
      \/ ~(Modal!Here(r) /\ Modal!OnSell) /\ ui' = [ui EXCEPT !.flight = flight]
  <2> DEFINE done == [ui EXCEPT !.flight = left]
  <2>1. done.panel = ui.panel /\ done.flight = left
    BY ModalFields
  <2>2. CASE Modal!Here(r) /\ Modal!OnSell
    <3> DEFINE seen == [done EXCEPT !.panel.selling = selling, !.panel.quote = shown,
                                    !.panel.failed = failed]
               panel == [ui.panel EXCEPT !.selling = selling, !.quote = shown, !.failed = failed]
    <3>1. seen = [done EXCEPT !.panel = panel]
      BY <2>1, ModalFields DEF Modal!Panels
    <3>2. done.panel.quote = ui.panel.quote /\ done.panel.failed = ui.panel.failed
      BY <2>1
    <3>3. ui' = IF selling THEN Modal!Send(seen, sale) ELSE seen
      BY <1>1, <2>2, <3>2
    <3>4. seen.flight = left
      BY <2>1, <3>1
    <3>5. ui' = [done EXCEPT !.panel = panel, !.flight = flight]
      <4> HIDE DEF panel, selling, sale, left
      <4>1. CASE selling
        BY <3>1, <3>3, <3>4, <4>1, ModalFields DEF Modal!Send
      <4>2. CASE ~selling
        BY <3>1, <3>3, <3>4, <4>2, ModalFields
      <4> QED
        BY <4>1, <4>2
    <3> QED
      BY <2>2, <3>5
  <2>3. CASE ~(Modal!Here(r) /\ Modal!OnSell)
    BY <1>1, <2>1, <2>3, ModalFields DEF Modal!Send
  <2> QED
    BY <2>2, <2>3
<1> HIDE DEF shown, failed, sale
<1> DEFINE heard == [ui.panel EXCEPT !.selling = selling, !.quote = shown, !.failed = failed]
<1>6. /\ heard \in Modal!Panels /\ heard.phase = ui.panel.phase /\ heard.armed = ui.panel.armed
      /\ heard.selling = selling /\ heard.tab = ui.panel.tab
  <2> HIDE DEF selling
  <2> QED
    BY <1>3, ModalFields DEF Modal!Panels
<1>7. PICK panel \in {heard, ui.panel} :
        /\ ui' = [panel |-> panel, mount |-> ui.mount, token |-> ui.token,
                  emptied |-> ui.emptied, sent |-> ui.sent, sentHere |-> ui.sentHere,
                  closers |-> ui.closers, refreshes |-> ui.refreshes, flight |-> flight]
        /\ \/ panel = heard /\ Modal!Here(r) /\ Modal!OnSell
           \/ panel = ui.panel /\ ~(Modal!Here(r) /\ Modal!OnSell)
  <2> HIDE DEF heard, flight, left
  <2> QED
    BY <1>5, ModalFields DEF heard
<1> HIDE DEF heard
<1>8. /\ flight \in SUBSET Modal!Requests
      /\ \A s \in flight : \/ s \in ui.flight /\ s # r
                           \/ s = sale /\ selling
      /\ \A s \in flight : s.mount <= ui.mount
  BY <1>2, <1>4, ModalFields
<1> HIDE DEF flight, selling
<1>9. \A s, t \in flight : /\ s.kind \in {"confirm", "sale"} /\ t.kind \in {"confirm", "sale"}
                            /\ s.mount = t.mount
                            => s = t
  <2>1. \A s \in ui.flight : s.kind \in {"confirm", "sale"} /\ s.mount = r.mount => s = r
    BY <1>2, ModalSalesBefore
  <2> HIDE DEF left
  <2> QED
    BY <1>4, <1>8, <2>1, ModalSalesBefore
<1>10. \A s \in flight : /\ panel.tab = "sell" /\ s.kind \in {"confirm", "sale"}
                          /\ s.mount = ui.mount
                          => panel.selling
  <2>1. CASE panel = heard /\ Modal!Here(r)
    BY <1>2, <1>4, <1>6, <1>8, <2>1, ModalSalesBefore DEF Modal!Here
  <2>2. CASE panel = ui.panel /\ ~(Modal!Here(r) /\ Modal!OnSell)
    BY <1>4, <1>8, <2>2, ModalSalesBefore DEF Modal!Here, Modal!OnSell
  <2> QED
    BY <1>7, <2>1, <2>2
<1> QED
  BY <1>6, <1>7, <1>8, <1>9, <1>10, ModalFields, ModalSells

LEMMA ModalSold ==
    ASSUME Modal!ModalInv, Modal!SaleAnswered
    PROVE  Modal!ModalInv'
<1>1. PICK r \in Modal!Pending("sale"), ok \in BOOLEAN :
        LET done == [ui EXCEPT !.flight = @ \ {r}]
        IN  ui' = IF ok THEN Modal!TransactionSuccess(done)
                  ELSE IF Modal!Here(r) /\ Modal!OnSell
                  THEN [done EXCEPT !.panel.selling = FALSE, !.panel.failed = TRUE]
                  ELSE done
  BY DEF Modal!SaleAnswered
<1>2. r \in ui.flight /\ r.kind = "sale"
  BY ModalFields DEF Modal!Pending
<1> DEFINE flight == ui.flight \ {r}
<1>3. /\ flight \in SUBSET ui.flight /\ flight \in SUBSET Modal!Requests
      /\ \A s \in flight : s \in ui.flight /\ s # r /\ s.mount <= ui.mount
  BY ModalFields
<1>4. CASE ok
  <2>1. ui' = [panel |-> Modal!Closed, mount |-> ui.mount, token |-> ui.token,
               emptied |-> ui.emptied, sent |-> ui.sent,
               sentHere |-> ui.sentHere, closers |-> ui.closers, refreshes |-> 1, flight |-> flight]
    BY <1>1, <1>4, ModalFields DEF Modal!TransactionSuccess
  <2> HIDE DEF flight
  <2> QED
    BY <1>3, <2>1, ModalFields, ModalCloses
<1>5. CASE ~ok /\ Modal!Here(r) /\ Modal!OnSell
  <2> DEFINE panel == [ui.panel EXCEPT !.selling = FALSE, !.failed = TRUE]
  <2>1. panel \in Modal!Panels /\ panel.phase = ui.panel.phase /\ panel.armed = ui.panel.armed
    BY ModalFields DEF Modal!Panels
  <2>2. ui' = [panel |-> panel, mount |-> ui.mount, token |-> ui.token,
               emptied |-> ui.emptied, sent |-> ui.sent, sentHere |-> ui.sentHere,
               closers |-> ui.closers, refreshes |-> ui.refreshes, flight |-> flight]
    <3> DEFINE done == [ui EXCEPT !.flight = flight]
    <3>1. ui' = [done EXCEPT !.panel.selling = FALSE, !.panel.failed = TRUE]
      BY <1>1, <1>5
    <3>2. done.panel = ui.panel
      BY ModalFields
    <3>3. ui' = [done EXCEPT !.panel = panel]
      BY <3>1, <3>2, ModalFields DEF Modal!Panels
    <3> HIDE DEF panel, flight
    <3> QED
      BY <3>3, ModalFields
  <2>3. \A s \in flight : s.kind \in {"confirm", "sale"} => s.mount # ui.mount
    BY <1>2, <1>3, <1>5, ModalSalesBefore DEF Modal!Here
  <2> HIDE DEF panel, flight
  <2>4. \A s, t \in flight : /\ s.kind \in {"confirm", "sale"} /\ t.kind \in {"confirm", "sale"}
                              /\ s.mount = t.mount
                              => s = t
    BY <1>3, ModalSalesBefore
  <2> QED
    BY <1>3, <2>1, <2>2, <2>3, <2>4, ModalSells
<1>6. CASE ~ok /\ ~(Modal!Here(r) /\ Modal!OnSell)
  <2>1. PICK panel \in Modal!Panels : panel = ui.panel
    BY ModalFields
  <2>2. ui' = [panel |-> panel, mount |-> ui.mount, token |-> ui.token,
               emptied |-> ui.emptied, sent |-> ui.sent, sentHere |-> ui.sentHere,
               closers |-> ui.closers, refreshes |-> ui.refreshes, flight |-> flight]
    BY <1>1, <1>6, <2>1, ModalFields
  <2>3. flight = ui.flight \ {r}
    OBVIOUS
  <2> HIDE DEF flight
  <2> QED
    BY <1>2, <2>1, <2>2, <2>3, ModalFields, ModalHears
<1> QED
  BY <1>4, <1>5, <1>6

(* The login that ends, and the one that begins: no request goes out, and no sale is done. *)
LEMMA ModalLogins ==
    ASSUME Modal!ModalInv, Modal!SessionEnds \/ Modal!SessionBegins
    PROVE  Modal!ModalInv'
<1>1. ui.panel.phase = "success" \/ ui.panel.armed => ui.sentHere \/ ui.emptied
  BY DEF Modal!ModalInv, Modal!PurchasedOnlyAfterOrder, Modal!ArmedOnlyAfterOrder
<1> DEFINE empty == [ui.panel EXCEPT !.shares = {}, !.side = None, !.amount = 1, !.quote = None,
                                     !.failed = FALSE]
<1>2. /\ empty \in Modal!Panels /\ empty.phase = ui.panel.phase /\ empty.armed = ui.panel.armed
      /\ empty.tab = ui.panel.tab /\ empty.selling = ui.panel.selling
  <2>1. {} \in SUBSET Modal!Sides /\ 1 \in 0..1 /\ FALSE \in BOOLEAN
    OBVIOUS
  <2> QED
    BY <2>1, ModalFields DEF Modal!Panels
<1>3. /\ [ui EXCEPT !.token = FALSE, !.panel.shares = {}, !.panel.side = None,
                    !.panel.amount = 1, !.panel.quote = None, !.panel.failed = FALSE]
           = [ui EXCEPT !.token = FALSE, !.panel = empty]
  BY ModalFields DEF Modal!Panels
<1>4. \/ ui' = [ui EXCEPT !.token = FALSE, !.panel = empty]
      \/ \E t \in BOOLEAN : ui' = [ui EXCEPT !.token = t]
  <2> HIDE DEF empty
  <2> QED
    BY <1>3 DEF Modal!SessionEnds, Modal!SessionBegins
<1> HIDE DEF empty
<1>5. PICK panel \in {ui.panel, empty}, token \in BOOLEAN :
        ui' = [panel |-> panel, mount |-> ui.mount, token |-> token,
               emptied |-> ui.emptied, sent |-> ui.sent, sentHere |-> ui.sentHere,
               closers |-> ui.closers, refreshes |-> ui.refreshes, flight |-> ui.flight]
  BY <1>4, ModalFields
<1> QED
  BY <1>1, <1>2, <1>5, ModalFields, ModalMoves

LEMMA ModalNextInv == Modal!ModalInv /\ [Modal!Next]_ui => Modal!ModalInv'
<1> SUFFICES ASSUME Modal!ModalInv, [Modal!Next]_ui
             PROVE  Modal!ModalInv'
  OBVIOUS
<1>1. CASE Modal!Close
  <2>1. ui' = [panel |-> Modal!Closed, mount |-> ui.mount, token |-> ui.token,
               emptied |-> ui.emptied, sent |-> ui.sent, sentHere |-> ui.sentHere,
               closers |-> ui.closers, refreshes |-> ui.refreshes, flight |-> ui.flight]
    BY <1>1, ModalFields DEF Modal!Close
  <2> QED
    BY <2>1, ModalFields, ModalCloses
<1>8. CASE Modal!Open
  BY <1>8, ModalMounts DEF Modal!Open
<1>9. CASE Modal!SessionEnds \/ Modal!SessionBegins
  BY <1>9, ModalLogins
<1>2. ASSUME NEW t \in {"buy", "sell"}, Modal!SwitchTab(t)
      PROVE  Modal!ModalInv'
  BY <1>2, ModalMounts DEF Modal!SwitchTab
<1>3. CASE Modal!CloserFires
  <2> DEFINE closers == ui.closers - 1
  <2>1. closers \in Nat
    BY <1>3, ModalFields DEF Modal!CloserFires
  <2>2. ui' = [panel |-> Modal!Closed, mount |-> ui.mount, token |-> ui.token,
               emptied |-> ui.emptied, sent |-> ui.sent,
               sentHere |-> ui.sentHere, closers |-> closers, refreshes |-> 1,
               flight |-> ui.flight]
    BY <1>3, ModalFields DEF Modal!CloserFires, Modal!TransactionSuccess
  <2> HIDE DEF closers
  <2> QED
    BY <2>1, <2>2, ModalFields, ModalCloses
<1>4. CASE Modal!RefetchData \/ UNCHANGED ui
  <2>1. PICK refreshes \in {0, ui.refreshes} :
          ui' = [panel |-> ui.panel, mount |-> ui.mount, token |-> ui.token,
                 emptied |-> ui.emptied, sent |-> ui.sent,
                 sentHere |-> ui.sentHere, closers |-> ui.closers, refreshes |-> refreshes,
                 flight |-> ui.flight]
    BY <1>4, ModalFields DEF Modal!RefetchData
  <2>2. refreshes \in 0..1
    BY ModalFields
  <2>3. ui.panel.phase = "success" \/ ui.panel.armed => ui.sentHere \/ ui.emptied
    BY DEF Modal!ModalInv, Modal!PurchasedOnlyAfterOrder, Modal!ArmedOnlyAfterOrder
  <2> QED
    BY <2>1, <2>2, <2>3, ModalFields, ModalMoves
<1>5. CASE Modal!ToggleTerms \/ Modal!ShowPurchased \/ Modal!PhaseResets
  <2>1. "YES" \in Modal!Sides /\ 0 \in 0..1
    BY DEF Modal!Sides
  <2> QED
    BY <1>5, <2>1, ModalChoices
<1>6. ASSUME NEW side \in Modal!Sides, NEW n \in 0..1,
             Modal!ChooseSide(side) \/ Modal!TypeBet(n) \/ Modal!TypeSale(n)
      PROVE  Modal!ModalInv'
  BY <1>6, ModalChoices
<1>7. "YES" \in Modal!Sides /\ 0 \in 0..1
  BY DEF Modal!Sides
<1> QED
  BY <1>1, <1>2, <1>3, <1>4, <1>5, <1>6, <1>7, <1>8, <1>9, ModalOrders, ModalAnswers, ModalConfirms,
     ModalConfirmed, ModalSold DEF Modal!Next
-----------------------------------------------------------------------------
(* The resolution page. *)
LEMMA ResolveFields ==
    ASSUME Resolve!ResolveInv
    PROVE  /\ ui \in Resolve!Pages /\ second \in Resolve!Modals /\ third \in Resolve!Servers
           /\ ui.activity \in Resolve!Options /\ ui.picker \in Resolve!Options \union {None}
           /\ ui.shown \in Resolve!Servers \union {None} /\ ui.poll \in Resolve!Servers \union {None}
           /\ ui.request \in Resolve!Requests \union {None}
           /\ second.target \in Resolve!Options \union {None}
           /\ second.selected \in {"YES", "NO", None}
           /\ third[1] \in Resolve!Results \union {"open"} \/ ~Resolve!ConstantsOK
<1>1. Resolve!ConstantsOK => 1 \in Resolve!Options
  BY DEF Resolve!ConstantsOK, Resolve!Options
<1> QED
  BY <1>1 DEF Resolve!ResolveInv, Resolve!TypeOK, Resolve!Pages, Resolve!Modals, Resolve!Servers

(* Of some options one is the first. *)
LEMMA FirstOption ==
    ASSUME Resolve!ConstantsOK, NEW S \in SUBSET Resolve!Options, S # {}
    PROVE  Resolve!First(S) \in S
<1> DEFINE R == OpToRel(<, Nat)
<1>1. S \subseteq Nat
  BY DEF Resolve!Options, Resolve!ConstantsOK
<1>2. \E x \in S : \A y \in S : ~(<<y, x>> \in R)
  BY <1>1, WFMin, NatLessThanWellFounded, Zenon
<1>3. \A x, y \in Nat : y < x => <<y, x>> \in R
  BY DEF OpToRel
<1> HIDE DEF R
<1>4. PICK o \in S : \A p \in S : ~(<<p, o>> \in R)
  BY <1>2
<1>5. ASSUME NEW p \in S PROVE o <= p
  <2>1. p \in Nat /\ o \in Nat
    BY <1>1
  <2>2. ~(p < o)
    BY <1>3, <1>4, <2>1, Zenon
  <2> QED
    BY <2>1, <2>2, SMT
<1> QED
  BY <1>5 DEF Resolve!First

(* The parts of the page tell a resolution alike, whatever is shown. *)
LEMMA ResolveToldAlike ==
    ASSUME Resolve!ConstantsOK
    PROVE  Resolve!ToldAlike
<1>1. Resolve!Winners \in SUBSET Resolve!Options
  BY DEF Resolve!Winners, Resolve!Resolved
<1>2. Resolve!GroupAlert = "winners" => Resolve!Winners # {}
  BY DEF Resolve!GroupAlert
<1>3. Resolve!Winners # {} => Resolve!First(Resolve!Winners) \in Resolve!Winners
  BY <1>1, FirstOption
<1>4. Resolve!GroupAlert \in {"cancelled", "no winner"} => Resolve!Winners = {}
  <2>1. Resolve!GroupAlert = "cancelled" => \A o \in Resolve!Options : Resolve!Shown(o) = "N/A"
    BY DEF Resolve!GroupAlert
  <2>2. (\A o \in Resolve!Options : Resolve!Shown(o) = "N/A") => Resolve!Winners = {}
    BY DEF Resolve!Winners, Resolve!Resolved
  <2>3. Resolve!GroupAlert = "no winner" => Resolve!Winners = {}
    BY DEF Resolve!GroupAlert
  <2> QED
    BY <2>1, <2>2, <2>3
<1>5. Resolve!GroupAlert # "none" => Resolve!Resolved # {} /\ Resolve!Loaded
  BY DEF Resolve!GroupAlert, Resolve!Resolved
<1> QED
  BY <1>2, <1>3, <1>4, <1>5 DEF Resolve!ToldAlike, Resolve!GroupPanelWinner, Resolve!BannerWinner,
     Resolve!Panel, Resolve!GroupPanel, Resolve!BannerFinal

(* While the server has no result the page shows none. *)
LEMMA UntouchedShown ==
    ASSUME Resolve!ResolveInv, Resolve!Loaded, Resolve!Resolved # {}
    PROVE  third # Resolve!Open
<1>1. PICK o \in Resolve!Options : ui.shown[o] # "open"
  BY DEF Resolve!Resolved, Resolve!Shown
<1>2. third[o] # "open"
  BY <1>1 DEF Resolve!ResolveInv, Resolve!TypeOK, Resolve!TrueOf
<1> QED
  BY <1>2 DEF Resolve!Open

LEMMA ResolveInitInv == Resolve!ConstantsOK /\ Resolve!Init => Resolve!ResolveInv
<1> SUFFICES ASSUME Resolve!ConstantsOK, Resolve!Init
             PROVE  Resolve!ResolveInv
  OBVIOUS
<1>1. PICK grouped \in BOOLEAN, preview \in BOOLEAN, user \in {"out", "trader", "steward"} :
        ui = [grouped |-> grouped, preview |-> preview /\ grouped, user |-> user,
              market |-> "open", shown |-> None, load |-> grouped, poll |-> None,
              ended |-> FALSE, activity |-> 1, picker |-> None, dialog |-> "none",
              request |-> None]
  BY DEF Resolve!Init
<1> DEFINE early == preview /\ grouped
<1>2. early \in BOOLEAN /\ 1 \in Resolve!Options
  BY DEF Resolve!Options, Resolve!ConstantsOK
<1> HIDE DEF early
<1>3. ui = [grouped |-> grouped, preview |-> early, user |-> user,
            market |-> "open", shown |-> None, load |-> grouped, poll |-> None,
            ended |-> FALSE, activity |-> 1, picker |-> None, dialog |-> "none",
            request |-> None]
  BY <1>1 DEF early
<1>4. ui \in Resolve!Pages
  BY <1>2, <1>3 DEF Resolve!Pages
<1>5. second \in Resolve!Modals /\ ~second.open /\ second.target = None
  BY DEF Resolve!Init, Resolve!Closed, Resolve!Modals
<1>6. third \in Resolve!Servers
  BY DEF Resolve!Init, Resolve!Open, Resolve!Servers
<1> QED
  BY <1>3, <1>4, <1>5, <1>6, ResolveToldAlike DEF Resolve!ResolveInv, Resolve!TypeOK, Resolve!Loaded,
     Resolve!PollIsTrue, Resolve!PreselectsKnown, Resolve!UntouchedWasPicked

(* The same of the next state. *)
LEMMA ResolveToldAlikeNext == Resolve!ConstantsOK => Resolve!ToldAlike'
<1>1. Resolve!ConstantsOK => Resolve!ToldAlike
  BY ResolveToldAlike
<1>2. (Resolve!ConstantsOK => Resolve!ToldAlike)'
  BY <1>1, PTL
<1>3. Resolve!ConstantsOK => Resolve!ConstantsOK'
  BY DEF Resolve!ConstantsOK, Resolve!Servers, Resolve!Options
<1> QED
  BY <1>2, <1>3

(* What a step must keep. *)
LEMMA ResolveKeeps ==
    ASSUME Resolve!ConstantsOK, Resolve!ResolveInv,
           ui' \in Resolve!Pages, second' \in Resolve!Modals, third' \in Resolve!Servers,
           \A o \in Resolve!Options : third[o] # "open" => third'[o] = third[o],
           \/ ui'.shown = ui.shown
           \/ ui'.shown # None /\ \A o \in Resolve!Options : ui'.shown[o] # "open" => third[o] = ui'.shown[o],
           ui'.poll # None => \/ ui'.poll = ui.poll
                              \/ \A o \in Resolve!Options : ui'.poll[o] # "open" => third[o] = ui'.poll[o],
           second'.open => Resolve!CanResolve',
           \/ second'.target = None
           \/ second'.target = second.target /\ second'.picked = second.picked
           \/ Resolve!Loaded /\ (second'.picked \/ third # Resolve!Open),
           ui'.request # None => \/ ui'.request = ui.request
                                 \/ third = Resolve!Open => ui'.request.picked
    PROVE  Resolve!ResolveInv'
<1>1. third # Resolve!Open => third' # Resolve!Open
  <2> SUFFICES ASSUME third' = Resolve!Open PROVE third = Resolve!Open
    OBVIOUS
  <2>1. \A o \in Resolve!Options : third[o] = "open"
    BY DEF Resolve!Open
  <2> QED
    BY <2>1 DEF Resolve!Open, Resolve!ResolveInv, Resolve!TypeOK, Resolve!Servers
<1>2. ui'.shown # None => \A o \in Resolve!Options : ui'.shown[o] # "open" => third'[o] = ui'.shown[o]
  BY DEF Resolve!ResolveInv, Resolve!TypeOK, Resolve!TrueOf, Resolve!Loaded
<1>3. ui'.poll # None => \A o \in Resolve!Options : ui'.poll[o] # "open" => third'[o] = ui'.poll[o]
  BY DEF Resolve!ResolveInv, Resolve!PollIsTrue, Resolve!TrueOf
<1>4. Resolve!ToldAlike'
  BY ResolveToldAlikeNext
<1>5. Resolve!TypeOK'
  BY <1>2, <1>4 DEF Resolve!TypeOK, Resolve!TrueOf, Resolve!Loaded
<1>6. Resolve!PollIsTrue'
  BY <1>3 DEF Resolve!PollIsTrue, Resolve!TrueOf
<1>7. Resolve!PreselectsKnown'
  BY <1>1 DEF Resolve!ResolveInv, Resolve!PreselectsKnown, Resolve!Loaded
<1>8. Resolve!UntouchedWasPicked'
  BY <1>1 DEF Resolve!ResolveInv, Resolve!UntouchedWasPicked
<1> QED
  BY <1>5, <1>6, <1>7, <1>8 DEF Resolve!ResolveInv

(* The page shows something else, and the modal goes with its button. *)
LEMMA ResolveShows ==
    ASSUME Resolve!ConstantsOK, Resolve!ResolveInv,
           ui' \in Resolve!Pages, third' = third, second' = Resolve!Kept(Resolve!CanResolve'),
           \/ ui'.shown = ui.shown
           \/ ui'.shown # None /\ \A o \in Resolve!Options : ui'.shown[o] # "open" => third[o] = ui'.shown[o],
           ui'.poll # None => ui'.poll = ui.poll,
           ui'.request = ui.request
    PROVE  Resolve!ResolveInv'
<1>1. second' \in Resolve!Modals /\ third' \in Resolve!Servers
  BY DEF Resolve!ResolveInv, Resolve!TypeOK, Resolve!Kept, Resolve!Closed, Resolve!Modals
<1>2. second'.open => Resolve!CanResolve'
  BY DEF Resolve!Kept, Resolve!Closed
<1>3. second'.target = None \/ (second'.target = second.target /\ second'.picked = second.picked)
  BY DEF Resolve!Kept, Resolve!Closed
<1> QED
  BY <1>1, <1>2, <1>3, ResolveKeeps

(* The page alone changes, and nothing of what it shows of the group. *)
LEMMA ResolvePageStep ==
    ASSUME Resolve!ConstantsOK, Resolve!ResolveInv,
           ui' \in Resolve!Pages, third' = third, second' = second,
           ui'.shown = ui.shown, ui'.request = ui.request,
           second.open => ui'.user = ui.user /\ ui'.preview = ui.preview /\ ui'.market = ui.market,
           ui'.poll # None => \/ ui'.poll = ui.poll
                              \/ \A o \in Resolve!Options : ui'.poll[o] # "open" => third[o] = ui'.poll[o]
    PROVE  Resolve!ResolveInv'
<1>1. second' \in Resolve!Modals /\ third' \in Resolve!Servers
  BY DEF Resolve!ResolveInv, Resolve!TypeOK
<1>2. second'.open => Resolve!CanResolve'
  BY DEF Resolve!ResolveInv, Resolve!TypeOK, Resolve!CanResolve, Resolve!Loaded, Resolve!Resolved,
         Resolve!Shown
<1> QED
  BY <1>1, <1>2, ResolveKeeps

(* The modal alone changes, and is open only if it was or its button shows. *)
LEMMA ResolveModalStep ==
    ASSUME Resolve!ConstantsOK, Resolve!ResolveInv,
           ui' = ui, third' = third, second' \in Resolve!Modals,
           second'.open => Resolve!CanResolve,
           \/ second'.target = None
           \/ second'.target = second.target /\ second'.picked = second.picked
           \/ Resolve!Loaded /\ (second'.picked \/ third # Resolve!Open)
    PROVE  Resolve!ResolveInv'
<1>1. ui' \in Resolve!Pages /\ third' \in Resolve!Servers
  BY DEF Resolve!ResolveInv, Resolve!TypeOK
<1>2. second'.open => Resolve!CanResolve'
  BY DEF Resolve!CanResolve, Resolve!Loaded, Resolve!Resolved, Resolve!Shown
<1> QED
  BY <1>1, <1>2, ResolveKeeps

LEMMA ResolveGroupLoaded ==
    Resolve!ConstantsOK /\ Resolve!ResolveInv /\ Resolve!GroupLoaded => Resolve!ResolveInv'
<1> SUFFICES ASSUME Resolve!ConstantsOK, Resolve!ResolveInv, Resolve!GroupLoaded
             PROVE  Resolve!ResolveInv'
  OBVIOUS
<1>1. /\ ui' = [ui EXCEPT !.load = FALSE, !.shown = third]
      /\ second' = Resolve!Kept(Resolve!CanResolve') /\ third' = third
  BY DEF Resolve!GroupLoaded, Resolve!Show
<1>2. ui \in Resolve!Pages /\ third \in Resolve!Servers
  BY DEF Resolve!ResolveInv, Resolve!TypeOK
<1>3. ui' \in Resolve!Pages
  BY <1>1, <1>2 DEF Resolve!Pages
<1>4. ui'.shown = third /\ ui'.poll = ui.poll /\ ui'.request = ui.request
  BY <1>1, <1>2 DEF Resolve!Pages
<1>5. third # None
  BY <1>2 DEF Resolve!ConstantsOK
<1> QED
  BY <1>1, <1>3, <1>4, <1>5, ResolveShows

LEMMA ResolveGroupPollAnswered ==
    Resolve!ConstantsOK /\ Resolve!ResolveInv /\ Resolve!GroupPollAnswered => Resolve!ResolveInv'
<1> SUFFICES ASSUME Resolve!ConstantsOK, Resolve!ResolveInv, Resolve!GroupPollAnswered
             PROVE  Resolve!ResolveInv'
  OBVIOUS
<1>1. /\ ui' = [ui EXCEPT !.poll = None, !.shown = ui.poll] /\ ui.poll # None
      /\ second' = Resolve!Kept(Resolve!CanResolve') /\ third' = third
  BY DEF Resolve!GroupPollAnswered, Resolve!Show
<1>2. ui \in Resolve!Pages
  BY DEF Resolve!ResolveInv, Resolve!TypeOK
<1>3. ui' \in Resolve!Pages
  BY <1>1, <1>2 DEF Resolve!Pages
<1>4. ui'.shown = ui.poll /\ ui'.poll = None /\ ui'.request = ui.request
  BY <1>1, <1>2 DEF Resolve!Pages
<1>5. \A o \in Resolve!Options : ui.poll[o] # "open" => third[o] = ui.poll[o]
  BY <1>1 DEF Resolve!ResolveInv, Resolve!PollIsTrue, Resolve!TrueOf
<1> QED
  BY <1>1, <1>3, <1>4, <1>5, ResolveShows

LEMMA ResolveDetailsPolled ==
    Resolve!ConstantsOK /\ Resolve!ResolveInv /\ Resolve!DetailsPolled => Resolve!ResolveInv'
<1> SUFFICES ASSUME Resolve!ConstantsOK, Resolve!ResolveInv, Resolve!DetailsPolled
             PROVE  Resolve!ResolveInv'
  OBVIOUS
<1>1. /\ ui' = [ui EXCEPT !.market = third[1]]
      /\ second' = Resolve!Kept(Resolve!CanResolve') /\ third' = third
  BY DEF Resolve!DetailsPolled, Resolve!Show
<1>2. ui \in Resolve!Pages /\ third \in Resolve!Servers
  BY DEF Resolve!ResolveInv, Resolve!TypeOK
<1>3. third[1] \in Resolve!Results \union {"open"}
  BY <1>2 DEF Resolve!Servers, Resolve!Options, Resolve!ConstantsOK
<1>4. ui' \in Resolve!Pages
  BY <1>1, <1>2, <1>3 DEF Resolve!Pages
<1>5. ui'.shown = ui.shown /\ ui'.poll = ui.poll /\ ui'.request = ui.request
  BY <1>1, <1>2 DEF Resolve!Pages
<1> QED
  BY <1>1, <1>4, <1>5, ResolveShows

LEMMA ResolveQuietPage ==
    ASSUME Resolve!ConstantsOK, Resolve!ResolveInv,
           \/ Resolve!GroupPoll \/ Resolve!MarketEnds
           \/ \E o \in Resolve!Options : Resolve!FocusPicker(o)
           \/ Resolve!OpenPicker \/ Resolve!ChoosePicker \/ Resolve!ClosePicker
           \/ Resolve!AskLogin \/ Resolve!SwitchDialog \/ Resolve!LoggedIn
    PROVE  Resolve!ResolveInv' /\ third' = third
<1>1. ui \in Resolve!Pages /\ third \in Resolve!Servers
  BY DEF Resolve!ResolveInv, Resolve!TypeOK
<1>2. CASE Resolve!GroupPoll
  <2>1. ui' = [ui EXCEPT !.poll = third] /\ second' = second /\ third' = third
    BY <1>2 DEF Resolve!GroupPoll
  <2>2. ui' \in Resolve!Pages
    BY <1>1, <2>1 DEF Resolve!Pages
  <2>3. /\ ui'.shown = ui.shown /\ ui'.request = ui.request /\ ui'.poll = third
        /\ ui'.user = ui.user /\ ui'.preview = ui.preview /\ ui'.market = ui.market
    BY <1>1, <2>1 DEF Resolve!Pages
  <2> QED
    BY <2>1, <2>2, <2>3, ResolvePageStep
<1>3. CASE Resolve!MarketEnds
  <2>1. ui' = [ui EXCEPT !.ended = TRUE] /\ second' = second /\ third' = third
    BY <1>3 DEF Resolve!MarketEnds
  <2>2. ui' \in Resolve!Pages
    BY <1>1, <2>1 DEF Resolve!Pages
  <2>3. /\ ui'.shown = ui.shown /\ ui'.request = ui.request /\ ui'.poll = ui.poll
        /\ ui'.user = ui.user /\ ui'.preview = ui.preview /\ ui'.market = ui.market
    BY <1>1, <2>1 DEF Resolve!Pages
  <2> QED
    BY <2>1, <2>2, <2>3, ResolvePageStep
<1>4. ASSUME ~second.open, second' = second, third' = third,
             \/ \E o \in Resolve!Options : ui' = [ui EXCEPT !.picker = o]
             \/ ui.picker # None /\ ui' = [ui EXCEPT !.activity = ui.picker, !.picker = None]
             \/ ui' = [ui EXCEPT !.picker = None]
             \/ \E d \in {"none", "login", "forgot"} : ui' = [ui EXCEPT !.dialog = d]
             \/ ui' = [ui EXCEPT !.dialog = "none", !.user = "trader"]
      PROVE  Resolve!ResolveInv' /\ third' = third
  <2>1. ui' \in Resolve!Pages
    BY <1>1, <1>4 DEF Resolve!Pages
  <2>2. ui'.shown = ui.shown /\ ui'.request = ui.request /\ ui'.poll = ui.poll
    BY <1>1, <1>4 DEF Resolve!Pages
  <2> QED
    BY <1>4, <2>1, <2>2, ResolvePageStep
<1>5. CASE \/ \E o \in Resolve!Options : Resolve!FocusPicker(o)
           \/ Resolve!OpenPicker \/ Resolve!ChoosePicker \/ Resolve!ClosePicker
  <2>1. ui.activity \in Resolve!Options
    BY <1>1 DEF Resolve!Pages
  <2> QED
    BY <1>4, <1>5, <2>1 DEF Resolve!FocusPicker, Resolve!OpenPicker, Resolve!ChoosePicker,
       Resolve!ClosePicker, Resolve!Shows
<1>6. CASE Resolve!AskLogin \/ Resolve!SwitchDialog \/ Resolve!LoggedIn
  BY <1>4, <1>6 DEF Resolve!AskLogin, Resolve!SwitchDialog, Resolve!LoggedIn, Resolve!Shows
<1> QED
  BY <1>2, <1>3, <1>5, <1>6

LEMMA ResolveByOthers ==
    ASSUME Resolve!ConstantsOK, Resolve!ResolveInv,
           NEW o \in Resolve!Options, NEW r \in Elsewhere, Resolve!ResolvedElsewhere(o, r)
    PROVE  Resolve!ResolveInv'
<1>1. /\ third' = [third EXCEPT ![o] = r] /\ third[o] = "open" /\ ui' = ui /\ second' = second
  BY DEF Resolve!ResolvedElsewhere
<1>2. ui \in Resolve!Pages /\ second \in Resolve!Modals /\ third \in Resolve!Servers
  BY DEF Resolve!ResolveInv, Resolve!TypeOK
<1>3. third' \in Resolve!Servers /\ \A p \in Resolve!Options : third[p] # "open" => third'[p] = third[p]
  BY <1>1, <1>2 DEF Resolve!Servers, Resolve!ConstantsOK
<1>4. second'.open => Resolve!CanResolve'
  BY <1>1 DEF Resolve!ResolveInv, Resolve!TypeOK, Resolve!CanResolve, Resolve!Loaded, Resolve!Resolved,
         Resolve!Shown
<1> QED
  BY <1>1, <1>2, <1>3, <1>4, ResolveKeeps

(* What the modal offers first is an option that is open. *)
LEMMA ResolvePreselection ==
    ASSUME Resolve!ConstantsOK, Resolve!ResolveInv, Resolve!CanResolve
    PROVE  /\ Resolve!Preselection \in Resolve!Options \union {None}
           /\ Resolve!Preselection # None => Resolve!Loaded /\ third # Resolve!Open
<1>1. CASE Resolve!WinnerMode
  BY <1>1 DEF Resolve!Preselection
<1>2. CASE ~Resolve!WinnerMode /\ ~Resolve!IsGroup
  <2>1. Resolve!Preselection = second.target
    BY <1>2 DEF Resolve!Preselection
  <2>2. second.target = None
    BY <1>2 DEF Resolve!IsGroup, Resolve!ResolveInv, Resolve!PreselectsKnown
  <2> QED
    BY <2>1, <2>2
<1>3. CASE ~Resolve!WinnerMode /\ Resolve!IsGroup
  <2>1. Resolve!Loaded /\ Resolve!Resolved # {} /\ third # Resolve!Open
    BY <1>3, UntouchedShown DEF Resolve!WinnerMode, Resolve!IsGroup
  <2>2. Resolve!Options \ Resolve!Resolved # {}
    BY <2>1 DEF Resolve!CanResolve, Resolve!Resolved
  <2>3. Resolve!First(Resolve!Options \ Resolve!Resolved) \in Resolve!Options
    BY <2>2, FirstOption
  <2>4. ui.activity \in Resolve!Options
    BY DEF Resolve!ResolveInv, Resolve!TypeOK, Resolve!Pages
  <2> QED
    BY <1>3, <2>1, <2>3, <2>4 DEF Resolve!Preselection
<1> QED
  BY <1>1, <1>2, <1>3

LEMMA ResolveModalUsed ==
    ASSUME Resolve!ConstantsOK, Resolve!ResolveInv,
           \/ Resolve!HandleOpen \/ Resolve!HandleClose
           \/ \E o \in Resolve!Options : Resolve!PickOption(o)
           \/ \E r \in {"YES", "NO"} : Resolve!SelectOutcome(r)
    PROVE  Resolve!ResolveInv' /\ third' = third
<1>1. second \in Resolve!Modals
  BY DEF Resolve!ResolveInv, Resolve!TypeOK
<1>2. second.open => Resolve!CanResolve
  BY DEF Resolve!ResolveInv, Resolve!TypeOK
<1>3. CASE Resolve!HandleOpen
  <2> DEFINE first == Resolve!Preselection
  <2>1. Resolve!CanResolve
    BY <1>3 DEF Resolve!HandleOpen, Resolve!ButtonShown
  <2>2. /\ first \in Resolve!Options \union {None}
        /\ first # None => Resolve!Loaded /\ third # Resolve!Open
    BY <2>1, ResolvePreselection
  <2>3. /\ second' = [second EXCEPT !.open = TRUE, !.selected = None, !.error = FALSE,
                                    !.picked = FALSE, !.target = first]
        /\ ui' = ui /\ third' = third
    BY <1>3 DEF Resolve!HandleOpen, Resolve!Modal
  <2> HIDE DEF first
  <2>4. second' \in Resolve!Modals /\ second'.target = first
    BY <1>1, <2>2, <2>3 DEF Resolve!Modals
  <2> QED
    BY <2>1, <2>2, <2>3, <2>4, ResolveModalStep
<1>4. CASE Resolve!HandleClose
  <2>1. /\ second' = [second EXCEPT !.open = FALSE, !.selected = None, !.error = FALSE]
        /\ ui' = ui /\ third' = third
    BY <1>4 DEF Resolve!HandleClose, Resolve!Modal
  <2>2. /\ second' \in Resolve!Modals /\ ~second'.open
        /\ second'.target = second.target /\ second'.picked = second.picked
    BY <1>1, <2>1 DEF Resolve!Modals
  <2> QED
    BY <2>1, <2>2, ResolveModalStep
<1>5. ASSUME NEW o \in Resolve!Options, Resolve!PickOption(o)
      PROVE  Resolve!ResolveInv' /\ third' = third
  <2>1. /\ second' = [second EXCEPT !.target = o, !.selected = None, !.picked = TRUE]
        /\ ui' = ui /\ third' = third /\ second.open /\ Resolve!Loaded
    BY <1>5 DEF Resolve!PickOption, Resolve!Modal, Resolve!IsGroup
  <2>2. second' \in Resolve!Modals /\ second'.picked
    BY <1>1, <2>1 DEF Resolve!Modals
  <2> QED
    BY <1>2, <2>1, <2>2, ResolveModalStep
<1>6. ASSUME NEW r \in {"YES", "NO"}, Resolve!SelectOutcome(r)
      PROVE  Resolve!ResolveInv' /\ third' = third
  <2>1. second' = [second EXCEPT !.selected = r] /\ ui' = ui /\ third' = third /\ second.open
    BY <1>6 DEF Resolve!SelectOutcome, Resolve!Modal
  <2>2. /\ second' \in Resolve!Modals
        /\ second'.target = second.target /\ second'.picked = second.picked
    BY <1>1, <2>1 DEF Resolve!Modals
  <2> QED
    BY <1>2, <2>1, <2>2, ResolveModalStep
<1> QED
  BY <1>3, <1>4, <1>5, <1>6

LEMMA ResolveConfirm ==
    ASSUME Resolve!ConstantsOK, Resolve!ResolveInv, Resolve!HandleConfirm
    PROVE  Resolve!ResolveInv' /\ third' = third
<1> DEFINE sent == Resolve!Request
<1>1. /\ ui \in Resolve!Pages /\ second \in Resolve!Modals /\ third \in Resolve!Servers
      /\ second.open => Resolve!CanResolve
  BY DEF Resolve!ResolveInv, Resolve!TypeOK
<1>2. second.open /\ Resolve!Ready /\ third' = third
  BY DEF Resolve!HandleConfirm, Resolve!CanConfirm
<1>3. CASE sent.market = None
  <2>1. second' = [second EXCEPT !.error = TRUE] /\ ui' = ui
    BY <1>3 DEF Resolve!HandleConfirm
  <2>2. /\ second' \in Resolve!Modals
        /\ second'.target = second.target /\ second'.picked = second.picked
    BY <1>1, <2>1 DEF Resolve!Modals
  <2> QED
    BY <1>1, <1>2, <2>1, <2>2, ResolveModalStep
<1>4. CASE sent.market # None
  <2>1. /\ second' = [second EXCEPT !.submitting = TRUE, !.error = FALSE]
        /\ ui' = [ui EXCEPT !.request = sent]
    BY <1>4 DEF Resolve!HandleConfirm
  <2>2. sent \in Resolve!Requests
    <3>1. CASE Resolve!WinnerMode
      <4>1. sent = [kind |-> "group", market |-> second.target, result |-> "YES", picked |-> second.picked]
        BY <3>1 DEF Resolve!Request
      <4>2. second.target \in Resolve!Options /\ second.picked \in BOOLEAN
        BY <1>1, <1>2, <3>1 DEF Resolve!Ready, Resolve!Modals
      <4> QED
        BY <4>1, <4>2 DEF Resolve!Requests, Resolve!Results
    <3>2. CASE ~Resolve!WinnerMode
      <4> DEFINE market == IF Resolve!IsGroup THEN second.target ELSE 1
                 picked == ~Resolve!IsGroup
      <4>1. sent = [kind |-> "single", market |-> market, result |-> second.selected, picked |-> picked]
        BY <3>2 DEF Resolve!Request
      <4>2. 1 \in Resolve!Options
        BY DEF Resolve!Options, Resolve!ConstantsOK
      <4>3. sent.market = market
        BY <4>1
      <4>4. market \in Resolve!Options
        BY <1>1, <1>4, <4>2, <4>3 DEF Resolve!Modals
      <4>5. picked \in BOOLEAN
        OBVIOUS
      <4>6. second.selected \in {"YES", "NO"}
        BY <1>1, <1>2, <3>2 DEF Resolve!Ready, Resolve!Modals
      <4> HIDE DEF market, picked, sent
      <4> QED
        BY <4>1, <4>4, <4>5, <4>6 DEF Resolve!Requests, Resolve!Results
    <3> QED
      BY <3>1, <3>2
  <2>3. third = Resolve!Open => sent.picked
    <3> SUFFICES ASSUME third = Resolve!Open PROVE sent.picked
      OBVIOUS
    <3>1. CASE Resolve!WinnerMode
      BY <1>2, <3>1 DEF Resolve!Request, Resolve!Ready, Resolve!ResolveInv, Resolve!PreselectsKnown
    <3>2. CASE ~Resolve!WinnerMode
      <4>1. ~Resolve!IsGroup
        BY <3>2, UntouchedShown DEF Resolve!WinnerMode, Resolve!IsGroup
      <4> QED
        BY <3>2, <4>1 DEF Resolve!Request
    <3> QED
      BY <3>1, <3>2
  <2> HIDE DEF sent
  <2>4. /\ ui' \in Resolve!Pages /\ ui'.request = sent /\ ui'.shown = ui.shown /\ ui'.poll = ui.poll
        /\ ui'.user = ui.user /\ ui'.preview = ui.preview /\ ui'.market = ui.market
    BY <1>1, <2>1, <2>2 DEF Resolve!Pages
  <2>5. /\ second' \in Resolve!Modals /\ second'.open = second.open
        /\ second'.target = second.target /\ second'.picked = second.picked
    BY <1>1, <2>1 DEF Resolve!Modals
  <2>6. second'.open => Resolve!CanResolve'
    BY <1>1, <2>4, <2>5 DEF Resolve!CanResolve, Resolve!Loaded, Resolve!Resolved, Resolve!Shown
  <2> QED
    BY <1>1, <1>2, <2>3, <2>4, <2>5, <2>6, ResolveKeeps
<1> QED
  BY <1>3, <1>4

LEMMA ResolveAccepted ==
    ASSUME Resolve!ConstantsOK, Resolve!ResolveInv, Resolve!ResolutionAccepted
    PROVE  Resolve!ResolveInv' /\ Resolve!PickedAtOnce /\ Resolve!AloneUngrouped
<1>1. ui \in Resolve!Pages /\ second \in Resolve!Modals /\ third \in Resolve!Servers
  BY DEF Resolve!ResolveInv, Resolve!TypeOK
<1>2. /\ ui.request # None /\ Resolve!Accepts(ui.request) /\ third' = Resolve!After(ui.request)
      /\ ui' = [ui EXCEPT !.request = None, !.load = ui.grouped]
      /\ second' = [second EXCEPT !.open = FALSE, !.submitting = FALSE]
  BY DEF Resolve!ResolutionAccepted
<1>3. ui.request \in Resolve!Requests
  BY <1>1, <1>2 DEF Resolve!Pages
<1>4. /\ third' \in Resolve!Servers
      /\ \A o \in Resolve!Options : third[o] # "open" => third'[o] = third[o]
  <2>1. CASE ui.request.kind = "group"
    <3>1. \A o \in Resolve!Options : third[o] = "open"
      BY <1>2, <2>1 DEF Resolve!Accepts, Resolve!Open
    <3>2. third' = [o \in Resolve!Options |-> IF o = ui.request.market THEN "YES" ELSE "NO"]
      BY <1>2, <2>1 DEF Resolve!After
    <3> QED
      BY <3>1, <3>2 DEF Resolve!Servers, Resolve!Results
  <2>2. CASE ui.request.kind # "group"
    <3>1. third[ui.request.market] = "open"
      BY <1>2, <2>2 DEF Resolve!Accepts
    <3>2. third' = [third EXCEPT ![ui.request.market] = ui.request.result]
      BY <1>2, <2>2 DEF Resolve!After
    <3>3. ui.request.result \in Resolve!Results /\ ui.request.market \in Resolve!Options
      BY <1>3 DEF Resolve!Requests
    <3> QED
      BY <1>1, <3>1, <3>2, <3>3 DEF Resolve!Servers
  <2> QED
    BY <2>1, <2>2
<1>5. /\ ui' \in Resolve!Pages /\ ui'.request = None /\ ui'.shown = ui.shown /\ ui'.poll = ui.poll
  <2>1. ui.grouped \in BOOLEAN
    BY <1>1 DEF Resolve!Pages
  <2> QED
    BY <1>1, <1>2, <2>1 DEF Resolve!Pages
<1>6. /\ second' \in Resolve!Modals /\ ~second'.open
      /\ second'.target = second.target /\ second'.picked = second.picked
  BY <1>1, <1>2 DEF Resolve!Modals
<1>7. Resolve!ResolveInv'
  BY <1>4, <1>5, <1>6, ResolveKeeps
<1>8. third = Resolve!Open => ui.request.picked
  BY <1>2 DEF Resolve!ResolveInv, Resolve!UntouchedWasPicked
<1>9. ui.request.kind = "group" => third = Resolve!Open
  BY <1>2 DEF Resolve!Accepts
<1> QED
  BY <1>7, <1>8, <1>9 DEF Resolve!PickedAtOnce, Resolve!AloneUngrouped

LEMMA ResolveRefused ==
    ASSUME Resolve!ConstantsOK, Resolve!ResolveInv, Resolve!ResolutionRefused
    PROVE  Resolve!ResolveInv' /\ third' = third
<1>1. /\ ui \in Resolve!Pages /\ second \in Resolve!Modals /\ third \in Resolve!Servers
      /\ second.open => Resolve!CanResolve
  BY DEF Resolve!ResolveInv, Resolve!TypeOK
<1>2. /\ ui' = [ui EXCEPT !.request = None] /\ third' = third
      /\ second' = IF second.submitting THEN [second EXCEPT !.submitting = FALSE, !.error = TRUE] ELSE second
  BY DEF Resolve!ResolutionRefused
<1>3. /\ ui' \in Resolve!Pages /\ ui'.request = None /\ ui'.shown = ui.shown /\ ui'.poll = ui.poll
      /\ ui'.user = ui.user /\ ui'.preview = ui.preview /\ ui'.market = ui.market
  BY <1>1, <1>2 DEF Resolve!Pages
<1>4. /\ second' \in Resolve!Modals /\ second'.open = second.open
      /\ second'.target = second.target /\ second'.picked = second.picked
  BY <1>1, <1>2 DEF Resolve!Modals
<1>5. second'.open => Resolve!CanResolve'
  BY <1>1, <1>3, <1>4 DEF Resolve!CanResolve, Resolve!Loaded, Resolve!Resolved, Resolve!Shown
<1> QED
  BY <1>1, <1>2, <1>3, <1>4, <1>5, ResolveKeeps

(* Every step of the resolution page keeps its invariant, and resolves what was picked. *)
LEMMA ResolveNextInv ==
    ASSUME Resolve!ConstantsOK, Resolve!ResolveInv, [Resolve!Next]_<<ui, second, third>>
    PROVE  Resolve!ResolveInv' /\ Resolve!PickedAtOnce /\ Resolve!AloneUngrouped
<1>1. third' = third => Resolve!PickedAtOnce /\ Resolve!AloneUngrouped
  BY DEF Resolve!PickedAtOnce, Resolve!AloneUngrouped
<1>2. ui' = ui => Resolve!PickedAtOnce /\ Resolve!AloneUngrouped
  BY DEF Resolve!PickedAtOnce, Resolve!AloneUngrouped
<1>3. CASE Resolve!GroupLoaded \/ Resolve!GroupPollAnswered \/ Resolve!DetailsPolled
  <2>1. third' = third
    BY <1>3 DEF Resolve!GroupLoaded, Resolve!GroupPollAnswered, Resolve!DetailsPolled, Resolve!Show
  <2> QED
    BY <1>1, <1>3, <2>1, ResolveGroupLoaded, ResolveGroupPollAnswered, ResolveDetailsPolled
<1>4. CASE \/ Resolve!GroupPoll \/ Resolve!MarketEnds
           \/ \E o \in Resolve!Options : Resolve!FocusPicker(o)
           \/ Resolve!OpenPicker \/ Resolve!ChoosePicker \/ Resolve!ClosePicker
           \/ Resolve!AskLogin \/ Resolve!SwitchDialog \/ Resolve!LoggedIn
  BY <1>1, <1>4, ResolveQuietPage
<1>5. ASSUME NEW o \in Resolve!Options, NEW r \in Elsewhere, Resolve!ResolvedElsewhere(o, r)
      PROVE  Resolve!ResolveInv' /\ Resolve!PickedAtOnce /\ Resolve!AloneUngrouped
  <2>1. ui' = ui
    BY <1>5 DEF Resolve!ResolvedElsewhere
  <2> QED
    BY <1>2, <1>5, <2>1, ResolveByOthers
<1>6. CASE \/ Resolve!HandleOpen \/ Resolve!HandleClose
           \/ \E o \in Resolve!Options : Resolve!PickOption(o)
           \/ \E r \in {"YES", "NO"} : Resolve!SelectOutcome(r)
  BY <1>1, <1>6, ResolveModalUsed
<1>7. CASE Resolve!HandleConfirm
  BY <1>1, <1>7, ResolveConfirm
<1>8. CASE Resolve!ResolutionAccepted
  BY <1>8, ResolveAccepted
<1>9. CASE Resolve!ResolutionRefused
  BY <1>1, <1>9, ResolveRefused
<1>10. CASE UNCHANGED <<ui, second, third>>
  <2>1. ui \in Resolve!Pages /\ second \in Resolve!Modals /\ third \in Resolve!Servers
    BY DEF Resolve!ResolveInv, Resolve!TypeOK
  <2>2. second.open => Resolve!CanResolve
    BY DEF Resolve!ResolveInv, Resolve!TypeOK
  <2> QED
    BY <1>1, <1>10, <2>1, <2>2, ResolveModalStep
<1> QED
  BY <1>3, <1>4, <1>5, <1>6, <1>7, <1>8, <1>9, <1>10 DEF Resolve!Next
-----------------------------------------------------------------------------
(* The settings of the site. *)
LEMMA SettingsInitInv == Setting!ConstantsOK /\ Setting!Init => Setting!SettingsInv
<1> SUFFICES ASSUME Setting!ConstantsOK, Setting!Init
             PROVE  Setting!SettingsInv
  OBVIOUS
<1>1. Setting!Default \in Setting!Values
  BY DEF Setting!Default, Setting!Values
<1>2. Setting!Blank \in Setting!Fields /\ Setting!Blank.version = 0 /\ Setting!Blank.saving = None
  BY <1>1 DEF Setting!Blank, Setting!Fields
<1> QED
  BY <1>1, <1>2 DEF Setting!Init, Setting!SettingsInv, Setting!TypeOK, Setting!VersionsTell,
     Setting!ConstantsOK

(* A step of one form, while the server keeps what it has. *)
LEMMA SettingForms ==
    ASSUME Setting!SettingsInv, NEW s \in Settings, NEW f \in Setting!Fields,
           ui' = [ui EXCEPT ![s] = f], UNCHANGED second,
           f.version <= second.version,
           f.version = second.version /\ second.version > 1 => f.values = second.values,
           f.saving # None =>
               /\ ~f.loading /\ f.saving.version = f.version
               /\ \A t \in Settings \ {s} : f.saving.values[t] = f.values[t]
    PROVE  Setting!SettingsInv'
<1>1. ui' \in [Settings -> Setting!Fields]
  BY DEF Setting!SettingsInv, Setting!TypeOK
<1>2. ui'[s] = f /\ \A t \in Settings \ {s} : ui'[t] = ui[t]
  BY DEF Setting!SettingsInv, Setting!TypeOK
<1>3. Setting!TypeOK'
  BY <1>1, <1>2 DEF Setting!SettingsInv, Setting!TypeOK
<1>4. Setting!VersionsTell'
  BY <1>2 DEF Setting!SettingsInv, Setting!VersionsTell
<1> QED
  BY <1>3, <1>4 DEF Setting!SettingsInv

LEMMA SettingsNextInv ==
    /\ Setting!ConstantsOK /\ Setting!SettingsInv /\ [Setting!Next]_<<ui, second>>
    => Setting!SettingsInv' /\ Setting!SavesItsOwn
<1> SUFFICES ASSUME Setting!ConstantsOK, Setting!SettingsInv, [Setting!Next]_<<ui, second>>
             PROVE  Setting!SettingsInv' /\ Setting!SavesItsOwn
  OBVIOUS
<1>0. UNCHANGED second => Setting!SavesItsOwn
  BY DEF Setting!SavesItsOwn
<1>1. CASE UNCHANGED <<ui, second>>
  BY <1>0, <1>1 DEF Setting!SettingsInv, Setting!TypeOK, Setting!VersionsTell
<1> SUFFICES ASSUME NEW s \in Settings,
                    \/ Setting!Open(s) \/ Setting!LoadAnswered(s) \/ Setting!Toggle(s)
                    \/ Setting!Save(s) \/ Setting!SaveAccepted(s) \/ Setting!SaveFailed(s)
             PROVE  Setting!SettingsInv' /\ Setting!SavesItsOwn
  BY <1>1 DEF Setting!Next
<1>2. /\ ui[s] \in Setting!Fields /\ ui \in [Settings -> Setting!Fields]
      /\ second \in [values : Setting!Values, version : 1..MaxVersion, saved : BOOLEAN]
      /\ ui[s].version <= second.version
      /\ ui[s].version = second.version /\ second.version > 1 => ui[s].values = second.values
      /\ ui[s].saving # None =>
            /\ ~ui[s].loading /\ ui[s].saving.version = ui[s].version
            /\ \A t \in Settings \ {s} : ui[s].saving.values[t] = ui[s].values[t]
      /\ MaxVersion \in Nat \ {0} /\ second.version \in Nat /\ second.version >= 1
  BY DEF Setting!SettingsInv, Setting!TypeOK, Setting!VersionsTell, Setting!ConstantsOK
<1>3. CASE Setting!Open(s)
  <2> DEFINE opens == ui[s].opens + 1
             f == [Setting!Blank EXCEPT !.open = TRUE, !.opens = opens]
  <2>1. Setting!Default \in Setting!Values
    BY DEF Setting!Default, Setting!Values
  <2>2. f \in Setting!Fields /\ f.version = 0 /\ f.saving = None
    <3>1. opens \in Nat
      BY <1>2 DEF Setting!Fields
    <3> HIDE DEF opens
    <3> QED
      BY <2>1, <3>1 DEF Setting!Blank, Setting!Fields
  <2>3. ui' = [ui EXCEPT ![s] = f] /\ UNCHANGED second
    BY <1>3 DEF Setting!Open
  <2> HIDE DEF f
  <2>4. f.version <= second.version
    BY <1>2, <2>2
  <2>5. ~(f.version = second.version /\ second.version > 1)
    BY <1>2, <2>2
  <2>6. Setting!SettingsInv'
    BY <2>2, <2>3, <2>4, <2>5, SettingForms
  <2> QED
    BY <1>0, <2>3, <2>6
<1>4. CASE Setting!LoadAnswered(s)
  <2>1. PICK ok \in BOOLEAN :
           ui' = [ui EXCEPT ![s] = [(IF ok THEN Setting!Show(s, ui[s]) ELSE ui[s]) EXCEPT !.loading = FALSE]]
    BY <1>4 DEF Setting!LoadAnswered
  <2> DEFINE f == [(IF ok THEN Setting!Show(s, ui[s]) ELSE ui[s]) EXCEPT !.loading = FALSE]
  <2>2. ui[s].loading /\ ui[s].saving = None
    BY <1>2, <1>4 DEF Setting!LoadAnswered
  <2>3. CASE ok
    <3>1. f = [ui[s] EXCEPT !.values = second.values, !.version = second.version,
                            !.draft = second.values[s], !.loading = FALSE]
      BY <1>2, <2>3 DEF Setting!Show, Setting!Fields
    <3>2. second.values[s] \in BOOLEAN /\ second.version \in Nat /\ second.values \in Setting!Values
      BY <1>2 DEF Setting!Values
    <3>3. f \in Setting!Fields /\ f.version = second.version /\ f.values = second.values
                               /\ f.saving = None
      BY <1>2, <2>2, <3>1, <3>2 DEF Setting!Fields
    <3>4. ui' = [ui EXCEPT ![s] = f] /\ UNCHANGED second
      BY <1>4, <2>1 DEF Setting!LoadAnswered
    <3> HIDE DEF f
    <3>5. f.version <= second.version
      BY <3>2, <3>3
    <3>6. Setting!SettingsInv'
      BY <3>3, <3>4, <3>5, SettingForms
    <3> QED
      BY <1>0, <3>4, <3>6
  <2>4. CASE ~ok
    <3>1. f = [ui[s] EXCEPT !.loading = FALSE]
      BY <2>4
    <3>2. f \in Setting!Fields /\ f.version = ui[s].version /\ f.values = ui[s].values
                               /\ f.saving = None
      BY <1>2, <2>2, <3>1 DEF Setting!Fields
    <3> HIDE DEF f
    <3> QED
      BY <1>0, <1>2, <1>4, <2>1, <3>2, SettingForms DEF Setting!LoadAnswered, f
  <2> QED
    BY <2>3, <2>4
<1>5. CASE Setting!Toggle(s) \/ Setting!SaveFailed(s) \/ Setting!Save(s)
  <2>1. PICK draft \in BOOLEAN, saving \in Setting!Requests \union {None} :
          /\ ui' = [ui EXCEPT ![s] = [ui[s] EXCEPT !.draft = draft, !.saving = saving]]
          /\ UNCHANGED second
          /\ saving # None =>
                /\ ~ui[s].loading /\ saving.version = ui[s].version
                /\ \A t \in Settings \ {s} : saving.values[t] = ui[s].values[t]
    <3>1. CASE Setting!Toggle(s)
      <4>1. /\ ui' = [ui EXCEPT ![s] = [ui[s] EXCEPT !.draft = ~ui[s].draft]]
            /\ UNCHANGED second /\ ui[s].saving = None
        BY <1>2, <3>1 DEF Setting!Toggle, Setting!Enabled
      <4>2. [ui[s] EXCEPT !.draft = ~ui[s].draft]
              = [ui[s] EXCEPT !.draft = ~ui[s].draft, !.saving = None]
        BY <1>2, <4>1 DEF Setting!Fields
      <4> QED
        BY <4>1, <4>2
    <3>2. CASE Setting!SaveFailed(s)
      <4>1. ui' = [ui EXCEPT ![s] = [ui[s] EXCEPT !.draft = ui[s].draft, !.saving = None]]
        BY <1>2, <3>2 DEF Setting!SaveFailed, Setting!Fields
      <4> QED
        BY <1>2, <3>2, <4>1 DEF Setting!SaveFailed, Setting!Fields
    <3>3. CASE Setting!Save(s)
      <4> DEFINE r == Setting!Request(s)
      <4>1. /\ r \in Setting!Requests /\ r.version = ui[s].version
            /\ \A t \in Settings \ {s} : r.values[t] = ui[s].values[t]
        BY <1>2 DEF Setting!Request, Setting!Requests, Setting!Fields, Setting!Values
      <4>2. /\ ui' = [ui EXCEPT ![s] = [ui[s] EXCEPT !.saving = r]]
            /\ UNCHANGED second /\ ~ui[s].loading
        BY <3>3 DEF Setting!Save, Setting!Enabled
      <4>3. /\ ui[s].draft \in BOOLEAN
            /\ \A x : [ui[s] EXCEPT !.saving = x]
                         = [ui[s] EXCEPT !.draft = ui[s].draft, !.saving = x]
        BY <1>2 DEF Setting!Fields
      <4>4. ui' = [ui EXCEPT ![s] = [ui[s] EXCEPT !.draft = ui[s].draft, !.saving = r]]
        BY <4>2, <4>3
      <4> HIDE DEF r
      <4>5. r \in Setting!Requests \union {None}
        BY <4>1
      <4>6. r # None =>
              /\ ~ui[s].loading /\ r.version = ui[s].version
              /\ \A t \in Settings \ {s} : r.values[t] = ui[s].values[t]
        BY <4>1, <4>2
      <4>7. UNCHANGED second /\ ui[s].draft \in BOOLEAN
        BY <4>2, <4>3
      <4> QED
        BY <4>4, <4>5, <4>6, <4>7, Zenon
    <3> QED
      BY <1>5, <3>1, <3>2, <3>3
  <2> DEFINE f == [ui[s] EXCEPT !.draft = draft, !.saving = saving]
  <2>2. /\ f \in Setting!Fields /\ f.version = ui[s].version /\ f.values = ui[s].values
        /\ f.saving = saving /\ f.loading = ui[s].loading
    BY <1>2, <2>1 DEF Setting!Fields
  <2>3. ui' = [ui EXCEPT ![s] = f]
    BY <2>1
  <2> HIDE DEF f
  <2>4. f.version <= second.version
    BY <1>2, <2>2
  <2>5. f.version = second.version /\ second.version > 1 => f.values = second.values
    BY <1>2, <2>2
  <2>6. f.saving # None =>
            /\ ~f.loading /\ f.saving.version = f.version
            /\ \A t \in Settings \ {s} : f.saving.values[t] = f.values[t]
    BY <2>1, <2>2
  <2>7. Setting!SettingsInv'
    BY <2>1, <2>2, <2>3, <2>4, <2>5, <2>6, SettingForms
  <2> QED
    BY <1>0, <2>1, <2>7
<1>6. CASE Setting!SaveAccepted(s)
  <2> DEFINE version == IF second.saved THEN second.version + 1 ELSE 1
             values  == ui[s].saving.values
             f == [ui[s] EXCEPT !.values = values, !.saving = None, !.version = version,
                                !.draft = values[s]]
  <2>1. /\ ui[s].saving # None /\ Setting!Accepts(ui[s].saving) /\ second.version < MaxVersion
        /\ second' = [values |-> values, saved |-> TRUE, version |-> version]
        /\ ui' = [ui EXCEPT ![s] = f]
    BY <1>6 DEF Setting!SaveAccepted
  <2>2. values \in Setting!Values /\ values[s] \in BOOLEAN
    BY <1>2, <2>1 DEF Setting!Fields, Setting!Requests, Setting!Values
  <2>3. version \in 1..MaxVersion /\ version >= second.version /\ (version = second.version => version = 1)
    BY <1>2, <2>1 DEF Setting!SettingsInv, Setting!TypeOK, Setting!VersionsTell
  <2> HIDE DEF version, values
  <2>4. f \in Setting!Fields /\ f.version = version /\ f.values = values /\ f.saving = None
    <3>1. version \in Nat
      BY <1>2, <2>3
    <3>2. PICK draft \in BOOLEAN : draft = values[s]
      BY <2>2
    <3>3. f = [ui[s] EXCEPT !.values = values, !.saving = None, !.version = version, !.draft = draft]
      BY <3>2
    <3> HIDE DEF f
    <3> QED
      BY <1>2, <2>2, <3>1, <3>3 DEF Setting!Fields
  <2> HIDE DEF f
  <2>5. second'.version = version /\ second'.values = values /\ second'.saved
    BY <2>1
  <2>6. /\ ui' \in [Settings -> Setting!Fields]
        /\ ui'[s] = f /\ \A t \in Settings \ {s} : ui'[t] = ui[t]
    BY <1>2, <2>1, <2>4
  <2>7. \A t \in Settings : ui[t].version \in Nat
    BY <1>2 DEF Setting!Fields
  <2>8. Setting!TypeOK'
    BY <1>2, <2>1, <2>2, <2>3, <2>4, <2>5, <2>6, <2>7 DEF Setting!SettingsInv, Setting!TypeOK
  <2>9. Setting!VersionsTell'
    <3>1. \A t \in Settings : ui[t].version <= second.version /\ ui[t].version \in Nat
      BY <2>7 DEF Setting!SettingsInv, Setting!TypeOK
    <3>2. version # 1 => \A t \in Settings : ui[t].version # version
      BY <1>2, <2>3, <3>1
    <3>3. \A t \in Settings \ {s} : ui[t].saving # None =>
             /\ ~ui[t].loading /\ ui[t].saving.version = ui[t].version
             /\ \A x \in Settings \ {t} : ui[t].saving.values[x] = ui[t].values[x]
      BY DEF Setting!SettingsInv, Setting!VersionsTell
    <3>4. second'.saved /\ (second'.version > 1 => second'.version # 1)
      BY <2>1, <2>3, <2>5, <1>2
    <3>5. ASSUME NEW t \in Settings, ui'[t].version = second'.version, second'.version > 1
          PROVE  ui'[t].values = second'.values
      BY <2>4, <2>5, <2>6, <3>2, <3>4, <3>5
    <3> QED
      BY <2>4, <2>6, <3>3, <3>4, <3>5 DEF Setting!VersionsTell
  <2>10. Setting!SavesItsOwn
    <3>1. SUFFICES ASSUME NEW t \in Settings, values[t] # second.values[t],
                          t # s, ui[s].version # 0, second.version # 1
                   PROVE  FALSE
      BY <2>1, <2>4, <2>5, <2>6 DEF Setting!SavesItsOwn
    <3>2. values[t] = ui[s].values[t]
      BY <1>2, <2>1, <3>1 DEF values
    <3>3. second.saved /\ ui[s].version = second.version
      BY <1>2, <2>1, <3>1 DEF Setting!Accepts, Setting!SettingsInv, Setting!VersionsTell
    <3> QED
      BY <1>2, <3>1, <3>2, <3>3
  <2> QED
    BY <2>8, <2>9, <2>10 DEF Setting!SettingsInv
<1> QED
  BY <1>3, <1>4, <1>5, <1>6
-----------------------------------------------------------------------------
(* The moderation queue. *)
QueueRequests == Queue!Loads \union Queue!Decisions \union Queue!Saves

LEMMA QueueFields ==
    ASSUME Queue!QueueInv
    PROVE  /\ ui.ui \in Queue!Queues /\ ui.decided \in SUBSET Rows
           /\ ui.flight \in SUBSET QueueRequests /\ ui.mixed \in SUBSET Rows /\ ui.sent \in Nat
           /\ DOMAIN ui = {"ui", "decided", "flight", "mixed", "sent"}
           /\ ui.ui.mount \in Nat /\ ui.ui.searched \in Nat /\ ui.ui.shown \in Nat
           /\ \A r \in ui.flight : /\ r \in QueueRequests /\ r.id \in Nat /\ r.mount \in Nat
                                   /\ r.id <= ui.sent /\ r.mount <= ui.ui.mount
           /\ ui.ui.searched <= ui.sent
<1>1. \A r \in QueueRequests : r.id \in Nat /\ r.mount \in Nat
  BY DEF QueueRequests, Queue!Loads, Queue!Decisions, Queue!Saves
<1>2. \A u \in Queue!Queues : u.mount \in Nat /\ u.searched \in Nat /\ u.shown \in Nat
  BY DEF Queue!Queues
<1> QED
  BY <1>1, <1>2 DEF QueueRequests, Queue!QueueInv, Queue!TypeOK, Queue!Ui

(* A step: a queue of its fields keeps its invariant if the requests of the mount do theirs. *)
LEMMA QueueMoves ==
    ASSUME Queue!QueueInv,
           NEW u \in Queue!Queues, NEW decided \in SUBSET Rows, NEW flight \in SUBSET QueueRequests,
           NEW mixed \in SUBSET Rows, NEW sent \in Nat,
           ui' = [ui |-> u, decided |-> decided, flight |-> flight, mixed |-> mixed, sent |-> sent],
           u.mount >= ui.ui.mount, sent >= ui.sent, u.searched <= sent,
           \A r \in flight : r \in ui.flight \/ (r.id <= sent /\ r.mount <= u.mount)
    PROVE  /\ Queue!TypeOK' /\ ui'.ui = u /\ ui'.mixed = mixed /\ ui'.flight = flight
           /\ Queue!Ui' = u
           /\ \A kind : Queue!Pending(kind)' = {r \in flight : r.kind = kind /\ r.mount = u.mount}
<1>1. /\ ui'.ui = u /\ ui'.mixed = mixed /\ ui'.flight = flight /\ ui'.sent = sent
      /\ ui'.decided = decided /\ Queue!Ui' = u
  BY DEF Queue!Ui
<1>2. \A r \in flight : r.id <= sent /\ r.mount <= u.mount
  <2>1. u.mount \in Nat
    BY DEF Queue!Queues
  <2> QED
    BY <2>1, QueueFields
<1>3. ui' \in [ui : Queue!Queues, decided : SUBSET Rows, flight : SUBSET QueueRequests,
               mixed : SUBSET Rows, sent : Nat]
  OBVIOUS
<1>4. Queue!TypeOK'
  BY <1>1, <1>2, <1>3 DEF Queue!TypeOK, QueueRequests
<1> QED
  BY <1>1, <1>4 DEF Queue!Pending

(* A queue as it is mounted. *)
LEMMA QueueMounted ==
    ASSUME Queue!ConstantsOK, NEW k \in Queue!Kinds, NEW mount \in Nat
    PROVE  LET u == Queue!Mounted(k, mount)
           IN  /\ u \in Queue!Queues /\ u.mount = mount /\ u.searched = 0 /\ u.timer
               /\ u.by = "none"
<1>1. PICK view \in Views : view = CHOOSE v \in Views : TRUE
  BY DEF Queue!ConstantsOK
<1>2. Queue!Mounted(k, mount) =
        [kind |-> k, mount |-> mount, view |-> view, timer |-> TRUE,
         loading |-> TRUE, rows |-> {}, of |-> None, by |-> "none", shown |-> 0, searched |-> 0,
         busy |-> None, reasons |-> {}]
  BY <1>1 DEF Queue!Mounted
<1> QED
  BY <1>2 DEF Queue!Queues

LEMMA QueueInitInv == Queue!ConstantsOK /\ Queue!Init => Queue!QueueInv
<1> SUFFICES ASSUME Queue!ConstantsOK, Queue!Init
             PROVE  Queue!QueueInv
  OBVIOUS
<1>1. PICK k \in Queue!Kinds :
        ui = [ui |-> Queue!Mounted(k, 1), decided |-> {}, flight |-> {}, mixed |-> {}, sent |-> 0]
  BY DEF Queue!Init
<1> DEFINE u == Queue!Mounted(k, 1)
<1>2. u \in Queue!Queues /\ u.mount = 1 /\ u.searched = 0 /\ u.timer /\ u.by = "none"
  BY QueueMounted
<1> HIDE DEF u
<1>3. ui = [ui |-> u, decided |-> {}, flight |-> {}, mixed |-> {}, sent |-> 0]
  BY <1>1 DEF u
<1>4. \A kind : Queue!Pending(kind) = {}
  BY <1>3 DEF Queue!Pending
<1> QED
  BY <1>2, <1>3, <1>4 DEF Queue!QueueInv, Queue!TypeOK, Queue!UnmixedIsBusy,
     Queue!SearchedIsInTheBox, Queue!Ui

LEMMA QueueTabs ==
    ASSUME Queue!ConstantsOK, Queue!QueueInv, NEW k \in Queue!Kinds, Queue!SwitchTab(k)
    PROVE  Queue!QueueInv'
<1> DEFINE mount == ui.ui.mount + 1
           u == Queue!Mounted(k, mount)
<1>2. mount \in Nat /\ mount > ui.ui.mount
  BY QueueFields
<1> HIDE DEF mount
<1>4. u \in Queue!Queues /\ u.mount = mount /\ u.searched = 0 /\ u.timer /\ u.by = "none"
  BY <1>2, QueueMounted
<1>5. ui' = [ui |-> u, decided |-> ui.decided, flight |-> ui.flight, mixed |-> {}, sent |-> ui.sent]
  <2>1. ui' = [ui EXCEPT !.ui = u, !.mixed = {}]
    BY DEF Queue!SwitchTab, Queue!Ui, mount
  <2> QED
    BY <2>1 DEF Queue!QueueInv, Queue!TypeOK
<1> HIDE DEF u
<1>6. Queue!TypeOK' /\ Queue!Ui' = u /\ \A kind : Queue!Pending(kind)' = {}
  BY <1>2, <1>4, <1>5, QueueFields, QueueMoves
<1> QED
  BY <1>4, <1>6 DEF Queue!QueueInv, Queue!UnmixedIsBusy, Queue!SearchedIsInTheBox

(* A change of what the queue shows, with no request. *)
LEMMA QueueShows ==
    ASSUME Queue!QueueInv, NEW u \in Queue!Queues, ui' = [ui EXCEPT !.ui = u],
           u.mount = ui.ui.mount, u.busy = ui.ui.busy, u.searched = ui.ui.searched,
           u.by = ui.ui.by, u.shown = ui.ui.shown, u.of = ui.ui.of,
           u.timer \/ (u.timer = ui.ui.timer /\ u.view = ui.ui.view)
    PROVE  Queue!QueueInv'
<1>1. ui' = [ui |-> u, decided |-> ui.decided, flight |-> ui.flight, mixed |-> ui.mixed,
             sent |-> ui.sent]
  BY DEF Queue!QueueInv, Queue!TypeOK
<1>2. /\ Queue!TypeOK' /\ Queue!Ui' = u /\ ui'.mixed = ui.mixed
      /\ \A kind : Queue!Pending(kind)' = {r \in ui.flight : r.kind = kind /\ r.mount = u.mount}
  BY <1>1, QueueFields, QueueMoves
<1>3. \A kind : Queue!Pending(kind)' = Queue!Pending(kind)
  BY <1>2 DEF Queue!Pending, Queue!Ui
<1>4. Queue!Reloading' = Queue!Reloading /\ Queue!Work' = Queue!Work
  BY <1>3 DEF Queue!Reloading, Queue!Work
<1>5. Queue!UnmixedIsBusy'
  BY <1>2, <1>3, <1>4 DEF Queue!QueueInv, Queue!UnmixedIsBusy, Queue!Ui
<1>6. Queue!SearchedIsInTheBox'
  BY <1>2, <1>3 DEF Queue!QueueInv, Queue!SearchedIsInTheBox, Queue!Ui
<1> QED
  BY <1>2, <1>5, <1>6 DEF Queue!QueueInv

LEMMA QueueTimer ==
    ASSUME Queue!QueueInv, Queue!TimerFires
    PROVE  Queue!QueueInv'
<1> DEFINE next == ui.sent + 1
           new == [kind |-> "load", mount |-> ui.ui.mount, id |-> next,
                   view |-> ui.ui.view, by |-> "search"]
           u == [ui.ui EXCEPT !.timer = FALSE, !.searched = next, !.loading = TRUE]
           flight == ui.flight \union {new}
<1>1. new \in QueueRequests
  BY QueueFields DEF QueueRequests, Queue!Loads, Queue!Queues
<1>2. /\ u \in Queue!Queues /\ u.mount = ui.ui.mount /\ u.searched = ui.sent + 1 /\ u.by = ui.ui.by
      /\ u.shown = ui.ui.shown /\ u.busy = ui.ui.busy /\ u.view = ui.ui.view
  <2>1. next \in Nat /\ next = ui.sent + 1
    BY QueueFields
  <2> HIDE DEF next
  <2> QED
    BY <2>1, QueueFields DEF Queue!Queues
<1>3. ui' = [ui |-> u, decided |-> ui.decided, flight |-> flight, mixed |-> ui.mixed,
             sent |-> ui.sent + 1]
  <2>1. ui' = [ui EXCEPT !.sent = ui.sent + 1, !.ui = u, !.flight = flight]
    BY QueueFields DEF Queue!TimerFires, Queue!Load, Queue!Ui, Queue!QueueInv, Queue!TypeOK, Queue!Queues
  <2> QED
    BY <2>1 DEF Queue!QueueInv, Queue!TypeOK
<1>4. new.kind = "load" /\ new.id = ui.sent + 1 /\ new.mount = ui.ui.mount /\ new.by = "search"
      /\ new.view = ui.ui.view
  OBVIOUS
<1> HIDE DEF new, u
<1>5. /\ Queue!TypeOK' /\ Queue!Ui' = u /\ ui'.mixed = ui.mixed
      /\ \A kind : Queue!Pending(kind)' = {r \in flight : r.kind = kind /\ r.mount = u.mount}
  <2>1. flight \in SUBSET QueueRequests /\ \A r \in flight : r \in ui.flight \/ r = new
    BY <1>1, QueueFields
  <2>2. ui.sent + 1 \in Nat /\ ui.sent + 1 >= ui.sent /\ u.mount >= ui.ui.mount
    BY <1>2, QueueFields
  <2>3. \A r \in flight : r \in ui.flight \/ (r.id <= ui.sent + 1 /\ r.mount <= u.mount)
    BY <1>2, <1>4, <2>1, QueueFields
  <2> HIDE DEF flight
  <2> QED
    BY <1>2, <1>3, <2>1, <2>2, <2>3, QueueFields, QueueMoves
<1>6. /\ Queue!Pending("decision")' = Queue!Pending("decision")
      /\ Queue!Pending("save")' = Queue!Pending("save")
      /\ Queue!Pending("load")' = Queue!Pending("load") \union {new}
  BY <1>2, <1>4, <1>5 DEF Queue!Pending, Queue!Ui
<1>7. Queue!Reloading' = Queue!Reloading /\ Queue!Work' = Queue!Work
  BY <1>4, <1>6 DEF Queue!Reloading, Queue!Work
<1>8. Queue!UnmixedIsBusy'
  BY <1>2, <1>5, <1>6, <1>7 DEF Queue!QueueInv, Queue!UnmixedIsBusy, Queue!Ui
<1>9. Queue!SearchedIsInTheBox'
  <2>1. \A r \in Queue!Pending("load") : r.id \in Nat /\ r.id <= ui.sent
    BY QueueFields DEF Queue!Pending
  <2>2. \A r \in Queue!Pending("load") : r.id <= u.searched /\ r.id # u.searched
    BY <1>2, <2>1, QueueFields
  <2>3. u.by = "search" => u.shown <= u.searched /\ u.shown # u.searched
    BY <1>2, QueueFields DEF Queue!QueueInv, Queue!SearchedIsInTheBox, Queue!Ui
  <2> QED
    BY <1>2, <1>4, <1>5, <1>6, <2>2, <2>3, QueueFields DEF Queue!SearchedIsInTheBox
<1> QED
  BY <1>5, <1>8, <1>9 DEF Queue!QueueInv

(* A request answered while another queue is mounted leaves the page alone. *)
LEMMA QueueForeignAnswer ==
    ASSUME Queue!QueueInv, NEW r \in ui.flight, r.mount # ui.ui.mount, NEW decided \in SUBSET Rows,
           NEW u \in Queue!Queues, u = ui.ui, NEW flight, flight = ui.flight \ {r},
           ui' = [ui |-> u, decided |-> decided, flight |-> flight, mixed |-> ui.mixed,
                  sent |-> ui.sent]
    PROVE  Queue!QueueInv'
<1>1. /\ flight \in SUBSET QueueRequests /\ \A s \in flight : s \in ui.flight
      /\ u.mount >= ui.ui.mount /\ u.searched <= ui.sent
      /\ ui.mixed \in SUBSET Rows /\ ui.sent \in Nat /\ ui.sent >= ui.sent
  BY QueueFields
<1>2. /\ Queue!TypeOK' /\ Queue!Ui' = u /\ ui'.mixed = ui.mixed
      /\ \A kind : Queue!Pending(kind)' = {s \in flight : s.kind = kind /\ s.mount = u.mount}
  BY <1>1, QueueMoves
<1>3. \A kind : Queue!Pending(kind)' = Queue!Pending(kind)
  BY <1>2 DEF Queue!Pending, Queue!Ui
<1>4. Queue!Reloading' = Queue!Reloading /\ Queue!Work' = Queue!Work
  BY <1>3 DEF Queue!Reloading, Queue!Work
<1>5. Queue!UnmixedIsBusy'
  BY <1>2, <1>3, <1>4 DEF Queue!QueueInv, Queue!UnmixedIsBusy, Queue!Ui
<1>6. Queue!SearchedIsInTheBox'
  BY <1>2, <1>3 DEF Queue!QueueInv, Queue!SearchedIsInTheBox, Queue!Ui
<1> QED
  BY <1>2, <1>5, <1>6 DEF Queue!QueueInv

LEMMA QueueLoadAnswered ==
    ASSUME Queue!QueueInv, Queue!LoadAnswered
    PROVE  Queue!QueueInv'
<1>1. PICK r \in ui.flight, ok \in BOOLEAN :
        /\ r.kind = "load"
        /\ LET done == [ui EXCEPT !.flight = @ \ {r}]
           IN  ui' = IF r.mount # Queue!Ui.mount THEN done
                        ELSE [done EXCEPT !.ui.loading = FALSE, !.ui.of = r.view, !.ui.by = r.by,
                                          !.ui.shown = r.id,
                                          !.ui.rows = IF ok THEN Rows \ ui.decided ELSE {},
                                          !.ui.busy = IF r.by = "decision" THEN None ELSE @]
  BY DEF Queue!LoadAnswered
<1>2. CASE r.mount # ui.ui.mount
  <2>1. ui' = [ui |-> ui.ui, decided |-> ui.decided, flight |-> ui.flight \ {r},
               mixed |-> ui.mixed, sent |-> ui.sent]
    BY <1>1, <1>2 DEF Queue!QueueInv, Queue!TypeOK, Queue!Ui
  <2> QED
    BY <1>2, <2>1, QueueFields, QueueForeignAnswer
<1>3. CASE r.mount = ui.ui.mount
  <2> DEFINE rows == IF ok THEN Rows \ ui.decided ELSE {}
             busy == IF r.by = "decision" THEN None ELSE ui.ui.busy
             flight == ui.flight \ {r}
  <2>1. /\ r.view \in Views /\ r.by \in {"search", "decision"} /\ r.id \in Nat
        /\ rows \in SUBSET Rows /\ busy \in Rows \union {None}
    <3>1. r \in Queue!Loads
      BY <1>1, QueueFields DEF QueueRequests, Queue!Decisions, Queue!Saves
    <3> QED
      BY <3>1 DEF Queue!Loads, Queue!QueueInv, Queue!TypeOK, Queue!Queues
  <2>2. /\ flight \in SUBSET QueueRequests /\ \A s \in flight : s \in ui.flight
        /\ ui.sent >= ui.sent /\ ui.ui.mount >= ui.ui.mount
    BY QueueFields
  <2>3. r.by # "decision" => busy = ui.ui.busy
    OBVIOUS
  <2> HIDE DEF rows, busy, flight
  <2> DEFINE u == [ui.ui EXCEPT !.loading = FALSE, !.of = r.view, !.by = r.by, !.shown = r.id,
                                !.rows = rows, !.busy = busy]
  <2>4. /\ u \in Queue!Queues /\ u.mount = ui.ui.mount /\ u.searched = ui.ui.searched
        /\ u.by = r.by /\ u.shown = r.id /\ u.of = r.view /\ u.busy = busy
        /\ u.timer = ui.ui.timer /\ u.view = ui.ui.view
    BY <2>1, QueueFields DEF Queue!Queues
  <2>5. ui' = [ui |-> u, decided |-> ui.decided, flight |-> flight, mixed |-> ui.mixed,
               sent |-> ui.sent]
    <3>1. ui' = [ui EXCEPT !.flight = flight, !.ui = u]
      BY <1>1, <1>3 DEF Queue!Ui, Queue!QueueInv, Queue!TypeOK, Queue!Queues, rows, busy, flight
    <3> QED
      BY <3>1 DEF Queue!QueueInv, Queue!TypeOK
  <2> HIDE DEF u
  <2>6. /\ Queue!TypeOK' /\ Queue!Ui' = u /\ ui'.mixed = ui.mixed
        /\ \A kind : Queue!Pending(kind)' = {s \in flight : s.kind = kind /\ s.mount = u.mount}
    BY <2>2, <2>4, <2>5, QueueFields, QueueMoves
  <2>7. \A kind : Queue!Pending(kind)' = Queue!Pending(kind) \ {r}
    BY <2>4, <2>6 DEF Queue!Pending, Queue!Ui, flight
  <2>8. /\ r \in Queue!Pending("load") /\ Queue!Pending("decision")' = Queue!Pending("decision")
        /\ Queue!Work' = Queue!Work
    BY <1>1, <1>3, <2>7 DEF Queue!Pending, Queue!Ui, Queue!Work
  <2>9. Queue!UnmixedIsBusy'
    <3>1. Queue!Reloading' => Queue!Reloading
      BY <2>7 DEF Queue!Reloading
    <3>2. r.by = "decision" => Queue!Reloading
      BY <2>8 DEF Queue!Reloading
    <3> QED
      BY <2>3, <2>4, <2>6, <2>8, <3>1, <3>2 DEF Queue!QueueInv, Queue!UnmixedIsBusy, Queue!Ui
  <2>10. Queue!SearchedIsInTheBox'
    BY <2>1, <2>4, <2>6, <2>7, <2>8 DEF Queue!QueueInv, Queue!SearchedIsInTheBox, Queue!Ui
  <2> QED
    BY <2>6, <2>9, <2>10 DEF Queue!QueueInv
<1> QED
  BY <1>2, <1>3

LEMMA QueueDecide ==
    ASSUME Queue!QueueInv, NEW row \in Rows, NEW status \in {"approved", "rejected"},
           Queue!Decide(row, status)
    PROVE  Queue!QueueInv'
<1> DEFINE new == [kind |-> "decision", mount |-> ui.ui.mount, id |-> ui.sent + 1, row |-> row,
                   view |-> ui.ui.view, status |-> status]
           u == [ui.ui EXCEPT !.busy = row]
           flight == ui.flight \union {new}
           alone == Queue!Beside(row) = {} /\ ~Queue!Reloading
           mixed == IF alone THEN ui.mixed
                    ELSE ui.mixed \union Queue!Deciding \union {row}
<1>1. new \in QueueRequests
  BY QueueFields DEF QueueRequests, Queue!Decisions, Queue!Queues
<1>2. /\ u \in Queue!Queues /\ u.mount = ui.ui.mount /\ u.searched = ui.ui.searched
      /\ u.by = ui.ui.by /\ u.shown = ui.ui.shown /\ u.busy = row /\ u.view = ui.ui.view
      /\ u.timer = ui.ui.timer /\ u.of = ui.ui.of
  BY QueueFields DEF Queue!Queues
<1>3. mixed \in SUBSET Rows
  <2>1. \A r \in Queue!Pending("decision") : r.row \in Rows
    BY QueueFields DEF Queue!Pending, QueueRequests, Queue!Loads, Queue!Decisions, Queue!Saves
  <2>2. Queue!Deciding \subseteq Rows
    BY <2>1 DEF Queue!Deciding
  <2> QED
    BY <2>2, QueueFields
<1>4. ui' = [ui |-> u, decided |-> ui.decided, flight |-> flight, mixed |-> mixed,
             sent |-> ui.sent + 1]
  <2>1. ui' = [ui EXCEPT !.sent = ui.sent + 1, !.ui = u, !.mixed = mixed, !.flight = flight]
    BY QueueFields DEF Queue!Decide, Queue!Ui
  <2> QED
    BY <2>1 DEF Queue!QueueInv, Queue!TypeOK
<1>5. new.kind = "decision" /\ new.id = ui.sent + 1 /\ new.mount = ui.ui.mount /\ new.row = row
  OBVIOUS
<1>6. /\ alone => mixed = ui.mixed
      /\ ~alone => mixed = ui.mixed \union Queue!Deciding \union {row}
  OBVIOUS
<1> HIDE DEF new, u, mixed
<1>7. /\ Queue!TypeOK' /\ Queue!Ui' = u /\ ui'.mixed = mixed
      /\ \A kind : Queue!Pending(kind)' = {r \in flight : r.kind = kind /\ r.mount = u.mount}
  <2>1. flight \in SUBSET QueueRequests /\ \A r \in flight : r \in ui.flight \/ r = new
    BY <1>1, QueueFields
  <2>2. /\ ui.sent + 1 \in Nat /\ ui.sent + 1 >= ui.sent /\ u.mount >= ui.ui.mount
        /\ u.searched <= ui.sent + 1
    BY <1>2, QueueFields
  <2>3. \A r \in flight : r \in ui.flight \/ (r.id <= ui.sent + 1 /\ r.mount <= u.mount)
    BY <1>2, <1>5, <2>1, QueueFields
  <2> HIDE DEF flight
  <2> QED
    BY <1>2, <1>3, <1>4, <2>1, <2>2, <2>3, QueueFields, QueueMoves
<1>8. /\ Queue!Pending("decision")' = Queue!Pending("decision") \union {new}
      /\ Queue!Pending("save")' = Queue!Pending("save")
      /\ Queue!Pending("load")' = Queue!Pending("load")
  BY <1>2, <1>5, <1>7 DEF Queue!Pending, Queue!Ui
<1>9. Queue!Reloading' = Queue!Reloading
  BY <1>8 DEF Queue!Reloading
<1>10. Queue!UnmixedIsBusy'
  <2>1. CASE alone
    <3>1. /\ \A r \in Queue!Pending("save") : r.kind = "save"
          /\ \A r \in Queue!Pending("decision") : r.kind = "decision"
      BY DEF Queue!Pending
    <3>2. Queue!Pending("save") = {} /\ \A r \in Queue!Pending("decision") : r.row = row
      BY <2>1, <3>1 DEF Queue!Beside, Queue!Work
    <3>3. CASE row \in ui.mixed
      <4>1. \A s \in Queue!Pending("decision")' : s.row \in mixed
        BY <1>5, <1>6, <1>8, <2>1, <3>2, <3>3
      <4> QED
        BY <1>7, <4>1 DEF Queue!UnmixedIsBusy
    <3>4. CASE row \notin ui.mixed
      <4>1. ui.ui.busy # row
        BY DEF Queue!Decide, Queue!Decidable, Queue!Ui
      <4>2. \A r \in Queue!Pending("decision") : r.row \notin ui.mixed => ui.ui.busy = r.row
        BY DEF Queue!QueueInv, Queue!UnmixedIsBusy, Queue!Ui
      <4>3. Queue!Pending("decision") = {}
        BY <3>2, <3>4, <4>1, <4>2
      <4>4. Queue!Pending("decision")' = {new} /\ Queue!Work' = {new}
        BY <1>8, <3>2, <4>3 DEF Queue!Work
      <4> QED
        BY <1>2, <1>5, <1>7, <1>9, <2>1, <4>4 DEF Queue!UnmixedIsBusy
    <3> QED
      BY <3>3, <3>4
  <2>2. CASE ~alone
    <3>1. \A s \in Queue!Pending("decision")' : s.row \in mixed
      BY <1>5, <1>6, <1>8, <2>2 DEF Queue!Deciding
    <3> QED
      BY <1>7, <3>1 DEF Queue!UnmixedIsBusy
  <2> QED
    BY <2>1, <2>2
<1>11. Queue!SearchedIsInTheBox'
  BY <1>2, <1>7, <1>8 DEF Queue!QueueInv, Queue!SearchedIsInTheBox, Queue!Ui
<1> QED
  BY <1>7, <1>10, <1>11 DEF Queue!QueueInv

LEMMA QueueSaves ==
    ASSUME Queue!QueueInv, NEW row \in Rows, Queue!SaveMarketTags(row)
    PROVE  Queue!QueueInv'
<1> DEFINE new == [kind |-> "save", mount |-> ui.ui.mount, id |-> ui.sent + 1, row |-> row]
           u == [ui.ui EXCEPT !.busy = row]
           flight == ui.flight \union {new}
           mixed == ui.mixed \union Queue!Deciding
<1>1. new \in QueueRequests
  BY QueueFields DEF QueueRequests, Queue!Saves
<1>2. /\ u \in Queue!Queues /\ u.mount = ui.ui.mount /\ u.searched = ui.ui.searched
      /\ u.by = ui.ui.by /\ u.shown = ui.ui.shown /\ u.busy = row /\ u.view = ui.ui.view
      /\ u.timer = ui.ui.timer /\ u.of = ui.ui.of
  BY QueueFields DEF Queue!Queues
<1>3. mixed \in SUBSET Rows
  <2>1. \A r \in Queue!Pending("decision") : r.row \in Rows
    BY QueueFields DEF Queue!Pending, QueueRequests, Queue!Loads, Queue!Decisions, Queue!Saves
  <2>2. Queue!Deciding \subseteq Rows
    BY <2>1 DEF Queue!Deciding
  <2> QED
    BY <2>2, QueueFields
<1>4. ui' = [ui |-> u, decided |-> ui.decided, flight |-> flight, mixed |-> mixed,
             sent |-> ui.sent + 1]
  <2>1. ui' = [ui EXCEPT !.sent = ui.sent + 1, !.ui = u, !.mixed = mixed, !.flight = flight]
    BY QueueFields DEF Queue!SaveMarketTags, Queue!Ui
  <2> QED
    BY <2>1 DEF Queue!QueueInv, Queue!TypeOK
<1>5. new.kind = "save" /\ new.id = ui.sent + 1 /\ new.mount = ui.ui.mount
  OBVIOUS
<1>6. \A s \in Queue!Pending("decision") : s.row \in mixed
  BY DEF Queue!Deciding
<1> HIDE DEF new, u, mixed
<1>7. /\ Queue!TypeOK' /\ Queue!Ui' = u /\ ui'.mixed = mixed
      /\ \A kind : Queue!Pending(kind)' = {r \in flight : r.kind = kind /\ r.mount = u.mount}
  <2>1. flight \in SUBSET QueueRequests /\ \A r \in flight : r \in ui.flight \/ r = new
    BY <1>1, QueueFields
  <2>2. /\ ui.sent + 1 \in Nat /\ ui.sent + 1 >= ui.sent /\ u.mount >= ui.ui.mount
        /\ u.searched <= ui.sent + 1
    BY <1>2, QueueFields
  <2>3. \A r \in flight : r \in ui.flight \/ (r.id <= ui.sent + 1 /\ r.mount <= u.mount)
    BY <1>2, <1>5, <2>1, QueueFields
  <2> HIDE DEF flight
  <2> QED
    BY <1>2, <1>3, <1>4, <2>1, <2>2, <2>3, QueueFields, QueueMoves
<1>8. /\ Queue!Pending("decision")' = Queue!Pending("decision")
      /\ Queue!Pending("load")' = Queue!Pending("load")
  BY <1>2, <1>5, <1>7 DEF Queue!Pending, Queue!Ui
<1>9. Queue!UnmixedIsBusy'
  BY <1>6, <1>7, <1>8 DEF Queue!UnmixedIsBusy
<1>10. Queue!SearchedIsInTheBox'
  BY <1>2, <1>7, <1>8 DEF Queue!QueueInv, Queue!SearchedIsInTheBox, Queue!Ui
<1> QED
  BY <1>7, <1>9, <1>10 DEF Queue!QueueInv

LEMMA QueueDecided ==
    ASSUME Queue!ConstantsOK, Queue!QueueInv, Queue!DecisionSucceeded
    PROVE  Queue!QueueInv'
<1>1. PICK r \in ui.flight :
        /\ r.kind = "decision" /\ r.row \notin ui.decided
        /\ r.mount = Queue!Ui.mount => Queue!CanSend
        /\ LET done == [ui EXCEPT !.flight = @ \ {r}, !.decided = @ \union {r.row}]
           IN  ui' = IF r.mount # Queue!Ui.mount THEN done
                     ELSE Queue!Load([done EXCEPT !.ui.reasons = @ \ Queue!Rewritten(r)], r.view, "decision")
  BY DEF Queue!DecisionSucceeded
<1>2. r.row \in Rows /\ r.view \in Views
  BY <1>1, QueueFields DEF QueueRequests, Queue!Loads, Queue!Decisions, Queue!Saves
<1> DEFINE decided == ui.decided \union {r.row}
<1>3. decided \in SUBSET Rows
  BY <1>2, QueueFields
<1>4. CASE r.mount # ui.ui.mount
  <2>1. ui' = [ui |-> ui.ui, decided |-> decided, flight |-> ui.flight \ {r},
               mixed |-> ui.mixed, sent |-> ui.sent]
    BY <1>1, <1>4 DEF Queue!Ui, Queue!QueueInv, Queue!TypeOK
  <2> HIDE DEF decided
  <2> QED
    BY <1>3, <1>4, <2>1, QueueFields, QueueForeignAnswer
<1>5. CASE r.mount = ui.ui.mount
  <2> DEFINE reasons == ui.ui.reasons \ Queue!Rewritten(r)
             new == [kind |-> "load", mount |-> ui.ui.mount, id |-> ui.sent + 1,
                     view |-> r.view, by |-> "decision"]
             flight == (ui.flight \ {r}) \union {new}
  <2>1. reasons \in SUBSET Rows
    BY QueueFields DEF Queue!Queues
  <2>2. new \in QueueRequests
    BY <1>2, QueueFields DEF QueueRequests, Queue!Loads
  <2> DEFINE u == [ui.ui EXCEPT !.reasons = reasons, !.loading = TRUE]
  <2>3. /\ u \in Queue!Queues /\ u.mount = ui.ui.mount /\ u.searched = ui.ui.searched
        /\ u.by = ui.ui.by /\ u.shown = ui.ui.shown /\ u.busy = ui.ui.busy
        /\ u.view = ui.ui.view /\ u.timer = ui.ui.timer /\ u.of = ui.ui.of
    <3> HIDE DEF reasons
    <3> QED
      BY <2>1, QueueFields DEF Queue!Queues
  <2>4. ui' = [ui |-> u, decided |-> decided, flight |-> flight, mixed |-> ui.mixed,
               sent |-> ui.sent + 1]
    <3>1. ui' = [ui EXCEPT !.sent = ui.sent + 1, !.decided = decided, !.ui = u, !.flight = flight]
      BY <1>1, <1>5, QueueFields DEF Queue!Load, Queue!Ui, Queue!QueueInv, Queue!TypeOK, Queue!Queues
    <3> QED
      BY <3>1 DEF Queue!QueueInv, Queue!TypeOK
  <2>5. new.kind = "load" /\ new.id = ui.sent + 1 /\ new.mount = ui.ui.mount /\ new.by = "decision"
    OBVIOUS
  <2> HIDE DEF new, u, decided
  <2>6. /\ Queue!TypeOK' /\ Queue!Ui' = u /\ ui'.mixed = ui.mixed
        /\ \A kind : Queue!Pending(kind)' = {s \in flight : s.kind = kind /\ s.mount = u.mount}
    <3>1. flight \in SUBSET QueueRequests /\ \A s \in flight : s \in ui.flight \/ s = new
      BY <2>2, QueueFields
    <3>2. /\ ui.sent + 1 \in Nat /\ ui.sent + 1 >= ui.sent /\ u.mount >= ui.ui.mount
          /\ u.searched <= ui.sent + 1
      BY <2>3, QueueFields
    <3>3. \A s \in flight : s \in ui.flight \/ (s.id <= ui.sent + 1 /\ s.mount <= u.mount)
      BY <2>3, <2>5, <3>1, QueueFields
    <3> HIDE DEF flight
    <3> QED
      BY <1>3, <2>3, <2>4, <3>1, <3>2, <3>3, QueueFields, QueueMoves
  <2>7. /\ Queue!Pending("decision")' = Queue!Pending("decision") \ {r}
        /\ Queue!Pending("load")' = Queue!Pending("load") \union {new}
    <3>1. Queue!Pending("decision")' = Queue!Pending("decision") \ {r}
      BY <2>3, <2>5, <2>6 DEF Queue!Pending, Queue!Ui
    <3>2. Queue!Pending("load")' = Queue!Pending("load") \union {new}
      BY <1>1, <2>3, <2>5, <2>6 DEF Queue!Pending, Queue!Ui
    <3> QED
      BY <3>1, <3>2
  <2>8. r \in Queue!Pending("decision")
    BY <1>1, <1>5 DEF Queue!Pending, Queue!Ui
  <2>9. Queue!UnmixedIsBusy'
    BY <2>6, <2>7, <2>8 DEF Queue!QueueInv, Queue!UnmixedIsBusy, Queue!Work
  <2>10. Queue!SearchedIsInTheBox'
    BY <2>3, <2>5, <2>6, <2>7 DEF Queue!QueueInv, Queue!SearchedIsInTheBox, Queue!Ui
  <2> QED
    BY <2>6, <2>9, <2>10 DEF Queue!QueueInv
<1> QED
  BY <1>4, <1>5

(* A decision that fails, and an answer to a save, free whatever row is busy. *)
LEMMA QueueFreesBusy ==
    ASSUME Queue!QueueInv, NEW r \in ui.flight, r.kind \in {"decision", "save"},
           NEW decided \in SUBSET Rows,
           NEW u \in Queue!Queues, u.mount = ui.ui.mount, u.searched = ui.ui.searched,
           u.by = ui.ui.by, u.shown = ui.ui.shown, u.of = ui.ui.of, u.timer = ui.ui.timer,
           u.view = ui.ui.view, r.mount # ui.ui.mount => u.busy = ui.ui.busy,
           ui' = [ui |-> u, decided |-> decided, flight |-> ui.flight \ {r},
                  mixed |-> ui.mixed, sent |-> ui.sent]
    PROVE  Queue!QueueInv'
<1> DEFINE flight == ui.flight \ {r}
<1>1. /\ flight \in SUBSET QueueRequests /\ \A s \in flight : s \in ui.flight
      /\ ui.sent >= ui.sent /\ u.mount >= ui.ui.mount /\ u.searched <= ui.sent
  BY QueueFields
<1>2. ui' = [ui |-> u, decided |-> decided, flight |-> flight, mixed |-> ui.mixed,
             sent |-> ui.sent]
  OBVIOUS
<1>3. flight = ui.flight \ {r}
  OBVIOUS
<1> HIDE DEF flight
<1>4. /\ Queue!TypeOK' /\ Queue!Ui' = u /\ ui'.mixed = ui.mixed
      /\ \A kind : Queue!Pending(kind)' = {s \in flight : s.kind = kind /\ s.mount = u.mount}
  BY <1>1, <1>2, QueueFields, QueueMoves
<1>5. /\ Queue!Pending("decision")' = Queue!Pending("decision") \ {r}
      /\ Queue!Work' = Queue!Work \ {r}
      /\ Queue!Pending("load")' = Queue!Pending("load")
  BY <1>3, <1>4 DEF Queue!Pending, Queue!Ui, Queue!Work
<1>6. r.mount = ui.ui.mount => r \in Queue!Work
  BY DEF Queue!Pending, Queue!Ui, Queue!Work
<1>7. r.mount # ui.ui.mount =>
          r \notin Queue!Work /\ Queue!Pending("decision")' = Queue!Pending("decision")
  BY <1>5 DEF Queue!Pending, Queue!Ui, Queue!Work
<1>8. Queue!UnmixedIsBusy'
  BY <1>4, <1>5, <1>6, <1>7 DEF Queue!QueueInv, Queue!UnmixedIsBusy, Queue!Reloading, Queue!Ui
<1>9. Queue!SearchedIsInTheBox'
  BY <1>4, <1>5 DEF Queue!QueueInv, Queue!SearchedIsInTheBox, Queue!Ui
<1> QED
  BY <1>4, <1>8, <1>9 DEF Queue!QueueInv

LEMMA QueueFrees ==
    ASSUME Queue!QueueInv, NEW r \in ui.flight, r.kind \in {"decision", "save"},
           NEW decided \in SUBSET Rows,
           ui' = [ui EXCEPT !.flight = @ \ {r}, !.ui.busy = Queue!Freed(r), !.decided = decided]
    PROVE  Queue!QueueInv'
<1> DEFINE u == [ui.ui EXCEPT !.busy = Queue!Freed(r)]
           flight == ui.flight \ {r}
<1>1. Queue!Freed(r) \in Rows \union {None} /\ (r.mount # ui.ui.mount => Queue!Freed(r) = ui.ui.busy)
  BY QueueFields DEF Queue!Freed, Queue!Ui, Queue!Queues
<1>2. /\ u \in Queue!Queues /\ u.mount = ui.ui.mount /\ u.searched = ui.ui.searched
      /\ u.by = ui.ui.by /\ u.shown = ui.ui.shown /\ u.of = ui.ui.of
      /\ u.timer = ui.ui.timer /\ u.view = ui.ui.view /\ u.busy = Queue!Freed(r)
  BY <1>1, QueueFields DEF Queue!Queues
<1>3. ui' = [ui |-> u, decided |-> decided, flight |-> flight, mixed |-> ui.mixed,
             sent |-> ui.sent]
  BY DEF Queue!QueueInv, Queue!TypeOK
<1>4. decided \in SUBSET Rows /\ Queue!QueueInv
  OBVIOUS
<1>5. r.mount # ui.ui.mount => u.busy = ui.ui.busy
  BY <1>1, <1>2
<1>6. r \in ui.flight /\ r.kind \in {"decision", "save"}
  OBVIOUS
<1> HIDE DEF u
<1> QED
  BY ONLY <1>2, <1>3, <1>4, <1>5, <1>6, QueueFreesBusy

LEMMA QueueUndecided ==
    ASSUME Queue!QueueInv, Queue!DecisionFailed
    PROVE  Queue!QueueInv'
<1>1. PICK r \in ui.flight, lost \in BOOLEAN :
        /\ r.kind = "decision"
        /\ ui' = [ui EXCEPT !.flight = @ \ {r}, !.ui.busy = Queue!Freed(r),
                            !.decided = IF lost THEN @ \union {r.row} ELSE @]
  BY DEF Queue!DecisionFailed
<1> DEFINE decided == IF lost THEN ui.decided \union {r.row} ELSE ui.decided
<1>2. decided \in SUBSET Rows
  <2>1. r.row \in Rows
    BY <1>1, QueueFields DEF QueueRequests, Queue!Loads, Queue!Decisions, Queue!Saves
  <2> QED
    BY <2>1, QueueFields
<1>3. ui' = [ui EXCEPT !.flight = @ \ {r}, !.ui.busy = Queue!Freed(r), !.decided = decided]
  BY <1>1
<1> HIDE DEF decided
<1> QED
  BY <1>1, <1>2, <1>3, QueueFrees

LEMMA QueueSaved ==
    ASSUME Queue!QueueInv, Queue!SaveAnswered
    PROVE  Queue!QueueInv'
<1>1. PICK r \in ui.flight :
        r.kind = "save" /\ ui' = [ui EXCEPT !.flight = @ \ {r}, !.ui.busy = Queue!Freed(r)]
  BY DEF Queue!SaveAnswered
<1> DEFINE decided == ui.decided
<1>2. ui' = [ui EXCEPT !.flight = @ \ {r}, !.ui.busy = Queue!Freed(r), !.decided = decided]
  BY <1>1, QueueFields DEF Queue!QueueInv, Queue!TypeOK
<1>3. decided \in SUBSET Rows
  BY QueueFields
<1> HIDE DEF decided
<1> QED
  BY <1>1, <1>2, <1>3, QueueFrees

LEMMA QueueNextInv == Queue!ConstantsOK /\ Queue!QueueInv /\ [Queue!Next]_ui => Queue!QueueInv'
<1> SUFFICES ASSUME Queue!ConstantsOK, Queue!QueueInv, [Queue!Next]_ui
             PROVE  Queue!QueueInv'
  OBVIOUS
<1>1. CASE UNCHANGED ui
  BY <1>1 DEF Queue!QueueInv, Queue!TypeOK, Queue!UnmixedIsBusy, Queue!SearchedIsInTheBox,
     Queue!Pending, Queue!Reloading, Queue!Work, Queue!Ui
<1>2. ASSUME NEW v \in Views, Queue!Search(v)
      PROVE  Queue!QueueInv'
  <2> DEFINE u == [ui.ui EXCEPT !.view = v, !.timer = TRUE]
  <2>1. /\ u \in Queue!Queues /\ u.mount = ui.ui.mount /\ u.searched = ui.ui.searched
        /\ u.by = ui.ui.by /\ u.shown = ui.ui.shown /\ u.of = ui.ui.of /\ u.timer
        /\ u.busy = ui.ui.busy
    BY QueueFields DEF Queue!Queues
  <2>2. ui' = [ui EXCEPT !.ui = u]
    BY <1>2 DEF Queue!Search, Queue!QueueInv, Queue!TypeOK
  <2> QED
    BY <2>1, <2>2, QueueShows
<1>3. ASSUME NEW row \in Rows, Queue!WriteReason(row)
      PROVE  Queue!QueueInv'
  <2> DEFINE reasons == ui.ui.reasons \union {row}
             u == [ui.ui EXCEPT !.reasons = reasons]
  <2>1. /\ u \in Queue!Queues /\ u.mount = ui.ui.mount /\ u.searched = ui.ui.searched
        /\ u.by = ui.ui.by /\ u.shown = ui.ui.shown /\ u.of = ui.ui.of
        /\ u.timer = ui.ui.timer /\ u.busy = ui.ui.busy /\ u.view = ui.ui.view
    <3>1. reasons \in SUBSET Rows
      BY QueueFields DEF Queue!Queues
    <3> HIDE DEF reasons
    <3> QED
      BY <3>1, QueueFields DEF Queue!Queues
  <2>2. ui' = [ui EXCEPT !.ui = u]
    BY <1>3 DEF Queue!WriteReason, Queue!QueueInv, Queue!TypeOK
  <2> HIDE DEF u
  <2> QED
    BY <2>1, <2>2, QueueShows
<1>4. ASSUME NEW row \in Rows, NEW status \in {"approved", "rejected"},
             Queue!ReviewAmendment(row, status) \/ Queue!ReviewAddition(row, status)
      PROVE  Queue!QueueInv'
  BY <1>4, QueueDecide DEF Queue!ReviewAmendment, Queue!ReviewAddition
<1>5. ASSUME NEW row \in Rows, Queue!ApproveMarket(row) \/ Queue!RejectMarket(row)
      PROVE  Queue!QueueInv'
  BY <1>5, QueueDecide DEF Queue!ApproveMarket, Queue!RejectMarket
<1> QED
  BY <1>1, <1>2, <1>3, <1>4, <1>5, QueueTabs, QueueTimer, QueueLoadAnswered, QueueDecided,
     QueueUndecided, QueueSaves, QueueSaved DEF Queue!Next

LEMMA QueueInvShows == Queue!QueueInv => Queue!TwiceOnlyAfterMixing /\ Queue!ForeignListOnlyLate
<1> SUFFICES ASSUME Queue!QueueInv
             PROVE  Queue!TwiceOnlyAfterMixing /\ Queue!ForeignListOnlyLate
  OBVIOUS
<1>1. Queue!TwiceOnlyAfterMixing
  BY DEF Queue!QueueInv, Queue!UnmixedIsBusy, Queue!TwiceOnlyAfterMixing, Queue!Work
<1>2. ui.ui.by \in {"none", "search", "decision"}
  BY QueueFields DEF Queue!Queues
<1>3. Queue!ForeignListOnlyLate
  BY <1>2, QueueFields DEF Queue!QueueInv, Queue!SearchedIsInTheBox, Queue!ForeignListOnlyLate, Queue!Ui
<1> QED
  BY <1>1, <1>3
-----------------------------------------------------------------------------
(* The stewardship of markets. *)
LEMMA StewardInitInv == Steward!ConstantsOK /\ Steward!Init => Steward!StewardshipInv
<1> SUFFICES ASSUME Steward!ConstantsOK, Steward!Init
             PROVE  Steward!StewardshipInv
  OBVIOUS
<1>1. Steward!First(Stewards) \in Stewards /\ Steward!First(Views) \in Views
  BY DEF Steward!ConstantsOK, Steward!First
<1> DEFINE first == Steward!First(Stewards)
           view == Steward!First(Views)
           forms == [r \in Rows |-> Steward!EmptyForm]
<1>2. second = [r \in Rows |-> first]
  BY DEF Steward!Init
<1>3. ui = [view |-> view, timer |-> TRUE, load |-> None, rows |-> None, busy |-> None,
            moderators |-> "loading", forms |-> forms, flight |-> {}, sent |-> 0, raced |-> {}]
  BY DEF Steward!Init
<1>4. forms \in [Rows -> [steward : Stewards \union {None}, reason : BOOLEAN]]
  BY DEF Steward!EmptyForm
<1> HIDE DEF first, view, forms
<1>5. second \in [Rows -> Stewards]
  BY <1>1, <1>2 DEF first
<1>6. ui \in Steward!Queues
  BY <1>1, <1>3, <1>4 DEF Steward!Queues, view
<1> QED
  BY <1>3, <1>5, <1>6 DEF Steward!StewardshipInv, Steward!TypeOK, Steward!OneEach, Steward!Calm,
     Steward!DoneIsTrue, Steward!LoadIsTrue, Steward!PageLoading, Steward!ListIsTrue, Steward!AtRest,
     Steward!Shown

(* A step that leaves the list, the loads and the requests alone. *)
LEMMA StewardQuiet ==
    ASSUME Steward!StewardshipInv, ui' \in Steward!Queues, second' = second,
           ui'.view = ui.view, ui'.timer = ui.timer, ui'.load = ui.load, ui'.rows = ui.rows,
           ui'.busy = ui.busy, ui'.flight = ui.flight, ui'.raced = ui.raced
    PROVE  Steward!StewardshipInv'
<1>1. Steward!TypeOK'
  BY DEF Steward!StewardshipInv, Steward!TypeOK, Steward!InFlight
<1>2. Steward!OneEach' /\ Steward!DoneIsTrue'
  BY DEF Steward!StewardshipInv, Steward!OneEach, Steward!Calm, Steward!DoneIsTrue
<1>3. Steward!LoadIsTrue'
  BY DEF Steward!StewardshipInv, Steward!LoadIsTrue, Steward!PageLoading, Steward!TrueList,
     Steward!InFlight
<1>4. Steward!ListIsTrue'
  BY DEF Steward!StewardshipInv, Steward!ListIsTrue, Steward!AtRest, Steward!Shown,
     Steward!PageLoading, Steward!TrueList, Steward!InFlight
<1> QED
  BY <1>1, <1>2, <1>3, <1>4 DEF Steward!StewardshipInv

(* A step of the loads alone: what the list and the load then tell is left to show. *)
LEMMA StewardLoads ==
    ASSUME Steward!StewardshipInv, ui' \in Steward!Queues, second' = second,
           ui'.busy = ui.busy, ui'.flight = ui.flight,
           ui'.raced = ui.raced \/ (\A f \in ui.flight : f.row \in ui'.raced),
           Steward!LoadIsTrue', Steward!ListIsTrue'
    PROVE  Steward!StewardshipInv'
<1>1. Steward!TypeOK'
  BY DEF Steward!StewardshipInv, Steward!TypeOK, Steward!InFlight
<1>2. Steward!OneEach' /\ Steward!DoneIsTrue'
  BY DEF Steward!StewardshipInv, Steward!OneEach, Steward!Calm, Steward!DoneIsTrue
<1> QED
  BY <1>1, <1>2 DEF Steward!StewardshipInv

LEMMA StewardQuietSteps ==
    ASSUME Steward!ConstantsOK, Steward!StewardshipInv,
           \/ Steward!ModeratorsLoaded
           \/ \E r \in Rows : Steward!TypeReason(r)
           \/ \E r \in Rows, s \in Stewards : Steward!TypeSteward(r, s)
    PROVE  Steward!StewardshipInv'
<1>1. ui \in Steward!Queues
  BY DEF Steward!StewardshipInv, Steward!TypeOK
<1>2. CASE Steward!ModeratorsLoaded
  <2>1. PICK result \in {"loaded", "none", "failed"} :
          ui' = [ui EXCEPT !.moderators = result] /\ second' = second
    BY <1>2 DEF Steward!ModeratorsLoaded, Steward!Desk
  <2>2. ui' \in Steward!Queues
    BY <1>1, <2>1 DEF Steward!Queues
  <2>3. /\ ui'.view = ui.view /\ ui'.timer = ui.timer /\ ui'.load = ui.load /\ ui'.rows = ui.rows
        /\ ui'.busy = ui.busy /\ ui'.flight = ui.flight /\ ui'.raced = ui.raced
    BY <1>1, <2>1 DEF Steward!Queues
  <2> QED
    BY <2>1, <2>2, <2>3, StewardQuiet
<1>3. ASSUME NEW r \in Rows,
             \/ Steward!TypeReason(r)
             \/ \E s \in Stewards : Steward!TypeSteward(r, s)
      PROVE  Steward!StewardshipInv'
  <2>1. ui.forms \in [Rows -> [steward : Stewards \union {None}, reason : BOOLEAN]]
    BY <1>1 DEF Steward!Queues
  <2>2. \E filled \in [steward : Stewards \union {None}, reason : BOOLEAN] :
          ui' = [ui EXCEPT !.forms = [ui.forms EXCEPT ![r] = filled]] /\ second' = second
    <3>1. CASE Steward!TypeReason(r)
      <4>1. ui' = [ui EXCEPT !.forms = [ui.forms EXCEPT ![r] = [ui.forms[r] EXCEPT !.reason = TRUE]]]
            /\ second' = second
        BY <3>1 DEF Steward!TypeReason, Steward!Desk
      <4>2. [ui.forms[r] EXCEPT !.reason = TRUE] \in [steward : Stewards \union {None}, reason : BOOLEAN]
        BY <2>1
      <4> QED
        BY <4>1, <4>2
    <3>2. ASSUME NEW s \in Stewards, Steward!TypeSteward(r, s)
          PROVE  \E filled \in [steward : Stewards \union {None}, reason : BOOLEAN] :
                   ui' = [ui EXCEPT !.forms = [ui.forms EXCEPT ![r] = filled]] /\ second' = second
      <4>1. ui' = [ui EXCEPT !.forms = [ui.forms EXCEPT ![r] = [ui.forms[r] EXCEPT !.steward = s]]]
            /\ second' = second
        BY <3>2 DEF Steward!TypeSteward, Steward!Desk
      <4>2. [ui.forms[r] EXCEPT !.steward = s] \in [steward : Stewards \union {None}, reason : BOOLEAN]
        BY <2>1
      <4> QED
        BY <4>1, <4>2
    <3> QED
      BY <1>3, <3>1, <3>2
  <2>3. PICK filled \in [steward : Stewards \union {None}, reason : BOOLEAN] :
          ui' = [ui EXCEPT !.forms = [ui.forms EXCEPT ![r] = filled]] /\ second' = second
    BY <2>2
  <2> DEFINE forms == [ui.forms EXCEPT ![r] = filled]
  <2>4. ui' = [ui EXCEPT !.forms = forms] /\ second' = second
    BY <2>3
  <2>5. forms \in [Rows -> [steward : Stewards \union {None}, reason : BOOLEAN]]
    BY <2>1
  <2> HIDE DEF forms
  <2>6. ui' \in Steward!Queues
    BY <1>1, <2>4, <2>5 DEF Steward!Queues
  <2>7. /\ ui'.view = ui.view /\ ui'.timer = ui.timer /\ ui'.load = ui.load /\ ui'.rows = ui.rows
        /\ ui'.busy = ui.busy /\ ui'.flight = ui.flight /\ ui'.raced = ui.raced
    BY <1>1, <2>4 DEF Steward!Queues
  <2> QED
    BY <2>4, <2>6, <2>7, StewardQuiet
<1> QED
  BY <1>2, <1>3

LEMMA StewardLoading ==
    ASSUME Steward!ConstantsOK, Steward!StewardshipInv,
           \/ \E v \in Views : Steward!Search(v)
           \/ Steward!TimerFires \/ Steward!LoadRead \/ Steward!LoadAnswered \/ Steward!LoadFailed
    PROVE  Steward!StewardshipInv'
<1>1. ui \in Steward!Queues /\ second \in [Rows -> Stewards]
  BY DEF Steward!StewardshipInv, Steward!TypeOK
<1>2. ASSUME NEW v \in Views, Steward!Search(v) PROVE Steward!StewardshipInv'
  <2>1. ui' = [ui EXCEPT !.view = v, !.timer = TRUE, !.load = None] /\ second' = second
    BY <1>2 DEF Steward!Search, Steward!Desk
  <2>2. ui' \in Steward!Queues
    BY <1>1, <2>1 DEF Steward!Queues
  <2>3. /\ ui'.timer /\ ui'.load = None /\ ui'.busy = ui.busy /\ ui'.flight = ui.flight
        /\ ui'.raced = ui.raced
    BY <1>1, <2>1 DEF Steward!Queues
  <2>4. Steward!LoadIsTrue' /\ Steward!ListIsTrue'
    BY <2>3 DEF Steward!LoadIsTrue, Steward!PageLoading, Steward!ListIsTrue, Steward!AtRest
  <2> QED
    BY <2>1, <2>2, <2>3, <2>4, StewardLoads
<1>3. CASE Steward!TimerFires
  <2> DEFINE asked == [view |-> ui.view, stewards |-> None]
             raced == {f.row : f \in ui.flight}
             sent == ui.sent + 1
  <2>1. /\ ui' = [ui EXCEPT !.timer = FALSE, !.sent = sent, !.load = asked, !.raced = raced]
        /\ second' = second
    BY <1>3 DEF Steward!TimerFires, Steward!Desk
  <2>2. asked \in Steward!Loads /\ asked.view = ui.view /\ asked.stewards = None
    BY <1>1 DEF Steward!Queues, Steward!Loads
  <2>3. raced \in SUBSET Rows /\ \A f \in ui.flight : f.row \in raced
    BY <1>1 DEF Steward!Queues, Steward!Requests
  <2>4. sent \in Nat
    BY <1>1 DEF Steward!Queues
  <2>5. asked # None
    BY <2>2 DEF Steward!ConstantsOK
  <2> HIDE DEF asked, raced, sent
  <2>6. ui' \in Steward!Queues
    BY <1>1, <2>1, <2>2, <2>3, <2>4 DEF Steward!Queues
  <2>7. /\ ~ui'.timer /\ ui'.load = asked /\ ui'.busy = ui.busy /\ ui'.flight = ui.flight
        /\ ui'.raced = raced /\ ui'.view = ui.view
    BY <1>1, <2>1 DEF Steward!Queues
  <2>8. Steward!LoadIsTrue' /\ Steward!ListIsTrue'
    BY <2>2, <2>5, <2>7 DEF Steward!LoadIsTrue, Steward!PageLoading, Steward!ListIsTrue, Steward!AtRest
  <2> QED
    BY <2>1, <2>3, <2>6, <2>7, <2>8, StewardLoads
<1>4. CASE Steward!LoadRead
  <2> DEFINE read == [ui.load EXCEPT !.stewards = second]
  <2>1. ui' = [ui EXCEPT !.load = read] /\ second' = second /\ Steward!PageLoading
    BY <1>4 DEF Steward!LoadRead, Steward!Desk
  <2>2. ui.load \in Steward!Loads
    BY <1>1, <2>1 DEF Steward!Queues, Steward!PageLoading
  <2>3. read \in Steward!Loads /\ read.view = ui.load.view /\ read.stewards = second
    BY <1>1, <2>2 DEF Steward!Loads
  <2>4. ui.load.view = ui.view /\ ~ui.timer
    BY <2>1 DEF Steward!StewardshipInv, Steward!LoadIsTrue
  <2>5. read # None
    BY <2>3 DEF Steward!ConstantsOK
  <2> HIDE DEF read
  <2>6. ui' \in Steward!Queues
    BY <1>1, <2>1, <2>3 DEF Steward!Queues
  <2>7. /\ ui'.timer = ui.timer /\ ui'.load = read /\ ui'.busy = ui.busy /\ ui'.flight = ui.flight
        /\ ui'.raced = ui.raced /\ ui'.view = ui.view
    BY <1>1, <2>1 DEF Steward!Queues
  <2>8. Steward!LoadIsTrue'
    BY <2>1, <2>3, <2>4, <2>7 DEF Steward!LoadIsTrue, Steward!TrueList
  <2>9. Steward!ListIsTrue'
    BY <2>5, <2>7 DEF Steward!PageLoading, Steward!ListIsTrue, Steward!AtRest
  <2> QED
    BY <2>1, <2>6, <2>7, <2>8, <2>9, StewardLoads
<1>5. CASE Steward!LoadAnswered
  <2>1. /\ ui' = [ui EXCEPT !.load = None, !.rows = ui.load] /\ second' = second
        /\ Steward!PageLoading /\ ui.load.stewards # None
    BY <1>5 DEF Steward!LoadAnswered, Steward!Desk
  <2>2. ui.load \in Steward!Lists
    BY <1>1, <2>1 DEF Steward!Queues, Steward!PageLoading, Steward!Loads, Steward!Lists
  <2>3. ui.load.view = ui.view /\ Steward!TrueList(ui.load.stewards)
    BY <2>1 DEF Steward!StewardshipInv, Steward!LoadIsTrue
  <2>4. ui' \in Steward!Queues
    BY <1>1, <2>1, <2>2 DEF Steward!Queues
  <2>5. /\ ui'.load = None /\ ui'.rows = ui.load /\ ui'.busy = ui.busy /\ ui'.flight = ui.flight
        /\ ui'.raced = ui.raced /\ ui'.view = ui.view
    BY <1>1, <2>1 DEF Steward!Queues
  <2>6. Steward!LoadIsTrue'
    BY <2>5 DEF Steward!LoadIsTrue, Steward!PageLoading
  <2>7. Steward!ListIsTrue'
    BY <2>1, <2>3, <2>5 DEF Steward!ListIsTrue, Steward!TrueList, Steward!InFlight
  <2> QED
    BY <2>1, <2>4, <2>5, <2>6, <2>7, StewardLoads
<1>6. CASE Steward!LoadFailed
  <2>1. ui' = [ui EXCEPT !.load = None, !.rows = None] /\ second' = second
    BY <1>6 DEF Steward!LoadFailed, Steward!Desk
  <2>2. ui' \in Steward!Queues
    BY <1>1, <2>1 DEF Steward!Queues
  <2>3. /\ ui'.load = None /\ ui'.rows = None /\ ui'.busy = ui.busy /\ ui'.flight = ui.flight
        /\ ui'.raced = ui.raced
    BY <1>1, <2>1 DEF Steward!Queues
  <2>4. Steward!LoadIsTrue' /\ Steward!ListIsTrue'
    BY <2>3 DEF Steward!LoadIsTrue, Steward!PageLoading, Steward!ListIsTrue, Steward!AtRest,
       Steward!Shown
  <2> QED
    BY <2>1, <2>2, <2>3, <2>4, StewardLoads
<1> QED
  BY <1>2, <1>3, <1>4, <1>5, <1>6

LEMMA StewardReassigns ==
    ASSUME Steward!ConstantsOK, Steward!StewardshipInv, NEW r \in Rows, Steward!Reassign(r)
    PROVE  Steward!StewardshipInv'
<1>1. ui \in Steward!Queues /\ second \in [Rows -> Stewards]
  BY DEF Steward!StewardshipInv, Steward!TypeOK
<1>2. Steward!Shown /\ ui.rows \in Steward!Lists
  <2>1. Steward!Shown
    BY DEF Steward!Reassign, Steward!CanSubmit, Steward!RowsShown
  <2> QED
    BY <1>1, <2>1 DEF Steward!Shown, Steward!Queues
<1> DEFINE chosen == Steward!Selected(r)
           f == [row |-> r, steward |-> chosen, id |-> ui.sent + 1, done |-> FALSE]
           raced == IF Steward!InFlight(r) = {} THEN ui.raced ELSE ui.raced \union {r}
           flight == ui.flight \union {f}
           sent == ui.sent + 1
<1>3. /\ ui' = [ui EXCEPT !.busy = r, !.sent = sent, !.raced = raced, !.flight = flight]
      /\ second' = second
  BY DEF Steward!Reassign, Steward!Desk
<1>4. chosen \in Stewards
  <2>1. ui.rows.stewards[r] \in Stewards
    BY <1>2 DEF Steward!Lists
  <2>2. ui.forms[r].steward \in Stewards \union {None}
    BY <1>1 DEF Steward!Queues
  <2> QED
    BY <2>1, <2>2 DEF Steward!Selected, Steward!Current
<1>5. sent \in Nat
  BY <1>1 DEF Steward!Queues
<1> HIDE DEF chosen
<1>6. f \in Steward!Requests /\ f.row = r /\ ~f.done
  BY <1>4, <1>5 DEF Steward!Requests
<1> HIDE DEF f, sent
<1>7. flight \in SUBSET Steward!Requests /\ \A g \in flight : g = f \/ g \in ui.flight
  BY <1>1, <1>6 DEF Steward!Queues
<1>8. /\ raced \in SUBSET Rows /\ ui.raced \subseteq raced
      /\ r \notin raced => \A g \in ui.flight : g.row # r
  BY <1>1 DEF Steward!Queues, Steward!InFlight
<1>9. f \in flight /\ ui.flight \subseteq flight
  OBVIOUS
<1> HIDE DEF flight, raced
<1>10. ui' \in Steward!Queues
  BY <1>1, <1>3, <1>5, <1>7, <1>8 DEF Steward!Queues
<1>11. /\ ui'.busy = r /\ ui'.raced = raced /\ ui'.flight = flight /\ ui'.load = ui.load
       /\ ui'.rows = ui.rows /\ ui'.timer = ui.timer /\ ui'.view = ui.view
  BY <1>1, <1>3 DEF Steward!Queues
<1>12. Steward!TypeOK'
  BY <1>1, <1>3, <1>6, <1>9, <1>10, <1>11 DEF Steward!TypeOK, Steward!InFlight
<1>13. Steward!OneEach'
  BY <1>6, <1>7, <1>8, <1>11 DEF Steward!StewardshipInv, Steward!OneEach, Steward!Calm
<1>14. Steward!DoneIsTrue'
  BY <1>3, <1>6, <1>7, <1>8, <1>11 DEF Steward!StewardshipInv, Steward!DoneIsTrue, Steward!Calm
<1>15. ASSUME NEW stewards, Steward!TrueList(stewards)
       PROVE  \A q \in Rows \ ui'.raced :
                 (\A g \in Steward!InFlight(q)' : ~g.done) => stewards[q] = second'[q]
  BY <1>3, <1>8, <1>9, <1>11, <1>15 DEF Steward!TrueList, Steward!InFlight
<1>16. Steward!LoadIsTrue'
  <2>1. ui.load # None /\ ui.load.stewards # None => Steward!TrueList(ui.load.stewards)
    BY DEF Steward!StewardshipInv, Steward!LoadIsTrue, Steward!PageLoading
  <2>2. ui.load # None => ~ui.timer /\ ui.load.view = ui.view
    BY DEF Steward!StewardshipInv, Steward!LoadIsTrue, Steward!PageLoading
  <2> QED
    BY <1>11, <1>15, <2>1, <2>2 DEF Steward!LoadIsTrue, Steward!PageLoading, Steward!TrueList,
       Steward!InFlight
<1>17. Steward!ListIsTrue'
  <2>1. Steward!AtRest => ui.rows.view = ui.view /\ Steward!TrueList(ui.rows.stewards)
    BY DEF Steward!StewardshipInv, Steward!ListIsTrue
  <2>2. Steward!AtRest' => Steward!AtRest
    BY <1>11 DEF Steward!AtRest, Steward!Shown, Steward!PageLoading
  <2> QED
    BY <1>11, <1>15, <2>1, <2>2 DEF Steward!ListIsTrue, Steward!TrueList, Steward!InFlight
<1> QED
  BY <1>12, <1>13, <1>14, <1>16, <1>17 DEF Steward!StewardshipInv

LEMMA StewardServer ==
    ASSUME Steward!ConstantsOK, Steward!StewardshipInv, Steward!ServerReassigns
    PROVE  Steward!StewardshipInv'
<1>1. ui \in Steward!Queues /\ second \in [Rows -> Stewards]
  BY DEF Steward!StewardshipInv, Steward!TypeOK
<1>2. PICK f \in ui.flight :
        /\ ~f.done
        /\ second' = [second EXCEPT ![f.row] = f.steward]
        /\ ui' = [ui EXCEPT !.flight = (ui.flight \ {f}) \union {[f EXCEPT !.done = TRUE]}]
  BY DEF Steward!ServerReassigns
<1>3. f \in Steward!Requests
  BY <1>1 DEF Steward!Queues
<1> DEFINE g == [f EXCEPT !.done = TRUE]
           flight == (ui.flight \ {f}) \union {g}
<1>4. g \in Steward!Requests /\ g.row = f.row /\ g.steward = f.steward /\ g.done
  BY <1>3 DEF Steward!Requests
<1>5. /\ g \in flight /\ \A h \in flight : h = g \/ (h \in ui.flight /\ h # f)
      /\ \A h \in ui.flight : h = f \/ h \in flight
  OBVIOUS
<1>6. ui' = [ui EXCEPT !.flight = flight]
  BY <1>2
<1> HIDE DEF g
<1>7. flight \in SUBSET Steward!Requests
  BY <1>1, <1>4 DEF Steward!Queues
<1> HIDE DEF flight
<1>8. ui' \in Steward!Queues
  BY <1>1, <1>6, <1>7 DEF Steward!Queues
<1>9. /\ ui'.flight = flight /\ ui'.raced = ui.raced /\ ui'.busy = ui.busy /\ ui'.load = ui.load
      /\ ui'.rows = ui.rows /\ ui'.timer = ui.timer /\ ui'.view = ui.view
  BY <1>1, <1>6 DEF Steward!Queues
<1>10. f.row \in Rows /\ f.steward \in Stewards
  BY <1>3 DEF Steward!Requests
<1>11. /\ second' \in [Rows -> Stewards] /\ second'[f.row] = f.steward
       /\ \A q \in Rows : q # f.row => second'[q] = second[q]
  BY <1>1, <1>2, <1>10
<1>12. Steward!TypeOK'
  <2>1. ui.busy # None => \E h \in ui.flight : h.row = ui.busy
    BY DEF Steward!StewardshipInv, Steward!TypeOK, Steward!InFlight
  <2>2. ui.busy # None => \E h \in flight : h.row = ui.busy
    BY <1>4, <1>5, <2>1
  <2> QED
    BY <1>8, <1>9, <1>11, <2>2 DEF Steward!TypeOK, Steward!InFlight
<1>13. \A h \in ui.flight : h.row = f.row /\ f.row \notin ui.raced => h = f
  BY DEF Steward!StewardshipInv, Steward!OneEach, Steward!Calm
<1>14. Steward!OneEach'
  <2>1. \A h, k \in ui.flight : h.row = k.row /\ h.row \notin ui.raced => h = k
    BY DEF Steward!StewardshipInv, Steward!OneEach, Steward!Calm
  <2> QED
    BY <1>4, <1>5, <1>9, <1>13, <2>1 DEF Steward!OneEach, Steward!Calm
<1>15. Steward!DoneIsTrue'
  <2>1. \A h \in ui.flight : h.row \notin ui.raced /\ h.done => second[h.row] = h.steward
    BY DEF Steward!StewardshipInv, Steward!DoneIsTrue, Steward!Calm
  <2>2. \A h \in ui.flight : h.row \in Rows
    BY <1>1 DEF Steward!Queues, Steward!Requests
  <2> QED
    BY <1>4, <1>5, <1>9, <1>11, <1>13, <2>1, <2>2 DEF Steward!DoneIsTrue, Steward!Calm
<1>16. ASSUME NEW stewards, Steward!TrueList(stewards)
       PROVE  \A q \in Rows \ ui'.raced :
                 (\A h \in Steward!InFlight(q)' : ~h.done) => stewards[q] = second'[q]
  BY <1>4, <1>5, <1>9, <1>11, <1>16 DEF Steward!TrueList, Steward!InFlight
<1>17. Steward!LoadIsTrue'
  <2>1. ui.load # None /\ ui.load.stewards # None => Steward!TrueList(ui.load.stewards)
    BY DEF Steward!StewardshipInv, Steward!LoadIsTrue, Steward!PageLoading
  <2>2. ui.load # None => ~ui.timer /\ ui.load.view = ui.view
    BY DEF Steward!StewardshipInv, Steward!LoadIsTrue, Steward!PageLoading
  <2> QED
    BY <1>9, <1>16, <2>1, <2>2 DEF Steward!LoadIsTrue, Steward!PageLoading, Steward!TrueList,
       Steward!InFlight
<1>18. Steward!ListIsTrue'
  <2>1. Steward!AtRest => ui.rows.view = ui.view /\ Steward!TrueList(ui.rows.stewards)
    BY DEF Steward!StewardshipInv, Steward!ListIsTrue
  <2>2. Steward!AtRest' => Steward!AtRest
    BY <1>9 DEF Steward!AtRest, Steward!Shown, Steward!PageLoading
  <2> QED
    BY <1>9, <1>16, <2>1, <2>2 DEF Steward!ListIsTrue, Steward!TrueList, Steward!InFlight
<1> QED
  BY <1>12, <1>14, <1>15, <1>17, <1>18 DEF Steward!StewardshipInv

(* A request ends: what the list and the load then tell is left to show. *)
LEMMA StewardEnds ==
    ASSUME Steward!StewardshipInv, NEW f \in ui.flight,
           ui' \in Steward!Queues, second' = second, ui'.busy = None, ui'.flight = ui.flight \ {f},
           ui.raced \subseteq ui'.raced, Steward!LoadIsTrue', Steward!ListIsTrue'
    PROVE  Steward!StewardshipInv'
<1>1. Steward!TypeOK'
  BY DEF Steward!StewardshipInv, Steward!TypeOK
<1>2. Steward!OneEach' /\ Steward!DoneIsTrue'
  BY DEF Steward!StewardshipInv, Steward!OneEach, Steward!Calm, Steward!DoneIsTrue
<1> QED
  BY <1>1, <1>2 DEF Steward!StewardshipInv

LEMMA StewardAnswered ==
    ASSUME Steward!ConstantsOK, Steward!StewardshipInv, Steward!ReassignAnswered
    PROVE  Steward!StewardshipInv'
<1>1. ui \in Steward!Queues /\ second \in [Rows -> Stewards]
  BY DEF Steward!StewardshipInv, Steward!TypeOK
<1>2. PICK f \in ui.flight :
        /\ f.done /\ second' = second
        /\ ui' = [Steward!Without(f) EXCEPT
                   !.rows = Steward!Updated(f.row, f.steward),
                   !.forms[f.row] = [steward |-> f.steward, reason |-> FALSE],
                   !.raced = IF Steward!PageLoading THEN Steward!Without(f).raced \union {f.row}
                             ELSE Steward!Without(f).raced]
  BY DEF Steward!ReassignAnswered, Steward!Desk
<1>3. f \in Steward!Requests
  BY <1>1 DEF Steward!Queues
<1>4. f.row \in Rows /\ f.steward \in Stewards
  BY <1>3 DEF Steward!Requests
<1> DEFINE flight == ui.flight \ {f}
           rows == Steward!Updated(f.row, f.steward)
           forms == [ui.forms EXCEPT ![f.row] = [steward |-> f.steward, reason |-> FALSE]]
           raced == IF Steward!PageLoading THEN ui.raced \union {f.row} ELSE ui.raced
<1>5. ui' = [ui EXCEPT !.flight = flight, !.busy = None, !.rows = rows, !.forms = forms,
                       !.raced = raced]
  BY <1>1, <1>2 DEF Steward!Without, Steward!Queues
<1>6. /\ rows \in Steward!Lists \union {None}
      /\ rows # None => Steward!Shown
      /\ Steward!Shown => /\ rows.view = ui.rows.view
                          /\ rows.stewards = [ui.rows.stewards EXCEPT ![f.row] = f.steward]
  <2>1. CASE Steward!Shown
    <3>1. ui.rows \in Steward!Lists
      BY <1>1, <2>1 DEF Steward!Shown, Steward!Queues
    <3>2. DOMAIN ui.rows.stewards = Rows
      BY <3>1 DEF Steward!Lists
    <3>3. rows = [ui.rows EXCEPT !.stewards = [ui.rows.stewards EXCEPT ![f.row] = f.steward]]
      BY <1>4, <2>1, <3>2 DEF Steward!Updated, Steward!RowsShown
    <3>4. [ui.rows.stewards EXCEPT ![f.row] = f.steward] \in [Rows -> Stewards]
      BY <1>4, <3>1 DEF Steward!Lists
    <3> HIDE DEF rows
    <3> QED
      BY <2>1, <3>1, <3>3, <3>4 DEF Steward!Lists
  <2>2. CASE ~Steward!Shown
    BY <1>4, <2>2 DEF Steward!Updated, Steward!RowsShown, Steward!Shown
  <2> QED
    BY <2>1, <2>2
<1>7. forms \in [Rows -> [steward : Stewards \union {None}, reason : BOOLEAN]]
  BY <1>1, <1>4 DEF Steward!Queues
<1>8. /\ raced \in SUBSET Rows /\ ui.raced \subseteq raced
      /\ Steward!PageLoading => f.row \in raced
      /\ ~Steward!PageLoading => raced = ui.raced
  BY <1>1, <1>4 DEF Steward!Queues
<1> HIDE DEF rows, forms, raced
<1>9. flight \in SUBSET Steward!Requests
  BY <1>1 DEF Steward!Queues
<1>10. /\ \A h \in ui.flight : h.row # f.row => h \in flight
       /\ flight \subseteq ui.flight
  OBVIOUS
<1> HIDE DEF flight
<1>11. ui' \in Steward!Queues
  BY <1>1, <1>5, <1>6, <1>7, <1>8, <1>9 DEF Steward!Queues
<1>12. /\ ui'.flight = flight /\ ui'.raced = raced /\ ui'.busy = None /\ ui'.load = ui.load
       /\ ui'.rows = rows /\ ui'.timer = ui.timer /\ ui'.view = ui.view
  BY <1>1, <1>5 DEF Steward!Queues
<1>13. Steward!LoadIsTrue'
  <2>1. ui.load # None /\ ui.load.stewards # None => Steward!TrueList(ui.load.stewards)
    BY DEF Steward!StewardshipInv, Steward!LoadIsTrue, Steward!PageLoading
  <2>2. ui.load # None => ~ui.timer /\ ui.load.view = ui.view
    BY DEF Steward!StewardshipInv, Steward!LoadIsTrue, Steward!PageLoading
  <2>3. SUFFICES ASSUME ui.load # None, ui.load.stewards # None, NEW q \in Rows, q \notin raced,
                        \A h \in flight : h.row = q => ~h.done
                 PROVE  ui.load.stewards[q] = second[q]
    BY <1>2, <1>12, <2>2 DEF Steward!LoadIsTrue, Steward!PageLoading, Steward!TrueList,
       Steward!InFlight
  <2>4. q # f.row /\ q \notin ui.raced
    BY <1>8, <2>3 DEF Steward!PageLoading
  <2>5. \A h \in ui.flight : h.row = q => ~h.done
    BY <1>10, <2>3, <2>4
  <2> QED
    BY <2>1, <2>3, <2>4, <2>5 DEF Steward!TrueList, Steward!InFlight
<1>14. Steward!ListIsTrue'
  <2>1. Steward!AtRest => ui.rows.view = ui.view /\ Steward!TrueList(ui.rows.stewards)
    BY DEF Steward!StewardshipInv, Steward!ListIsTrue
  <2>2. Steward!AtRest' => Steward!AtRest /\ rows # None
    BY <1>6, <1>12 DEF Steward!AtRest, Steward!Shown, Steward!PageLoading
  <2>3. SUFFICES ASSUME Steward!AtRest, NEW q \in Rows, q \notin raced,
                        \A h \in flight : h.row = q => ~h.done
                 PROVE  rows.stewards[q] = second[q]
    BY <1>2, <1>6, <1>12, <2>1, <2>2 DEF Steward!ListIsTrue, Steward!TrueList, Steward!InFlight,
       Steward!AtRest
  <2>4. Steward!Shown /\ raced = ui.raced
    BY <1>8, <2>3 DEF Steward!AtRest
  <2>5. ui.rows.stewards \in [Rows -> Stewards]
    BY <1>1, <2>4 DEF Steward!Shown, Steward!Queues, Steward!Lists
  <2>6. CASE q = f.row
    <3>1. second[q] = f.steward
      BY <1>2, <2>3, <2>4, <2>6 DEF Steward!StewardshipInv, Steward!DoneIsTrue, Steward!Calm
    <3> QED
      BY <1>6, <2>4, <2>5, <2>6, <3>1
  <2>7. CASE q # f.row
    <3>1. \A h \in ui.flight : h.row = q => ~h.done
      BY <1>10, <2>3, <2>7
    <3>2. ui.rows.stewards[q] = second[q]
      BY <2>1, <2>3, <2>4, <3>1 DEF Steward!TrueList, Steward!InFlight
    <3> QED
      BY <1>6, <2>4, <2>5, <2>7, <3>2
  <2> QED
    BY <2>6, <2>7
<1> QED
  BY <1>2, <1>8, <1>11, <1>12, <1>13, <1>14, StewardEnds DEF flight

LEMMA StewardFailed ==
    ASSUME Steward!ConstantsOK, Steward!StewardshipInv, Steward!ReassignFailed
    PROVE  Steward!StewardshipInv'
<1>1. ui \in Steward!Queues /\ second \in [Rows -> Stewards]
  BY DEF Steward!StewardshipInv, Steward!TypeOK
<1>2. PICK f \in ui.flight :
        /\ second' = second
        /\ ui' = [Steward!Without(f) EXCEPT
                   !.raced = IF f.done THEN Steward!Without(f).raced \union {f.row}
                             ELSE Steward!Without(f).raced]
  BY DEF Steward!ReassignFailed, Steward!Desk
<1>3. f.row \in Rows
  BY <1>1 DEF Steward!Queues, Steward!Requests
<1> DEFINE flight == ui.flight \ {f}
           raced == IF f.done THEN ui.raced \union {f.row} ELSE ui.raced
<1>4. ui' = [ui EXCEPT !.flight = flight, !.busy = None, !.raced = raced]
  BY <1>1, <1>2 DEF Steward!Without, Steward!Queues
<1>5. /\ raced \in SUBSET Rows /\ ui.raced \subseteq raced
      /\ f.done => f.row \in raced
  BY <1>1, <1>3 DEF Steward!Queues
<1> HIDE DEF raced
<1>6. flight \in SUBSET Steward!Requests
  BY <1>1 DEF Steward!Queues
<1>7. \A h \in ui.flight : h = f \/ h \in flight
  OBVIOUS
<1> HIDE DEF flight
<1>8. ui' \in Steward!Queues
  BY <1>1, <1>4, <1>5, <1>6 DEF Steward!Queues
<1>9. /\ ui'.flight = flight /\ ui'.raced = raced /\ ui'.busy = None /\ ui'.load = ui.load
      /\ ui'.rows = ui.rows /\ ui'.timer = ui.timer /\ ui'.view = ui.view
  BY <1>1, <1>4 DEF Steward!Queues
<1>10. ASSUME NEW stewards, Steward!TrueList(stewards)
       PROVE  \A q \in Rows \ ui'.raced :
                 (\A h \in Steward!InFlight(q)' : ~h.done) => stewards[q] = second'[q]
  BY <1>2, <1>5, <1>7, <1>9, <1>10 DEF Steward!TrueList, Steward!InFlight
<1>11. Steward!LoadIsTrue'
  <2>1. ui.load # None /\ ui.load.stewards # None => Steward!TrueList(ui.load.stewards)
    BY DEF Steward!StewardshipInv, Steward!LoadIsTrue, Steward!PageLoading
  <2>2. ui.load # None => ~ui.timer /\ ui.load.view = ui.view
    BY DEF Steward!StewardshipInv, Steward!LoadIsTrue, Steward!PageLoading
  <2> QED
    BY <1>9, <1>10, <2>1, <2>2 DEF Steward!LoadIsTrue, Steward!PageLoading, Steward!TrueList,
       Steward!InFlight
<1>12. Steward!ListIsTrue'
  <2>1. Steward!AtRest => ui.rows.view = ui.view /\ Steward!TrueList(ui.rows.stewards)
    BY DEF Steward!StewardshipInv, Steward!ListIsTrue
  <2>2. Steward!AtRest' => Steward!AtRest
    BY <1>9 DEF Steward!AtRest, Steward!Shown, Steward!PageLoading
  <2> QED
    BY <1>9, <1>10, <2>1, <2>2 DEF Steward!ListIsTrue, Steward!TrueList, Steward!InFlight
<1> QED
  BY <1>2, <1>5, <1>8, <1>9, <1>11, <1>12, StewardEnds DEF flight

(* Every step of the queue of stewardships keeps its invariant. *)
LEMMA StewardNextInv ==
    ASSUME Steward!ConstantsOK, Steward!StewardshipInv, [Steward!Next]_<<ui, second>>
    PROVE  Steward!StewardshipInv'
<1>1. CASE UNCHANGED <<ui, second>>
  <2>1. ui \in Steward!Queues
    BY DEF Steward!StewardshipInv, Steward!TypeOK
  <2> QED
    BY <1>1, <2>1, StewardQuiet
<1>2. CASE \/ Steward!ModeratorsLoaded
           \/ \E r \in Rows : Steward!TypeReason(r)
           \/ \E r \in Rows, s \in Stewards : Steward!TypeSteward(r, s)
  BY <1>2, StewardQuietSteps
<1>3. CASE \/ \E v \in Views : Steward!Search(v)
           \/ Steward!TimerFires \/ Steward!LoadRead \/ Steward!LoadAnswered \/ Steward!LoadFailed
  BY <1>3, StewardLoading
<1>4. ASSUME NEW r \in Rows, Steward!Reassign(r) PROVE Steward!StewardshipInv'
  BY <1>4, StewardReassigns
<1>5. CASE Steward!ServerReassigns \/ Steward!ReassignAnswered \/ Steward!ReassignFailed
  BY <1>5, StewardServer, StewardAnswered, StewardFailed
<1> QED
  BY <1>1, <1>2, <1>3, <1>4, <1>5 DEF Steward!Next

LEMMA StewardInvShows == Steward!StewardshipInv => Steward!TypeOK /\ Steward!StewardshipListIsCurrent
<1> SUFFICES ASSUME Steward!StewardshipInv, Steward!AtRest
             PROVE  /\ ui.rows.view = ui.view
                    /\ \A r \in Rows : Steward!Current(r) # second[r] /\ Steward!InFlight(r) = {}
                                         => r \in ui.raced
  BY DEF Steward!StewardshipInv, Steward!StewardshipListIsCurrent
<1>1. ui.rows.view = ui.view /\ Steward!TrueList(ui.rows.stewards)
  BY DEF Steward!StewardshipInv, Steward!ListIsTrue
<1> QED
  BY <1>1 DEF Steward!TrueList, Steward!Current
-----------------------------------------------------------------------------
(* The tags of the markets. *)
(* The instance counts as the library does. *)
LEMMA TagsCount == \A S : TheTags!Cardinality(S) = Cardinality(S) /\ (TheTags!IsFiniteSet(S) <=> IsFiniteSet(S))
BY DEF TheTags!Cardinality, Cardinality, TheTags!IsFiniteSet, IsFiniteSet

LEMMA AllowedSize == \A S : S \in TheTags!Allowed <=> S \in SUBSET Tags /\ Cardinality(S) <= MaxTags
BY TagsCount DEF TheTags!Allowed

(* A click on a tag the market may have leaves the draft within the limit. *)
LEMMA ToggleAllowed ==
    ASSUME TheTags!ConstantsOK, NEW S \in TheTags!Allowed, NEW t \in Tags,
           t \notin S => ~(Cardinality(S) >= MaxTags)
    PROVE  (S \ {t}) \union ({t} \ S) \in TheTags!Allowed
<1>1. S \in SUBSET Tags /\ Cardinality(S) <= MaxTags
  BY AllowedSize
<1>2. IsFiniteSet(S) /\ Cardinality(S) \in Nat /\ MaxTags \in Nat
  <2>1. IsFiniteSet(Tags) /\ MaxTags \in Nat
    BY TagsCount DEF TheTags!ConstantsOK
  <2> QED
    BY <1>1, <2>1, FS_Subset, FS_CardinalityType
<1>3. CASE t \in S
  <2>1. (S \ {t}) \union ({t} \ S) = S \ {t}
    BY <1>3
  <2>2. Cardinality(S \ {t}) <= Cardinality(S) /\ Cardinality(S \ {t}) \in Nat
    BY <1>2, FS_Subset, FS_CardinalityType
  <2>3. Cardinality(S \ {t}) <= MaxTags
    BY <1>1, <1>2, <2>2
  <2> QED
    BY <1>1, <2>1, <2>3, AllowedSize
<1>4. CASE t \notin S
  <2>1. (S \ {t}) \union ({t} \ S) = S \union {t}
    BY <1>4
  <2>2. Cardinality(S \union {t}) = Cardinality(S) + 1
    BY <1>2, <1>4, FS_AddElement
  <2>3. Cardinality(S \union {t}) <= MaxTags
    BY <1>2, <1>4, <2>2
  <2> QED
    BY <1>1, <2>1, <2>3, AllowedSize
<1> QED
  BY <1>3, <1>4

(* The record of the desk, its fields' sets kept closed. *)
TagFlights == SUBSET (TheTags!TagRequests \union TheTags!MarketRequests)
TagLoads   == SUBSET TheTags!Loads
TagLists   == [Tags -> TheTags!States]
TagTexts   == [tag : Tags \union {None}, colors : BOOLEAN]
TagDrafts  == [Rows -> TheTags!Allowed \union {None}]
TagMarkets == [Rows -> TheTags!Allowed]
TagMixed   == SUBSET (Rows \union Tags)
TagServers == [tags : TagLists, markets : TagMarkets]

TagDesks ==
    [tab : TheTags!Tabs, list : TagLists, loading : BOOLEAN, form : TagTexts,
     busyTag : Tags \union {None}, editable : SUBSET Tags, drafts : TagDrafts,
     fetching : BOOLEAN, shown : SUBSET Rows, markets : TagMarkets,
     busy : Rows \union {None}, flight : TagFlights, loads : TagLoads,
     deciding : SUBSET Nat, sent : Nat, mixed : TagMixed, stale : SUBSET Rows]

LEMMA TagDesksIs == TheTags!Desks = TagDesks
BY DEF TheTags!Desks, TagDesks, TagFlights, TagLoads, TagLists, TagTexts, TagDrafts, TagMarkets, TagMixed

LEMMA TagServersIs ==
    [tags : [Tags -> TheTags!States], markets : [Rows -> TheTags!Allowed]] = TagServers
BY DEF TagServers, TagLists, TagMarkets

LEMMA TagsFacts ==
    ASSUME TheTags!TagsInv
    PROVE  /\ ui \in TagDesks /\ ui.tab \in TheTags!Tabs /\ ui.list \in TagLists
           /\ ui.form \in TagTexts /\ ui.drafts \in TagDrafts /\ ui.markets \in TagMarkets
           /\ ui.flight \in TagFlights /\ ui.loads \in TagLoads /\ ui.deciding \in SUBSET Nat
           /\ ui.sent \in Nat /\ ui.mixed \in TagMixed /\ ui.stale \in SUBSET Rows
           /\ ui.shown \in SUBSET Rows /\ ui.busy \in Rows \union {None}
           /\ second \in TagServers /\ second.tags \in TagLists /\ second.markets \in TagMarkets
<1>1. ui \in TagDesks /\ second \in TagServers
  BY TagDesksIs, TagServersIs DEF TheTags!TagsInv, TheTags!TypeOK
<1>2. second.tags \in TagLists /\ second.markets \in TagMarkets
  BY <1>1 DEF TagServers
<1> QED
  BY <1>1, <1>2 DEF TagDesks

LEMMA TagsTruth ==
    ASSUME TheTags!TagsInv
    PROVE  /\ \A f, g \in ui.flight : f.subject = g.subject /\ f.subject \notin ui.mixed => f = g
           /\ \A x \in ui.mixed : \E f \in ui.flight : f.subject = x
           /\ \A r \in Rows : r \notin ui.mixed =>
                /\ \A f \in ui.flight : f.subject = r /\ f.done => second.markets[r] = f.value
                /\ r \notin ui.stale /\ (\A f \in ui.flight : f.subject = r => ~f.done)
                     => ui.markets[r] = second.markets[r]
           /\ \A l \in ui.loads : l.got # None =>
                \A r \in Rows : r \notin l.missed => l.got[r] = second.markets[r]
<1>1. \A f, g \in ui.flight : f.subject = g.subject /\ f.subject \notin ui.mixed => f = g
  BY DEF TheTags!TagsInv, TheTags!OneEach, TheTags!Calm
<1>2. \A x \in ui.mixed : \E f \in ui.flight : f.subject = x
  BY DEF TheTags!TagsInv, TheTags!OneEach, TheTags!About
<1>3. \A r \in Rows : r \notin ui.mixed =>
        /\ \A f \in ui.flight : f.subject = r /\ f.done => second.markets[r] = f.value
        /\ r \notin ui.stale /\ (\A f \in ui.flight : f.subject = r => ~f.done)
             => ui.markets[r] = second.markets[r]
  BY DEF TheTags!TagsInv, TheTags!TagsAreTrue, TheTags!About
<1>4. \A l \in ui.loads : l.got # None =>
        \A r \in Rows : r \notin l.missed => l.got[r] = second.markets[r]
  BY DEF TheTags!TagsInv, TheTags!ReadsAreTrue
<1> QED
  BY <1>1, <1>2, <1>3, <1>4

LEMMA TagsFrom ==
    ASSUME ui' \in TagDesks, second' \in TagServers,
           \A f, g \in ui'.flight : f.subject = g.subject /\ f.subject \notin ui'.mixed => f = g,
           \A x \in ui'.mixed : \E f \in ui'.flight : f.subject = x,
           \A r \in Rows : r \notin ui'.mixed =>
              /\ \A f \in ui'.flight : f.subject = r /\ f.done => second'.markets[r] = f.value
              /\ r \notin ui'.stale /\ (\A f \in ui'.flight : f.subject = r => ~f.done)
                   => ui'.markets[r] = second'.markets[r],
           \A l \in ui'.loads : l.got # None =>
              \A r \in Rows : r \notin l.missed => l.got[r] = second'.markets[r]
    PROVE  TheTags!TagsInv'
<1>1. TheTags!TypeOK'
  BY TagDesksIs, TagServersIs DEF TheTags!TypeOK
<1>2. TheTags!OneEach'
  BY DEF TheTags!OneEach, TheTags!Calm, TheTags!About
<1>3. TheTags!TagsAreTrue'
  BY DEF TheTags!TagsAreTrue, TheTags!About
<1>4. TheTags!ReadsAreTrue'
  BY DEF TheTags!ReadsAreTrue
<1> QED
  BY <1>1, <1>2, <1>3, <1>4 DEF TheTags!TagsInv

(* A request of either kind, and what marking it changes. *)
LEMMA TagRequest ==
    ASSUME NEW flight \in TagFlights, NEW f \in flight
    PROVE  /\ f \in TheTags!TagRequests \union TheTags!MarketRequests
           /\ f.kind \in {"create", "state", "market"} /\ f.subject \in Rows \union Tags
           /\ f.kind = "market" => f.subject \in Rows /\ f.value \in TheTags!Allowed
           /\ f.kind # "market" => f.subject \in Tags /\ f.value \in TheTags!States
BY DEF TagFlights, TheTags!TagRequests, TheTags!MarketRequests

LEMMA TagMarked ==
    ASSUME NEW flight \in TagFlights, NEW f \in flight
    PROVE  /\ [f EXCEPT !.lost = TRUE] \in TheTags!TagRequests \union TheTags!MarketRequests
           /\ [f EXCEPT !.done = TRUE] \in TheTags!TagRequests \union TheTags!MarketRequests
           /\ [f EXCEPT !.lost = TRUE].subject = f.subject
           /\ [f EXCEPT !.lost = TRUE].value = f.value
           /\ [f EXCEPT !.lost = TRUE].done = f.done
           /\ [f EXCEPT !.done = TRUE].subject = f.subject
           /\ [f EXCEPT !.done = TRUE].value = f.value
           /\ [f EXCEPT !.done = TRUE].done
<1>1. f \in TheTags!TagRequests \union TheTags!MarketRequests
  BY DEF TagFlights
<1>2. CASE f \in TheTags!TagRequests
  BY <1>2 DEF TheTags!TagRequests
<1>3. CASE f \in TheTags!MarketRequests
  BY <1>3 DEF TheTags!MarketRequests
<1> QED
  BY <1>1, <1>2, <1>3

LEMMA TagNewLoad ==
    ASSUME NEW id \in Nat, NEW by \in {"search", "decision"}
    PROVE  TheTags!NewLoad(id, by) \in TheTags!Loads /\ TheTags!NewLoad(id, by).got = None
BY DEF TheTags!NewLoad, TheTags!Loads

(* A tab that is mounted keeps the requests nobody has served, as lost. *)
LEMMA TagMount ==
    ASSUME NEW tab \in TheTags!Tabs, NEW kept \in TagMarkets, NEW before,
           before.flight \in TagFlights, before.mixed \in TagMixed, before.sent \in Nat
    PROVE  LET m == TheTags!Mounted(tab, kept, before)
           IN  /\ m \in TagDesks /\ m.markets = kept /\ m.stale = {}
               /\ \A l \in m.loads : l.got = None
               /\ \A g \in m.flight : \E f \in before.flight : ~f.done /\ g = [f EXCEPT !.lost = TRUE]
               /\ m.mixed \subseteq before.mixed
               /\ \A x \in m.mixed : \E g \in m.flight : g.subject = x
               /\ \A g \in m.flight : g.subject \in before.mixed => g.subject \in m.mixed
<1> DEFINE left == {[f EXCEPT !.lost = TRUE] : f \in {g \in before.flight : ~g.done}}
           list == [t \in Tags |-> "none"]
           drafts == [r \in Rows |-> None]
           mixed == {x \in before.mixed : \E f \in left : f.subject = x}
           loads == IF tab = "queue" THEN {TheTags!NewLoad(before.sent, "search")} ELSE {}
           text == TheTags!EmptyTagForm
           loading == tab = "tags"
           m == TheTags!Mounted(tab, kept, before)
<1>1. left \in TagFlights
  BY TagMarked DEF TagFlights
<1>2. list \in TagLists /\ drafts \in TagDrafts /\ text \in TagTexts /\ loading \in BOOLEAN
  BY DEF TagLists, TheTags!States, TagDrafts, TagTexts, TheTags!EmptyTagForm
<1>3. mixed \in TagMixed
  BY DEF TagMixed
<1>4. loads \in TagLoads /\ \A l \in loads : l.got = None
  BY TagNewLoad DEF TagLoads
<1>5. m = [tab |-> tab, list |-> list, loading |-> loading, form |-> text, busyTag |-> None,
           editable |-> {}, drafts |-> drafts, fetching |-> TRUE, shown |-> {}, markets |-> kept,
           busy |-> None, flight |-> left, loads |-> loads, deciding |-> {}, sent |-> before.sent,
           mixed |-> mixed, stale |-> {}]
  BY DEF TheTags!Mounted
<1>6. /\ \A g \in left : \E f \in before.flight : ~f.done /\ g = [f EXCEPT !.lost = TRUE]
      /\ mixed \subseteq before.mixed
      /\ \A x \in mixed : \E g \in left : g.subject = x
      /\ \A g \in left : g.subject \in before.mixed => g.subject \in mixed
  OBVIOUS
<1> HIDE DEF m, left, list, drafts, mixed, loads, text, loading
<1>7. m \in TagDesks
  BY <1>1, <1>2, <1>3, <1>4, <1>5 DEF TagDesks
<1>8. m.markets = kept /\ m.stale = {} /\ m.loads = loads /\ m.flight = left /\ m.mixed = mixed
  BY <1>5
<1>9. /\ m \in TagDesks /\ m.markets = kept /\ m.stale = {}
      /\ \A l \in m.loads : l.got = None
      /\ \A g \in m.flight : \E f \in before.flight : ~f.done /\ g = [f EXCEPT !.lost = TRUE]
      /\ m.mixed \subseteq before.mixed
      /\ \A x \in m.mixed : \E g \in m.flight : g.subject = x
      /\ \A g \in m.flight : g.subject \in before.mixed => g.subject \in m.mixed
  BY <1>4, <1>6, <1>7, <1>8
<1> QED
  BY <1>9 DEF m

LEMMA TagsInitInv == TheTags!ConstantsOK /\ TheTags!Init => TheTags!TagsInv
<1> SUFFICES ASSUME TheTags!ConstantsOK, TheTags!Init
             PROVE  TheTags!TagsInv
  OBVIOUS
<1>1. PICK first \in Tags : first = CHOOSE t \in Tags : TRUE
  BY DEF TheTags!ConstantsOK
<1> DEFINE tags == [t \in Tags |-> IF t = first THEN "active" ELSE "none"]
           markets == [r \in Rows |-> {first}]
           before == [flight |-> {}, mixed |-> {}, sent |-> 0]
<1>2. second = [tags |-> tags, markets |-> markets]
  BY <1>1 DEF TheTags!Init
<1>3. {first} \in TheTags!Allowed
  <2>1. Cardinality({first}) = 1
    BY FS_Singleton
  <2>2. 1 <= MaxTags
    BY DEF TheTags!ConstantsOK
  <2> QED
    BY <2>1, <2>2, AllowedSize
<1>4. tags \in TagLists /\ markets \in TagMarkets
  BY <1>3 DEF TheTags!States, TagLists, TagMarkets
<1> HIDE DEF tags, markets
<1>5. second.markets = markets /\ second \in TagServers
  BY <1>2, <1>4 DEF TagServers
<1>6. before.flight \in TagFlights /\ before.mixed \in TagMixed /\ before.sent \in Nat
  BY DEF TagFlights, TagMixed
<1>7. PICK tab \in TheTags!Tabs : ui = TheTags!Mounted(tab, markets, before)
  BY <1>5 DEF TheTags!Init
<1>8. /\ ui \in TagDesks /\ ui.markets = markets
      /\ \A l \in ui.loads : l.got = None
      /\ \A g \in ui.flight : \E f \in before.flight : ~f.done /\ g = [f EXCEPT !.lost = TRUE]
      /\ ui.mixed \subseteq before.mixed
  <2> HIDE DEF before
  <2> QED
    BY <1>4, <1>6, <1>7, TagMount
<1>9. ui.flight = {} /\ ui.mixed = {}
  BY <1>8
<1> QED
  BY <1>5, <1>8, <1>9, TagDesksIs, TagServersIs DEF TheTags!TagsInv, TheTags!TypeOK, TheTags!OneEach,
     TheTags!Calm, TheTags!TagsAreTrue, TheTags!About, TheTags!ReadsAreTrue

LEMMA TagsTab ==
    ASSUME TheTags!TagsInv, NEW tab \in TheTags!Tabs, TheTags!SelectTab(tab)
    PROVE  TheTags!TagsInv'
<1> DEFINE kept == second.markets
<1>1. ui' = TheTags!Mounted(tab, kept, ui) /\ second' = second
  BY DEF TheTags!SelectTab, TheTags!Desk
<1>2. kept \in TagMarkets /\ second \in TagServers
  BY TagsFacts
<1>3. ui.flight \in TagFlights /\ ui.mixed \in TagMixed /\ ui.sent \in Nat
  BY TagsFacts
<1> HIDE DEF kept
<1>4. /\ ui' \in TagDesks /\ ui'.markets = kept
      /\ \A l \in ui'.loads : l.got = None
      /\ \A g \in ui'.flight : \E f \in ui.flight : ~f.done /\ g = [f EXCEPT !.lost = TRUE]
      /\ ui'.mixed \subseteq ui.mixed
      /\ \A x \in ui'.mixed : \E g \in ui'.flight : g.subject = x
      /\ \A g \in ui'.flight : g.subject \in ui.mixed => g.subject \in ui'.mixed
  BY <1>1, <1>2, <1>3, TagMount
<1>5. \A g \in ui'.flight : \E f \in ui.flight :
        ~f.done /\ g = [f EXCEPT !.lost = TRUE] /\ g.subject = f.subject /\ ~g.done
  BY <1>3, <1>4, TagMarked
<1>6. \A g, h \in ui'.flight : g.subject = h.subject /\ g.subject \notin ui'.mixed => g = h
  <2> SUFFICES ASSUME NEW g \in ui'.flight, NEW h \in ui'.flight, g.subject = h.subject,
                      g.subject \notin ui'.mixed
               PROVE  g = h
    OBVIOUS
  <2>1. PICK f \in ui.flight : g = [f EXCEPT !.lost = TRUE] /\ g.subject = f.subject
    BY <1>5
  <2>2. PICK k \in ui.flight : h = [k EXCEPT !.lost = TRUE] /\ h.subject = k.subject
    BY <1>5
  <2>3. f.subject \notin ui.mixed
    BY <1>4, <2>1
  <2>4. f = k
    BY <2>1, <2>2, <2>3, TagsTruth
  <2> QED
    BY <2>1, <2>2, <2>4
<1>7. ui'.markets = second'.markets /\ second' \in TagServers
  BY <1>1, <1>2, <1>4 DEF kept
<1>8. \A r \in Rows : r \notin ui'.mixed =>
        /\ \A f \in ui'.flight : f.subject = r /\ f.done => second'.markets[r] = f.value
        /\ r \notin ui'.stale /\ (\A f \in ui'.flight : f.subject = r => ~f.done)
             => ui'.markets[r] = second'.markets[r]
  BY <1>5, <1>7
<1> QED
  BY <1>4, <1>6, <1>7, <1>8, TagsFrom

(* A step that leaves requests, markets and what is stale alone; a load may be new, or read. *)
LEMMA TagsQuiet ==
    ASSUME TheTags!TagsInv, ui' \in TagDesks, second' = second,
           ui'.flight = ui.flight, ui'.mixed = ui.mixed, ui'.markets = ui.markets,
           ui'.stale = ui.stale,
           \A l \in ui'.loads : l \in ui.loads \/ l.got = None \/ l.got = second.markets
    PROVE  TheTags!TagsInv'
<1>1. \A l \in ui'.loads : l.got # None =>
        \A r \in Rows : r \notin l.missed => l.got[r] = second.markets[r]
  BY TagsTruth
<1>2. second \in TagServers
  BY TagsFacts
<1> QED
  BY <1>1, <1>2, TagsTruth, TagsFrom

(* The same for a step that changes none of the loads. *)
LEMMA TagsCalm ==
    ASSUME TheTags!TagsInv, ui' \in TagDesks, second' = second,
           ui'.flight = ui.flight, ui'.mixed = ui.mixed, ui'.markets = ui.markets,
           ui'.stale = ui.stale, ui'.loads = ui.loads
    PROVE  TheTags!TagsInv'
BY TagsQuiet

LEMMA TagsCalmSteps ==
    ASSUME TheTags!ConstantsOK, TheTags!TagsInv,
           \/ TheTags!TagsLoaded \/ TheTags!ActiveTagsLoaded \/ TheTags!OpenColors
           \/ \E t \in Tags : TheTags!TypeTag(t)
           \/ \E r \in Rows, t \in Tags : TheTags!ToggleMarketTag(r, t)
           \/ UNCHANGED <<ui, second>>
    PROVE  TheTags!TagsInv'
<1>1. ui \in TagDesks
  BY TagsFacts
<1>2. CASE UNCHANGED <<ui, second>>
  BY <1>1, <1>2, TagsCalm
<1>3. CASE TheTags!TagsLoaded
  <2> DEFINE none == [t \in Tags |-> "none"]
  <2>1. PICK list \in TagLists :
          ui' = [ui EXCEPT !.loading = FALSE, !.list = list] /\ second' = second
    <3>1. none \in TagLists /\ second.tags \in TagLists
      BY TagsFacts DEF TheTags!States, TagLists
    <3>2. \E list \in {none, second.tags} :
            ui' = [ui EXCEPT !.loading = FALSE, !.list = list] /\ second' = second
      BY <1>3 DEF TheTags!TagsLoaded, TheTags!Desk
    <3> QED
      BY <3>1, <3>2
  <2>2. /\ ui' \in TagDesks /\ ui'.flight = ui.flight /\ ui'.mixed = ui.mixed
        /\ ui'.markets = ui.markets /\ ui'.stale = ui.stale /\ ui'.loads = ui.loads
    BY <1>1, <2>1 DEF TagDesks
  <2> QED
    BY <2>1, <2>2, TagsCalm
<1>4. CASE TheTags!ActiveTagsLoaded
  <2>1. PICK editable \in SUBSET Tags : ui' = [ui EXCEPT !.editable = editable] /\ second' = second
    BY <1>4 DEF TheTags!ActiveTagsLoaded, TheTags!Desk
  <2>2. /\ ui' \in TagDesks /\ ui'.flight = ui.flight /\ ui'.mixed = ui.mixed
        /\ ui'.markets = ui.markets /\ ui'.stale = ui.stale /\ ui'.loads = ui.loads
    BY <1>1, <2>1 DEF TagDesks
  <2> QED
    BY <2>1, <2>2, TagsCalm
<1>5. CASE TheTags!OpenColors \/ \E t \in Tags : TheTags!TypeTag(t)
  <2>1. PICK entry \in TagTexts : ui' = [ui EXCEPT !.form = entry] /\ second' = second
    <3>1. ui.form \in TagTexts
      BY TagsFacts
    <3>2. CASE TheTags!OpenColors
      <4> DEFINE entry == [ui.form EXCEPT !.colors = ~ui.form.colors]
      <4>1. ui' = [ui EXCEPT !.form = entry] /\ second' = second
        BY <1>1, <3>2 DEF TheTags!OpenColors, TheTags!Desk, TagDesks
      <4>2. entry \in TagTexts
        BY <3>1 DEF TagTexts
      <4> QED
        BY <4>1, <4>2
    <3>3. ASSUME NEW t \in Tags, TheTags!TypeTag(t)
          PROVE  \E entry \in TagTexts : ui' = [ui EXCEPT !.form = entry] /\ second' = second
      <4> DEFINE entry == [ui.form EXCEPT !.tag = t]
      <4>1. ui' = [ui EXCEPT !.form = entry] /\ second' = second
        BY <1>1, <3>3 DEF TheTags!TypeTag, TheTags!Desk, TagDesks
      <4>2. entry \in TagTexts
        BY <3>1 DEF TagTexts
      <4> QED
        BY <4>1, <4>2
    <3> QED
      BY <1>5, <3>2, <3>3
  <2>2. /\ ui' \in TagDesks /\ ui'.flight = ui.flight /\ ui'.mixed = ui.mixed
        /\ ui'.markets = ui.markets /\ ui'.stale = ui.stale /\ ui'.loads = ui.loads
    BY <1>1, <2>1 DEF TagDesks
  <2> QED
    BY <2>1, <2>2, TagsCalm
<1>6. ASSUME NEW r \in Rows, NEW t \in Tags, TheTags!ToggleMarketTag(r, t)
      PROVE  TheTags!TagsInv'
  <2> DEFINE chosen == TheTags!SelectedTags(r)
             toggled == (chosen \ {t}) \union ({t} \ chosen)
             drafts == [ui.drafts EXCEPT ![r] = toggled]
  <2>1. ui' = [ui EXCEPT !.drafts = drafts] /\ second' = second
    BY <1>6 DEF TheTags!ToggleMarketTag, TheTags!Desk
  <2>2. chosen \in TheTags!Allowed
    BY TagsFacts DEF TheTags!SelectedTags, TagDrafts, TagMarkets
  <2>3. t \notin chosen => ~(Cardinality(chosen) >= MaxTags)
    BY <1>6, TagsCount DEF TheTags!ToggleMarketTag, TheTags!CanToggle, TheTags!AtLimit
  <2>4. toggled \in TheTags!Allowed
    <3> HIDE DEF chosen
    <3> QED
      BY <2>2, <2>3, ToggleAllowed
  <2> HIDE DEF toggled
  <2>5. drafts \in TagDrafts
    BY <2>4, TagsFacts DEF TagDrafts
  <2> HIDE DEF drafts
  <2>6. /\ ui' \in TagDesks /\ ui'.flight = ui.flight /\ ui'.mixed = ui.mixed
        /\ ui'.markets = ui.markets /\ ui'.stale = ui.stale /\ ui'.loads = ui.loads
    BY <1>1, <2>1, <2>5 DEF TagDesks
  <2> QED
    BY <2>1, <2>6, TagsCalm
<1> QED
  BY <1>2, <1>3, <1>4, <1>5, <1>6

(* A load is sent. *)
LEMMA TagLoad ==
    ASSUME NEW d \in TagDesks, NEW by \in {"search", "decision"}
    PROVE  LET m == TheTags!Load(d, by)
           IN  /\ m \in TagDesks /\ m.flight = d.flight /\ m.mixed = d.mixed
               /\ m.markets = d.markets /\ m.stale = d.stale
               /\ \A l \in m.loads : l \in d.loads \/ l.got = None
<1> DEFINE sent == d.sent + 1
           loads == d.loads \union {TheTags!NewLoad(sent, by)}
           m == TheTags!Load(d, by)
<1>1. sent \in Nat /\ d.loads \in TagLoads
  BY DEF TagDesks
<1>2. loads \in TagLoads /\ \A l \in loads : l \in d.loads \/ l.got = None
  <2> HIDE DEF sent
  <2> QED
    BY <1>1, TagNewLoad DEF TagLoads
<1>3. m = [d EXCEPT !.sent = sent, !.fetching = TRUE, !.loads = loads]
  BY DEF TheTags!Load, TagDesks
<1> HIDE DEF sent, loads, m
<1>4. /\ m \in TagDesks /\ m.flight = d.flight /\ m.mixed = d.mixed
      /\ m.markets = d.markets /\ m.stale = d.stale /\ m.loads = loads
  BY <1>1, <1>2, <1>3 DEF TagDesks
<1>5. /\ m \in TagDesks /\ m.flight = d.flight /\ m.mixed = d.mixed
      /\ m.markets = d.markets /\ m.stale = d.stale
      /\ \A l \in m.loads : l \in d.loads \/ l.got = None
  BY <1>2, <1>4
<1> QED
  BY <1>5 DEF m

LEMMA TagsQueueSteps ==
    ASSUME TheTags!TagsInv,
           \/ TheTags!SearchMarkets \/ \E r \in Rows : TheTags!DecideMarket(r)
           \/ TheTags!DecisionEnded \/ TheTags!ServerReads
    PROVE  TheTags!TagsInv'
<1>1. ui \in TagDesks /\ second \in TagServers
  BY TagsFacts
<1>2. CASE TheTags!SearchMarkets
  <2>1. ui' = TheTags!Load(ui, "search") /\ second' = second
    BY <1>2 DEF TheTags!SearchMarkets, TheTags!Desk
  <2>2. /\ ui' \in TagDesks /\ ui'.flight = ui.flight /\ ui'.mixed = ui.mixed
        /\ ui'.markets = ui.markets /\ ui'.stale = ui.stale
        /\ \A l \in ui'.loads : l \in ui.loads \/ l.got = None
    BY <1>1, <2>1, TagLoad
  <2> QED
    BY <2>1, <2>2, TagsQuiet
<1>3. ASSUME NEW r \in Rows, TheTags!DecideMarket(r) PROVE TheTags!TagsInv'
  <2> DEFINE sent == ui.sent + 1
             deciding == ui.deciding \union {sent}
  <2>1. ui' = [ui EXCEPT !.sent = sent, !.busy = r, !.deciding = deciding] /\ second' = second
    BY <1>3 DEF TheTags!DecideMarket, TheTags!Desk
  <2>2. sent \in Nat /\ deciding \in SUBSET Nat
    BY TagsFacts
  <2> HIDE DEF sent, deciding
  <2>3. /\ ui' \in TagDesks /\ ui'.flight = ui.flight /\ ui'.mixed = ui.mixed
        /\ ui'.markets = ui.markets /\ ui'.stale = ui.stale /\ ui'.loads = ui.loads
    BY <1>1, <2>1, <2>2 DEF TagDesks
  <2> QED
    BY <2>1, <2>3, TagsCalm
<1>4. CASE TheTags!DecisionEnded
  <2>1. PICK id \in ui.deciding :
          /\ \/ ui' = TheTags!Load([ui EXCEPT !.deciding = @ \ {id}], "decision")
             \/ ui' = [[ui EXCEPT !.deciding = @ \ {id}] EXCEPT !.busy = None]
          /\ second' = second
    BY <1>4 DEF TheTags!DecisionEnded, TheTags!Desk
  <2> DEFINE deciding == ui.deciding \ {id}
             ended == [ui EXCEPT !.deciding = deciding]
  <2>2. ui' = TheTags!Load(ended, "decision") \/ ui' = [ended EXCEPT !.busy = None]
    BY <2>1
  <2>3. deciding \in SUBSET Nat
    BY TagsFacts
  <2> HIDE DEF deciding
  <2>4. /\ ended \in TagDesks /\ ended.flight = ui.flight /\ ended.mixed = ui.mixed
        /\ ended.markets = ui.markets /\ ended.stale = ui.stale /\ ended.loads = ui.loads
    BY <1>1, <2>3 DEF TagDesks
  <2> HIDE DEF ended
  <2>5. CASE ui' = TheTags!Load(ended, "decision")
    <3>1. /\ ui' \in TagDesks /\ ui'.flight = ended.flight /\ ui'.mixed = ended.mixed
          /\ ui'.markets = ended.markets /\ ui'.stale = ended.stale
          /\ \A l \in ui'.loads : l \in ended.loads \/ l.got = None
      BY <2>4, <2>5, TagLoad
    <3> QED
      BY <2>1, <2>4, <3>1, TagsQuiet
  <2>6. CASE ui' = [ended EXCEPT !.busy = None]
    <3>1. /\ ui' \in TagDesks /\ ui'.flight = ended.flight /\ ui'.mixed = ended.mixed
          /\ ui'.markets = ended.markets /\ ui'.stale = ended.stale /\ ui'.loads = ended.loads
      BY <2>4, <2>6 DEF TagDesks
    <3> QED
      BY <2>1, <2>4, <3>1, TagsCalm
  <2> QED
    BY <2>2, <2>5, <2>6
<1>5. CASE TheTags!ServerReads
  <2>1. PICK l \in ui.loads :
          /\ ui' = [ui EXCEPT !.loads = (@ \ {l}) \union {[l EXCEPT !.got = second.markets]}]
          /\ second' = second
    BY <1>5 DEF TheTags!ServerReads, TheTags!Desk
  <2> DEFINE read == [l EXCEPT !.got = second.markets]
             loads == (ui.loads \ {l}) \union {read}
  <2>2. ui' = [ui EXCEPT !.loads = loads]
    BY <2>1
  <2>3. read \in TheTags!Loads /\ read.got = second.markets
    BY TagsFacts DEF TagLoads, TheTags!Loads, TagMarkets
  <2> HIDE DEF read
  <2>4. loads \in TagLoads /\ \A k \in loads : k \in ui.loads \/ k.got = second.markets
    BY <2>3, TagsFacts DEF TagLoads
  <2> HIDE DEF loads
  <2>5. /\ ui' \in TagDesks /\ ui'.flight = ui.flight /\ ui'.mixed = ui.mixed
        /\ ui'.markets = ui.markets /\ ui'.stale = ui.stale /\ ui'.loads = loads
    BY <1>1, <2>2, <2>4 DEF TagDesks
  <2> QED
    BY <2>1, <2>4, <2>5, TagsQuiet
<1> QED
  BY <1>2, <1>3, <1>4, <1>5

(* A load is answered: the rows are as they were when the server read them. *)
LEMMA TagsShown ==
    ASSUME TheTags!TagsInv, TheTags!MarketsLoaded
    PROVE  TheTags!TagsInv'
<1>1. PICK l \in ui.loads, found \in SUBSET Rows :
        /\ second' = second
        /\ LET answered == [ui EXCEPT !.fetching = FALSE, !.loads = @ \ {l}, !.shown = {},
                                      !.busy = IF l.by = "decision" THEN None ELSE @]
           IN  ui' = IF l.got = None THEN answered
                     ELSE [answered EXCEPT !.shown = found, !.markets = l.got, !.stale = l.missed]
  BY DEF TheTags!MarketsLoaded, TheTags!Desk
<1> DEFINE loads == ui.loads \ {l}
           busy == IF l.by = "decision" THEN None ELSE ui.busy
           none == {}
           answered == [ui EXCEPT !.fetching = FALSE, !.loads = loads, !.shown = none, !.busy = busy]
<1>2. ui' = IF l.got = None THEN answered
            ELSE [answered EXCEPT !.shown = found, !.markets = l.got, !.stale = l.missed]
  BY <1>1
<1>3. ui \in TagDesks /\ second \in TagServers
  BY TagsFacts
<1>4. loads \in TagLoads /\ loads \subseteq ui.loads /\ busy \in Rows \union {None} /\ none \in SUBSET Rows
  BY TagsFacts DEF TagLoads
<1>5. l.got \in TagMarkets \union {None} /\ l.missed \in SUBSET Rows
  BY TagsFacts DEF TagLoads, TheTags!Loads, TagMarkets
<1> HIDE DEF loads, busy, none
<1>6. /\ answered \in TagDesks /\ answered.flight = ui.flight /\ answered.mixed = ui.mixed
      /\ answered.markets = ui.markets /\ answered.stale = ui.stale /\ answered.loads = loads
  BY <1>3, <1>4 DEF TagDesks
<1> HIDE DEF answered
<1>7. CASE l.got = None
  <2>1. ui' = answered
    BY <1>2, <1>7
  <2> QED
    BY <1>1, <1>4, <1>6, <2>1, TagsQuiet
<1>8. CASE l.got # None
  <2>1. ui' = [answered EXCEPT !.shown = found, !.markets = l.got, !.stale = l.missed]
    BY <1>2, <1>8
  <2>2. /\ ui' \in TagDesks /\ ui'.flight = ui.flight /\ ui'.mixed = ui.mixed
        /\ ui'.markets = l.got /\ ui'.stale = l.missed /\ ui'.loads = loads
    BY <1>5, <1>6, <1>8, <2>1 DEF TagDesks
  <2>3. \A r \in Rows : r \notin l.missed => l.got[r] = second.markets[r]
    BY <1>8, TagsTruth
  <2>4. \A r \in Rows : r \notin ui'.mixed =>
          /\ \A f \in ui'.flight : f.subject = r /\ f.done => second'.markets[r] = f.value
          /\ r \notin ui'.stale /\ (\A f \in ui'.flight : f.subject = r => ~f.done)
               => ui'.markets[r] = second'.markets[r]
    BY <1>1, <2>2, <2>3, TagsTruth
  <2>5. \A k \in ui'.loads : k.got # None =>
          \A r \in Rows : r \notin k.missed => k.got[r] = second'.markets[r]
    BY <1>1, <1>4, <2>2, TagsTruth
  <2>6. /\ \A f, g \in ui'.flight : f.subject = g.subject /\ f.subject \notin ui'.mixed => f = g
        /\ \A x \in ui'.mixed : \E f \in ui'.flight : f.subject = x
    BY <2>2, TagsTruth
  <2>7. second' \in TagServers
    BY <1>1, <1>3
  <2> QED
    BY <2>2, <2>4, <2>5, <2>6, <2>7, TagsFrom
<1> QED
  BY <1>7, <1>8

(* A request is sent, and whatever it is about is mixed if another was under way. *)
LEMMA TagsSend ==
    ASSUME TheTags!TagsInv, NEW d \in TagDesks,
           d.flight = ui.flight, d.mixed = ui.mixed, d.markets = ui.markets, d.sent = ui.sent,
           d.stale = ui.stale, d.loads = ui.loads,
           NEW kind, NEW subject \in Rows \union Tags, NEW value, TheTags!Send(d, kind, subject, value),
           [id |-> ui.sent + 1, kind |-> kind, subject |-> subject, value |-> value,
            done |-> FALSE, lost |-> FALSE] \in TheTags!TagRequests \union TheTags!MarketRequests
    PROVE  TheTags!TagsInv'
<1> DEFINE f == [id |-> ui.sent + 1, kind |-> kind, subject |-> subject, value |-> value,
                 done |-> FALSE, lost |-> FALSE]
           mixed == IF TheTags!About(subject) = {} THEN ui.mixed ELSE ui.mixed \union {subject}
           flight == ui.flight \union {f}
           sent == ui.sent + 1
<1>1. ui' = [d EXCEPT !.sent = sent, !.mixed = mixed, !.flight = flight] /\ second' = second
  BY DEF TheTags!Send, TheTags!Desk, TagDesks
<1>2. sent \in Nat
  BY TagsFacts
<1>3. /\ mixed \in TagMixed /\ ui.mixed \subseteq mixed /\ mixed \subseteq ui.mixed \union {subject}
      /\ subject \notin mixed => \A g \in ui.flight : g.subject # subject
  BY TagsFacts DEF TheTags!About, TagMixed
<1>4. f \in TheTags!TagRequests \union TheTags!MarketRequests /\ f.subject = subject /\ ~f.done
  OBVIOUS
<1> HIDE DEF f, mixed
<1>5. /\ flight \in TagFlights /\ f \in flight
      /\ \A g \in flight : g = f \/ g \in ui.flight
      /\ ui.flight \subseteq flight
  BY <1>4, TagsFacts DEF TagFlights
<1> HIDE DEF flight, sent
<1>6. /\ ui' \in TagDesks /\ ui'.flight = flight /\ ui'.mixed = mixed /\ ui'.markets = ui.markets
      /\ ui'.stale = ui.stale /\ ui'.loads = ui.loads
  BY <1>1, <1>2, <1>3, <1>5 DEF TagDesks
<1>7. \A g, h \in ui'.flight : g.subject = h.subject /\ g.subject \notin ui'.mixed => g = h
  BY <1>3, <1>4, <1>5, <1>6, TagsTruth
<1>8. \A x \in ui'.mixed : \E g \in ui'.flight : g.subject = x
  BY <1>3, <1>4, <1>5, <1>6, TagsTruth
<1>9. \A r \in Rows : r \notin ui'.mixed =>
        /\ \A g \in ui'.flight : g.subject = r /\ g.done => second'.markets[r] = g.value
        /\ r \notin ui'.stale /\ (\A g \in ui'.flight : g.subject = r => ~g.done)
             => ui'.markets[r] = second'.markets[r]
  BY <1>1, <1>3, <1>4, <1>5, <1>6, TagsTruth
<1>10. \A l \in ui'.loads : l.got # None =>
         \A r \in Rows : r \notin l.missed => l.got[r] = second'.markets[r]
  BY <1>1, <1>6, TagsTruth
<1>11. second' \in TagServers
  BY <1>1, TagsFacts
<1> QED
  BY <1>6, <1>7, <1>8, <1>9, <1>10, <1>11, TagsFrom

LEMMA TagsSends ==
    ASSUME TheTags!TagsInv,
           \/ TheTags!CreateTag \/ \E t \in Tags : TheTags!SetTagActive(t)
           \/ \E r \in Rows : TheTags!SaveMarketTags(r)
    PROVE  TheTags!TagsInv'
<1>1. ui \in TagDesks /\ ui.sent + 1 \in Nat
  BY TagsFacts
<1>2. CASE TheTags!CreateTag
  <2> DEFINE tag == ui.form.tag
  <2>1. TheTags!Send(ui, "create", tag, "active") /\ tag \in Tags
    BY <1>2, TagsFacts DEF TheTags!CreateTag, TagTexts
  <2> HIDE DEF tag
  <2>2. [id |-> ui.sent + 1, kind |-> "create", subject |-> tag, value |-> "active",
         done |-> FALSE, lost |-> FALSE] \in TheTags!TagRequests
    BY <1>1, <2>1 DEF TheTags!TagRequests, TheTags!States
  <2> QED
    BY <1>1, <2>1, <2>2, TagsSend
<1>3. ASSUME NEW t \in Tags, TheTags!SetTagActive(t) PROVE TheTags!TagsInv'
  <2> DEFINE d == [ui EXCEPT !.busyTag = t]
             value == IF ui.list[t] = "active" THEN "inactive" ELSE "active"
  <2>1. TheTags!Send(d, "state", t, value)
    BY <1>3 DEF TheTags!SetTagActive
  <2>2. /\ d \in TagDesks /\ d.flight = ui.flight /\ d.mixed = ui.mixed
        /\ d.markets = ui.markets /\ d.sent = ui.sent /\ d.stale = ui.stale /\ d.loads = ui.loads
    BY <1>1 DEF TagDesks
  <2>3. value \in TheTags!States
    BY DEF TheTags!States
  <2> HIDE DEF d, value
  <2>4. [id |-> ui.sent + 1, kind |-> "state", subject |-> t, value |-> value,
         done |-> FALSE, lost |-> FALSE] \in TheTags!TagRequests
    BY <1>1, <2>3 DEF TheTags!TagRequests
  <2> QED
    BY <2>1, <2>2, <2>4, TagsSend
<1>4. ASSUME NEW r \in Rows, TheTags!SaveMarketTags(r) PROVE TheTags!TagsInv'
  <2> DEFINE d == [ui EXCEPT !.busy = r]
             value == TheTags!SelectedTags(r)
  <2>1. TheTags!Send(d, "market", r, value)
    BY <1>4 DEF TheTags!SaveMarketTags
  <2>2. /\ d \in TagDesks /\ d.flight = ui.flight /\ d.mixed = ui.mixed
        /\ d.markets = ui.markets /\ d.sent = ui.sent /\ d.stale = ui.stale /\ d.loads = ui.loads
    BY <1>1 DEF TagDesks
  <2>3. value \in TheTags!Allowed
    BY TagsFacts DEF TheTags!SelectedTags, TagDrafts, TagMarkets
  <2> HIDE DEF d, value
  <2>4. [id |-> ui.sent + 1, kind |-> "market", subject |-> r, value |-> value,
         done |-> FALSE, lost |-> FALSE] \in TheTags!MarketRequests
    BY <1>1, <2>3 DEF TheTags!MarketRequests
  <2> QED
    BY <2>1, <2>2, <2>4, TagsSend
<1> QED
  BY <1>2, <1>3, <1>4

(* The end of a request, as each handler's finally sees it. *)
LEMMA TagEnded ==
    ASSUME TheTags!TagsInv, NEW f \in ui.flight
    PROVE  /\ TheTags!Ended(f) \in TagDesks /\ TheTags!Ended(f).flight = ui.flight \ {f}
           /\ TheTags!Ended(f).markets = ui.markets /\ TheTags!Ended(f).drafts = ui.drafts
           /\ TheTags!Ended(f).list = ui.list /\ TheTags!Ended(f).loads = ui.loads
           /\ TheTags!Ended(f).stale = ui.stale /\ TheTags!Ended(f).mixed \subseteq ui.mixed
           /\ \A x \in ui.mixed : x # f.subject => x \in TheTags!Ended(f).mixed
           /\ f.subject \in TheTags!Ended(f).mixed
                => \E g \in ui.flight : g # f /\ g.subject = f.subject
           /\ f.subject \in ui.mixed /\ f.subject \notin TheTags!Ended(f).mixed
                => \A g \in ui.flight : g.subject = f.subject => g = f
<1> DEFINE flight == ui.flight \ {f}
           mixed == IF TheTags!About(f.subject) = {f} THEN ui.mixed \ {f.subject} ELSE ui.mixed
           m == TheTags!Ended(f)
<1>1. ui \in TagDesks
  BY TagsFacts
<1>2. flight \in TagFlights /\ mixed \in TagMixed
  BY TagsFacts DEF TagFlights, TagMixed
<1>3. m = [ui EXCEPT !.flight = flight, !.mixed = mixed]
  BY DEF TheTags!Ended
<1>4. /\ mixed \subseteq ui.mixed
      /\ \A x \in ui.mixed : x # f.subject => x \in mixed
      /\ f.subject \in mixed => \E g \in ui.flight : g # f /\ g.subject = f.subject
      /\ f.subject \in ui.mixed /\ f.subject \notin mixed
           => \A g \in ui.flight : g.subject = f.subject => g = f
  BY DEF TheTags!About
<1> HIDE DEF flight, mixed, m
<1>5. /\ m \in TagDesks /\ m.flight = flight /\ m.markets = ui.markets /\ m.drafts = ui.drafts
      /\ m.list = ui.list /\ m.loads = ui.loads /\ m.stale = ui.stale /\ m.mixed = mixed
  BY <1>1, <1>2, <1>3 DEF TagDesks
<1> QED
  BY <1>4, <1>5 DEF m, flight

LEMMA TagFreed ==
    ASSUME NEW d \in TagDesks, NEW f, f.kind \in {"create", "state", "market"}
    PROVE  /\ TheTags!Freed(d, f) \in TagDesks
           /\ TheTags!Freed(d, f).flight = d.flight /\ TheTags!Freed(d, f).mixed = d.mixed
           /\ TheTags!Freed(d, f).markets = d.markets /\ TheTags!Freed(d, f).drafts = d.drafts
           /\ TheTags!Freed(d, f).list = d.list /\ TheTags!Freed(d, f).loads = d.loads
           /\ TheTags!Freed(d, f).stale = d.stale
<1> DEFINE m == TheTags!Freed(d, f)
<1>1. CASE f.kind = "market"
  <2>1. m = [d EXCEPT !.busy = None]
    BY <1>1 DEF TheTags!Freed
  <2> QED
    BY <2>1 DEF TagDesks
<1>2. CASE f.kind = "state"
  <2>1. m = [d EXCEPT !.busyTag = None]
    BY <1>2 DEF TheTags!Freed
  <2> QED
    BY <2>1 DEF TagDesks
<1>3. CASE f.kind = "create"
  <2>1. m = d
    BY <1>3 DEF TheTags!Freed
  <2> QED
    BY <2>1
<1> QED
  BY <1>1, <1>2, <1>3

LEMMA TagAnswered ==
    ASSUME TheTags!TagsInv, NEW f \in ui.flight
    PROVE  /\ TheTags!Answered(f) \in TagDesks /\ TheTags!Answered(f).flight = ui.flight \ {f}
           /\ TheTags!Answered(f).markets = ui.markets /\ TheTags!Answered(f).drafts = ui.drafts
           /\ TheTags!Answered(f).list = ui.list /\ TheTags!Answered(f).loads = ui.loads
           /\ TheTags!Answered(f).stale = ui.stale
           /\ TheTags!Answered(f).mixed = TheTags!Ended(f).mixed
<1>1. f.kind \in {"create", "state", "market"}
  <2>1. ui.flight \in TagFlights
    BY TagsFacts
  <2> QED
    BY <2>1, TagRequest
<1> DEFINE ended == TheTags!Ended(f)
<1>2. /\ ended \in TagDesks /\ ended.flight = ui.flight \ {f} /\ ended.markets = ui.markets
      /\ ended.drafts = ui.drafts /\ ended.list = ui.list /\ ended.loads = ui.loads
      /\ ended.stale = ui.stale
  BY TagEnded
<1>3. TheTags!Answered(f) = TheTags!Freed(ended, f) /\ ended.mixed = TheTags!Ended(f).mixed
  BY DEF TheTags!Answered
<1> HIDE DEF ended
<1> QED
  BY <1>1, <1>2, <1>3, TagFreed

(* A request ends.  Its row is marked stale, or was never mixed and shows the tags it has. *)
LEMMA TagsEnd ==
    ASSUME TheTags!TagsInv, NEW f \in ui.flight, ui' \in TagDesks, second' \in TagServers,
           ui'.flight = ui.flight \ {f}, ui'.mixed = TheTags!Ended(f).mixed,
           \A r \in Rows : r # f.subject =>
              /\ second'.markets[r] = second.markets[r] /\ ui'.markets[r] = ui.markets[r]
              /\ r \in ui.stale => r \in ui'.stale,
           f.subject \in Rows /\ f.subject \notin ui'.stale =>
              f.subject \notin ui.mixed /\ ui'.markets[f.subject] = second'.markets[f.subject],
           \A l \in ui'.loads : l.got # None =>
              \A r \in Rows : r \notin l.missed => l.got[r] = second'.markets[r]
    PROVE  TheTags!TagsInv'
<1> DEFINE mixed == TheTags!Ended(f).mixed
<1>1. /\ mixed \subseteq ui.mixed
      /\ \A x \in ui.mixed : x # f.subject => x \in mixed
      /\ f.subject \in mixed => \E g \in ui.flight : g # f /\ g.subject = f.subject
      /\ f.subject \in ui.mixed /\ f.subject \notin mixed
           => \A g \in ui.flight : g.subject = f.subject => g = f
  BY TagEnded
<1>2. ui'.mixed = mixed
  OBVIOUS
<1> HIDE DEF mixed
<1>3. f.subject \notin mixed => \A g \in ui.flight : g.subject = f.subject => g = f
  BY <1>1, TagsTruth
<1>4. \A g, h \in ui'.flight : g.subject = h.subject /\ g.subject \notin ui'.mixed => g = h
  BY <1>1, <1>2, <1>3, TagsTruth
<1>5. \A x \in ui'.mixed : \E g \in ui'.flight : g.subject = x
  BY <1>1, <1>2, TagsTruth
<1>6. \A r \in Rows : r \notin ui'.mixed =>
         /\ \A g \in ui'.flight : g.subject = r /\ g.done => second'.markets[r] = g.value
         /\ r \notin ui'.stale /\ (\A g \in ui'.flight : g.subject = r => ~g.done)
              => ui'.markets[r] = second'.markets[r]
  <2> SUFFICES ASSUME NEW r \in Rows, r \notin mixed
               PROVE  /\ \A g \in ui'.flight : g.subject = r /\ g.done => second'.markets[r] = g.value
                      /\ r \notin ui'.stale /\ (\A g \in ui'.flight : g.subject = r => ~g.done)
                           => ui'.markets[r] = second'.markets[r]
    BY <1>2
  <2>1. CASE r = f.subject
    BY <1>3, <2>1
  <2>2. CASE r # f.subject
    <3>1. /\ \A g \in ui.flight : g.subject = r /\ g.done => second.markets[r] = g.value
          /\ r \notin ui.stale /\ (\A g \in ui.flight : g.subject = r => ~g.done)
               => ui.markets[r] = second.markets[r]
      BY <1>1, <2>2, TagsTruth
    <3>2. /\ second'.markets[r] = second.markets[r] /\ ui'.markets[r] = ui.markets[r]
          /\ r \in ui.stale => r \in ui'.stale
      BY <2>2
    <3> QED
      BY <2>2, <3>1, <3>2
  <2> QED
    BY <2>1, <2>2
<1> QED
  BY <1>4, <1>5, <1>6, TagsFrom

(* A request is marked, and nothing else about it changes on the page. *)
LEMMA TagsMark ==
    ASSUME TheTags!TagsInv, NEW f \in ui.flight, NEW g, g.subject = f.subject,
           ui' \in TagDesks, second' \in TagServers,
           ui'.flight = (ui.flight \ {f}) \union {g}, ui'.mixed = ui.mixed,
           ui'.markets = ui.markets, ui'.stale = ui.stale, ~f.done,
           \A r \in Rows : r # f.subject => second'.markets[r] = second.markets[r],
           f.subject \in Rows /\ g.done => second'.markets[f.subject] = g.value,
           ~g.done => second' = second,
           \A l \in ui'.loads : l.got # None =>
              \A r \in Rows : r \notin l.missed => l.got[r] = second'.markets[r]
    PROVE  TheTags!TagsInv'
<1>1. \A h \in ui'.flight : h = g \/ (h \in ui.flight /\ h # f)
  OBVIOUS
<1>2. f.subject \notin ui.mixed => \A h \in ui'.flight : h.subject = f.subject => h = g
  BY <1>1, TagsTruth
<1>3. \A h, k \in ui'.flight : h.subject = k.subject /\ h.subject \notin ui'.mixed => h = k
  BY <1>1, <1>2, TagsTruth
<1>4. \A x \in ui'.mixed : \E h \in ui'.flight : h.subject = x
  BY TagsTruth
<1>5. \A r \in Rows : r \notin ui'.mixed =>
         /\ \A h \in ui'.flight : h.subject = r /\ h.done => second'.markets[r] = h.value
         /\ r \notin ui'.stale /\ (\A h \in ui'.flight : h.subject = r => ~h.done)
              => ui'.markets[r] = second'.markets[r]
  <2> SUFFICES ASSUME NEW r \in Rows, r \notin ui.mixed
               PROVE  /\ \A h \in ui'.flight : h.subject = r /\ h.done => second'.markets[r] = h.value
                      /\ r \notin ui.stale /\ (\A h \in ui'.flight : h.subject = r => ~h.done)
                           => ui.markets[r] = second'.markets[r]
    OBVIOUS
  <2>1. /\ \A h \in ui.flight : h.subject = r /\ h.done => second.markets[r] = h.value
        /\ r \notin ui.stale /\ (\A h \in ui.flight : h.subject = r => ~h.done)
             => ui.markets[r] = second.markets[r]
    BY TagsTruth
  <2>2. CASE r = f.subject
    <3>1. \A h \in ui.flight : h.subject = r => h = f
      BY <2>2, TagsTruth
    <3>2. g \in ui'.flight
      OBVIOUS
    <3> QED
      BY <1>2, <2>1, <2>2, <3>1, <3>2
  <2>3. CASE r # f.subject
    <3>1. second'.markets[r] = second.markets[r]
      BY <2>3
    <3>2. \A h \in ui.flight : h.subject = r => h \in ui'.flight
      BY <2>3
    <3> QED
      BY <1>1, <2>1, <2>3, <3>1, <3>2
  <2> QED
    BY <2>2, <2>3
<1> QED
  BY <1>3, <1>4, <1>5, TagsFrom

(* Loads that have read the tags of a market miss what it is given. *)
LEMMA TagOvertaken ==
    ASSUME TheTags!TagsInv, NEW r \in Rows
    PROVE  /\ TheTags!Overtaken(r) \in TagLoads
           /\ \A l \in TheTags!Overtaken(r) : l.got # None =>
                \A q \in Rows : q \notin l.missed => q # r /\ l.got[q] = second.markets[q]
<1> DEFINE over(l) == [l EXCEPT !.missed = l.missed \union {r}]
<1>1. ui.loads \in TagLoads
  BY TagsFacts
<1>2. \A l \in ui.loads : /\ over(l) \in TheTags!Loads
                          /\ over(l).got = l.got /\ over(l).missed = l.missed \union {r}
  BY <1>1 DEF TagLoads, TheTags!Loads
<1>3. TheTags!Overtaken(r) = {IF l.got = None THEN l ELSE over(l) : l \in ui.loads}
  BY DEF TheTags!Overtaken
<1> HIDE DEF over
<1>4. TheTags!Overtaken(r) \in TagLoads
  BY <1>1, <1>2, <1>3 DEF TagLoads
<1>5. ASSUME NEW l \in TheTags!Overtaken(r), l.got # None, NEW q \in Rows, q \notin l.missed
      PROVE  q # r /\ l.got[q] = second.markets[q]
  <2>1. PICK k \in ui.loads : k.got # None /\ l = over(k)
    BY <1>3, <1>5
  <2>2. l.got = k.got /\ l.missed = k.missed \union {r}
    BY <1>2, <2>1
  <2> QED
    BY <1>5, <2>1, <2>2, TagsTruth
<1> QED
  BY <1>4, <1>5

LEMMA TagsServer ==
    ASSUME TheTags!ConstantsOK, TheTags!TagsInv, TheTags!ServerDoes
    PROVE  TheTags!TagsInv'
<1>1. PICK f \in ui.flight :
        /\ ~f.done
        /\ second' = IF f.kind = "market" THEN [second EXCEPT !.markets[f.subject] = f.value]
                     ELSE [second EXCEPT !.tags[f.subject] = f.value]
        /\ LET did == IF f.lost THEN TheTags!Ended(f)
                      ELSE [ui EXCEPT !.flight = (@ \ {f}) \union {[f EXCEPT !.done = TRUE]}]
           IN  ui' = IF f.kind # "market" THEN did
                     ELSE [did EXCEPT !.loads = TheTags!Overtaken(f.subject),
                                      !.stale = IF f.lost THEN @ \union {f.subject} ELSE @]
  BY DEF TheTags!ServerDoes
<1> DEFINE g == [f EXCEPT !.done = TRUE]
           flight == (ui.flight \ {f}) \union {g}
           did == IF f.lost THEN TheTags!Ended(f) ELSE [ui EXCEPT !.flight = flight]
           loads == IF f.kind = "market" THEN TheTags!Overtaken(f.subject) ELSE ui.loads
           stale == IF f.kind = "market" /\ f.lost THEN ui.stale \union {f.subject} ELSE ui.stale
<1>2. ui' = IF f.kind # "market" THEN did
            ELSE [did EXCEPT !.loads = TheTags!Overtaken(f.subject),
                             !.stale = IF f.lost THEN @ \union {f.subject} ELSE @]
  BY <1>1
<1>3. ui \in TagDesks /\ second \in TagServers /\ ui.flight \in TagFlights
  BY TagsFacts
<1>4. /\ g \in TheTags!TagRequests \union TheTags!MarketRequests
      /\ g.subject = f.subject /\ g.value = f.value /\ g.done
  BY <1>3, TagMarked
<1>5. /\ f.kind \in {"create", "state", "market"} /\ f.subject \in Rows \union Tags
      /\ f.kind = "market" => f.subject \in Rows /\ f.value \in TheTags!Allowed
      /\ f.kind # "market" => f.subject \in Tags /\ f.value \in TheTags!States
  BY <1>3, TagRequest
<1> HIDE DEF g
<1>6. flight \in TagFlights
  BY <1>3, <1>4 DEF TagFlights
<1> HIDE DEF flight
<1>7. /\ did \in TagDesks /\ did.markets = ui.markets /\ did.stale = ui.stale /\ did.loads = ui.loads
      /\ f.lost => did.flight = ui.flight \ {f} /\ did.mixed = TheTags!Ended(f).mixed
      /\ ~f.lost => did.flight = flight /\ did.mixed = ui.mixed
  <2>1. CASE f.lost
    BY <2>1, TagEnded
  <2>2. CASE ~f.lost
    <3>1. did = [ui EXCEPT !.flight = flight]
      BY <2>2
    <3> HIDE DEF did
    <3> QED
      BY <1>3, <1>6, <2>2, <3>1 DEF TagDesks
  <2> QED
    BY <2>1, <2>2
<1> HIDE DEF did
<1>8. loads \in TagLoads /\ stale \in SUBSET Rows
  <2>1. ui.loads \in TagLoads /\ ui.stale \in SUBSET Rows
    BY TagsFacts
  <2> QED
    BY <1>5, <2>1, TagOvertaken
<1>9. ui' = did \/ ui' = [did EXCEPT !.loads = loads, !.stale = stale]
  BY <1>2, <1>7
<1>10. f.kind # "market" => ui' = did /\ loads = ui.loads /\ stale = ui.stale
  BY <1>2
<1>11. f.kind = "market" => ui' = [did EXCEPT !.loads = loads, !.stale = stale]
  BY <1>2, <1>7
<1>12. f.kind = "market" => loads = TheTags!Overtaken(f.subject)
  OBVIOUS
<1>13. f.lost /\ f.kind = "market" => f.subject \in stale
  OBVIOUS
<1>14. ui.stale \subseteq stale /\ (~f.lost => stale = ui.stale)
  OBVIOUS
<1> HIDE DEF loads, stale
<1>15. /\ ui' \in TagDesks /\ ui'.markets = ui.markets /\ ui'.stale = stale /\ ui'.loads = loads
       /\ ui'.flight = did.flight /\ ui'.mixed = did.mixed
  BY <1>7, <1>8, <1>9, <1>10, <1>11 DEF TagDesks
<1>16. /\ second' \in TagServers
       /\ \A r \in Rows : r # f.subject => second'.markets[r] = second.markets[r]
       /\ f.subject \in Rows => f.kind = "market" /\ second'.markets[f.subject] = f.value
       /\ f.kind # "market" => second'.markets = second.markets
  <2>1. CASE f.kind = "market"
    <3> DEFINE markets == [second.markets EXCEPT ![f.subject] = f.value]
    <3>1. second' = [second EXCEPT !.markets = markets]
      BY <1>1, <2>1
    <3>2. /\ markets \in TagMarkets /\ markets[f.subject] = f.value
          /\ \A r \in Rows : r # f.subject => markets[r] = second.markets[r]
      BY <1>5, <2>1, TagsFacts DEF TagMarkets
    <3> HIDE DEF markets
    <3> QED
      BY <1>3, <2>1, <3>1, <3>2 DEF TagServers
  <2>2. CASE f.kind # "market"
    <3> DEFINE tags == [second.tags EXCEPT ![f.subject] = f.value]
    <3>1. second' = [second EXCEPT !.tags = tags]
      BY <1>1, <2>2
    <3>2. tags \in TagLists
      BY <1>5, <2>2, TagsFacts DEF TagLists
    <3>3. f.subject \notin Rows
      BY <1>5, <2>2 DEF TheTags!ConstantsOK
    <3> HIDE DEF tags
    <3> QED
      BY <1>3, <2>2, <3>1, <3>2, <3>3 DEF TagServers
  <2> QED
    BY <2>1, <2>2
<1>17. \A l \in ui'.loads : l.got # None =>
         \A r \in Rows : r \notin l.missed => l.got[r] = second'.markets[r]
  <2>1. CASE f.kind = "market"
    BY <1>5, <1>12, <1>15, <1>16, <2>1, TagOvertaken
  <2>2. CASE f.kind # "market"
    BY <1>10, <1>15, <1>16, <2>2, TagsTruth
  <2> QED
    BY <2>1, <2>2
<1>18. CASE f.lost
  <2>1. /\ ui'.flight = ui.flight \ {f} /\ ui'.mixed = TheTags!Ended(f).mixed
    BY <1>7, <1>15, <1>18
  <2>2. \A r \in Rows : r # f.subject =>
              /\ second'.markets[r] = second.markets[r] /\ ui'.markets[r] = ui.markets[r]
              /\ r \in ui.stale => r \in ui'.stale
    BY <1>14, <1>15, <1>16
  <2>3. f.subject \in Rows /\ f.subject \notin ui'.stale =>
              f.subject \notin ui.mixed /\ ui'.markets[f.subject] = second'.markets[f.subject]
    BY <1>13, <1>15, <1>16, <1>18
  <2> QED
    BY <1>15, <1>16, <1>17, <2>1, <2>2, <2>3, TagsEnd
<1>19. CASE ~f.lost
  <2>1. /\ ui'.flight = (ui.flight \ {f}) \union {g} /\ ui'.mixed = ui.mixed /\ ui'.stale = ui.stale
    BY <1>7, <1>14, <1>15, <1>19 DEF flight
  <2>2. f.subject \in Rows /\ g.done => second'.markets[f.subject] = g.value
    BY <1>4, <1>16
  <2>3. g.subject = f.subject /\ g.done /\ ~f.done
    BY <1>1, <1>4
  <2>4. \A r \in Rows : r # f.subject => second'.markets[r] = second.markets[r]
    BY <1>16
  <2> QED
    BY <1>15, <1>16, <1>17, <2>1, <2>2, <2>3, <2>4, TagsMark
<1> QED
  BY <1>18, <1>19

LEMMA TagsEnds ==
    ASSUME TheTags!ConstantsOK, TheTags!TagsInv,
           TheTags!MarketTagsSaved \/ TheTags!TagCreated \/ TheTags!TagUpdated
    PROVE  TheTags!TagsInv'
<1>1. second \in TagServers /\ ui.flight \in TagFlights
  BY TagsFacts
<1>2. CASE TheTags!MarketTagsSaved
  <2>1. PICK f \in ui.flight :
          /\ f.done /\ f.kind = "market" /\ second' = second
          /\ ui' = [TheTags!Answered(f) EXCEPT
                       !.markets[f.subject] = f.value, !.drafts[f.subject] = None,
                       !.stale = IF f.subject \in ui.mixed THEN @ \union {f.subject}
                                 ELSE @ \ {f.subject}]
    BY <1>2 DEF TheTags!MarketTagsSaved, TheTags!Desk
  <2> DEFINE ended == TheTags!Answered(f)
             markets == [ui.markets EXCEPT ![f.subject] = f.value]
             drafts == [ui.drafts EXCEPT ![f.subject] = None]
             stale == IF f.subject \in ui.mixed THEN ui.stale \union {f.subject}
                      ELSE ui.stale \ {f.subject}
  <2>2. f.subject \in Rows /\ f.value \in TheTags!Allowed
    BY <1>1, <2>1, TagRequest
  <2>3. /\ ended \in TagDesks /\ ended.flight = ui.flight \ {f}
        /\ ended.mixed = TheTags!Ended(f).mixed /\ ended.markets = ui.markets
        /\ ended.drafts = ui.drafts /\ ended.loads = ui.loads /\ ended.stale = ui.stale
    BY TagAnswered
  <2>4. ui' = [ended EXCEPT !.markets = [ended.markets EXCEPT ![f.subject] = f.value],
                            !.drafts = [ended.drafts EXCEPT ![f.subject] = None],
                            !.stale = IF f.subject \in ui.mixed THEN ended.stale \union {f.subject}
                                      ELSE ended.stale \ {f.subject}]
    <3>1. ui' = [ended EXCEPT !.markets[f.subject] = f.value, !.drafts[f.subject] = None,
                              !.stale = IF f.subject \in ui.mixed THEN @ \union {f.subject}
                                        ELSE @ \ {f.subject}]
      BY <2>1
    <3> HIDE DEF ended
    <3> QED
      BY <2>3, <3>1 DEF TagDesks
  <2> HIDE DEF ended
  <2>5. ui' = [ended EXCEPT !.markets = markets, !.drafts = drafts, !.stale = stale]
    BY <2>3, <2>4
  <2>6. /\ markets \in TagMarkets /\ markets[f.subject] = f.value
        /\ \A r \in Rows : r # f.subject => markets[r] = ui.markets[r]
        /\ drafts \in TagDrafts
    BY <2>2, TagsFacts DEF TagMarkets, TagDrafts
  <2>7. /\ stale \in SUBSET Rows /\ \A r \in Rows : r # f.subject /\ r \in ui.stale => r \in stale
        /\ f.subject \notin stale => f.subject \notin ui.mixed
    BY <2>2, TagsFacts
  <2> HIDE DEF markets, drafts, stale
  <2>8. /\ ui' \in TagDesks /\ ui'.flight = ui.flight \ {f} /\ ui'.mixed = TheTags!Ended(f).mixed
        /\ ui'.markets = markets /\ ui'.stale = stale /\ ui'.loads = ui.loads
    BY <2>3, <2>5, <2>6, <2>7 DEF TagDesks
  <2>9. f.subject \notin ui.mixed => second.markets[f.subject] = f.value
    BY <2>1, <2>2, TagsTruth
  <2>10. /\ \A r \in Rows : r # f.subject =>
              /\ second'.markets[r] = second.markets[r] /\ ui'.markets[r] = ui.markets[r]
              /\ r \in ui.stale => r \in ui'.stale
         /\ f.subject \in Rows /\ f.subject \notin ui'.stale =>
              f.subject \notin ui.mixed /\ ui'.markets[f.subject] = second'.markets[f.subject]
    BY <2>1, <2>6, <2>7, <2>8, <2>9
  <2>11. /\ second' \in TagServers
         /\ \A l \in ui'.loads : l.got # None =>
              \A r \in Rows : r \notin l.missed => l.got[r] = second'.markets[r]
    BY <1>1, <2>1, <2>8, TagsTruth
  <2> QED
    BY <2>8, <2>10, <2>11, TagsEnd
<1>3. CASE TheTags!TagCreated \/ TheTags!TagUpdated
  <2>1. PICK f \in ui.flight :
          /\ f.done /\ f.kind \in {"create", "state"} /\ second' = second
          /\ \/ ui' = [TheTags!Answered(f) EXCEPT !.list[f.subject] = f.value,
                                                  !.form = TheTags!EmptyTagForm]
             \/ ui' = [TheTags!Answered(f) EXCEPT !.list[f.subject] = f.value]
    BY <1>3 DEF TheTags!TagCreated, TheTags!TagUpdated, TheTags!Desk
  <2> DEFINE ended == TheTags!Answered(f)
             list == [ui.list EXCEPT ![f.subject] = f.value]
             empty == TheTags!EmptyTagForm
  <2>2. f.subject \in Tags /\ f.value \in TheTags!States
    BY <1>1, <2>1, TagRequest
  <2>3. /\ ended \in TagDesks /\ ended.flight = ui.flight \ {f}
        /\ ended.mixed = TheTags!Ended(f).mixed /\ ended.markets = ui.markets
        /\ ended.list = ui.list /\ ended.loads = ui.loads /\ ended.stale = ui.stale
    BY TagAnswered
  <2>4. \/ ui' = [ended EXCEPT !.list = [ended.list EXCEPT ![f.subject] = f.value], !.form = empty]
        \/ ui' = [ended EXCEPT !.list = [ended.list EXCEPT ![f.subject] = f.value]]
    <3>1. \/ ui' = [ended EXCEPT !.list[f.subject] = f.value, !.form = empty]
          \/ ui' = [ended EXCEPT !.list[f.subject] = f.value]
      BY <2>1
    <3> HIDE DEF ended, empty
    <3> QED
      BY <2>3, <3>1 DEF TagDesks
  <2>5. empty \in TagTexts
    BY DEF TheTags!EmptyTagForm, TagTexts
  <2>6. list \in TagLists
    BY <2>2, TagsFacts DEF TagLists
  <2> HIDE DEF ended, empty
  <2>7. ui' = [ended EXCEPT !.list = list, !.form = empty] \/ ui' = [ended EXCEPT !.list = list]
    BY <2>3, <2>4
  <2> HIDE DEF list
  <2>8. /\ ui' \in TagDesks /\ ui'.flight = ui.flight \ {f} /\ ui'.mixed = TheTags!Ended(f).mixed
        /\ ui'.markets = ui.markets /\ ui'.loads = ui.loads /\ ui'.stale = ui.stale
    <3>1. CASE ui' = [ended EXCEPT !.list = list, !.form = empty]
      BY <2>3, <2>5, <2>6, <3>1 DEF TagDesks
    <3>2. CASE ui' = [ended EXCEPT !.list = list]
      BY <2>3, <2>6, <3>2 DEF TagDesks
    <3> QED
      BY <2>7, <3>1, <3>2
  <2>9. f.subject \notin Rows
    BY <2>2 DEF TheTags!ConstantsOK
  <2>10. /\ second' \in TagServers
         /\ \A l \in ui'.loads : l.got # None =>
              \A r \in Rows : r \notin l.missed => l.got[r] = second'.markets[r]
    BY <1>1, <2>1, <2>8, TagsTruth
  <2>11. \A r \in Rows : r # f.subject =>
              /\ second'.markets[r] = second.markets[r] /\ ui'.markets[r] = ui.markets[r]
              /\ r \in ui.stale => r \in ui'.stale
    BY <2>1, <2>8
  <2> QED
    BY <2>8, <2>9, <2>10, <2>11, TagsEnd
<1> QED
  BY <1>2, <1>3

(* A request fails, or is told to have failed. *)
LEMMA TagsFailed ==
    ASSUME TheTags!ConstantsOK, TheTags!TagsInv, NEW f \in ui.flight, second' = second,
           NEW stale \in SUBSET Rows, ui' = [TheTags!Answered(f) EXCEPT !.stale = stale],
           ui.stale \subseteq stale,
           f.subject \in Rows /\ f.subject \notin stale => f.subject \notin ui.mixed /\ ~f.done
    PROVE  TheTags!TagsInv'
<1> DEFINE ended == TheTags!Answered(f)
<1>1. /\ ended \in TagDesks /\ ended.flight = ui.flight \ {f}
      /\ ended.mixed = TheTags!Ended(f).mixed /\ ended.markets = ui.markets
      /\ ended.loads = ui.loads /\ ended.stale = ui.stale
  BY TagAnswered
<1>2. ui' = [ended EXCEPT !.stale = stale]
  OBVIOUS
<1> HIDE DEF ended
<1>3. /\ ui' \in TagDesks /\ ui'.flight = ui.flight \ {f} /\ ui'.mixed = TheTags!Ended(f).mixed
      /\ ui'.markets = ui.markets /\ ui'.loads = ui.loads /\ ui'.stale = stale
  BY <1>1, <1>2 DEF TagDesks
<1>4. ASSUME f.subject \in Rows, f.subject \notin stale
      PROVE  f.subject \notin ui.mixed /\ ui.markets[f.subject] = second.markets[f.subject]
  <2>1. f.subject \notin ui.mixed /\ ~f.done /\ f.subject \notin ui.stale
    BY <1>4
  <2>2. \A g \in ui.flight : g.subject = f.subject => ~g.done
    BY <2>1, TagsTruth
  <2> QED
    BY <1>4, <2>1, <2>2, TagsTruth
<1>5. second' \in TagServers
  BY TagsFacts
<1>6. \A r \in Rows : r # f.subject =>
              /\ second'.markets[r] = second.markets[r] /\ ui'.markets[r] = ui.markets[r]
              /\ r \in ui.stale => r \in ui'.stale
  BY <1>3
<1>7. f.subject \in Rows /\ f.subject \notin ui'.stale =>
              f.subject \notin ui.mixed /\ ui'.markets[f.subject] = second'.markets[f.subject]
  BY <1>3, <1>4
<1>8. \A l \in ui'.loads : l.got # None =>
              \A r \in Rows : r \notin l.missed => l.got[r] = second'.markets[r]
  BY <1>3, TagsTruth
<1> QED
  BY <1>3, <1>5, <1>6, <1>7, <1>8, TagsEnd

LEMMA TagsFailures ==
    ASSUME TheTags!ConstantsOK, TheTags!TagsInv, TheTags!RequestFailed \/ TheTags!AnswerLost
    PROVE  TheTags!TagsInv'
<1>1. CASE TheTags!RequestFailed
  <2>1. PICK f \in ui.flight :
          /\ ~f.done /\ second' = second
          /\ ui' = [TheTags!Answered(f) EXCEPT !.stale = @ \union (TheTags!RowOf(f) \intersect ui.mixed)]
    BY <1>1 DEF TheTags!RequestFailed, TheTags!Desk
  <2> DEFINE stale == ui.stale \union (TheTags!RowOf(f) \intersect ui.mixed)
  <2>2. ui' = [TheTags!Answered(f) EXCEPT !.stale = stale]
    BY <2>1, TagAnswered
  <2>3. /\ stale \in SUBSET Rows /\ ui.stale \subseteq stale
        /\ f.subject \in Rows /\ f.subject \notin stale => f.subject \notin ui.mixed /\ ~f.done
    BY <2>1, TagsFacts DEF TheTags!RowOf
  <2> HIDE DEF stale
  <2> QED
    BY <2>1, <2>2, <2>3, TagsFailed
<1>2. CASE TheTags!AnswerLost
  <2>1. PICK f \in ui.flight :
          /\ second' = second
          /\ ui' = IF f.done THEN [TheTags!Answered(f) EXCEPT !.stale = @ \union TheTags!RowOf(f)]
                   ELSE TheTags!Freed([ui EXCEPT !.flight =
                           (@ \ {f}) \union {[f EXCEPT !.lost = TRUE]}], f)
    BY <1>2 DEF TheTags!AnswerLost, TheTags!Desk
  <2>2. CASE f.done
    <3> DEFINE stale == ui.stale \union TheTags!RowOf(f)
    <3>1. ui' = [TheTags!Answered(f) EXCEPT !.stale = stale]
      BY <2>1, <2>2, TagAnswered
    <3>2. /\ stale \in SUBSET Rows /\ ui.stale \subseteq stale
          /\ f.subject \in Rows /\ f.subject \notin stale => f.subject \notin ui.mixed /\ ~f.done
      BY TagsFacts DEF TheTags!RowOf
    <3> HIDE DEF stale
    <3> QED
      BY <2>1, <3>1, <3>2, TagsFailed
  <2>3. CASE ~f.done
    <3> DEFINE g == [f EXCEPT !.lost = TRUE]
               flight == (ui.flight \ {f}) \union {g}
               d == [ui EXCEPT !.flight = flight]
    <3>1. ui' = TheTags!Freed(d, f)
      BY <2>1, <2>3
    <3>2. ui \in TagDesks /\ ui.flight \in TagFlights /\ second \in TagServers
      BY TagsFacts
    <3>3. /\ g \in TheTags!TagRequests \union TheTags!MarketRequests
          /\ g.subject = f.subject /\ ~g.done
      BY <2>3, <3>2, TagMarked
    <3>4. f.kind \in {"create", "state", "market"}
      BY <3>2, TagRequest
    <3> HIDE DEF g
    <3>5. flight \in TagFlights
      BY <3>2, <3>3 DEF TagFlights
    <3> HIDE DEF flight
    <3>6. /\ d \in TagDesks /\ d.flight = flight /\ d.mixed = ui.mixed /\ d.markets = ui.markets
          /\ d.stale = ui.stale /\ d.loads = ui.loads
      BY <3>2, <3>5 DEF TagDesks
    <3> HIDE DEF d
    <3>7. /\ ui' \in TagDesks /\ ui'.flight = flight /\ ui'.mixed = ui.mixed
          /\ ui'.markets = ui.markets /\ ui'.stale = ui.stale /\ ui'.loads = ui.loads
      BY <3>1, <3>4, <3>6, TagFreed
    <3>8. ui'.flight = (ui.flight \ {f}) \union {g}
      BY <3>7 DEF flight
    <3>9. \A l \in ui'.loads : l.got # None =>
              \A r \in Rows : r \notin l.missed => l.got[r] = second'.markets[r]
      BY <2>1, <3>7, TagsTruth
    <3>10. second' = second /\ second' \in TagServers
      BY <2>1, <3>2
    <3> QED
      BY <2>3, <3>3, <3>7, <3>8, <3>9, <3>10, TagsMark
  <2> QED
    BY <2>2, <2>3
<1> QED
  BY <1>1, <1>2

(* Every step of the desk of tags keeps its invariant. *)
LEMMA TagsNextInv ==
    ASSUME TheTags!ConstantsOK, TheTags!TagsInv, [TheTags!Next]_<<ui, second>>
    PROVE  TheTags!TagsInv'
<1>1. CASE \/ TheTags!TagsLoaded \/ TheTags!ActiveTagsLoaded \/ TheTags!OpenColors
           \/ \E t \in Tags : TheTags!TypeTag(t)
           \/ \E r \in Rows, t \in Tags : TheTags!ToggleMarketTag(r, t)
           \/ UNCHANGED <<ui, second>>
  BY <1>1, TagsCalmSteps
<1>2. CASE \/ TheTags!CreateTag \/ \E t \in Tags : TheTags!SetTagActive(t)
           \/ \E r \in Rows : TheTags!SaveMarketTags(r)
  BY <1>2, TagsSends
<1>3. CASE \/ TheTags!SearchMarkets \/ \E r \in Rows : TheTags!DecideMarket(r)
           \/ TheTags!DecisionEnded \/ TheTags!ServerReads
  BY <1>3, TagsQueueSteps
<1>4. CASE TheTags!ServerDoes
  BY <1>4, TagsServer
<1>5. CASE TheTags!MarketTagsSaved \/ TheTags!TagCreated \/ TheTags!TagUpdated
  BY <1>5, TagsEnds
<1>6. CASE TheTags!RequestFailed \/ TheTags!AnswerLost
  BY <1>6, TagsFailures
<1>7. CASE TheTags!MarketsLoaded
  BY <1>7, TagsShown
<1>8. CASE \E tab \in TheTags!Tabs : TheTags!SelectTab(tab)
  BY <1>8, TagsTab
<1> QED
  BY <1>1, <1>2, <1>3, <1>4, <1>5, <1>6, <1>7, <1>8 DEF TheTags!Next

LEMMA TagsInvShows == TheTags!TagsInv => TheTags!TypeOK /\ TheTags!MarketTagsAreKept
<1> SUFFICES ASSUME TheTags!TagsInv, NEW r \in Rows
             PROVE  /\ TheTags!Cardinality(second.markets[r]) <= MaxTags
                    /\ r \in ui.shown \ ui.stale /\ TheTags!About(r) = {}
                         => ui.markets[r] = second.markets[r]
  BY DEF TheTags!TagsInv, TheTags!MarketTagsAreKept
<1>1. second.markets[r] \in TheTags!Allowed
  BY TagsFacts DEF TagMarkets
<1>2. TheTags!About(r) = {} => \A f \in ui.flight : f.subject # r
  BY DEF TheTags!About
<1>3. (\A f \in ui.flight : f.subject # r) => r \notin ui.mixed
  BY TagsTruth
<1>4. r \notin ui.stale /\ (\A f \in ui.flight : f.subject # r) => ui.markets[r] = second.markets[r]
  BY <1>3, TagsTruth
<1> QED
  BY <1>1, <1>2, <1>4 DEF TheTags!Allowed
-----------------------------------------------------------------------------
(* The review page of the administrators. *)
(* The instances count as the library does. *)
LEMMA DeskCounts == \A S : Desk!Cardinality(S) = Cardinality(S) /\ (Desk!IsFiniteSet(S) <=> IsFiniteSet(S))
BY DEF Desk!Cardinality, Cardinality, Desk!IsFiniteSet, IsFiniteSet

LEMMA DeskRowsCounted == Desk!ConstantsOK => Desk!Cardinality(Rows) \in Nat
BY DeskCounts, FS_CardinalityType DEF Desk!ConstantsOK

(* What the invariant says, request by request and row by row. *)
LEMMA DeskFacts ==
    ASSUME Desk!DeskInv
    PROVE  /\ ui \in Desk!Desks /\ second \in [Desk!Kinds -> SUBSET Rows]
           /\ \A f \in ui.flight : f.kind = "decide" => f.row # None
           /\ ~ui.ui.late => \A f, g \in ui.flight : f = g
           /\ ~ui.ui.late /\ ~ui.ui.timer =>
                 \A f \in ui.flight : f.kind = "load" =>
                    f.view = ui.ui.view /\ (f.got # None => f.got = second[ui.ui.kind])
           /\ ~ui.ui.late /\ ~ui.ui.timer /\ ~ui.ui.spinning => ui.ui.of = ui.ui.view
           /\ ~ui.ui.late /\ ~ui.ui.timer /\ ~ui.ui.spinning /\ ui.ui.rows # {} =>
                 \A r \in Rows : r \in second[ui.ui.kind] <=>
                    r \in ui.ui.rows /\ \A f \in ui.flight :
                       ui.ui.kind \notin Desk!InPlace /\ f.kind = "decide" /\ f.got # None => f.row # r
<1>1. /\ ui \in Desk!Desks /\ second \in [Desk!Kinds -> SUBSET Rows]
      /\ \A f \in ui.flight : f.kind = "decide" => f.row # None
  BY DEF Desk!DeskInv, Desk!TypeOK, Desk!Of
<1>2. ~ui.ui.late => \A f, g \in ui.flight : f = g
  BY DEF Desk!DeskInv, Desk!OneAtATime, Desk!Ui
<1>3. ~ui.ui.late /\ ~ui.ui.timer =>
         \A f \in ui.flight : f.kind = "load" =>
            f.view = ui.ui.view /\ (f.got # None => f.got = second[ui.ui.kind])
  BY DEF Desk!DeskInv, Desk!LoadsAreTrue, Desk!Ui, Desk!Of
<1>4. ~ui.ui.late /\ ~ui.ui.timer /\ ~ui.ui.spinning =>
         ui.ui.of = ui.ui.view /\ (ui.ui.rows # {} => ui.ui.rows \ Desk!Decided = second[ui.ui.kind])
  BY DEF Desk!DeskInv, Desk!RowsAreTrue, Desk!Ui
<1>5. \A r : r \in Desk!Decided <=>
         \E f \in ui.flight : /\ ui.ui.kind \notin Desk!InPlace /\ f.kind = "decide"
                             /\ f.got # None /\ f.row = r
  BY DEF Desk!Decided, Desk!Of, Desk!Ui
<1>6. ui.ui.rows \subseteq Rows
  BY <1>1 DEF Desk!Desks, Desk!Uis
<1> QED
  BY <1>1, <1>2, <1>3, <1>4, <1>5, <1>6

(* The same of the next state, the other way. *)
LEMMA DeskFrom ==
    ASSUME Desk!ConstantsOK, ui' \in Desk!Desks, second' \in [Desk!Kinds -> SUBSET Rows],
           \A f \in ui'.flight : f.kind = "decide" => f.row # None,
           ~ui'.ui.late => \A f, g \in ui'.flight : f = g,
           ~ui'.ui.late /\ ~ui'.ui.timer =>
              \A f \in ui'.flight : f.kind = "load" =>
                 f.view = ui'.ui.view /\ (f.got # None => f.got = second'[ui'.ui.kind]),
           ~ui'.ui.late /\ ~ui'.ui.timer /\ ~ui'.ui.spinning => ui'.ui.of = ui'.ui.view,
           ~ui'.ui.late /\ ~ui'.ui.timer /\ ~ui'.ui.spinning /\ ui'.ui.rows # {} =>
              \A r \in Rows : r \in second'[ui'.ui.kind] <=>
                 r \in ui'.ui.rows /\ \A f \in ui'.flight :
                       ui'.ui.kind \notin Desk!InPlace /\ f.kind = "decide" /\ f.got # None => f.row # r
    PROVE  Desk!DeskInv'
<1>1. ui'.ui.rows \subseteq Rows /\ ui'.ui.kind \in Desk!Kinds
  BY DEF Desk!Desks, Desk!Uis
<1>2. \A k \in Desk!Deciding : Desk!Badge(k)' \in 0..Desk!Cardinality(Rows)
  <2>1. Desk!Cardinality(Rows) \in Nat
    BY DeskRowsCounted
  <2>2. ui'.counts # None => ui'.counts \in [Desk!Deciding -> 0..Desk!Cardinality(Rows)]
    BY DEF Desk!Desks
  <2> QED
    BY <2>1, <2>2 DEF Desk!Badge
<1>3. Desk!TypeOK'
  BY <1>2 DEF Desk!TypeOK, Desk!Of, Desk!Badge
<1>4. Desk!OneAtATime'
  BY DEF Desk!OneAtATime, Desk!Ui
<1>5. Desk!LoadsAreTrue'
  BY DEF Desk!LoadsAreTrue, Desk!Ui, Desk!Of
<1>6. Desk!RowsAreTrue'
  <2>1. \A r : r \in Desk!Decided' <=>
          \E f \in ui'.flight : /\ ui'.ui.kind \notin Desk!InPlace /\ f.kind = "decide"
                               /\ f.got # None /\ f.row = r
    BY DEF Desk!Decided, Desk!Of, Desk!Ui
  <2>2. second'[ui'.ui.kind] \subseteq Rows
    BY <1>1
  <2>3. ~ui'.ui.late /\ ~ui'.ui.timer /\ ~ui'.ui.spinning /\ ui'.ui.rows # {}
          => ui'.ui.rows \ Desk!Decided' = second'[ui'.ui.kind]
    BY <1>1, <2>1, <2>2
  <2> QED
    BY <2>3 DEF Desk!RowsAreTrue, Desk!Ui
<1> QED
  BY <1>3, <1>4, <1>5, <1>6 DEF Desk!DeskInv

LEMMA DeskOpened ==
    ASSUME Desk!ConstantsOK, NEW kind \in Desk!Kinds
    PROVE  Desk!Opened(kind) \in Desk!Uis /\ Desk!Opened(kind).timer
<1>1. PICK view \in Views : view = CHOOSE v \in Views : TRUE
  BY DEF Desk!ConstantsOK
<1>2. Desk!Opened(kind) =
        [kind |-> kind, view |-> view, timer |-> TRUE, rows |-> {}, of |-> None,
         spinning |-> TRUE, busy |-> None, reasons |-> {}, late |-> FALSE]
  BY <1>1 DEF Desk!Opened
<1> QED
  BY <1>2 DEF Desk!Uis

LEMMA DeskInitInv == Desk!ConstantsOK /\ Desk!Init => Desk!DeskInv
<1> SUFFICES ASSUME Desk!ConstantsOK, Desk!Init
             PROVE  Desk!DeskInv
  OBVIOUS
<1>1. PICK k \in Desk!Kinds :
        ui = [ui |-> Desk!Opened(k), counts |-> None, counting |-> FALSE, flight |-> {}, sent |-> 0]
  BY DEF Desk!Init
<1> DEFINE opened == Desk!Opened(k)
<1>2. opened \in Desk!Uis /\ opened.timer
  BY DeskOpened
<1> HIDE DEF opened
<1>3. ui = [ui |-> opened, counts |-> None, counting |-> FALSE, flight |-> {}, sent |-> 0]
  BY <1>1 DEF opened
<1>4. ui \in Desk!Desks
  BY <1>2, <1>3 DEF Desk!Desks
<1>5. second \in [Desk!Kinds -> SUBSET Rows]
  BY DEF Desk!Init
<1>6. \A j \in Desk!Deciding : Desk!Badge(j) \in 0..Desk!Cardinality(Rows)
  BY <1>3, DeskRowsCounted DEF Desk!Badge
<1> QED
  BY <1>2, <1>3, <1>4, <1>5, <1>6 DEF Desk!DeskInv, Desk!TypeOK, Desk!Of, Desk!OneAtATime,
     Desk!LoadsAreTrue, Desk!RowsAreTrue, Desk!Ui

(* Another tab, and another search. *)
LEMMA DeskSwitches ==
    ASSUME Desk!ConstantsOK, Desk!DeskInv, NEW kind \in Desk!Kinds, Desk!SwitchTab(kind)
    PROVE  Desk!DeskInv'
<1> DEFINE opened == Desk!Opened(kind)
<1>1. ui \in Desk!Desks /\ second \in [Desk!Kinds -> SUBSET Rows]
  BY DeskFacts
<1>2. ui' = [ui EXCEPT !.ui = opened, !.flight = {}] /\ second' = second
  BY DEF Desk!SwitchTab, Desk!Desk
<1>3. opened \in Desk!Uis /\ opened.timer
  BY DeskOpened
<1> HIDE DEF opened
<1>4. ui' \in Desk!Desks /\ ui'.ui.timer /\ ui'.flight = {}
  BY <1>1, <1>2, <1>3 DEF Desk!Desks
<1> QED
  BY <1>1, <1>2, <1>4, DeskFrom

LEMMA DeskSearches ==
    ASSUME Desk!ConstantsOK, Desk!DeskInv, NEW v \in Views, Desk!Search(v)
    PROVE  Desk!DeskInv'
<1> DEFINE u == [ui.ui EXCEPT !.view = v, !.timer = TRUE]
           flight == IF ui.ui.kind = "stewardship" THEN ui.flight \ Desk!Of("load") ELSE ui.flight
<1>1. ui \in Desk!Desks /\ second \in [Desk!Kinds -> SUBSET Rows]
  BY DeskFacts
<1>2. ui' = [ui EXCEPT !.ui = u, !.flight = flight] /\ second' = second
  <2>1. ui' = [ui EXCEPT !.ui.view = v, !.ui.timer = TRUE,
                         !.flight = IF Desk!Ui.kind = "stewardship" THEN ui.flight \ Desk!Of("load")
                                    ELSE ui.flight] /\ second' = second
    BY DEF Desk!Search, Desk!Desk
  <2> QED
    BY <1>1, <2>1 DEF Desk!Ui, Desk!Desks
<1>3. ui.ui \in Desk!Uis
  BY <1>1 DEF Desk!Desks
<1>4. u \in Desk!Uis /\ u.timer /\ u.late = ui.ui.late
  BY <1>3 DEF Desk!Uis
<1>5. flight \subseteq ui.flight
  OBVIOUS
<1> HIDE DEF u, flight
<1>6. flight \in SUBSET Desk!Requests
  BY <1>1, <1>5 DEF Desk!Desks
<1>7. ui' \in Desk!Desks /\ ui'.ui = u /\ ui'.flight = flight
  BY <1>1, <1>2, <1>4, <1>6 DEF Desk!Desks
<1>8. ~ui'.ui.late => \A f, g \in ui'.flight : f = g
  BY <1>4, <1>5, <1>7, DeskFacts
<1>9. \A f \in ui'.flight : f.kind = "decide" => f.row # None
  BY <1>5, <1>7, DeskFacts
<1> QED
  BY <1>1, <1>2, <1>4, <1>7, <1>8, <1>9, DeskFrom

(* A load begins. *)
LEMMA DeskTimer ==
    ASSUME Desk!ConstantsOK, Desk!DeskInv, Desk!TimerFires
    PROVE  Desk!DeskInv'
<1> DEFINE busy == ui.flight # {}
           u == [ui.ui EXCEPT !.timer = FALSE, !.spinning = TRUE, !.late = busy]
           f == [id |-> ui.sent, kind |-> "load", row |-> None, keeps |-> FALSE, view |-> ui.ui.view,
                 got |-> None]
           flight == ui.flight \union {f}
           sent == ui.sent + 1
<1>1. ui \in Desk!Desks /\ second \in [Desk!Kinds -> SUBSET Rows]
  BY DeskFacts
<1>2. ui.ui \in Desk!Uis /\ ui.sent \in Nat /\ ui.flight \in SUBSET Desk!Requests
  BY <1>1 DEF Desk!Desks
<1>3. ui' = [ui EXCEPT !.ui = u, !.sent = sent, !.flight = flight] /\ second' = second
  <2>1. /\ ui' = Desk!Send([ui EXCEPT !.ui.timer = FALSE, !.ui.spinning = TRUE], Desk!LoadOf)
        /\ second' = second
    BY DEF Desk!TimerFires, Desk!Desk
  <2> QED
    BY <1>1, <1>2, <2>1 DEF Desk!Send, Desk!LoadOf, Desk!Ui, Desk!Desks, Desk!Uis
<1>4. busy \in BOOLEAN
  OBVIOUS
<1>5. f \in Desk!Requests /\ f.kind = "load" /\ f.view = ui.ui.view /\ f.got = None
  BY <1>2 DEF Desk!Requests, Desk!Uis
<1>6. sent \in Nat
  BY <1>2
<1> HIDE DEF f
<1>7. /\ flight \in SUBSET Desk!Requests
      /\ \A g \in flight : g = f \/ g \in ui.flight
      /\ ~busy => \A g \in flight : g = f
  BY <1>2, <1>5
<1> HIDE DEF busy
<1>8. u \in Desk!Uis /\ u.late = busy /\ u.spinning /\ u.view = ui.ui.view
  BY <1>2, <1>4 DEF Desk!Uis
<1> HIDE DEF u, flight, sent
<1>9. ui' \in Desk!Desks /\ ui'.ui = u /\ ui'.flight = flight
  BY <1>1, <1>3, <1>6, <1>7, <1>8 DEF Desk!Desks
<1>10. \A g \in ui'.flight : g.kind = "decide" => g.row # None
  BY <1>5, <1>7, <1>9, DeskFacts
<1>11. ~ui'.ui.late => \A g, h \in ui'.flight : g = h
  BY <1>7, <1>8, <1>9
<1>12. ~ui'.ui.late => \A g \in ui'.flight : g.view = ui'.ui.view /\ g.got = None
  BY <1>5, <1>7, <1>8, <1>9
<1> QED
  BY <1>1, <1>3, <1>8, <1>9, <1>10, <1>11, <1>12, DeskFrom

LEMMA DeskReads ==
    ASSUME Desk!ConstantsOK, Desk!DeskInv, Desk!LoadRead
    PROVE  Desk!DeskInv'
<1>1. /\ ui \in Desk!Desks /\ second \in [Desk!Kinds -> SUBSET Rows]
      /\ \A f \in ui.flight : f.kind = "decide" => f.row # None
      /\ ~ui.ui.late => \A f, g \in ui.flight : f = g
      /\ ~ui.ui.late /\ ~ui.ui.timer =>
            \A f \in ui.flight : f.kind = "load" =>
               f.view = ui.ui.view /\ (f.got # None => f.got = second[ui.ui.kind])
      /\ ~ui.ui.late /\ ~ui.ui.timer /\ ~ui.ui.spinning => ui.ui.of = ui.ui.view
  BY DeskFacts
<1>2. ~ui.ui.late /\ ~ui.ui.timer /\ ~ui.ui.spinning /\ ui.ui.rows # {} =>
         \A r \in Rows : r \in second[ui.ui.kind] <=>
            r \in ui.ui.rows /\ \A f \in ui.flight :
                       ui.ui.kind \notin Desk!InPlace /\ f.kind = "decide" /\ f.got # None => f.row # r
  BY DeskFacts
<1>3. ui.ui \in Desk!Uis /\ ui.flight \in SUBSET Desk!Requests
  BY <1>1 DEF Desk!Desks
<1>4. PICK f \in ui.flight :
        /\ f.kind = "load" /\ second' = second
        /\ ui' = [ui EXCEPT !.flight = (ui.flight \ {f}) \union {[f EXCEPT !.got = second[ui.ui.kind]]}]
  BY DEF Desk!LoadRead, Desk!Of, Desk!Desk, Desk!Ui
<1> DEFINE read == second[ui.ui.kind]
           g == [f EXCEPT !.got = read]
           flight == (ui.flight \ {f}) \union {g}
<1>5. read \in SUBSET Rows
  BY <1>1, <1>3 DEF Desk!Uis
<1>6. f \in Desk!Requests
  BY <1>3
<1> HIDE DEF read
<1>7. g \in Desk!Requests /\ g.kind = "load" /\ g.view = f.view /\ g.got = read
  BY <1>4, <1>5, <1>6 DEF Desk!Requests
<1>8. ui' = [ui EXCEPT !.flight = flight]
  BY <1>4 DEF read
<1> HIDE DEF g
<1>9. /\ flight \in SUBSET Desk!Requests
      /\ \A h \in flight : h = g \/ (h \in ui.flight /\ h # f)
      /\ \A h \in ui.flight : h = f \/ h \in flight
  BY <1>3, <1>7
<1> HIDE DEF flight
<1>10. ui' \in Desk!Desks /\ ui'.ui = ui.ui /\ ui'.flight = flight
  BY <1>1, <1>8, <1>9 DEF Desk!Desks
<1>11. \A h \in ui'.flight : h.kind = "decide" => h.row # None
  BY <1>1, <1>7, <1>9, <1>10
<1>12. ~ui'.ui.late => \A h, k \in ui'.flight : h = k
  BY <1>1, <1>9, <1>10
<1>13. ~ui'.ui.late /\ ~ui'.ui.timer =>
          \A h \in ui'.flight : h.kind = "load" =>
             h.view = ui'.ui.view /\ (h.got # None => h.got = second'[ui'.ui.kind])
  BY <1>1, <1>4, <1>7, <1>9, <1>10 DEF read
<1>14. ~ui'.ui.late /\ ~ui'.ui.timer /\ ~ui'.ui.spinning /\ ui'.ui.rows # {} =>
          \A r \in Rows : r \in second'[ui'.ui.kind] <=>
             r \in ui'.ui.rows /\ \A h \in ui'.flight :
                       ui'.ui.kind \notin Desk!InPlace /\ h.kind = "decide" /\ h.got # None => h.row # r
  BY <1>2, <1>4, <1>7, <1>9, <1>10
<1> QED
  BY <1>1, <1>4, <1>10, <1>11, <1>12, <1>13, <1>14, DeskFrom

LEMMA DeskLoads ==
    ASSUME Desk!ConstantsOK, Desk!DeskInv, Desk!LoadAnswered \/ Desk!LoadFailed
    PROVE  Desk!DeskInv'
<1>1. /\ ui \in Desk!Desks /\ second \in [Desk!Kinds -> SUBSET Rows]
      /\ \A f \in ui.flight : f.kind = "decide" => f.row # None
      /\ ~ui.ui.late => \A f, g \in ui.flight : f = g
      /\ ~ui.ui.late /\ ~ui.ui.timer =>
            \A f \in ui.flight : f.kind = "load" =>
               f.view = ui.ui.view /\ (f.got # None => f.got = second[ui.ui.kind])
  BY DeskFacts
<1>2. ui.ui \in Desk!Uis /\ ui.flight \in SUBSET Desk!Requests
  BY <1>1 DEF Desk!Desks
<1>3. PICK f \in ui.flight, rows \in SUBSET Rows :
        /\ f.kind = "load" /\ second' = second /\ (rows = {} \/ (f.got # None /\ rows = f.got))
        /\ ui' = [ui EXCEPT !.flight = ui.flight \ {f}, !.ui.rows = rows, !.ui.of = f.view,
                   !.ui.spinning = FALSE, !.ui.busy = IF f.row = None THEN ui.ui.busy ELSE None]
  <2>1. CASE Desk!LoadAnswered
    <3>1. PICK f \in ui.flight :
            /\ f.kind = "load" /\ second' = second /\ f.got # None
            /\ ui' = [ui EXCEPT !.flight = ui.flight \ {f}, !.ui.rows = f.got, !.ui.of = f.view,
                   !.ui.spinning = FALSE, !.ui.busy = IF f.row = None THEN ui.ui.busy ELSE None]
      BY <1>1, <2>1 DEF Desk!LoadAnswered, Desk!Of, Desk!Desk, Desk!Desks, Desk!Uis
    <3>2. f.got \in SUBSET Rows
      BY <1>2, <3>1 DEF Desk!Requests
    <3> QED
      BY <3>1, <3>2
  <2>2. CASE Desk!LoadFailed
    <3>1. PICK f \in ui.flight :
            /\ f.kind = "load" /\ second' = second
            /\ ui' = [ui EXCEPT !.flight = ui.flight \ {f}, !.ui.rows = {}, !.ui.of = f.view,
                   !.ui.spinning = FALSE, !.ui.busy = IF f.row = None THEN ui.ui.busy ELSE None]
      BY <1>1, <2>2 DEF Desk!LoadFailed, Desk!Of, Desk!Desk, Desk!Desks, Desk!Uis
    <3> QED
      BY <3>1
  <2> QED
    BY <2>1, <2>2
<1> DEFINE busy == IF f.row = None THEN ui.ui.busy ELSE None
           u == [ui.ui EXCEPT !.rows = rows, !.of = f.view, !.spinning = FALSE, !.busy = busy]
           flight == ui.flight \ {f}
<1>4. ui' = [ui EXCEPT !.ui = u, !.flight = flight]
  BY <1>1, <1>2, <1>3 DEF Desk!Desks, Desk!Uis
<1>5. busy \in Rows \union {None} /\ f.view \in Views
  BY <1>2 DEF Desk!Uis, Desk!Requests
<1> HIDE DEF busy
<1>6. /\ u \in Desk!Uis /\ u.late = ui.ui.late /\ u.timer = ui.ui.timer /\ u.rows = rows
      /\ u.of = f.view /\ u.view = ui.ui.view /\ u.kind = ui.ui.kind
  BY <1>2, <1>3, <1>5 DEF Desk!Uis
<1>7. flight \in SUBSET Desk!Requests /\ flight \subseteq ui.flight /\ f \notin flight
  BY <1>2
<1> HIDE DEF u, flight
<1>8. ui' \in Desk!Desks /\ ui'.ui = u /\ ui'.flight = flight
  BY <1>1, <1>4, <1>6, <1>7 DEF Desk!Desks
<1>9. ~ui'.ui.late => ui'.flight = {}
  BY <1>1, <1>6, <1>7, <1>8
<1>10. ~ui'.ui.late /\ ~ui'.ui.timer => ui'.ui.of = ui'.ui.view
  BY <1>1, <1>3, <1>6, <1>8
<1>11. ~ui'.ui.late /\ ~ui'.ui.timer /\ ui'.ui.rows # {} => ui'.ui.rows = second'[ui'.ui.kind]
  BY <1>1, <1>3, <1>6, <1>8
<1>12. \A g \in ui'.flight : g.kind = "decide" => g.row # None
  BY <1>1, <1>7, <1>8
<1> QED
  BY <1>1, <1>3, <1>8, <1>9, <1>10, <1>11, <1>12, DeskFrom

(* What is written or counted changes no list. *)
LEMMA DeskQuiet ==
    ASSUME Desk!ConstantsOK, Desk!DeskInv,
           \/ \E r \in Rows : Desk!WriteReason(r)
           \/ Desk!Count \/ Desk!CountAnswered \/ UNCHANGED <<ui, second>>
    PROVE  Desk!DeskInv'
<1>1. ui \in Desk!Desks /\ second \in [Desk!Kinds -> SUBSET Rows]
  BY DeskFacts
<1>2. ASSUME ui' \in Desk!Desks, ui'.flight = ui.flight, second' = second,
             ui'.ui.kind = ui.ui.kind, ui'.ui.view = ui.ui.view, ui'.ui.timer = ui.ui.timer,
             ui'.ui.rows = ui.ui.rows, ui'.ui.of = ui.ui.of, ui'.ui.spinning = ui.ui.spinning,
             ui'.ui.late = ui.ui.late
      PROVE  Desk!DeskInv'
  BY <1>1, <1>2, DeskFacts, DeskFrom
<1>3. ASSUME NEW r \in Rows, Desk!WriteReason(r) PROVE Desk!DeskInv'
  <2> DEFINE reasons == ui.ui.reasons \union {r}
             u == [ui.ui EXCEPT !.reasons = reasons]
  <2>1. ui.ui \in Desk!Uis
    BY <1>1 DEF Desk!Desks
  <2>2. ui' = [ui EXCEPT !.ui = u] /\ second' = second
    BY <1>1, <1>3, <2>1 DEF Desk!WriteReason, Desk!Desk, Desk!Desks, Desk!Uis
  <2>3. reasons \in SUBSET Rows
    BY <2>1 DEF Desk!Uis
  <2> HIDE DEF reasons
  <2>4. /\ u \in Desk!Uis /\ u.kind = ui.ui.kind /\ u.view = ui.ui.view /\ u.timer = ui.ui.timer
        /\ u.rows = ui.ui.rows /\ u.of = ui.ui.of /\ u.spinning = ui.ui.spinning
        /\ u.late = ui.ui.late
    BY <2>1, <2>3 DEF Desk!Uis
  <2> HIDE DEF u
  <2>5. ui' \in Desk!Desks /\ ui'.ui = u /\ ui'.flight = ui.flight
    BY <1>1, <2>2, <2>4 DEF Desk!Desks
  <2> QED
    BY <1>2, <2>2, <2>4, <2>5
<1>4. CASE Desk!Count
  <2> DEFINE sent == ui.sent + 1
  <2>1. ui' = [ui EXCEPT !.counting = TRUE, !.sent = sent] /\ second' = second
    BY <1>4 DEF Desk!Count, Desk!Desk
  <2>2. sent \in Nat
    BY <1>1 DEF Desk!Desks
  <2> HIDE DEF sent
  <2>3. ui' \in Desk!Desks /\ ui'.ui = ui.ui /\ ui'.flight = ui.flight
    BY <1>1, <2>1, <2>2 DEF Desk!Desks
  <2> QED
    BY <1>2, <2>1, <2>3
<1>5. CASE Desk!CountAnswered
  <2>1. PICK counts \in [Desk!Deciding -> 0..Desk!Cardinality(Rows)] :
          ui' = [ui EXCEPT !.counting = FALSE, !.counts = counts] /\ second' = second
    <3>1. Desk!Cardinality(Rows) \in Nat
      BY DeskRowsCounted
    <3>2. \A k \in Desk!Deciding : Desk!Cardinality(second[k]) \in 0..Desk!Cardinality(Rows)
      <4> SUFFICES ASSUME NEW k \in Desk!Deciding
                   PROVE  Desk!Cardinality(second[k]) \in 0..Desk!Cardinality(Rows)
        OBVIOUS
      <4>1. second[k] \subseteq Rows
        BY <1>1 DEF Desk!Kinds
      <4>2. IsFiniteSet(Rows)
        BY DeskCounts DEF Desk!ConstantsOK
      <4>3. /\ Cardinality(second[k]) <= Cardinality(Rows)
            /\ Cardinality(second[k]) \in Nat
        BY <4>1, <4>2, FS_Subset, FS_CardinalityType
      <4> QED
        BY <3>1, <4>3, DeskCounts
    <3>3. \/ ui' = [ui EXCEPT !.counting = FALSE,
                     !.counts = [k \in Desk!Deciding |-> Desk!Cardinality(second[k])]]
          \/ ui' = [ui EXCEPT !.counting = FALSE, !.counts = [k \in Desk!Deciding |-> 0]]
      BY <1>5 DEF Desk!CountAnswered, Desk!Desk
    <3>4. second' = second
      BY <1>5 DEF Desk!CountAnswered, Desk!Desk
    <3>5. [k \in Desk!Deciding |-> Desk!Cardinality(second[k])] \in [Desk!Deciding -> 0..Desk!Cardinality(Rows)]
      BY <3>2
    <3>6. [k \in Desk!Deciding |-> 0] \in [Desk!Deciding -> 0..Desk!Cardinality(Rows)]
      BY <3>1
    <3> QED
      BY <3>3, <3>4, <3>5, <3>6
  <2>2. ui' \in Desk!Desks /\ ui'.ui = ui.ui /\ ui'.flight = ui.flight
    BY <1>1, <2>1 DEF Desk!Desks
  <2> QED
    BY <1>2, <2>1, <2>2
<1>6. CASE UNCHANGED <<ui, second>>
  BY <1>1, <1>2, <1>6
<1> QED
  BY <1>3, <1>4, <1>5, <1>6

(* A row is decided. *)
LEMMA DeskActs ==
    ASSUME Desk!ConstantsOK, Desk!DeskInv, NEW r \in Rows, NEW kind \in {"decide", "save"},
           NEW keeps \in BOOLEAN, Desk!Act(kind, r, keeps)
    PROVE  Desk!DeskInv'
<1>1. /\ ui \in Desk!Desks /\ second \in [Desk!Kinds -> SUBSET Rows]
      /\ \A f \in ui.flight : f.kind = "decide" => f.row # None
      /\ ~ui.ui.late => \A f, g \in ui.flight : f = g
      /\ ~ui.ui.late /\ ~ui.ui.timer =>
            \A f \in ui.flight : f.kind = "load" =>
               f.view = ui.ui.view /\ (f.got # None => f.got = second[ui.ui.kind])
      /\ ~ui.ui.late /\ ~ui.ui.timer /\ ~ui.ui.spinning => ui.ui.of = ui.ui.view
  BY DeskFacts
<1>2. ~ui.ui.late /\ ~ui.ui.timer /\ ~ui.ui.spinning /\ ui.ui.rows # {} =>
         \A w \in Rows : w \in second[ui.ui.kind] <=>
            w \in ui.ui.rows /\ \A f \in ui.flight :
                       ui.ui.kind \notin Desk!InPlace /\ f.kind = "decide" /\ f.got # None => f.row # w
  BY DeskFacts
<1>3. ui.ui \in Desk!Uis /\ ui.flight \in SUBSET Desk!Requests /\ ui.sent \in Nat
  BY <1>1 DEF Desk!Desks
<1> DEFINE late == ui.flight # {} \/ ui.ui.late
           u == [ui.ui EXCEPT !.busy = r, !.late = late]
           f == [id |-> ui.sent, kind |-> kind, row |-> r, keeps |-> keeps, view |-> ui.ui.view,
                 got |-> None]
           flight == ui.flight \union {f}
           sent == ui.sent + 1
<1>4. ui' = [ui EXCEPT !.ui = u, !.sent = sent, !.flight = flight] /\ second' = second
  <2>1. /\ ui' = Desk!Send([ui EXCEPT !.ui.busy = r], [kind |-> kind, row |-> r, keeps |-> keeps])
        /\ second' = second
    BY DEF Desk!Act, Desk!Desk
  <2> QED
    BY <1>1, <1>3, <2>1 DEF Desk!Send, Desk!Ui, Desk!Desks, Desk!Uis
<1>5. late \in BOOLEAN /\ (~late => ~ui.ui.late /\ ui.flight = {})
  BY <1>3 DEF Desk!Uis
<1>6. f \in Desk!Requests /\ f.kind # "load" /\ f.row = r /\ f.got = None
  BY <1>3 DEF Desk!Requests, Desk!Uis
<1>7. sent \in Nat /\ r # None
  BY <1>3 DEF Desk!ConstantsOK
<1> HIDE DEF f, late
<1>8. /\ flight \in SUBSET Desk!Requests
      /\ \A g \in flight : g = f \/ g \in ui.flight
      /\ ui.flight \subseteq flight
  BY <1>3, <1>6
<1>9. /\ u \in Desk!Uis /\ u.late = late /\ u.timer = ui.ui.timer /\ u.spinning = ui.ui.spinning
      /\ u.view = ui.ui.view /\ u.of = ui.ui.of /\ u.rows = ui.ui.rows /\ u.kind = ui.ui.kind
  BY <1>3, <1>5 DEF Desk!Uis
<1> HIDE DEF u, flight, sent
<1>10. ui' \in Desk!Desks /\ ui'.ui = u /\ ui'.flight = flight
  BY <1>1, <1>4, <1>7, <1>8, <1>9 DEF Desk!Desks
<1>11. \A g \in ui'.flight : g.kind = "decide" => g.row # None
  BY <1>1, <1>6, <1>7, <1>8, <1>10
<1>12. ~ui'.ui.late => /\ \A g \in ui'.flight : g = f
                       /\ ui.flight = {} /\ ~ui.ui.late
  BY <1>5, <1>8, <1>9, <1>10
<1>13. ~ui'.ui.late /\ ~ui'.ui.timer /\ ~ui'.ui.spinning /\ ui'.ui.rows # {} =>
          \A q \in Rows : q \in second'[ui'.ui.kind] <=>
             q \in ui'.ui.rows /\ \A h \in ui'.flight :
                       ui'.ui.kind \notin Desk!InPlace /\ h.kind = "decide" /\ h.got # None => h.row # q
  BY <1>2, <1>4, <1>6, <1>9, <1>10, <1>12
<1>14. ~ui'.ui.late => \A g, h \in ui'.flight : g = h
  BY <1>12
<1>15. ~ui'.ui.late => \A g \in ui'.flight : g.kind # "load"
  BY <1>6, <1>12
<1>16. ~ui'.ui.late /\ ~ui'.ui.timer /\ ~ui'.ui.spinning => ui'.ui.of = ui'.ui.view
  BY <1>1, <1>9, <1>10, <1>12
<1> QED
  BY <1>1, <1>4, <1>10, <1>11, <1>13, <1>14, <1>15, <1>16, DeskFrom

LEMMA DeskServer ==
    ASSUME Desk!ConstantsOK, Desk!DeskInv, Desk!ServerDecides
    PROVE  Desk!DeskInv'
<1>1. /\ ui \in Desk!Desks /\ second \in [Desk!Kinds -> SUBSET Rows]
      /\ \A f \in ui.flight : f.kind = "decide" => f.row # None
      /\ ~ui.ui.late => \A f, g \in ui.flight : f = g
      /\ ~ui.ui.late /\ ~ui.ui.timer =>
            \A f \in ui.flight : f.kind = "load" =>
               f.view = ui.ui.view /\ (f.got # None => f.got = second[ui.ui.kind])
      /\ ~ui.ui.late /\ ~ui.ui.timer /\ ~ui.ui.spinning => ui.ui.of = ui.ui.view
  BY DeskFacts
<1>2. ~ui.ui.late /\ ~ui.ui.timer /\ ~ui.ui.spinning /\ ui.ui.rows # {} =>
         \A r \in Rows : r \in second[ui.ui.kind] <=>
            r \in ui.ui.rows /\ \A f \in ui.flight :
                       ui.ui.kind \notin Desk!InPlace /\ f.kind = "decide" /\ f.got # None => f.row # r
  BY DeskFacts
<1>3. ui.ui \in Desk!Uis /\ ui.flight \in SUBSET Desk!Requests /\ ui.sent \in Nat
  BY <1>1 DEF Desk!Desks
<1>4. PICK f \in ui.flight :
        /\ f.kind = "decide" /\ f.got = None
        /\ ui' = [ui EXCEPT !.flight = (ui.flight \ {f}) \union {[f EXCEPT !.got = {f.row}]}]
        /\ second' = IF ui.ui.kind \in Desk!InPlace THEN second
                      ELSE [second EXCEPT ![ui.ui.kind] = second[ui.ui.kind] \ {f.row}]
  BY DEF Desk!ServerDecides, Desk!Of, Desk!Ui
<1> DEFINE g == [f EXCEPT !.got = {f.row}]
           flight == (ui.flight \ {f}) \union {g}
<1>5. f \in Desk!Requests /\ f.row \in Rows /\ {f.row} # None
  BY <1>1, <1>3, <1>4 DEF Desk!Requests, Desk!ConstantsOK
<1>6. g \in Desk!Requests /\ g.kind = "decide" /\ g.row = f.row /\ g.got # None
  BY <1>4, <1>5 DEF Desk!Requests
<1>7. ui' = [ui EXCEPT !.flight = flight]
  BY <1>4
<1> HIDE DEF g
<1>8. /\ flight \in SUBSET Desk!Requests /\ g \in flight
      /\ \A h \in flight : h = g \/ (h \in ui.flight /\ h # f)
      /\ \A h \in ui.flight : h = f \/ h \in flight
  BY <1>3, <1>6
<1> HIDE DEF flight
<1>9. ui' \in Desk!Desks /\ ui'.ui = ui.ui /\ ui'.flight = flight
  BY <1>1, <1>7, <1>8 DEF Desk!Desks
<1>10. ui.ui.kind \in Desk!Kinds
  BY <1>3 DEF Desk!Uis
<1>11. /\ second' \in [Desk!Kinds -> SUBSET Rows]
       /\ ui.ui.kind \in Desk!InPlace => second' = second
       /\ ui.ui.kind \notin Desk!InPlace => second'[ui.ui.kind] = second[ui.ui.kind] \ {f.row}
  BY <1>1, <1>4, <1>10
<1>12. \A h \in ui'.flight : h.kind = "decide" => h.row # None
  BY <1>1, <1>4, <1>6, <1>8, <1>9
<1>13. ~ui'.ui.late => \A h \in ui'.flight : h = g
  BY <1>1, <1>8, <1>9
<1>14. ~ui'.ui.late => \A h, k \in ui'.flight : h = k
  BY <1>13
<1>15. ~ui'.ui.late => \A h \in ui'.flight : h.kind # "load"
  BY <1>6, <1>13
<1>16. ~ui'.ui.late /\ ~ui'.ui.timer /\ ~ui'.ui.spinning /\ ui'.ui.rows # {} =>
          \A q \in Rows : q \in second'[ui'.ui.kind] <=>
             q \in ui'.ui.rows /\ \A h \in ui'.flight :
                       ui'.ui.kind \notin Desk!InPlace /\ h.kind = "decide" /\ h.got # None => h.row # q
  BY <1>2, <1>4, <1>6, <1>8, <1>9, <1>11
<1> QED
  BY <1>1, <1>9, <1>11, <1>12, <1>14, <1>15, <1>16, DeskFrom

(* The list is loaded again for the text and page of the decision. *)
LEMMA DeskReloads ==
    ASSUME Desk!ConstantsOK, Desk!DeskInv, NEW f \in ui.flight, Desk!Reload(f)
    PROVE  Desk!DeskInv'
<1>1. /\ ui \in Desk!Desks /\ second \in [Desk!Kinds -> SUBSET Rows]
      /\ \A p \in ui.flight : p.kind = "decide" => p.row # None
      /\ ~ui.ui.late => \A p, g \in ui.flight : p = g
      /\ ~ui.ui.late /\ ~ui.ui.timer =>
            \A p \in ui.flight : p.kind = "load" =>
               p.view = ui.ui.view /\ (p.got # None => p.got = second[ui.ui.kind])
      /\ ~ui.ui.late /\ ~ui.ui.timer /\ ~ui.ui.spinning => ui.ui.of = ui.ui.view
  BY DeskFacts
<1>2. ~ui.ui.late /\ ~ui.ui.timer /\ ~ui.ui.spinning /\ ui.ui.rows # {} =>
         \A r \in Rows : r \in second[ui.ui.kind] <=>
            r \in ui.ui.rows /\ \A p \in ui.flight :
                       ui.ui.kind \notin Desk!InPlace /\ p.kind = "decide" /\ p.got # None => p.row # r
  BY DeskFacts
<1>3. ui.ui \in Desk!Uis /\ ui.flight \in SUBSET Desk!Requests /\ ui.sent \in Nat
  BY <1>1 DEF Desk!Desks
<1> DEFINE reasons == ui.ui.reasons \ Desk!Rewritten(f)
           late == ui.ui.late \/ ui.flight # {f} \/ ui.ui.timer \/ f.view # ui.ui.view
           u == [ui.ui EXCEPT !.spinning = TRUE, !.reasons = reasons, !.late = late]
           g == [id |-> ui.sent, kind |-> "load", row |-> f.row, keeps |-> FALSE, view |-> f.view,
                 got |-> None]
           flight == (ui.flight \ {f}) \union {g}
           sent == ui.sent + 1
<1>4. ui' = [ui EXCEPT !.ui = u, !.sent = sent, !.flight = flight] /\ second' = second
  BY <1>1, <1>3 DEF Desk!Reload, Desk!Desk, Desk!Ui, Desk!Desks, Desk!Uis
<1>5. late \in BOOLEAN /\ (~late => ui.flight = {f} /\ f.view = ui.ui.view)
  BY <1>3 DEF Desk!Uis
<1>6. f \in Desk!Requests
  BY <1>3
<1>7. g \in Desk!Requests /\ g.kind = "load" /\ g.view = f.view /\ g.got = None
  BY <1>3, <1>6 DEF Desk!Requests
<1>8. sent \in Nat /\ reasons \in SUBSET Rows
  BY <1>3 DEF Desk!Uis
<1> HIDE DEF g, late, reasons
<1>9. /\ flight \in SUBSET Desk!Requests
      /\ \A h \in flight : h = g \/ (h \in ui.flight /\ h # f)
  BY <1>3, <1>7
<1>10. /\ u \in Desk!Uis /\ u.late = late /\ u.spinning /\ u.view = ui.ui.view
  BY <1>3, <1>5, <1>8 DEF Desk!Uis
<1> HIDE DEF u, flight, sent
<1>11. ui' \in Desk!Desks /\ ui'.ui = u /\ ui'.flight = flight
  BY <1>1, <1>4, <1>8, <1>9, <1>10 DEF Desk!Desks
<1>12. \A h \in ui'.flight : h.kind = "decide" => h.row # None
  BY <1>1, <1>7, <1>9, <1>11
<1>13. ~ui'.ui.late => \A h \in ui'.flight : h = g
  BY <1>5, <1>9, <1>10, <1>11
<1>14. ~ui'.ui.late => \A h, k \in ui'.flight : h = k
  BY <1>13
<1>15. ~ui'.ui.late => \A h \in ui'.flight : h.view = ui'.ui.view /\ h.got = None
  BY <1>5, <1>7, <1>10, <1>11, <1>13
<1> QED
  BY <1>1, <1>4, <1>10, <1>11, <1>12, <1>14, <1>15, DeskFrom

(* A request ends and the list is not loaded again. *)
LEMMA DeskEnds ==
    ASSUME Desk!ConstantsOK, Desk!DeskInv, NEW f \in ui.flight,
           \/ /\ Desk!UpdateRow(f)
              /\ f.kind = "save" \/ (f.kind = "decide" /\ ui.ui.kind \in Desk!InPlace)
           \/ /\ f.kind = "decide"
              /\ Desk!Desk([ui EXCEPT !.flight = @ \ {f}, !.ui.busy = None,
                               !.ui.late = @ \/ f.got # None \/ ui.flight # {f}])
    PROVE  Desk!DeskInv'
<1>1. /\ ui \in Desk!Desks /\ second \in [Desk!Kinds -> SUBSET Rows]
      /\ \A p \in ui.flight : p.kind = "decide" => p.row # None
      /\ ~ui.ui.late => \A p, g \in ui.flight : p = g
      /\ ~ui.ui.late /\ ~ui.ui.timer /\ ~ui.ui.spinning => ui.ui.of = ui.ui.view
  BY DeskFacts
<1>2. ~ui.ui.late /\ ~ui.ui.timer /\ ~ui.ui.spinning /\ ui.ui.rows # {} =>
         \A r \in Rows : r \in second[ui.ui.kind] <=>
            r \in ui.ui.rows /\ \A p \in ui.flight :
               ui.ui.kind \notin Desk!InPlace /\ p.kind = "decide" /\ p.got # None => p.row # r
  BY DeskFacts
<1>3. ui.ui \in Desk!Uis /\ ui.flight \in SUBSET Desk!Requests /\ ui.sent \in Nat
  BY <1>1 DEF Desk!Desks
<1> DEFINE flight == ui.flight \ {f}
<1>4. PICK reasons \in SUBSET Rows, late \in BOOLEAN :
        /\ ui' = [ui EXCEPT !.flight = flight,
                    !.ui = [ui.ui EXCEPT !.busy = None, !.reasons = reasons, !.late = late]]
        /\ second' = second
        /\ ~late => /\ ~ui.ui.late /\ ui.flight = {f}
                    /\ ui.ui.kind \notin Desk!InPlace => f.kind # "decide" \/ f.got = None
  <2>1. CASE /\ Desk!UpdateRow(f)
             /\ f.kind = "save" \/ (f.kind = "decide" /\ ui.ui.kind \in Desk!InPlace)
    <3> DEFINE reasons == ui.ui.reasons \ Desk!Rewritten(f)
               late == ui.ui.late \/ ui.flight # {f}
    <3>1. /\ ui' = [ui EXCEPT !.flight = flight,
                    !.ui = [ui.ui EXCEPT !.busy = None, !.reasons = reasons, !.late = late]]
          /\ second' = second
      BY <1>1, <1>3, <2>1 DEF Desk!UpdateRow, Desk!Desk, Desk!Desks, Desk!Uis
    <3>2. reasons \in SUBSET Rows /\ late \in BOOLEAN
      BY <1>3 DEF Desk!Uis
    <3>3. ~late => /\ ~ui.ui.late /\ ui.flight = {f}
                   /\ ui.ui.kind \notin Desk!InPlace => f.kind # "decide" \/ f.got = None
      BY <2>1
    <3> HIDE DEF reasons, late, flight
    <3> QED
      BY <3>1, <3>2, <3>3
  <2>2. CASE Desk!Desk([ui EXCEPT !.flight = @ \ {f}, !.ui.busy = None,
                          !.ui.late = @ \/ f.got # None \/ ui.flight # {f}])
    <3> DEFINE reasons == ui.ui.reasons
               late == ui.ui.late \/ f.got # None \/ ui.flight # {f}
    <3>1. /\ ui' = [ui EXCEPT !.flight = flight,
                    !.ui = [ui.ui EXCEPT !.busy = None, !.reasons = reasons, !.late = late]]
          /\ second' = second
      <4>1. /\ ui' = [ui EXCEPT !.flight = flight, !.ui = [ui.ui EXCEPT !.busy = None, !.late = late]]
            /\ second' = second
        BY <1>1, <1>3, <2>2 DEF Desk!Desk, Desk!Desks, Desk!Uis
      <4>2. late \in BOOLEAN
        BY <1>3 DEF Desk!Uis
      <4> HIDE DEF late, flight
      <4>3. [ui.ui EXCEPT !.busy = None, !.late = late] =
              [ui.ui EXCEPT !.busy = None, !.reasons = reasons, !.late = late]
        BY <1>3, <4>2 DEF Desk!Uis
      <4> QED
        BY <4>1, <4>3
    <3>2. reasons \in SUBSET Rows /\ late \in BOOLEAN
      BY <1>3 DEF Desk!Uis
    <3>3. ~late => /\ ~ui.ui.late /\ ui.flight = {f}
                   /\ ui.ui.kind \notin Desk!InPlace => f.kind # "decide" \/ f.got = None
      OBVIOUS
    <3> HIDE DEF reasons, late, flight
    <3> QED
      BY <3>1, <3>2, <3>3
  <2> QED
    BY <2>1, <2>2
<1> DEFINE u == [ui.ui EXCEPT !.busy = None, !.reasons = reasons, !.late = late]
<1>5. /\ u \in Desk!Uis /\ u.late = late /\ u.timer = ui.ui.timer /\ u.spinning = ui.ui.spinning
      /\ u.view = ui.ui.view /\ u.of = ui.ui.of /\ u.rows = ui.ui.rows /\ u.kind = ui.ui.kind
  BY <1>3 DEF Desk!Uis
<1>6. ui' = [ui EXCEPT !.flight = flight, !.ui = u]
  BY <1>4
<1>7. flight \in SUBSET Desk!Requests /\ flight \subseteq ui.flight
      /\ (ui.flight = {f} => flight = {})
  BY <1>3
<1> HIDE DEF u, flight
<1>8. ui' \in Desk!Desks /\ ui'.ui = u /\ ui'.flight = flight
  BY <1>1, <1>5, <1>6, <1>7 DEF Desk!Desks
<1>9. ~ui'.ui.late => ui'.flight = {} /\ ~ui.ui.late /\ ui.flight = {f}
  BY <1>4, <1>5, <1>7, <1>8
<1>10. ~ui'.ui.late /\ ~ui'.ui.timer /\ ~ui'.ui.spinning /\ ui'.ui.rows # {} =>
          \A q \in Rows : q \in second'[ui'.ui.kind] <=>
             q \in ui'.ui.rows /\ \A h \in ui'.flight :
                ui'.ui.kind \notin Desk!InPlace /\ h.kind = "decide" /\ h.got # None => h.row # q
  <2> SUFFICES ASSUME ~ui'.ui.late, ~ui'.ui.timer, ~ui'.ui.spinning, ui'.ui.rows # {}, NEW q \in Rows
               PROVE  q \in second[ui.ui.kind] <=> q \in ui.ui.rows
    BY <1>4, <1>5, <1>8, <1>9
  <2>1. ~ui.ui.late /\ ~ui.ui.timer /\ ~ui.ui.spinning /\ ui.ui.rows # {} /\ ui.flight = {f}
    BY <1>5, <1>8, <1>9
  <2>2. ui.ui.kind \notin Desk!InPlace => f.kind # "decide" \/ f.got = None
    BY <1>4, <1>5, <1>8
  <2> QED
    BY <1>2, <2>1, <2>2
<1>11. ~ui'.ui.late /\ ~ui'.ui.timer /\ ~ui'.ui.spinning => ui'.ui.of = ui'.ui.view
  BY <1>1, <1>5, <1>8, <1>9
<1>12. \A h \in ui'.flight : h.kind = "decide" => h.row # None
  BY <1>1, <1>7, <1>8
<1> QED
  BY <1>1, <1>4, <1>8, <1>9, <1>10, <1>11, <1>12, DeskFrom

(* Every step of the review page keeps its invariant. *)
LEMMA DeskNextInv ==
    ASSUME Desk!ConstantsOK, Desk!DeskInv, [Desk!Next]_<<ui, second>>
    PROVE  Desk!DeskInv'
<1>1. CASE \/ \E r \in Rows : Desk!WriteReason(r)
           \/ Desk!Count \/ Desk!CountAnswered \/ UNCHANGED <<ui, second>>
  BY <1>1, DeskQuiet
<1>2. ASSUME NEW k \in Desk!Kinds, Desk!SwitchTab(k) \/ Desk!Shortcut(k) PROVE Desk!DeskInv'
  BY <1>2, DeskSwitches DEF Desk!Shortcut
<1>3. ASSUME NEW v \in Views, Desk!Search(v) PROVE Desk!DeskInv'
  BY <1>3, DeskSearches
<1>4. CASE Desk!TimerFires \/ Desk!LoadRead \/ Desk!LoadAnswered \/ Desk!LoadFailed
  BY <1>4, DeskTimer, DeskReads, DeskLoads
<1>5. ASSUME NEW r \in Rows,
             \/ Desk!SaveMarketTags(r) \/ Desk!DecideAmendment(r) \/ Desk!Reassign(r) \/ Desk!SetTagActive(r)
             \/ \E status \in {"approved", "rejected"} :
                   Desk!DecideMarket(r, status) \/ Desk!DecideAnswer(r, status)
      PROVE  Desk!DeskInv'
  <2>1. \E kind \in {"decide", "save"}, keeps \in BOOLEAN : Desk!Act(kind, r, keeps)
    BY <1>5 DEF Desk!SaveMarketTags, Desk!DecideAmendment, Desk!Reassign, Desk!SetTagActive, Desk!DecideMarket,
       Desk!DecideAnswer
  <2> QED
    BY <2>1, DeskActs
<1>6. CASE Desk!ServerDecides
  BY <1>6, DeskServer
<1>7. CASE Desk!DecideAnswered
  <2>1. ui.ui.kind \in Desk!Deciding \/ ui.ui.kind \in Desk!InPlace
    BY DeskFacts DEF Desk!Desks, Desk!Uis, Desk!Kinds
  <2>2. PICK f \in ui.flight :
          /\ f.kind = "decide"
          /\ Desk!Reload(f) \/ (Desk!UpdateRow(f) /\ ui.ui.kind \in Desk!InPlace)
    BY <1>7, <2>1 DEF Desk!DecideAnswered, Desk!Of, Desk!Ui
  <2> QED
    BY <2>2, DeskReloads, DeskEnds
<1>8. CASE Desk!DecideFailed
  <2>1. PICK f \in ui.flight : /\ f.kind = "decide"
                               /\ Desk!Desk([ui EXCEPT !.flight = @ \ {f}, !.ui.busy = None,
                                       !.ui.late = @ \/ f.got # None \/ ui.flight # {f}])
    BY <1>8 DEF Desk!DecideFailed, Desk!Of
  <2> QED
    BY <2>1, DeskEnds
<1>9. CASE Desk!SaveAnswered
  BY <1>9, DeskEnds DEF Desk!SaveAnswered, Desk!Of
<1> QED
  BY <1>1, <1>2, <1>3, <1>4, <1>5, <1>6, <1>7, <1>8, <1>9 DEF Desk!Next

LEMMA DeskInvShows == Desk!DeskInv => Desk!TypeOK /\ Desk!DeskListIsCurrent
<1> SUFFICES ASSUME Desk!DeskInv, ui.flight = {}, ~ui.ui.timer, ~ui.ui.spinning, ~ui.ui.late
             PROVE  ui.ui.of = ui.ui.view /\ (ui.ui.rows # {} => ui.ui.rows = second[ui.ui.kind])
  BY DEF Desk!DeskInv, Desk!DeskListIsCurrent, Desk!Ui
<1>1. Desk!Decided = {}
  BY DEF Desk!Decided, Desk!Of
<1> QED
  BY <1>1 DEF Desk!DeskInv, Desk!RowsAreTrue, Desk!Ui
-----------------------------------------------------------------------------
(* The editor of the discovery pages. *)
(* What the invariant says, field by field. *)
LEMMA DiscoveryFacts ==
    ASSUME Discovery!DiscoveryInv
    PROVE  /\ ui \in Discovery!Editors /\ second \in [Discovery!Slugs -> Discovery!Slots]
           /\ \A s \in Discovery!Slugs : second[s].version >= 1
           /\ ui.loadingTopic => ui.topic # None
           /\ ui.tags = "asked" => ui.topic = None
           /\ ui.tab = "topicPins" => ui.mode = "top"
           /\ ~ui.mixed =>
                /\ \A s \in Discovery!Slugs : second[s].of = s
                /\ ~ui.loading => ui.top.of = "markets"
                /\ ui.topic # None /\ ~ui.loadingTopic => ui.secondary.of = ui.topic
                /\ \A s \in ui.saves :
                      /\ s.mode = "top" => s.slug = "markets"
                      /\ s.mode # "top" => s.slug = ui.topic
                      /\ s.kind = "layout" /\ ~s.got => s.body.of = s.slug
<1>1. /\ ui \in Discovery!Editors /\ second \in [Discovery!Slugs -> Discovery!Slots]
      /\ \A s \in Discovery!Slugs : second[s].version >= 1
      /\ ui.loadingTopic => ui.topic # None
      /\ ui.tags = "asked" => ui.topic = None
  BY DEF Discovery!DiscoveryInv, Discovery!TypeOK
<1>2. ui.tab = "topicPins" => ui.mode = "top"
  BY DEF Discovery!DiscoveryInv, Discovery!TypeOK, Discovery!EditorTabs
<1>3. ~ui.mixed => \A s \in Discovery!Slugs : second[s].of = s
  BY DEF Discovery!DiscoveryInv, Discovery!SavedUnderItsTopic
<1>4. ~ui.mixed => /\ ~ui.loading => ui.top.of = "markets"
                   /\ ui.topic # None /\ ~ui.loadingTopic => ui.secondary.of = ui.topic
  BY DEF Discovery!DiscoveryInv, Discovery!SlotsHoldTheirPages, Discovery!Shown
<1>5. ~ui.mixed => \A s \in ui.saves : /\ s.mode = "top" => s.slug = "markets"
                                       /\ s.mode # "top" => s.slug = ui.topic
                                       /\ s.kind = "layout" /\ ~s.got => s.body.of = s.slug
  BY DEF Discovery!DiscoveryInv, Discovery!SavesGoHome
<1> QED
  BY <1>1, <1>2, <1>3, <1>4, <1>5

(* The same of the next state, the other way. *)
LEMMA DiscoveryFrom ==
    ASSUME Discovery!ConstantsOK,
           ui' \in Discovery!Editors, second' \in [Discovery!Slugs -> Discovery!Slots],
           \A s \in Discovery!Slugs : second'[s].version >= 1,
           ui'.loadingTopic => ui'.topic # None,
           ui'.tags = "asked" => ui'.topic = None,
           ui'.tab = "topicPins" => ui'.mode = "top",
           ~ui'.mixed => \A s \in Discovery!Slugs : second'[s].of = s,
           ~ui'.mixed /\ ~ui'.loading => ui'.top.of = "markets",
           ~ui'.mixed /\ ui'.topic # None /\ ~ui'.loadingTopic => ui'.secondary.of = ui'.topic,
           ~ui'.mixed => \A s \in ui'.saves : /\ s.mode = "top" => s.slug = "markets"
                                              /\ s.mode # "top" => s.slug = ui'.topic
                                              /\ s.kind = "layout" /\ ~s.got => s.body.of = s.slug
    PROVE  Discovery!DiscoveryInv'
<1>1. ui'.tab \in Discovery!EditorTabs'
  BY DEF Discovery!Editors, Discovery!EditorTabs
<1>2. Discovery!PreviewPins' \in 0..MaxPins
  <2>1. ui'.top.pins \in 0..MaxPins /\ ui'.secondary.pins \in 0..MaxPins
    BY DEF Discovery!Editors, Discovery!Slots
  <2>2. 0 \in 0..MaxPins
    BY DEF Discovery!ConstantsOK
  <2> QED
    BY <2>1, <2>2 DEF Discovery!PreviewPins, Discovery!State
<1>3. Discovery!TypeOK'
  BY <1>1, <1>2 DEF Discovery!TypeOK
<1>4. Discovery!SavedUnderItsTopic'
  BY DEF Discovery!SavedUnderItsTopic
<1>5. Discovery!SlotsHoldTheirPages'
  BY DEF Discovery!SlotsHoldTheirPages, Discovery!Shown
<1>6. Discovery!SavesGoHome'
  BY DEF Discovery!SavesGoHome
<1> QED
  BY <1>3, <1>4, <1>5, <1>6 DEF Discovery!DiscoveryInv

LEMMA DiscoveryPages ==
    ASSUME Discovery!ConstantsOK
    PROVE  /\ Discovery!Blank \in Discovery!Slots /\ "markets" \in Discovery!Slugs
           /\ \A t \in Topics : t \in Discovery!Slugs
           /\ \A page \in Discovery!Slots : Discovery!Normal(page) = page
<1>1. \A page \in Discovery!Slots : Discovery!Normal(page) = page
  BY DEF Discovery!Normal, Discovery!Slots
<1>2. Discovery!Blank \in Discovery!Slots
  BY DEF Discovery!ConstantsOK, Discovery!Blank, Discovery!Slots
<1> QED
  BY <1>1, <1>2 DEF Discovery!Slugs

LEMMA DiscoveryInitInv == Discovery!ConstantsOK /\ Discovery!Init => Discovery!DiscoveryInv
<1> SUFFICES ASSUME Discovery!ConstantsOK, Discovery!Init
             PROVE  Discovery!DiscoveryInv
  OBVIOUS
<1>1. Discovery!Blank \in Discovery!Slots /\ Discovery!Silent \in [phase : {"none", "timer", "asked"}, found : BOOLEAN]
  BY DiscoveryPages DEF Discovery!Silent
<1>2. ui = [loading |-> TRUE, tags |-> "asked", mode |-> "top", topic |-> None, tab |-> "layout",
            top |-> Discovery!Blank, secondary |-> Discovery!Blank,
            loadingTopic |-> FALSE, saves |-> {}, sent |-> 0, search |-> Discovery!Silent,
            mixed |-> FALSE]
  BY DEF Discovery!Init
<1>3. ui \in Discovery!Editors
  BY <1>1, <1>2 DEF Discovery!Editors
<1>4. /\ second \in [Discovery!Slugs -> Discovery!Slots]
      /\ \A s \in Discovery!Slugs : second[s].version >= 1 /\ second[s].of = s
  <2>1. \A s \in Discovery!Slugs : /\ second[s] = [of |-> s, version |-> 1, pins |-> 0]
                                   /\ second[s] \in Discovery!Slots
    BY DEF Discovery!Init, Discovery!Slots, Discovery!ConstantsOK
  <2> QED
    BY <2>1 DEF Discovery!Init
<1>5. Discovery!PreviewPins \in 0..MaxPins
  BY <1>2 DEF Discovery!PreviewPins, Discovery!Shown, Discovery!ConstantsOK
<1>6. ui.tab \in Discovery!EditorTabs
  BY <1>2 DEF Discovery!EditorTabs
<1> QED
  BY <1>2, <1>3, <1>4, <1>5, <1>6 DEF Discovery!DiscoveryInv, Discovery!TypeOK,
     Discovery!SavedUnderItsTopic, Discovery!SlotsHoldTheirPages, Discovery!Shown, Discovery!SavesGoHome

(* A step that moves neither a topic, a text nor a save. *)
LEMMA DiscoveryQuiet ==
    ASSUME Discovery!ConstantsOK, Discovery!DiscoveryInv,
           ui' \in Discovery!Editors, second' = second,
           ui'.tab = "topicPins" => ui'.mode = "top",
           ui'.loading = ui.loading, ui'.tags = ui.tags, ui'.topic = ui.topic,
           ui'.loadingTopic = ui.loadingTopic, ui'.saves = ui.saves, ui'.mixed = ui.mixed,
           ui'.top.of = ui.top.of, ui'.secondary.of = ui.secondary.of
    PROVE  Discovery!DiscoveryInv'
<1>1. /\ second' \in [Discovery!Slugs -> Discovery!Slots]
      /\ \A s \in Discovery!Slugs : second'[s].version >= 1
      /\ ui'.loadingTopic => ui'.topic # None
      /\ ui'.tags = "asked" => ui'.topic = None
  BY DiscoveryFacts
<1>2. ~ui'.mixed =>
        /\ \A s \in Discovery!Slugs : second'[s].of = s
        /\ ~ui'.loading => ui'.top.of = "markets"
        /\ ui'.topic # None /\ ~ui'.loadingTopic => ui'.secondary.of = ui'.topic
  BY DiscoveryFacts
<1>3. ~ui'.mixed => \A s \in ui'.saves :
        /\ s.mode = "top" => s.slug = "markets"
        /\ s.mode # "top" => s.slug = ui'.topic
        /\ s.kind = "layout" /\ ~s.got => s.body.of = s.slug
  BY DiscoveryFacts
<1> QED
  BY <1>1, <1>2, <1>3, DiscoveryFrom

(* Modes, tabs, pins and the search of a market. *)
LEMMA DiscoveryQuietSteps ==
    ASSUME Discovery!ConstantsOK, Discovery!DiscoveryInv,
           \/ \E mode \in {"top", "secondary"} : Discovery!SelectMode(mode)
           \/ \E tab \in Discovery!EditorTabs : Discovery!SelectTab(tab)
           \/ Discovery!AddPin \/ Discovery!RemovePin \/ Discovery!TypeSearch \/ Discovery!SearchFires
           \/ Discovery!SearchAnswered \/ Discovery!SelectMarket \/ UNCHANGED <<ui, second>>
    PROVE  Discovery!DiscoveryInv'
<1>1. ui \in Discovery!Editors /\ (ui.tab = "topicPins" => ui.mode = "top")
  BY DiscoveryFacts
<1>2. CASE UNCHANGED <<ui, second>>
  BY <1>1, <1>2, DiscoveryQuiet
<1>3. ASSUME NEW mode \in {"top", "secondary"}, Discovery!SelectMode(mode) PROVE Discovery!DiscoveryInv'
  <2> DEFINE tab == IF mode = "secondary" /\ ui.tab = "topicPins" THEN "layout" ELSE ui.tab
  <2>1. ui' = [ui EXCEPT !.mode = mode, !.search = Discovery!Silent, !.tab = tab] /\ second' = second
    BY <1>3 DEF Discovery!SelectMode, Discovery!Edit
  <2>2. /\ tab \in {"layout", "marketPins", "preview", "topicPins"}
        /\ tab = "topicPins" => mode = "top"
        /\ Discovery!Silent \in [phase : {"none", "timer", "asked"}, found : BOOLEAN]
    BY <1>1 DEF Discovery!Editors, Discovery!Silent
  <2> HIDE DEF tab
  <2>3. /\ ui' \in Discovery!Editors /\ ui'.tab = tab /\ ui'.mode = mode
        /\ ui'.loading = ui.loading /\ ui'.tags = ui.tags /\ ui'.topic = ui.topic
        /\ ui'.loadingTopic = ui.loadingTopic /\ ui'.saves = ui.saves /\ ui'.mixed = ui.mixed
        /\ ui'.top = ui.top /\ ui'.secondary = ui.secondary
    BY <1>1, <2>1, <2>2 DEF Discovery!Editors
  <2> QED
    BY <2>1, <2>2, <2>3, DiscoveryQuiet
<1>4. ASSUME NEW tab \in Discovery!EditorTabs, Discovery!SelectTab(tab) PROVE Discovery!DiscoveryInv'
  <2>1. ui' = [ui EXCEPT !.tab = tab, !.search = Discovery!Silent] /\ second' = second
    BY <1>4 DEF Discovery!SelectTab, Discovery!Edit
  <2>2. /\ tab \in {"layout", "marketPins", "preview", "topicPins"}
        /\ tab = "topicPins" => ui.mode = "top"
        /\ Discovery!Silent \in [phase : {"none", "timer", "asked"}, found : BOOLEAN]
    BY DEF Discovery!EditorTabs, Discovery!Silent
  <2>3. /\ ui' \in Discovery!Editors /\ ui'.tab = tab /\ ui'.mode = ui.mode
        /\ ui'.loading = ui.loading /\ ui'.tags = ui.tags /\ ui'.topic = ui.topic
        /\ ui'.loadingTopic = ui.loadingTopic /\ ui'.saves = ui.saves /\ ui'.mixed = ui.mixed
        /\ ui'.top = ui.top /\ ui'.secondary = ui.secondary
    BY <1>1, <2>1, <2>2 DEF Discovery!Editors
  <2> QED
    BY <2>1, <2>2, <2>3, DiscoveryQuiet
<1>5. ASSUME \E search \in [phase : {"none", "timer", "asked"}, found : BOOLEAN] :
               ui' = [ui EXCEPT !.search = search] /\ second' = second
      PROVE  Discovery!DiscoveryInv'
  <2>1. PICK search \in [phase : {"none", "timer", "asked"}, found : BOOLEAN] :
               ui' = [ui EXCEPT !.search = search] /\ second' = second
    BY <1>5
  <2>2. /\ ui' \in Discovery!Editors /\ ui'.tab = ui.tab /\ ui'.mode = ui.mode
        /\ ui'.loading = ui.loading /\ ui'.tags = ui.tags /\ ui'.topic = ui.topic
        /\ ui'.loadingTopic = ui.loadingTopic /\ ui'.saves = ui.saves /\ ui'.mixed = ui.mixed
        /\ ui'.top = ui.top /\ ui'.secondary = ui.secondary
    BY <1>1, <2>1 DEF Discovery!Editors
  <2> QED
    BY <1>1, <2>1, <2>2, DiscoveryQuiet
<1>6. ui.search \in [phase : {"none", "timer", "asked"}, found : BOOLEAN]
  BY <1>1 DEF Discovery!Editors
<1>7. CASE Discovery!TypeSearch \/ Discovery!SearchFires
  <2>1. PICK phase \in {"timer", "asked"} :
          ui' = [ui EXCEPT !.search = [ui.search EXCEPT !.phase = phase]] /\ second' = second
    BY <1>1, <1>7 DEF Discovery!TypeSearch, Discovery!SearchFires, Discovery!Edit, Discovery!Editors
  <2>2. [ui.search EXCEPT !.phase = phase] \in [phase : {"none", "timer", "asked"}, found : BOOLEAN]
    BY <1>6
  <2> QED
    BY <1>5, <2>1, <2>2
<1>8. CASE Discovery!SearchAnswered \/ Discovery!SelectMarket
  <2>1. PICK found \in BOOLEAN :
          ui' = [ui EXCEPT !.search = [phase |-> "none", found |-> found]] /\ second' = second
    BY <1>8 DEF Discovery!SearchAnswered, Discovery!SelectMarket, Discovery!Edit, Discovery!Silent
  <2> QED
    BY <1>5, <2>1
<1>9. CASE Discovery!AddPin \/ Discovery!RemovePin
  <2>1. ui.top \in Discovery!Slots /\ ui.secondary \in Discovery!Slots
    BY <1>1 DEF Discovery!Editors
  <2>2. Discovery!State \in Discovery!Slots
    BY <2>1 DEF Discovery!State
  <2> DEFINE state == Discovery!State
  <2>3. PICK pins \in 0..MaxPins :
          /\ ui' = Discovery!Put(ui, ui.mode, [state EXCEPT !.pins = pins])
          /\ second' = second
    <3>1. state.pins \in 0..MaxPins
      BY <2>2 DEF Discovery!Slots
    <3>2. CASE Discovery!AddPin
      <4>1. state.pins + 1 \in 0..MaxPins
        BY <3>1, <3>2 DEF Discovery!AddPin, Discovery!ConstantsOK
      <4>2. ui' = Discovery!Put(ui, ui.mode, [state EXCEPT !.pins = state.pins + 1]) /\ second' = second
        BY <3>2 DEF Discovery!AddPin, Discovery!Edit
      <4> HIDE DEF state
      <4> QED
        BY <4>1, <4>2
    <3>3. CASE Discovery!RemovePin
      <4>1. state.pins - 1 \in 0..MaxPins
        BY <3>1, <3>3 DEF Discovery!RemovePin, Discovery!ConstantsOK
      <4>2. ui' = Discovery!Put(ui, ui.mode, [state EXCEPT !.pins = state.pins - 1]) /\ second' = second
        BY <3>3 DEF Discovery!RemovePin, Discovery!Edit
      <4> HIDE DEF state
      <4> QED
        BY <4>1, <4>2
    <3> QED
      BY <1>9, <3>2, <3>3
  <2> DEFINE page == [state EXCEPT !.pins = pins]
  <2>4. page \in Discovery!Slots /\ page.of = state.of
    BY <2>2, <2>3 DEF Discovery!Slots
  <2>5. state = IF ui.mode = "top" THEN ui.top ELSE ui.secondary
    BY DEF Discovery!State
  <2> HIDE DEF page, state
  <2>6. ui' = IF ui.mode = "top" THEN [ui EXCEPT !.top = page] ELSE [ui EXCEPT !.secondary = page]
    BY <2>3 DEF Discovery!Put, page
  <2>7. /\ ui' \in Discovery!Editors /\ ui'.tab = ui.tab /\ ui'.mode = ui.mode
        /\ ui'.loading = ui.loading /\ ui'.tags = ui.tags /\ ui'.topic = ui.topic
        /\ ui'.loadingTopic = ui.loadingTopic /\ ui'.saves = ui.saves /\ ui'.mixed = ui.mixed
        /\ ui'.top.of = ui.top.of /\ ui'.secondary.of = ui.secondary.of
    <3>1. CASE ui.mode = "top"
      BY <1>1, <2>4, <2>5, <2>6, <3>1 DEF Discovery!Editors
    <3>2. CASE ui.mode # "top"
      BY <1>1, <2>4, <2>5, <2>6, <3>2 DEF Discovery!Editors
    <3> QED
      BY <3>1, <3>2
  <2> QED
    BY <1>1, <2>3, <2>7, DiscoveryQuiet
<1> QED
  BY <1>2, <1>3, <1>4, <1>7, <1>8, <1>9

(* The pages and the tags are loaded, and a topic is chosen. *)
LEMMA DiscoveryLoads ==
    ASSUME Discovery!ConstantsOK, Discovery!DiscoveryInv,
           \/ Discovery!TopLoaded \/ Discovery!TagsLoaded \/ Discovery!TopicLoaded
           \/ \E t \in Topics : Discovery!SelectTopic(t)
    PROVE  Discovery!DiscoveryInv'
<1>1. /\ ui \in Discovery!Editors /\ second \in [Discovery!Slugs -> Discovery!Slots]
      /\ \A s \in Discovery!Slugs : second[s].version >= 1
      /\ ui.loadingTopic => ui.topic # None
      /\ ui.tags = "asked" => ui.topic = None
      /\ ui.tab = "topicPins" => ui.mode = "top"
  BY DiscoveryFacts
<1>2. ~ui.mixed =>
        /\ \A s \in Discovery!Slugs : second[s].of = s
        /\ ~ui.loading => ui.top.of = "markets"
        /\ ui.topic # None /\ ~ui.loadingTopic => ui.secondary.of = ui.topic
        /\ \A s \in ui.saves :
              /\ s.mode = "top" => s.slug = "markets"
              /\ s.mode # "top" => s.slug = ui.topic
              /\ s.kind = "layout" /\ ~s.got => s.body.of = s.slug
  BY DiscoveryFacts
<1>3. /\ Discovery!Blank \in Discovery!Slots /\ "markets" \in Discovery!Slugs
      /\ \A t \in Topics : t \in Discovery!Slugs
      /\ \A page \in Discovery!Slots : Discovery!Normal(page) = page
  BY DiscoveryPages
<1>4. CASE Discovery!TopLoaded
  <2> DEFINE mixed == ui.mixed \/ (ui.topic # None /\ ~ui.loadingTopic)
             top == second["markets"]
             blank == Discovery!Blank
  <2>1. top \in Discovery!Slots /\ Discovery!Normal(top) = top
    BY <1>1, <1>3
  <2>2. /\ second' = second /\ ui.loading
        /\ \/ ui' = [ui EXCEPT !.loading = FALSE, !.top = top, !.secondary = blank, !.mixed = mixed]
           \/ ui' = [ui EXCEPT !.loading = FALSE, !.mixed = TRUE]
    BY <1>4, <2>1 DEF Discovery!TopLoaded, Discovery!Edit
  <2>3. mixed \in BOOLEAN /\ (~mixed => ~ui.mixed /\ (ui.topic = None \/ ui.loadingTopic))
    BY <1>1 DEF Discovery!Editors
  <2>4. ~ui.mixed => top.of = "markets"
    BY <1>2, <1>3
  <2> HIDE DEF mixed, top, blank
  <2>5. CASE ui' = [ui EXCEPT !.loading = FALSE, !.top = top, !.secondary = blank, !.mixed = mixed]
    <3>0. blank \in Discovery!Slots
      BY <1>3 DEF blank
    <3>1. ui' \in Discovery!Editors
      BY <1>1, <2>1, <2>3, <2>5, <3>0 DEF Discovery!Editors
    <3>2. /\ ui'.top = top /\ ui'.mixed = mixed /\ ui'.topic = ui.topic /\ ui'.tags = ui.tags
          /\ ui'.loadingTopic = ui.loadingTopic /\ ui'.saves = ui.saves /\ ui'.tab = ui.tab
          /\ ui'.mode = ui.mode
      BY <1>1, <2>5 DEF Discovery!Editors
    <3>3. ~ui'.mixed => /\ \A s \in Discovery!Slugs : second'[s].of = s
                        /\ ui'.top.of = "markets"
                        /\ ui'.topic = None \/ ui'.loadingTopic
      BY <1>2, <2>2, <2>3, <2>4, <3>2
    <3>4. ~ui'.mixed => \A s \in ui'.saves :
            /\ s.mode = "top" => s.slug = "markets"
            /\ s.mode # "top" => s.slug = ui'.topic
            /\ s.kind = "layout" /\ ~s.got => s.body.of = s.slug
      BY <1>2, <2>3, <3>2
    <3> QED
      BY <1>1, <2>2, <3>1, <3>2, <3>3, <3>4, DiscoveryFrom
  <2>6. CASE ui' = [ui EXCEPT !.loading = FALSE, !.mixed = TRUE]
    <3>1. /\ ui' \in Discovery!Editors
          /\ ui'.mixed /\ ui'.topic = ui.topic /\ ui'.tags = ui.tags
          /\ ui'.loadingTopic = ui.loadingTopic /\ ui'.tab = ui.tab /\ ui'.mode = ui.mode
      BY <1>1, <2>6 DEF Discovery!Editors
    <3> QED
      BY <1>1, <2>2, <3>1, DiscoveryFrom
  <2> QED
    BY <2>2, <2>5, <2>6
<1>5. CASE Discovery!TagsLoaded
  <2>1. /\ second' = second /\ ui.tags = "asked"
        /\ \/ \E t \in Topics : ui' = [ui EXCEPT !.tags = "loaded", !.topic = t, !.loadingTopic = TRUE]
           \/ ui' = [ui EXCEPT !.tags = "failed"]
    BY <1>5 DEF Discovery!TagsLoaded, Discovery!Edit
  <2>2. ui.topic = None
    BY <1>1, <2>1
  <2>3. ASSUME NEW t \in Topics, ui' = [ui EXCEPT !.tags = "loaded", !.topic = t, !.loadingTopic = TRUE]
        PROVE  Discovery!DiscoveryInv'
    <3>1. /\ ui' \in Discovery!Editors
          /\ ui'.top = ui.top /\ ui'.mixed = ui.mixed /\ ui'.topic = t /\ ui'.tags = "loaded"
          /\ ui'.loadingTopic /\ ui'.saves = ui.saves /\ ui'.tab = ui.tab
          /\ ui'.mode = ui.mode /\ ui'.loading = ui.loading
      BY <1>1, <2>3 DEF Discovery!Editors
    <3>2. t # None
      BY <1>3 DEF Discovery!ConstantsOK
    <3>3. ~ui'.mixed => /\ \A s \in Discovery!Slugs : second'[s].of = s
                        /\ ~ui'.loading => ui'.top.of = "markets"
      BY <1>2, <2>1, <3>1
    <3>4. \A s \in ui.saves : s.slug \in Discovery!Slugs
      BY <1>1 DEF Discovery!Editors, Discovery!Saves
    <3>5. ~ui'.mixed => \A s \in ui'.saves :
            /\ s.mode = "top" => s.slug = "markets"
            /\ s.mode # "top" => s.slug = ui'.topic
            /\ s.kind = "layout" /\ ~s.got => s.body.of = s.slug
      BY <1>2, <2>2, <3>1, <3>4 DEF Discovery!ConstantsOK
    <3> QED
      BY <1>1, <2>1, <3>1, <3>2, <3>3, <3>5, DiscoveryFrom
  <2>4. CASE ui' = [ui EXCEPT !.tags = "failed"]
    <3>1. /\ ui' \in Discovery!Editors
          /\ ui'.top = ui.top /\ ui'.mixed = ui.mixed /\ ui'.topic = ui.topic /\ ui'.tags = "failed"
          /\ ui'.loadingTopic = ui.loadingTopic /\ ui'.saves = ui.saves /\ ui'.tab = ui.tab
          /\ ui'.mode = ui.mode /\ ui'.loading = ui.loading /\ ui'.secondary = ui.secondary
      BY <1>1, <2>4 DEF Discovery!Editors
    <3>2. ~ui'.mixed => /\ \A s \in Discovery!Slugs : second'[s].of = s
                        /\ ~ui'.loading => ui'.top.of = "markets"
                        /\ ui'.topic # None /\ ~ui'.loadingTopic => ui'.secondary.of = ui'.topic
      BY <1>2, <2>1, <3>1
    <3>3. ~ui'.mixed => \A s \in ui'.saves :
            /\ s.mode = "top" => s.slug = "markets"
            /\ s.mode # "top" => s.slug = ui'.topic
            /\ s.kind = "layout" /\ ~s.got => s.body.of = s.slug
      BY <1>2, <3>1
    <3> QED
      BY <1>1, <2>1, <3>1, <3>2, <3>3, DiscoveryFrom
  <2> QED
    BY <2>1, <2>3, <2>4
<1>6. CASE Discovery!TopicLoaded
  <2> DEFINE page == second[ui.topic]
  <2>1. ui.loadingTopic /\ ui.topic \in Discovery!Slugs
    <3>1. ui.loadingTopic
      BY <1>6 DEF Discovery!TopicLoaded
    <3> QED
      BY <1>1, <1>3, <3>1 DEF Discovery!Editors
  <2>2. page \in Discovery!Slots /\ Discovery!Normal(page) = page
    BY <1>1, <1>3, <2>1
  <2>3. /\ second' = second
        /\ \/ ui' = [ui EXCEPT !.loadingTopic = FALSE, !.secondary = page]
           \/ ui' = [ui EXCEPT !.loadingTopic = FALSE, !.mixed = TRUE]
    BY <1>6, <2>2 DEF Discovery!TopicLoaded, Discovery!Edit
  <2>4. ~ui.mixed => page.of = ui.topic
    BY <1>2, <2>1
  <2> HIDE DEF page
  <2>5. CASE ui' = [ui EXCEPT !.loadingTopic = FALSE, !.secondary = page]
    <3>1. /\ ui' \in Discovery!Editors
          /\ ui'.top = ui.top /\ ui'.mixed = ui.mixed /\ ui'.topic = ui.topic /\ ui'.tags = ui.tags
          /\ ~ui'.loadingTopic /\ ui'.saves = ui.saves /\ ui'.tab = ui.tab
          /\ ui'.mode = ui.mode /\ ui'.loading = ui.loading /\ ui'.secondary = page
      BY <1>1, <2>2, <2>5 DEF Discovery!Editors
    <3>2. ~ui'.mixed => /\ \A s \in Discovery!Slugs : second'[s].of = s
                        /\ ~ui'.loading => ui'.top.of = "markets"
                        /\ ui'.secondary.of = ui'.topic
      BY <1>2, <2>3, <2>4, <3>1
    <3>3. ~ui'.mixed => \A s \in ui'.saves :
            /\ s.mode = "top" => s.slug = "markets"
            /\ s.mode # "top" => s.slug = ui'.topic
            /\ s.kind = "layout" /\ ~s.got => s.body.of = s.slug
      BY <1>2, <3>1
    <3> QED
      BY <1>1, <2>3, <3>1, <3>2, <3>3, DiscoveryFrom
  <2>6. CASE ui' = [ui EXCEPT !.loadingTopic = FALSE, !.mixed = TRUE]
    <3>1. /\ ui' \in Discovery!Editors
          /\ ui'.mixed /\ ui'.topic = ui.topic /\ ui'.tags = ui.tags
          /\ ~ui'.loadingTopic /\ ui'.tab = ui.tab /\ ui'.mode = ui.mode
      BY <1>1, <2>6 DEF Discovery!Editors
    <3> QED
      BY <1>1, <2>3, <3>1, DiscoveryFrom
  <2> QED
    BY <2>3, <2>5, <2>6
<1>7. ASSUME NEW t \in Topics, Discovery!SelectTopic(t) PROVE Discovery!DiscoveryInv'
  <2> DEFINE mixed == ui.mixed \/ \E s \in ui.saves : s.mode = "secondary"
  <2>1. ui' = [ui EXCEPT !.topic = t, !.loadingTopic = TRUE, !.mixed = mixed] /\ second' = second
    BY <1>7 DEF Discovery!SelectTopic, Discovery!Edit
  <2>a. ui.mixed \in BOOLEAN /\ \A s \in ui.saves : s.mode \in {"top", "secondary"}
    BY <1>1 DEF Discovery!Editors, Discovery!Saves
  <2>2. mixed \in BOOLEAN /\ (~mixed => ~ui.mixed /\ \A s \in ui.saves : s.mode = "top")
    BY <2>a
  <2>3. ui.tags # "asked"
    BY <1>7 DEF Discovery!SelectTopic, Discovery!TagOptions
  <2> HIDE DEF mixed
  <2>4. /\ ui' \in Discovery!Editors
        /\ ui'.top = ui.top /\ ui'.mixed = mixed /\ ui'.topic = t /\ ui'.tags = ui.tags
        /\ ui'.loadingTopic /\ ui'.saves = ui.saves /\ ui'.tab = ui.tab
        /\ ui'.mode = ui.mode /\ ui'.loading = ui.loading
    BY <1>1, <2>1, <2>2 DEF Discovery!Editors
  <2>5. t # None
    BY <1>3 DEF Discovery!ConstantsOK
  <2>6. ~ui'.mixed => /\ \A s \in Discovery!Slugs : second'[s].of = s
                      /\ ~ui'.loading => ui'.top.of = "markets"
    BY <1>2, <2>1, <2>2, <2>4
  <2>7. ~ui'.mixed => \A s \in ui'.saves :
          /\ s.mode = "top" => s.slug = "markets"
          /\ s.mode # "top" => s.slug = ui'.topic
          /\ s.kind = "layout" /\ ~s.got => s.body.of = s.slug
    BY <1>2, <2>2, <2>4
  <2> QED
    BY <1>1, <2>1, <2>3, <2>4, <2>5, <2>6, <2>7, DiscoveryFrom
<1> QED
  BY <1>4, <1>5, <1>6, <1>7

(* A save is of the page that is edited. *)
LEMMA DiscoverySaves ==
    ASSUME Discovery!ConstantsOK, Discovery!DiscoveryInv, Discovery!SaveLayout \/ Discovery!SavePins
    PROVE  Discovery!DiscoveryInv'
<1>1. /\ ui \in Discovery!Editors /\ second \in [Discovery!Slugs -> Discovery!Slots]
      /\ \A s \in Discovery!Slugs : second[s].version >= 1
      /\ ui.loadingTopic => ui.topic # None
      /\ ui.tags = "asked" => ui.topic = None
      /\ ui.tab = "topicPins" => ui.mode = "top"
  BY DiscoveryFacts
<1>2. ~ui.mixed =>
        /\ \A s \in Discovery!Slugs : second[s].of = s
        /\ ~ui.loading => ui.top.of = "markets"
        /\ ui.topic # None /\ ~ui.loadingTopic => ui.secondary.of = ui.topic
        /\ \A s \in ui.saves :
              /\ s.mode = "top" => s.slug = "markets"
              /\ s.mode # "top" => s.slug = ui.topic
              /\ s.kind = "layout" /\ ~s.got => s.body.of = s.slug
  BY DiscoveryFacts
<1>3. /\ Discovery!Blank \in Discovery!Slots /\ "markets" \in Discovery!Slugs
      /\ \A t \in Topics : t \in Discovery!Slugs
  BY DiscoveryPages
<1>4. ui.top \in Discovery!Slots /\ ui.secondary \in Discovery!Slots /\ ui.sent \in Nat
      /\ ui.saves \in SUBSET Discovery!Saves /\ ui.mode \in {"top", "secondary"}
      /\ ui.topic \in Topics \union {None}
  BY <1>1 DEF Discovery!Editors
<1>5. Discovery!State \in Discovery!Slots
  BY <1>4 DEF Discovery!State
<1> DEFINE slug == Discovery!Slug
<1>6. PICK kind \in {"layout", "pins"} :
        /\ Discovery!Save(kind) /\ ~ui.loading
        /\ ui.mode = "top" \/ ui.topic # None
        /\ kind = "layout" => ~ui.loadingTopic
  <2>1. Discovery!SaveLayout => Discovery!Save("layout") /\ ~ui.loading /\ ~ui.loadingTopic
                                /\ (ui.mode = "top" \/ ui.topic # None)
    BY DEF Discovery!SaveLayout, Discovery!SaveLayoutOffered, Discovery!LayoutShown, Discovery!Shown,
       Discovery!CanEdit
  <2>2. Discovery!SavePins => Discovery!Save("pins") /\ ~ui.loading
                              /\ (ui.mode = "top" \/ ui.topic # None)
    BY DEF Discovery!SavePins, Discovery!SavePinsOffered, Discovery!TopicPinsShown,
       Discovery!MarketPinsShown, Discovery!Shown, Discovery!CanEdit
  <2> QED
    BY <2>1, <2>2
<1> DEFINE body == Discovery!Body(kind)
           s == [kind |-> kind, mode |-> ui.mode, slug |-> slug, body |-> body, got |-> FALSE]
           saves == ui.saves \union {s}
           sent == ui.sent + 1
<1>7. ui' = [ui EXCEPT !.sent = sent, !.saves = saves] /\ second' = second
  BY <1>6 DEF Discovery!Save, Discovery!Edit
<1>8. /\ slug \in Discovery!Slugs
      /\ ui.mode = "top" => slug = "markets"
      /\ ui.mode # "top" => slug = ui.topic
  BY <1>3, <1>4, <1>6 DEF Discovery!Slug
<1>9. body \in Discovery!Slots
  <2>1. CASE kind = "pins"
    <3> DEFINE pins == Discovery!State.pins
    <3>1. pins \in 0..MaxPins
      BY <1>5 DEF Discovery!Slots
    <3>2. body = [Discovery!Blank EXCEPT !.pins = pins]
      BY <2>1 DEF Discovery!Body
    <3> HIDE DEF pins, body
    <3> QED
      BY <1>3, <3>1, <3>2 DEF Discovery!Slots
  <2>2. CASE kind # "pins"
    <3> DEFINE state == Discovery!State
    <3>1. body = [state EXCEPT !.pins = 0]
      BY <2>2 DEF Discovery!Body
    <3>2. 0 \in 0..MaxPins
      BY DEF Discovery!ConstantsOK
    <3> HIDE DEF state, body
    <3> QED
      BY <1>5, <3>1, <3>2 DEF Discovery!Slots, state
  <2> QED
    BY <2>1, <2>2
<1>10. kind = "layout" /\ ~ui.mixed => body.of = slug
  <2> SUFFICES ASSUME kind = "layout", ~ui.mixed PROVE body.of = slug
    OBVIOUS
  <2> DEFINE state == Discovery!State
  <2>1. body = [state EXCEPT !.pins = 0]
    BY DEF Discovery!Body
  <2>2. state.of = slug
    BY <1>2, <1>6, <1>8 DEF Discovery!State
  <2> HIDE DEF state, body, slug
  <2> QED
    BY <1>5, <2>1, <2>2 DEF Discovery!Slots, state
<1> HIDE DEF slug, body
<1>11. /\ s \in Discovery!Saves /\ s.kind = kind /\ s.mode = ui.mode /\ s.slug = slug /\ s.body = body
  BY <1>4, <1>8, <1>9 DEF Discovery!Saves
<1>12. sent \in Nat
  BY <1>4
<1> HIDE DEF s
<1>13. saves \in SUBSET Discovery!Saves /\ \A x \in saves : x = s \/ x \in ui.saves
  BY <1>4, <1>11
<1> HIDE DEF saves, sent
<1>14. /\ ui' \in Discovery!Editors
       /\ ui'.top = ui.top /\ ui'.mixed = ui.mixed /\ ui'.topic = ui.topic /\ ui'.tags = ui.tags
       /\ ui'.loadingTopic = ui.loadingTopic /\ ui'.saves = saves /\ ui'.tab = ui.tab
       /\ ui'.mode = ui.mode /\ ui'.loading = ui.loading /\ ui'.secondary = ui.secondary
  BY <1>1, <1>7, <1>12, <1>13 DEF Discovery!Editors
<1>15. ~ui'.mixed => /\ \A x \in Discovery!Slugs : second'[x].of = x
                     /\ ~ui'.loading => ui'.top.of = "markets"
                     /\ ui'.topic # None /\ ~ui'.loadingTopic => ui'.secondary.of = ui'.topic
  BY <1>2, <1>7, <1>14
<1>16. ~ui'.mixed => \A x \in ui'.saves : /\ x.mode = "top" => x.slug = "markets"
                                          /\ x.mode # "top" => x.slug = ui'.topic
                                          /\ x.kind = "layout" /\ ~x.got => x.body.of = x.slug
  BY <1>2, <1>8, <1>10, <1>11, <1>13, <1>14
<1> QED
  BY <1>1, <1>7, <1>14, <1>15, <1>16, DiscoveryFrom

LEMMA DiscoveryServer ==
    ASSUME Discovery!ConstantsOK, Discovery!DiscoveryInv, Discovery!ServerSaves
    PROVE  Discovery!DiscoveryInv'
<1>1. /\ ui \in Discovery!Editors /\ second \in [Discovery!Slugs -> Discovery!Slots]
      /\ \A s \in Discovery!Slugs : second[s].version >= 1
      /\ ui.loadingTopic => ui.topic # None
      /\ ui.tags = "asked" => ui.topic = None
      /\ ui.tab = "topicPins" => ui.mode = "top"
  BY DiscoveryFacts
<1>2. ~ui.mixed =>
        /\ \A s \in Discovery!Slugs : second[s].of = s
        /\ ~ui.loading => ui.top.of = "markets"
        /\ ui.topic # None /\ ~ui.loadingTopic => ui.secondary.of = ui.topic
        /\ \A s \in ui.saves :
              /\ s.mode = "top" => s.slug = "markets"
              /\ s.mode # "top" => s.slug = ui.topic
              /\ s.kind = "layout" /\ ~s.got => s.body.of = s.slug
  BY DiscoveryFacts
<1>3. Discovery!Blank \in Discovery!Slots
  BY DiscoveryPages
<1>4. PICK s \in ui.saves :
        /\ ~s.got /\ second[s.slug].version < MaxLayouts
        /\ ui' = [ui EXCEPT !.saves = (ui.saves \ {s}) \union {[s EXCEPT !.got = TRUE, !.body = Discovery!Blank]}]
        /\ second' = [second EXCEPT ![s.slug] = Discovery!Saved(second[s.slug], s)]
  BY DEF Discovery!ServerSaves
<1>5. s \in Discovery!Saves /\ ui.saves \in SUBSET Discovery!Saves
  BY <1>1 DEF Discovery!Editors
<1>6. s.slug \in Discovery!Slugs /\ s.body \in Discovery!Slots /\ s.kind \in {"layout", "pins"}
  BY <1>5 DEF Discovery!Saves
<1> DEFINE old == second[s.slug]
           new == Discovery!Saved(old, s)
           blank == Discovery!Blank
           g == [s EXCEPT !.got = TRUE, !.body = blank]
           saves == (ui.saves \ {s}) \union {g}
<1>7. old \in Discovery!Slots /\ old.version >= 1 /\ old.version < MaxLayouts
  BY <1>1, <1>4, <1>6
<1>8. second' = [second EXCEPT ![s.slug] = new] /\ ui' = [ui EXCEPT !.saves = saves]
  BY <1>4
<1> HIDE DEF old
<1>9. /\ new \in Discovery!Slots /\ new.version >= 1
      /\ s.kind = "pins" => new.of = old.of
      /\ s.kind # "pins" => new.of = s.body.of
  <2>1. CASE s.kind = "pins"
    <3>1. s.body.pins \in 0..MaxPins
      BY <1>6 DEF Discovery!Slots
    <3> QED
      BY <1>7, <2>1, <3>1 DEF Discovery!Slots, Discovery!Saved
  <2>2. CASE s.kind # "pins"
    <3>1. old.version + 1 \in 0..MaxLayouts /\ old.version + 1 >= 1
      BY <1>7 DEF Discovery!Slots, Discovery!ConstantsOK
    <3>2. s.body.of \in Discovery!Slugs \union {None}
      BY <1>6 DEF Discovery!Slots
    <3> QED
      BY <1>7, <2>2, <3>1, <3>2 DEF Discovery!Slots, Discovery!Saved
  <2> QED
    BY <2>1, <2>2
<1>10. /\ g \in Discovery!Saves /\ g.mode = s.mode /\ g.slug = s.slug /\ g.got
  <2> HIDE DEF blank
  <2>1. blank \in Discovery!Slots
    BY <1>3 DEF blank
  <2> QED
    BY <1>5, <2>1 DEF Discovery!Saves
<1> HIDE DEF new, g
<1>11. saves \in SUBSET Discovery!Saves /\ \A x \in saves : x = g \/ x \in ui.saves
  BY <1>5, <1>10
<1> HIDE DEF saves
<1>12. /\ ui' \in Discovery!Editors
       /\ ui'.top = ui.top /\ ui'.mixed = ui.mixed /\ ui'.topic = ui.topic /\ ui'.tags = ui.tags
       /\ ui'.loadingTopic = ui.loadingTopic /\ ui'.saves = saves /\ ui'.tab = ui.tab
       /\ ui'.mode = ui.mode /\ ui'.loading = ui.loading /\ ui'.secondary = ui.secondary
  BY <1>1, <1>8, <1>11 DEF Discovery!Editors
<1>13. /\ second' \in [Discovery!Slugs -> Discovery!Slots]
       /\ second'[s.slug] = new
       /\ \A x \in Discovery!Slugs : x # s.slug => second'[x] = second[x]
  BY <1>1, <1>6, <1>8, <1>9
<1>14. \A x \in Discovery!Slugs : second'[x].version >= 1
  BY <1>1, <1>9, <1>13
<1>15. ~ui.mixed => \A x \in Discovery!Slugs : second'[x].of = x
  <2>1. ~ui.mixed => old.of = s.slug
    BY <1>2, <1>6 DEF old
  <2>2. ~ui.mixed /\ s.kind # "pins" => s.body.of = s.slug
    BY <1>2, <1>4, <1>6
  <2> QED
    BY <1>2, <1>9, <1>13, <2>1, <2>2
<1>16. ~ui'.mixed => /\ ~ui'.loading => ui'.top.of = "markets"
                     /\ ui'.topic # None /\ ~ui'.loadingTopic => ui'.secondary.of = ui'.topic
  BY <1>2, <1>12
<1>17. ~ui'.mixed => \A x \in ui'.saves : /\ x.mode = "top" => x.slug = "markets"
                                          /\ x.mode # "top" => x.slug = ui'.topic
                                          /\ x.kind = "layout" /\ ~x.got => x.body.of = x.slug
  BY <1>2, <1>10, <1>11, <1>12
<1> QED
  BY <1>1, <1>12, <1>13, <1>14, <1>15, <1>16, <1>17, DiscoveryFrom

LEMMA DiscoverySaved ==
    ASSUME Discovery!ConstantsOK, Discovery!DiscoveryInv,
           Discovery!SaveAnswered \/ Discovery!SaveFailed
    PROVE  Discovery!DiscoveryInv'
<1>1. /\ ui \in Discovery!Editors /\ second \in [Discovery!Slugs -> Discovery!Slots]
      /\ \A s \in Discovery!Slugs : second[s].version >= 1
      /\ ui.loadingTopic => ui.topic # None
      /\ ui.tags = "asked" => ui.topic = None
      /\ ui.tab = "topicPins" => ui.mode = "top"
  BY DiscoveryFacts
<1>2. ~ui.mixed =>
        /\ \A s \in Discovery!Slugs : second[s].of = s
        /\ ~ui.loading => ui.top.of = "markets"
        /\ ui.topic # None /\ ~ui.loadingTopic => ui.secondary.of = ui.topic
        /\ \A s \in ui.saves :
              /\ s.mode = "top" => s.slug = "markets"
              /\ s.mode # "top" => s.slug = ui.topic
              /\ s.kind = "layout" /\ ~s.got => s.body.of = s.slug
  BY DiscoveryFacts
<1>3. \A page \in Discovery!Slots : Discovery!Normal(page) = page
  BY DiscoveryPages
<1>4. ui.saves \in SUBSET Discovery!Saves
  BY <1>1 DEF Discovery!Editors
<1>5. CASE Discovery!SaveAnswered
  <2>1. PICK s \in ui.saves :
          /\ ui' = [Discovery!Put(ui, s.mode, Discovery!Normal(second[s.slug])) EXCEPT !.saves = @ \ {s}]
          /\ second' = second
    BY <1>5 DEF Discovery!SaveAnswered, Discovery!Edit
  <2> DEFINE page == second[s.slug]
             saves == ui.saves \ {s}
  <2>2. s \in Discovery!Saves /\ s.slug \in Discovery!Slugs
    BY <1>4 DEF Discovery!Saves
  <2>3. page \in Discovery!Slots /\ Discovery!Normal(page) = page
    BY <1>1, <1>3, <2>2
  <2>4. ~ui.mixed => /\ page.of = s.slug
                     /\ s.mode = "top" => page.of = "markets"
                     /\ s.mode # "top" => page.of = ui.topic
    BY <1>2, <2>2
  <2>5. ui' = [Discovery!Put(ui, s.mode, page) EXCEPT !.saves = @ \ {s}]
    BY <2>1, <2>3
  <2>6. saves \in SUBSET Discovery!Saves /\ saves \subseteq ui.saves
    BY <1>4
  <2> HIDE DEF page
  <2>7. \/ s.mode = "top" /\ ui' = [ui EXCEPT !.top = page, !.saves = saves]
        \/ s.mode # "top" /\ ui' = [ui EXCEPT !.secondary = page, !.saves = saves]
    <3>1. CASE s.mode = "top"
      BY <1>1, <2>5, <3>1 DEF Discovery!Put, Discovery!Editors
    <3>2. CASE s.mode # "top"
      BY <1>1, <2>5, <3>2 DEF Discovery!Put, Discovery!Editors
    <3> QED
      BY <3>1, <3>2
  <2> HIDE DEF saves
  <2>8. /\ ui' \in Discovery!Editors
        /\ ui'.mixed = ui.mixed /\ ui'.topic = ui.topic /\ ui'.tags = ui.tags
        /\ ui'.loadingTopic = ui.loadingTopic /\ ui'.saves = saves /\ ui'.tab = ui.tab
        /\ ui'.mode = ui.mode /\ ui'.loading = ui.loading
        /\ s.mode = "top" => ui'.top = page /\ ui'.secondary = ui.secondary
        /\ s.mode # "top" => ui'.top = ui.top /\ ui'.secondary = page
    <3>1. CASE s.mode = "top"
      BY <1>1, <2>3, <2>6, <2>7, <3>1 DEF Discovery!Editors
    <3>2. CASE s.mode # "top"
      BY <1>1, <2>3, <2>6, <2>7, <3>2 DEF Discovery!Editors
    <3> QED
      BY <3>1, <3>2
  <2>9. ~ui'.mixed => /\ \A x \in Discovery!Slugs : second'[x].of = x
                      /\ ~ui'.loading => ui'.top.of = "markets"
                      /\ ui'.topic # None /\ ~ui'.loadingTopic => ui'.secondary.of = ui'.topic
    BY <1>2, <2>1, <2>4, <2>8
  <2>10. ~ui'.mixed => \A x \in ui'.saves : /\ x.mode = "top" => x.slug = "markets"
                                            /\ x.mode # "top" => x.slug = ui'.topic
                                            /\ x.kind = "layout" /\ ~x.got => x.body.of = x.slug
    BY <1>2, <2>6, <2>8
  <2> QED
    BY <1>1, <2>1, <2>8, <2>9, <2>10, DiscoveryFrom
<1>6. CASE Discovery!SaveFailed
  <2>1. PICK s \in ui.saves : ui' = [ui EXCEPT !.saves = ui.saves \ {s}] /\ second' = second
    BY <1>6 DEF Discovery!SaveFailed, Discovery!Edit
  <2> DEFINE saves == ui.saves \ {s}
  <2>2. saves \in SUBSET Discovery!Saves /\ saves \subseteq ui.saves
    BY <1>4
  <2> HIDE DEF saves
  <2>3. /\ ui' \in Discovery!Editors
        /\ ui'.mixed = ui.mixed /\ ui'.topic = ui.topic /\ ui'.tags = ui.tags
        /\ ui'.loadingTopic = ui.loadingTopic /\ ui'.saves = saves /\ ui'.tab = ui.tab
        /\ ui'.mode = ui.mode /\ ui'.loading = ui.loading
        /\ ui'.top = ui.top /\ ui'.secondary = ui.secondary
    BY <1>1, <2>1, <2>2 DEF Discovery!Editors, saves
  <2>4. ~ui'.mixed => /\ \A x \in Discovery!Slugs : second'[x].of = x
                      /\ ~ui'.loading => ui'.top.of = "markets"
                      /\ ui'.topic # None /\ ~ui'.loadingTopic => ui'.secondary.of = ui'.topic
    BY <1>2, <2>1, <2>3
  <2>5. ~ui'.mixed => \A x \in ui'.saves : /\ x.mode = "top" => x.slug = "markets"
                                           /\ x.mode # "top" => x.slug = ui'.topic
                                           /\ x.kind = "layout" /\ ~x.got => x.body.of = x.slug
    BY <1>2, <2>2, <2>3
  <2> QED
    BY <1>1, <2>1, <2>3, <2>4, <2>5, DiscoveryFrom
<1> QED
  BY <1>5, <1>6

(* Every step of the editor keeps its invariant. *)
LEMMA DiscoveryNextInv ==
    ASSUME Discovery!ConstantsOK, Discovery!DiscoveryInv, [Discovery!Next]_<<ui, second>>
    PROVE  Discovery!DiscoveryInv'
<1>1. CASE \/ \E mode \in {"top", "secondary"} : Discovery!SelectMode(mode)
           \/ \E tab \in Discovery!EditorTabs : Discovery!SelectTab(tab)
           \/ Discovery!AddPin \/ Discovery!RemovePin \/ Discovery!TypeSearch \/ Discovery!SearchFires
           \/ Discovery!SearchAnswered \/ Discovery!SelectMarket \/ UNCHANGED <<ui, second>>
  BY <1>1, DiscoveryQuietSteps
<1>2. CASE \/ Discovery!TopLoaded \/ Discovery!TagsLoaded \/ Discovery!TopicLoaded
           \/ \E t \in Topics : Discovery!SelectTopic(t)
  BY <1>2, DiscoveryLoads
<1>3. CASE Discovery!SaveLayout \/ Discovery!SavePins
  BY <1>3, DiscoverySaves
<1>4. CASE Discovery!ServerSaves \/ Discovery!SaveAnswered \/ Discovery!SaveFailed
  BY <1>4, DiscoveryServer, DiscoverySaved
<1> QED
  BY <1>1, <1>2, <1>3, <1>4 DEF Discovery!Next
-----------------------------------------------------------------------------
(* The texts of the site. *)
LEMMA CmsInitInv == Cms!ConstantsOK /\ Cms!Init => Cms!CmsInv
<1> SUFFICES ASSUME Cms!ConstantsOK, Cms!Init
             PROVE  Cms!CmsInv
  OBVIOUS
<1>1. PICK k \in Cms!Kinds :
        ui = [kind |-> k, loading |-> TRUE, version |-> 0, revision |-> None, typed |-> FALSE,
              requests |-> {}]
  BY DEF Cms!Init
<1>2. second = [row |-> ui.kind = "home", version |-> 1, revision |-> 0]
  BY DEF Cms!Init
<1> QED
  BY <1>1, <1>2 DEF Cms!CmsInv, Cms!TypeOK, Cms!Fields, Cms!Contents, Cms!VersionsTell, Cms!Knows,
     Cms!Preview, Cms!PreviewImage, Cms!Shown, Cms!ConstantsOK

(* A step of the form alone, that takes its version from what the server keeps, from an answer *)
(* or from the form.                                                                           *)
LEMMA CmsForms ==
    ASSUME Cms!ConstantsOK, Cms!CmsInv, UNCHANGED second, ui' \in Cms!Fields, Cms!Knows(ui', second),
           \A r \in ui'.requests : r \in ui.requests \/ (r.got = None /\ Cms!Knows(r, second))
    PROVE  Cms!CmsInv'
<1>2. ui'.version <= second.version /\ ui'.version \in Nat
  BY DEF Cms!Knows, Cms!Fields
<1>3. Cms!TypeOK'
  BY <1>2 DEF Cms!CmsInv, Cms!TypeOK, Cms!Preview, Cms!PreviewImage, Cms!Shown, Cms!Contents
<1>4. Cms!VersionsTell'
  BY DEF Cms!CmsInv, Cms!VersionsTell, Cms!Knows
<1> QED
  BY <1>3, <1>4 DEF Cms!CmsInv

(* The content changes: no version that anyone holds is the new one, unless it is 1. *)
LEMMA CmsChanges ==
    ASSUME Cms!ConstantsOK, Cms!CmsInv, second.revision < MaxRevision,
           second' = Cms!Changed(second)
    PROVE  /\ second' \in Cms!Contents /\ second'.version >= 1 /\ second'.version >= second.version
           /\ second'.revision <= MaxRevision /\ second'.version <= second'.revision + 1
           /\ second'.row
           /\ \A x : x.version \in Nat /\ Cms!Knows(x, second) => Cms!Knows(x, second')
           /\ Cms!Knows(second', second')
<1> USE DEF Cms!CmsInv, Cms!TypeOK
<1>0. /\ second.version \in Nat /\ second.revision \in Nat /\ second.row \in BOOLEAN
      /\ ~second.row => second.version = 1
  BY DEF Cms!Contents, Cms!VersionsTell
<1>3. second' \in Cms!Contents
  BY <1>0 DEF Cms!Changed, Cms!Contents
<1>1. CASE second.row
  <2>1. second' = [row |-> TRUE, revision |-> second.revision + 1, version |-> second.version + 1]
    BY <1>1 DEF Cms!Changed
  <2> QED
    BY <1>0, <1>1, <2>1, <1>3 DEF Cms!Knows, Cms!ConstantsOK
<1>2. CASE ~second.row
  <2>1. second' = [row |-> TRUE, revision |-> second.revision + 1, version |-> 1]
    BY <1>2 DEF Cms!Changed
  <2> QED
    BY <1>0, <1>2, <2>1, <1>3 DEF Cms!Knows, Cms!ConstantsOK
<1> QED
  BY <1>0, <1>1, <1>2

LEMMA CmsNextInv ==
    Cms!ConstantsOK /\ Cms!CmsInv /\ [Cms!Next]_<<ui, second>> => Cms!CmsInv'
<1> SUFFICES ASSUME Cms!ConstantsOK, Cms!CmsInv, [Cms!Next]_<<ui, second>>
             PROVE  Cms!CmsInv'
  OBVIOUS
<1>0. ui \in Cms!Fields /\ second \in Cms!Contents /\ Cms!Knows(ui, second) /\ Cms!Knows(second, second)
  BY DEF Cms!CmsInv, Cms!TypeOK, Cms!VersionsTell, Cms!Knows, Cms!Contents
<1>1. ASSUME NEW k \in Cms!Kinds, Cms!Loaded(k)
      PROVE  Cms!CmsInv'
  <2>1. CASE ui' = [Cms!Filled(ui, second) EXCEPT !.loading = FALSE]
    <3>1. ui' = [ui EXCEPT !.version = second.version, !.revision = second.revision,
                           !.typed = FALSE, !.loading = FALSE]
      BY <1>0, <2>1 DEF Cms!Filled, Cms!Fields
    <3>2. ui' \in Cms!Fields /\ Cms!Knows(ui', second)
      BY <1>0, <3>1 DEF Cms!Fields, Cms!Knows, Cms!Contents
    <3> QED
      BY <1>0, <1>1, <3>1, <3>2, CmsForms DEF Cms!Loaded, Cms!Form, Cms!Fields
  <2>2. CASE ui' = [ui EXCEPT !.loading = FALSE]
    <3>1. ui' \in Cms!Fields /\ Cms!Knows(ui', second)
      BY <1>0, <2>2 DEF Cms!Fields, Cms!Knows
    <3> QED
      BY <1>0, <1>1, <2>2, <3>1, CmsForms DEF Cms!Loaded, Cms!Form, Cms!Fields
  <2> QED
    BY <1>1, <2>1, <2>2 DEF Cms!Loaded, Cms!Form
<1>2. CASE Cms!Switch
  <2>1. ui' = [ui EXCEPT !.typed = TRUE] /\ UNCHANGED second
    BY <1>2 DEF Cms!Switch, Cms!Form
  <2>2. ui' \in Cms!Fields /\ Cms!Knows(ui', second)
    BY <1>0, <2>1 DEF Cms!Fields, Cms!Knows
  <2> QED
    BY <1>0, <2>1, <2>2, CmsForms DEF Cms!Fields
<1>3. ASSUME NEW what \in {"save", "upload"}, Cms!Ask(what)
      PROVE  Cms!CmsInv'
  <2> DEFINE r == [what |-> what, version |-> ui.version, revision |-> ui.revision, got |-> None]
             requests == ui.requests \union {r}
  <2>1. r \in Cms!Requests /\ r.got = None /\ Cms!Knows(r, second)
    BY <1>0 DEF Cms!Fields, Cms!Requests, Cms!Knows
  <2>2. ui' = [ui EXCEPT !.requests = requests] /\ UNCHANGED second
    BY <1>3 DEF Cms!Ask, Cms!Form
  <2> HIDE DEF r
  <2>3. requests \in SUBSET Cms!Requests /\ \A x \in requests : x \in ui.requests \/ x = r
    BY <1>0, <2>1 DEF Cms!Fields
  <2> HIDE DEF requests
  <2>4. ui' \in Cms!Fields /\ Cms!Knows(ui', second) /\ ui'.requests = requests
    BY <1>0, <2>2, <2>3 DEF Cms!Fields, Cms!Knows
  <2> QED
    BY <2>1, <2>2, <2>3, <2>4, CmsForms
<1>4. CASE Cms!OtherAdminSaves
  <2>1. second.revision < MaxRevision /\ second' = Cms!Changed(second) /\ ui' = ui
    BY <1>4 DEF Cms!OtherAdminSaves
  <2>2. \A r \in ui.requests : r.version \in Nat /\ (r.got # None => r.got.version \in Nat)
    BY <1>0 DEF Cms!Fields, Cms!Requests, Cms!Contents
  <2>3. ui.version \in Nat /\ second.version \in Nat /\ second'.version \in Nat
    BY <1>0, <2>1, CmsChanges DEF Cms!Fields, Cms!Contents
  <2>4. Cms!TypeOK'
    BY <2>1, <2>3, CmsChanges DEF Cms!CmsInv, Cms!TypeOK, Cms!Preview, Cms!PreviewImage, Cms!Shown
  <2>5. Cms!VersionsTell'
    BY <2>1, <2>2, <2>3, CmsChanges DEF Cms!CmsInv, Cms!VersionsTell
  <2> QED
    BY <2>4, <2>5 DEF Cms!CmsInv
<1>5. ASSUME NEW r \in ui.requests, Cms!ServerTakes(r)
      PROVE  Cms!CmsInv'
  <2> DEFINE new == [r EXCEPT !.got = second']
             requests == (ui.requests \ {r}) \union {new}
  <2>1. /\ second.revision < MaxRevision /\ second' = Cms!Changed(second)
        /\ ui' = [ui EXCEPT !.requests = requests]
    BY <1>5 DEF Cms!ServerTakes
  <2>2. r \in Cms!Requests /\ Cms!Knows(r, second)
    BY <1>0 DEF Cms!Fields, Cms!CmsInv, Cms!VersionsTell
  <2>3. second' \in Cms!Contents
    BY <2>1, CmsChanges
  <2>4. /\ new \in Cms!Requests /\ new.got = second' /\ new.version = r.version
        /\ new.revision = r.revision
    BY <2>2, <2>3 DEF Cms!Requests
  <2> HIDE DEF new
  <2>5. requests \in SUBSET Cms!Requests /\ \A x \in requests : x \in ui.requests \/ x = new
    BY <1>0, <2>4 DEF Cms!Fields
  <2> HIDE DEF requests
  <2>6. ui' \in Cms!Fields /\ ui'.version = ui.version /\ ui'.revision = ui.revision
                           /\ ui'.requests = requests
    BY <1>0, <2>1, <2>5 DEF Cms!Fields
  <2>7. \A x \in ui.requests : x.version \in Nat /\ (x.got # None => x.got.version \in Nat)
    BY <1>0 DEF Cms!Fields, Cms!Requests, Cms!Contents
  <2>8. ui.version \in Nat /\ second.version \in Nat /\ second'.version \in Nat /\ r.version \in Nat
    BY <1>0, <2>2, <2>3 DEF Cms!Fields, Cms!Contents, Cms!Requests
  <2>9. Cms!TypeOK'
    BY <2>1, <2>6, <2>8, CmsChanges
       DEF Cms!CmsInv, Cms!TypeOK, Cms!Preview, Cms!PreviewImage, Cms!Shown
  <2>10. Cms!Knows(new, second') /\ Cms!Knows(new.got, second') /\ Cms!Knows(ui', second')
    <3>1. Cms!Knows(r, second') /\ Cms!Knows(ui, second') /\ Cms!Knows(second', second')
      BY <1>0, <2>1, <2>2, <2>8, CmsChanges
    <3> QED
      BY <2>4, <2>6, <3>1 DEF Cms!Knows
  <2>11. \A x \in ui.requests : Cms!Knows(x, second') /\ (x.got # None => Cms!Knows(x.got, second'))
    BY <2>1, <2>7, CmsChanges DEF Cms!CmsInv, Cms!VersionsTell
  <2>12. Cms!VersionsTell'
    BY <2>1, <2>5, <2>6, <2>10, <2>11, CmsChanges DEF Cms!VersionsTell
  <2> QED
    BY <2>9, <2>12 DEF Cms!CmsInv
<1>6. ASSUME NEW r \in ui.requests, Cms!Answered(r)
      PROVE  Cms!CmsInv'
  <2> DEFINE requests == ui.requests \ {r}
  <2> DEFINE typed == IF ui.kind = "home" THEN ui.typed ELSE FALSE
  <2>1. /\ ui' = [ui EXCEPT !.version = r.got.version, !.revision = r.got.revision,
                            !.typed = typed, !.requests = requests]
        /\ typed \in BOOLEAN
    BY <1>0, <1>6 DEF Cms!Answered, Cms!Form, Cms!Merged, Cms!Filled, Cms!Fields
  <2>2. r.got \in Cms!Contents /\ Cms!Knows(r.got, second) /\ UNCHANGED second
    BY <1>0, <1>6
       DEF Cms!Answered, Cms!Form, Cms!Fields, Cms!Requests, Cms!CmsInv, Cms!VersionsTell
  <2>3. requests \in SUBSET Cms!Requests /\ \A x \in requests : x \in ui.requests
    BY <1>0 DEF Cms!Fields
  <2> HIDE DEF requests, typed
  <2>4. ui' \in Cms!Fields /\ Cms!Knows(ui', second) /\ ui'.requests = requests
    BY <1>0, <2>1, <2>2, <2>3 DEF Cms!Fields, Cms!Knows, Cms!Contents
  <2> QED
    BY <2>2, <2>3, <2>4, CmsForms
<1>7. ASSUME NEW r \in ui.requests, Cms!Failed(r)
      PROVE  Cms!CmsInv'
  <2> DEFINE requests == ui.requests \ {r}
  <2>1. ui' = [ui EXCEPT !.requests = requests] /\ UNCHANGED second
    BY <1>7 DEF Cms!Failed, Cms!Form
  <2>2. requests \in SUBSET Cms!Requests /\ \A x \in requests : x \in ui.requests
    BY <1>0 DEF Cms!Fields
  <2> HIDE DEF requests
  <2>3. ui' \in Cms!Fields /\ Cms!Knows(ui', second) /\ ui'.requests = requests
    BY <1>0, <2>1, <2>2 DEF Cms!Fields, Cms!Knows
  <2> QED
    BY <2>1, <2>2, <2>3, CmsForms
<1>8. CASE UNCHANGED <<ui, second>>
  BY <1>0, <1>8, CmsForms
<1> QED
  BY <1>1, <1>2, <1>3, <1>4, <1>5, <1>6, <1>7, <1>8
     DEF Cms!Next, Cms!Kinds, Cms!LoadShare, Cms!LoadHome, Cms!LoadReporting, Cms!TypeShare,
         Cms!TypeHome, Cms!ToggleReporting, Cms!SaveShare, Cms!SaveHome, Cms!SaveReporting, Cms!Upload

LEMMA CmsSavesWhatItSaw ==
    Cms!ConstantsOK /\ Cms!CmsInv /\ [Cms!Next]_<<ui, second>> => Cms!SavesWhatItSaw
<1> SUFFICES ASSUME Cms!CmsInv, [Cms!Next]_<<ui, second>>,
                    NEW r \in ui.requests, r.what = "save", second' # second, r \notin ui'.requests
             PROVE  r.revision = second.revision \/ r.version = 0 \/ second.version = 1
  BY DEF Cms!SavesWhatItSaw
<1>1. PICK s \in ui.requests : Cms!ServerTakes(s)
  BY DEF Cms!Next, Cms!LoadShare, Cms!LoadHome, Cms!LoadReporting, Cms!Loaded, Cms!TypeShare,
     Cms!TypeHome, Cms!ToggleReporting, Cms!Switch, Cms!SaveShare, Cms!SaveHome, Cms!SaveReporting,
     Cms!Upload, Cms!Ask, Cms!Form, Cms!OtherAdminSaves, Cms!Answered, Cms!Failed
<1>2. ui' = [ui EXCEPT !.requests = (ui.requests \ {s}) \union {[s EXCEPT !.got = second']}]
  BY <1>1 DEF Cms!ServerTakes
<1>3. s = r
  BY <1>2 DEF Cms!CmsInv, Cms!TypeOK, Cms!Fields
<1> QED
  BY <1>1, <1>3 DEF Cms!ServerTakes, Cms!Accepts, Cms!CmsInv, Cms!TypeOK, Cms!VersionsTell, Cms!Knows, Cms!Contents
-----------------------------------------------------------------------------
(* The forms together: one of them runs, and the inductive invariant of each holds while it *)
(* does.                                                                                     *)
FormsInv ==
    /\ form = "buy" => Buy!BuyInv
    /\ form = "sell" => Sell!SellInv
    /\ form = "position" => Position!PositionInv
    /\ form = "modal" => Modal!ModalInv
    /\ form = "resolve" => Resolve!ResolveInv
    /\ form = "settings" => Setting!SettingsInv
    /\ form = "queue" => Queue!QueueInv
    /\ form = "stewards" => Steward!StewardshipInv
    /\ form = "tags" => TheTags!TagsInv
    /\ form = "desk" => Desk!DeskInv
    /\ form = "discovery" => Discovery!DiscoveryInv
    /\ form = "cms" => Cms!CmsInv

(* A step of the whole is a step of the form that runs, or none of it. *)
LEMMA FormsSteps ==
    [Next]_vars =>
        /\ form' = form
        /\ form = "buy" => [Buy!Next]_ui
        /\ form = "sell" => [Sell!Next]_<<ui, second>>
        /\ form = "position" => [Position!Next]_ui
        /\ form = "modal" => [Modal!Next]_ui
        /\ form = "resolve" => [Resolve!Next]_<<ui, second, third>>
        /\ form = "settings" => [Setting!Next]_<<ui, second>>
        /\ form = "queue" => [Queue!Next]_ui
        /\ form = "stewards" => [Steward!Next]_<<ui, second>>
        /\ form = "tags" => [TheTags!Next]_<<ui, second>>
        /\ form = "desk" => [Desk!Next]_<<ui, second>>
        /\ form = "discovery" => [Discovery!Next]_<<ui, second>>
        /\ form = "cms" => [Cms!Next]_<<ui, second>>
<1>1. CASE Next
  BY <1>1 DEF Next
<1>2. CASE UNCHANGED vars
  BY <1>2 DEF vars
<1> QED
  BY <1>1, <1>2

LEMMA FormsInvInit == Init => FormsInv
<1>1. Init /\ form = "buy" => Buy!Init
  BY DEF Init
<1>2. Init /\ form = "sell" => Sell!Init
  BY DEF Init
<1>3. Init /\ form = "position" => Position!Init
  BY DEF Init
<1>4. Init /\ form = "modal" => Modal!Init
  BY DEF Init
<1>5. Init /\ form = "resolve" => Resolve!Init
  BY DEF Init
<1>6. Init /\ form = "settings" => Setting!Init
  BY DEF Init
<1>7. Init /\ form = "queue" => Queue!Init
  BY DEF Init
<1>8. Init /\ form = "stewards" => Steward!Init
  BY DEF Init
<1>9. Init /\ form = "tags" => TheTags!Init
  BY DEF Init
<1>10. Init /\ form = "desk" => Desk!Init
  BY DEF Init
<1>11. Init /\ form = "discovery" => Discovery!Init
  BY DEF Init
<1>12. Init /\ form = "cms" => Cms!Init
  BY DEF Init
<1> QED
  BY <1>1, <1>2, <1>3, <1>4, <1>5, <1>6, <1>7, <1>8, <1>9, <1>10, <1>11, <1>12,
     FormsAssumption, BuyInitInv, SellInitInv, PositionInitInv, ModalInitInv, ResolveInitInv,
     SettingsInitInv, QueueInitInv, StewardInitInv, TagsInitInv, DeskInitInv, DiscoveryInitInv,
     CmsInitInv DEF FormsInv

(* Each form keeps its invariant, and the three that promise something of every step keep that. *)
LEMMA FormsInvStep ==
    ASSUME FormsInv, [Next]_vars
    PROVE  /\ FormsInv'
           /\ form = "sell" => Sell!AmountKept
           /\ form = "resolve" => Resolve!PickedAtOnce /\ Resolve!AloneUngrouped
           /\ form = "settings" => Setting!SavesItsOwn
           /\ form = "cms" => Cms!SavesWhatItSaw
<1>1. form' = form
  BY FormsSteps
<1>2. form = "buy" => Buy!BuyInv'
  BY FormsAssumption, FormsSteps, BuyNextInv DEF FormsInv
<1>3. form = "sell" => Sell!SellInv' /\ Sell!AmountKept
  BY FormsAssumption, FormsSteps, SellNextInv DEF FormsInv
<1>4. form = "position" => Position!PositionInv'
  BY FormsAssumption, FormsSteps, PositionNextInv DEF FormsInv
<1>5. form = "modal" => Modal!ModalInv'
  BY FormsSteps, ModalNextInv DEF FormsInv
<1>6. form = "resolve" => Resolve!ResolveInv' /\ Resolve!PickedAtOnce /\ Resolve!AloneUngrouped
  BY FormsAssumption, FormsSteps, ResolveNextInv DEF FormsInv
<1>7. form = "settings" => Setting!SettingsInv' /\ Setting!SavesItsOwn
  BY FormsAssumption, FormsSteps, SettingsNextInv DEF FormsInv
<1>8. form = "queue" => Queue!QueueInv'
  BY FormsAssumption, FormsSteps, QueueNextInv DEF FormsInv
<1>9. form = "stewards" => Steward!StewardshipInv'
  BY FormsAssumption, FormsSteps, StewardNextInv DEF FormsInv
<1>10. form = "tags" => TheTags!TagsInv'
  BY FormsAssumption, FormsSteps, TagsNextInv DEF FormsInv
<1>11. form = "desk" => Desk!DeskInv'
  BY FormsAssumption, FormsSteps, DeskNextInv DEF FormsInv
<1>12. form = "discovery" => Discovery!DiscoveryInv'
  BY FormsAssumption, FormsSteps, DiscoveryNextInv DEF FormsInv
<1>13. form = "cms" => Cms!CmsInv' /\ Cms!SavesWhatItSaw
  BY FormsAssumption, FormsSteps, CmsNextInv, CmsSavesWhatItSaw DEF FormsInv
<1> QED
  BY <1>1, <1>2, <1>3, <1>4, <1>5, <1>6, <1>7, <1>8, <1>9, <1>10, <1>11, <1>12, <1>13
     DEF FormsInv
-----------------------------------------------------------------------------
(* Whatever form runs, its fields stay in their sets: no request in flight has a number that    *)
(* was not given out, no list holds a row the server does not know.                             *)
THEOREM FormsTypeCorrect == Spec => []TypeOK
<1>1. FormsInv => TypeOK
  BY StewardInvShows, DeskInvShows, TagsInvShows
     DEF FormsInv, TypeOK, Buy!BuyInv, Sell!SellInv, Position!PositionInv, Modal!ModalInv,
         Resolve!ResolveInv, Setting!SettingsInv, Queue!QueueInv, Discovery!DiscoveryInv,
         Cms!CmsInv
<1> QED
  BY <1>1, FormsInvInit, FormsInvStep, PTL DEF Spec

(* BuyForm and TradeModal: two orders of the buy form are under way together only after one was  *)
(* clicked on the success of another, for any number of orders; the form stays frozen only        *)
(* after an exception, and the modal says PURCHASED only after an order, or after a click when     *)
(* the login had ended, which orders nothing.                                                      *)
THEOREM OrdersAreSentOnce == Spec => []OrderedOnce
<1>1. Buy!BuyInv => Buy!OrdersOverlapOnlyAfterSuccess /\ Buy!FrozenOnlyByThrow
  BY DEF Buy!BuyInv, Buy!TypeOK, Buy!Panel, Buy!SubmittingAwaits, Buy!FrozenOnlyByThrow,
         Buy!BuyLabel
<1>2. Modal!ModalInv => Modal!PurchasedOnlyAfterOrder
  BY DEF Modal!ModalInv
<1>3. FormsInv => OrderedOnce
  BY <1>1, <1>2 DEF FormsInv, OrderedOnce
<1> QED
  BY <1>3, FormsInvInit, FormsInvStep, PTL DEF Spec

(* SellForm and TradeModal: a sale is of what a quote allowed, and two are under way together    *)
(* only from two openings, for any number of quotes, loads and openings.                         *)
THEOREM SalesAreSentOnce == Spec => []SoldOnce
<1>1. FormsInv => SoldOnce
  BY DEF FormsInv, SoldOnce, Sell!SellInv, Modal!ModalInv
<1> QED
  BY <1>1, FormsInvInit, FormsInvStep, PTL DEF Spec

(* The projection, the shares and the position that the panel shows are of the picked answer,    *)
(* but for the late answers that the forms' histories name.                                      *)
THEOREM PanelAlwaysFits == Spec => []PanelFits
<1>1. FormsInv => PanelFits
  BY DEF FormsInv, PanelFits, Buy!BuyInv, Sell!SellInv, Position!PositionInv
<1> QED
  BY <1>1, FormsInvInit, FormsInvStep, PTL DEF Spec

(* ReviewQueue: a row is decided twice at once only after a decision of it overlapped another     *)
(* decision, the reload of one or a save of tags, for any number of rows and decisions.           *)
THEOREM TwiceDecidedOnlyAfterMixing == Spec => []TwiceOnlyAfterMixing
<1>1. FormsInv => TwiceOnlyAfterMixing
  BY QueueInvShows DEF FormsInv, TwiceOnlyAfterMixing
<1> QED
  BY <1>1, FormsInvInit, FormsInvStep, PTL DEF Spec

(* ReviewQueue, Stewardship and ReviewDesk: a list at rest is of its search and true of the      *)
(* server, but for the orders of answers that the histories name.                                *)
THEOREM QueuesStayCurrent == Spec => []QueuesAreCurrent
<1>1. FormsInv => QueuesAreCurrent
  BY QueueInvShows, StewardInvShows, DeskInvShows DEF FormsInv, QueuesAreCurrent
<1> QED
  BY <1>1, FormsInvInit, FormsInvStep, PTL DEF Spec

(* DiscoveryEditor and TagDesk: a page is saved under its own topic unless its slot was mixed up   *)
(* before, a market never has more tags than the limit, and a row at rest shows the tags of the    *)
(* server but for lost answers, two saves at once and loads that were overtaken.                   *)
THEOREM SavesAlwaysBelong == Spec => []SavedWhereItBelongs
<1>1. FormsInv => SavedWhereItBelongs
  BY TagsInvShows DEF FormsInv, SavedWhereItBelongs, Discovery!DiscoveryInv
<1> QED
  BY <1>1, FormsInvInit, FormsInvStep, PTL DEF Spec

(* ResolvePage: a group is resolved at once with the winner that was picked, and no option of     *)
(* a group alone, but for a modal confirmed before the page knew of the group.                   *)
THEOREM ResolvesAsPicked == Spec => ResolvedAsPicked
<1>1. FormsInv /\ [Next]_vars
        => [form = "resolve" => Resolve!PickedAtOnce /\ Resolve!AloneUngrouped]_vars
  BY FormsInvStep
<1>2. FormsInv /\ [Next]_vars => FormsInv'
  BY FormsInvStep
<1> QED
  BY <1>1, <1>2, FormsInvInit, PTL DEF Spec, ResolvedAsPicked

(* GovernanceForms, CmsForm and SellForm: a save overwrites nothing its form has not seen, but    *)
(* for the version 0 of a form that failed to load and the defaults at version 1; a poll of the   *)
(* price changes neither the amount to sell nor loads the shares anew.                           *)
THEOREM ChangesAreAlwaysKept == Spec => ChangesAreKept
<1>1. FormsInv /\ [Next]_vars
        => [/\ form = "settings" => Setting!SavesItsOwn
            /\ form = "cms" => Cms!SavesWhatItSaw
            /\ form = "sell" => Sell!AmountKept]_vars
  BY FormsInvStep
<1>2. FormsInv /\ [Next]_vars => FormsInv'
  BY FormsInvStep
<1> QED
  BY <1>1, <1>2, FormsInvInit, PTL DEF Spec, ChangesAreKept
=============================================================================
