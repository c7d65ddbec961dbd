----------------------------- MODULE SellForm -----------------------------
(***************************************************************************)
(* The sell side of MultiChoiceTradePanel                                    *)
(* (frontend/src/components/testmarketdetails/TestMarketDetailsLayout.jsx).  *)
(*                                                                         *)
(* Six kinds of request are in flight here: the load of the shares when the  *)
(* tab or the answer changes, the refresh and the requote a live price        *)
(* triggers, the quote the user asks for, and the quote and the sale behind   *)
(* the confirm button.  Only the two of the live price are cancelled.         *)
(*                                                                         *)
(* The server holds the shares; a share is worth one credit.                 *)
(***************************************************************************)
EXTENDS Integers

CONSTANTS Answers,    \* market ids of the answers
          None,
          MaxHeld,    \* bound on the shares of a side
          StartHeld,  \* the shares of a side the user may start with
          MaxLoads    \* bound on tab and answer changes that load shares

VARIABLES sell, held

vars == <<sell, held>>

Sides   == {"YES", "NO"}
Amounts == 0..(2 * MaxHeld)
Sales   == [answer : Answers, side : Sides, amount : Amounts]
Held    == [Sides -> 0..MaxHeld]

Shares == [of : Answers \union {None}, kind : {"none", "load", "refresh"}, load : Nat, n : Held]
Loads  == [kind : {"load", "refresh"}, answer : Answers, load : Nat]
Quotes == [kind : {"requote", "quote", "confirm"}, of : Sales]
Sold   == [kind : {"sale"}, of : Sales, quoted : Sales]

Forms ==
    [open : BOOLEAN, tab : {"buy", "sell"}, answer : Answers, shares : Shares, loading : BOOLEAN,
     loads : Nat, side : Sides, amount : Amounts, quote : BOOLEAN \union {None},
     quoting : BOOLEAN, selling : BOOLEAN, flight : SUBSET (Loads \union Quotes \union Sold)]

ConstantsOK == Answers # {} /\ MaxHeld \in Nat \ {0} /\ StartHeld \subseteq 0..MaxHeld

NoShares == [of |-> None, kind |-> "none", load |-> 0, n |-> [s \in Sides |-> 0]]

Owned(side)    == sell.shares.n[side]
TotalValue(n)  == n["YES"] + n["NO"]

(* sideSellable || value: a side without sellable value falls back on the whole. *)
SellableOf(n, side) == IF n[side] > 0 THEN n[side] ELSE TotalValue(n)
MaxSellCredits == SellableOf(sell.shares.n, sell.side)

Pending(kind) == {r \in sell.flight : r.kind = kind}
Without(form, kinds) == [form EXCEPT !.flight = {r \in @ : r.kind \notin kinds}]
Send(form, r)  == [form EXCEPT !.flight = @ \union {r}]
SaleData == [answer |-> sell.answer, side |-> sell.side, amount |-> sell.amount]

Init ==
    /\ held \in [Answers -> [Sides -> StartHeld]]
    /\ sell = [open |-> TRUE, tab |-> "buy", answer |-> CHOOSE a \in Answers : TRUE,
               shares |-> NoShares, loading |-> FALSE, loads |-> 0,
               side |-> "YES", amount |-> 1, quote |-> None, quoting |-> FALSE,
               selling |-> FALSE, flight |-> {}]

(* MCNormalizeShares of what fetchUserShares returns for a load or a refresh. *)
SharesFrom(r) == [of |-> r.answer, kind |-> r.kind, load |-> r.load, n |-> held[r.answer]]

(* Mutant of LoadEffect: the effect does not run again for another answer. *)
LoadEffectOnTab(form) ==
    IF form.tab = sell.tab THEN form
    ELSE IF form.tab # "sell" THEN [form EXCEPT !.shares = NoShares, !.quote = None]
    ELSE Send([form EXCEPT !.loading = TRUE, !.loads = @ + 1],
              [kind |-> "load", answer |-> form.answer, load |-> form.loads + 1])

(* The load effect, run when the tab or the answer changed; it cancels nothing. *)
LoadEffect(form) ==
    IF form.tab = sell.tab /\ form.answer = sell.answer THEN form
    ELSE IF form.tab # "sell" THEN [form EXCEPT !.shares = NoShares, !.quote = None]
    ELSE Send([form EXCEPT !.loading = TRUE, !.loads = @ + 1],
              [kind |-> "load", answer |-> form.answer, load |-> form.loads + 1])

SwitchTab(t) ==
    /\ sell.open /\ sell.loads < MaxLoads
    /\ sell' = LoadEffect([sell EXCEPT !.tab = t])
    /\ UNCHANGED held

(* Mutant of PriceCleanup: the refresh of the old answer still lands. *)
PriceCleanupNever(form) == form

(* The cleanup of the price effect: a new answer or price cancels what it asked. *)
PriceCleanup(form) == Without(form, {"refresh", "requote"})

(* handleSelect: the load effect runs, the price effect only cleans up. *)
Select(a) ==
    /\ sell.open /\ sell.loads < MaxLoads
    /\ LET chosen == [sell EXCEPT !.answer = a, !.quote = None]
       IN  sell' = LoadEffect(IF a = sell.answer THEN chosen ELSE PriceCleanup(chosen))
    /\ UNCHANGED held

(* A click on the chart selects the answer and leaves a quote on screen. *)
SelectOnChart(a) ==
    /\ sell.loads < MaxLoads /\ a # sell.answer
    /\ sell' = LoadEffect(PriceCleanup([sell EXCEPT !.answer = a]))
    /\ UNCHANGED held

(* The market closed or was resolved: the form goes, what is in flight stays. *)
PollEnd == sell.open /\ sell' = [sell EXCEPT !.open = FALSE] /\ UNCHANGED held

LoadAnswered ==
    /\ \E r \in Pending("load"), ok \in BOOLEAN :
           LET done == [sell EXCEPT !.flight = @ \ {r}, !.loading = FALSE]
               side == IF held[r.answer]["YES"] >= 1 \/ held[r.answer]["NO"] < 1
                       THEN "YES" ELSE "NO"
               worth == SellableOf(held[r.answer], side)
           IN  sell' = IF ok
                       THEN [done EXCEPT !.shares = SharesFrom(r), !.side = side,
                                         !.amount = IF worth < 1 THEN 1 ELSE worth,
                                         !.quote = None]
                       ELSE [done EXCEPT !.shares = NoShares]
    /\ UNCHANGED held

(* The live price of the selected answer moved. *)
PollPrice ==
    /\ LET clean == PriceCleanup(sell)
           refreshed == Send(clean, [kind |-> "refresh", answer |-> sell.answer,
                                     load |-> sell.loads])
       IN  sell' = IF sell.tab # "sell" THEN clean
                   ELSE IF sell.quote = None \/ sell.selling THEN refreshed
                   ELSE Send(refreshed, [kind |-> "requote", of |-> SaleData])
    /\ UNCHANGED held

RefreshAnswered ==
    /\ \E r \in Pending("refresh"), ok \in BOOLEAN :
           sell' = [sell EXCEPT !.flight = @ \ {r},
                                !.shares = IF ok THEN SharesFrom(r) ELSE @]
    /\ UNCHANGED held

(* A requote that fails leaves the quote on screen. *)
RequoteAnswered ==
    /\ \E r \in Pending("requote"), quote \in BOOLEAN \union {sell.quote} :
           sell' = [sell EXCEPT !.flight = @ \ {r}, !.quote = quote]
    /\ UNCHANGED held

(* What the sell tab renders: the inputs and buttons only for loaded shares. *)
FormShown ==
    /\ sell.open /\ sell.tab = "sell" /\ ~sell.loading
    /\ Owned("YES") >= 1 \/ Owned("NO") >= 1

ChooseSide(s) ==
    /\ FormShown /\ Owned("YES") >= 1 /\ Owned("NO") >= 1
    /\ sell' = [sell EXCEPT !.side = s, !.quote = None, !.amount = 1]
    /\ UNCHANGED held

(* Mutant of Capped: the input does not know what can be sold. *)
CappedNever(n) == n

Capped(n) == IF MaxSellCredits > 0 /\ n > MaxSellCredits THEN MaxSellCredits ELSE n

TypeAmount(n) ==
    /\ FormShown
    /\ sell' = [sell EXCEPT !.amount = Capped(n), !.quote = None]
    /\ UNCHANGED held

(* The plus and minus buttons of AmountInput leave a quote on screen. *)
StepAmount ==
    /\ FormShown
    /\ \/ sell' = [sell EXCEPT !.amount = Capped(@ + 1)]
       \/ sell' = [sell EXCEPT !.amount = IF @ <= 2 THEN 1 ELSE @ - 1]
    /\ UNCHANGED held

(* A refused quote offers amounts that would be accepted. *)
SelectSuggested(n) ==
    /\ FormShown /\ ~sell.quoting /\ sell.quote = FALSE
    /\ sell' = [sell EXCEPT !.amount = n, !.quote = None]
    /\ UNCHANGED held

(* Mutant of SellActionDisabled: a sale under way does not disable the buttons. *)
SellActionDisabledOnQuote == sell.loading \/ sell.quoting

SellActionDisabled == sell.loading \/ sell.selling \/ sell.quoting

RequestQuote ==
    /\ FormShown /\ ~SellActionDisabled
    /\ sell' = Send([sell EXCEPT !.quoting = TRUE], [kind |-> "quote", of |-> SaleData])
    /\ UNCHANGED held

QuoteAnswered ==
    /\ \E r \in Pending("quote"), quote \in BOOLEAN \union {None} :
           sell' = [sell EXCEPT !.flight = @ \ {r}, !.quote = quote, !.quoting = FALSE]
    /\ UNCHANGED held

(* handleSell captures what is sold, asks for its quote and sells if allowed. *)
ConfirmSale ==
    /\ FormShown /\ ~SellActionDisabled
    /\ sell' = Send([sell EXCEPT !.selling = TRUE], [kind |-> "confirm", of |-> SaleData])
    /\ UNCHANGED held

(* Mutant of Submitted: what is sold is read from the form after the quote. *)
SubmittedFromForm(r) == SaleData

Submitted(r) == r.of

(* quoteSale rejects an amount below 1 before it is sent. *)
ConfirmAnswered ==
    /\ \E r \in Pending("confirm") :
           LET done == [sell EXCEPT !.flight = @ \ {r}]
           IN  \/ sell' = [done EXCEPT !.selling = FALSE]
               \/ r.of.amount >= 1 /\ sell' = [done EXCEPT !.selling = FALSE, !.quote = FALSE]
               \/ /\ r.of.amount >= 1
                  /\ sell' = Send([done EXCEPT !.quote = TRUE],
                                  [kind |-> "sale", of |-> Submitted(r), quoted |-> r.of])
    /\ UNCHANGED held

SaleDone ==
    \E r \in Pending("sale") :
        /\ held' = [held EXCEPT ![r.of.answer][r.of.side] =
                        IF r.of.amount > @ THEN 0 ELSE @ - r.of.amount]
        /\ sell' = [sell EXCEPT !.flight = @ \ {r}, !.shares = NoShares, !.amount = 1,
                                !.quote = None, !.selling = FALSE]

SaleFailed ==
    /\ \E r \in Pending("sale") : sell' = [sell EXCEPT !.flight = @ \ {r}, !.selling = FALSE]
    /\ UNCHANGED held

UserEdits ==
    \/ \E s \in Sides : ChooseSide(s)
    \/ \E n \in Amounts : TypeAmount(n) \/ SelectSuggested(n)
    \/ StepAmount

Next ==
    \/ \E t \in {"buy", "sell"} : SwitchTab(t)
    \/ \E a \in Answers : Select(a) \/ SelectOnChart(a)
    \/ PollEnd
    \/ UserEdits \/ RequestQuote \/ ConfirmSale \/ PollPrice
    \/ LoadAnswered \/ RefreshAnswered \/ RequoteAnswered \/ QuoteAnswered
    \/ ConfirmAnswered \/ SaleDone \/ SaleFailed

Spec == Init /\ [][Next]_vars
-----------------------------------------------------------------------------
(* The fields stay in their sets and every request carries a sale or an answer. *)
TypeOK == sell \in Forms /\ held \in [Answers -> Held]

(* What is sold is what a quote just allowed, whatever the user selected, typed  *)
(* or switched to between the click and the quote.                              *)
SaleAsQuoted == \A r \in Pending("sale") : r.of = r.quoted /\ r.of.amount >= 1

(* At most one sale is being confirmed or executed, across answers and tabs, and *)
(* a sale under way keeps the buttons disabled.                                  *)
OneSaleAtATime ==
    /\ \A r, s \in Pending("confirm") \union Pending("sale") : r = s
    /\ Pending("confirm") \union Pending("sale") # {} => sell.selling

(* Shares of another answer are on the form only if the load of that answer was  *)
(* overtaken by a later one; a refresh of the live price never brings them.       *)
ForeignSharesOnlyByLateLoad ==
    sell.tab = "sell" /\ ~sell.loading /\ sell.shares.of \notin {None, sell.answer}
        => sell.shares.kind = "load" /\ sell.shares.load < sell.loads

(* What makes it inductive: the latest load of the sell tab and every refresh are of the  *)
(* answer that is selected.                                                              *)
LoadsAreOfTheAnswer ==
    /\ \A r \in Pending("load") :
           /\ r.load <= sell.loads
           /\ sell.tab = "sell" /\ r.load = sell.loads => r.answer = sell.answer
    /\ \A r \in Pending("refresh") : r.answer = sell.answer

SellInv ==
    /\ TypeOK /\ SaleAsQuoted /\ OneSaleAtATime
    /\ ForeignSharesOnlyByLateLoad /\ LoadsAreOfTheAnswer

(* "a poll alone doesn't reset what the user typed": only the user, the answer to  *)
(* a load that a tab or answer change sent, or the end of the own sale change it.  *)
AmountKept ==
    /\ sell'.amount # sell.amount => UserEdits \/ LoadAnswered \/ SaleDone
    /\ sell'.loads # sell.loads => sell'.tab # sell.tab \/ sell'.answer # sell.answer
=============================================================================
