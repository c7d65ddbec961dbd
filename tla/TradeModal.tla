---------------------------- MODULE TradeModal ----------------------------
(***************************************************************************)
(* The trade modal of the older market pages                                 *)
(* (frontend/src/components/marketDetails/MarketDetailsLayout.jsx): TradeTabs *)
(* with BuySharesLayout and SellSharesLayout.  Only the panel of the active   *)
(* tab is mounted; closing the modal or changing the tab forgets its state     *)
(* but not the requests it sent nor the timers that close the modal.  The      *)
(* login may end while it is open.                                            *)
(***************************************************************************)
EXTENDS Integers

CONSTANTS None,
          MaxMounts,   \* bound on openings and tab changes
          MaxOrders    \* bound on the orders sent

VARIABLE modal

Sides == {"YES", "NO"}

Panels ==
    [tab : {"none", "buy", "sell"}, side : Sides \union {None}, amount : 0..1, terms : BOOLEAN,
     phase : {"idle", "success"}, armed : BOOLEAN, projecting : BOOLEAN, shares : SUBSET Sides,
     loading : BOOLEAN, quote : BOOLEAN \union {None}, failed : BOOLEAN, quoting : BOOLEAN,
     selling : BOOLEAN]

Requests ==
    [kind : {"order", "projection", "load", "quote", "confirm", "sale"}, mount : Nat, id : Nat,
     data : {None} \union [side : Sides, amount : 0..1]]

(* An amount of 0 is what the handlers make of an empty input. *)
Panel(tab, loading) ==
    [tab |-> tab, side |-> None, amount |-> 1, terms |-> FALSE, phase |-> "idle", armed |-> FALSE,
     projecting |-> FALSE, shares |-> {}, loading |-> loading, quote |-> None, failed |-> FALSE,
     quoting |-> FALSE, selling |-> FALSE]

Closed == Panel("none", FALSE)

Init == modal = [panel |-> Closed, token |-> TRUE, mount |-> 0, sent |-> 0, closers |-> 0,
                 refreshes |-> 0, flight |-> {},
                 sentHere |-> FALSE,   \* the panel sent an order,
                 emptied |-> FALSE]    \* or was clicked with no login to send one with

Pending(kind) == {r \in modal.flight : r.kind = kind}
Send(m, r) == [m EXCEPT !.flight = @ \union {r}]
Request(kind, data) == [kind |-> kind, mount |-> modal.mount, id |-> modal.sent, data |-> data]
Here(r) == r.mount = modal.mount

Mount(tab) ==
    LET loads   == tab = "sell" /\ modal.token
        mounted == [modal EXCEPT !.mount = @ + 1, !.sentHere = FALSE, !.emptied = FALSE,
                                 !.panel = Panel(tab, loads)]
    IN  IF loads
        THEN [mounted EXCEPT !.flight = @ \union {[Request("load", None) EXCEPT !.mount = modal.mount + 1]}]
        ELSE mounted

(* The cross of the modal, and the trade button of the page, which needs a login. *)
Close == modal.panel.tab # "none" /\ modal' = [modal EXCEPT !.panel = Closed]
Open  == modal.panel.tab = "none" /\ modal.token /\ modal' = Mount("buy")

SwitchTab(t) == modal.panel.tab \notin {"none", t} /\ modal' = Mount(t)

TransactionSuccess(m) == [m EXCEPT !.panel = Closed, !.refreshes = 1]

(* The login ends wherever it is shown; the panel of sales forgets what was held.  The modal *)
(* covers the page that logs in.                                                              *)
SessionEnds ==
    /\ modal.token
    /\ modal' = IF modal.panel.tab = "sell"
                THEN [modal EXCEPT !.token = FALSE, !.panel.shares = {}, !.panel.side = None,
                                   !.panel.amount = 1, !.panel.quote = None, !.panel.failed = FALSE]
                ELSE [modal EXCEPT !.token = FALSE]

SessionBegins == ~modal.token /\ modal.panel.tab = "none" /\ modal' = [modal EXCEPT !.token = TRUE]
-----------------------------------------------------------------------------
(* BuySharesLayout with ConfirmBetButton.                                    *)
OnBuy == modal.panel.tab = "buy"

ChooseSide(s) == OnBuy /\ modal' = [modal EXCEPT !.panel.side = s, !.panel.terms = FALSE]
TypeBet(n)    == OnBuy /\ modal' = [modal EXCEPT !.panel.amount = n, !.panel.terms = FALSE]
ToggleTerms   == OnBuy /\ modal' = [modal EXCEPT !.panel.terms = ~@, !.panel.projecting = FALSE]

(* MarketProjectionLayout asks on demand, with the button disabled meanwhile. *)
CanProject == modal.panel.terms /\ modal.panel.amount > 0 /\ modal.panel.side # None
UpdateProjection ==
    OnBuy /\ CanProject /\ ~modal.panel.projecting
    /\ modal' = Send([modal EXCEPT !.panel.projecting = TRUE], Request("projection", None))

(* Mutant of ConfirmBet: the animation is scheduled before the order is sent.  *)
ConfirmBetAnimatesFirst ==
    /\ OnBuy /\ modal.token /\ modal.sent < MaxOrders
    /\ LET armed == [modal EXCEPT !.panel.armed = (modal.panel.phase = "idle") \/ @]
       IN  modal' = IF modal.panel.side = None \/ modal.panel.amount < 1 THEN armed
                    ELSE Send([armed EXCEPT !.sent = @ + 1, !.sentHere = TRUE],
                              Request("order", None))

(* handleClick fires the purchase before it looks at its phase, so the button    *)
(* never refuses a click; a bad order throws in placeBet and nothing follows.     *)
ConfirmBet ==
    /\ OnBuy /\ modal.token /\ modal.sent < MaxOrders
    /\ modal.panel.side # None /\ modal.panel.amount >= 1
    /\ modal' = Send([modal EXCEPT !.sent = @ + 1, !.sentHere = TRUE,
                                   !.panel.armed = (modal.panel.phase = "idle") \/ @],
                     Request("order", None))

(* Without a login nothing is sent, and the button shows its success all the same. *)
ConfirmUnsent ==
    /\ OnBuy /\ ~modal.token
    /\ modal' = [modal EXCEPT !.emptied = TRUE, !.panel.armed = (modal.panel.phase = "idle") \/ @]

(* 180 ms after the click the button says PURCHASED, 2.8 s after it is idle.      *)
ShowPurchased == modal.panel.armed
    /\ modal' = [modal EXCEPT !.panel.armed = FALSE, !.panel.phase = "success"]
PhaseResets   == modal.panel.phase = "success" /\ modal' = [modal EXCEPT !.panel.phase = "idle"]

(* An accepted order closes the modal 1.8 s later, whichever is open by then.     *)
OrderAnswered ==
    \E r \in Pending("order"), ok \in BOOLEAN :
        modal' = [modal EXCEPT !.flight = @ \ {r}, !.closers = IF ok THEN @ + 1 ELSE @]

CloserFires ==
    modal.closers > 0 /\ modal' = TransactionSuccess([modal EXCEPT !.closers = @ - 1])

RefetchData == modal.refreshes > 0 /\ modal' = [modal EXCEPT !.refreshes = 0]
-----------------------------------------------------------------------------
(* SellSharesLayout.                                                         *)
OnSell == modal.panel.tab = "sell"

(* One share of a side is worth a credit; a set names the sides the user holds.  *)
LoadAnswered ==
    \E r \in Pending("load"), sides \in SUBSET Sides, ok \in BOOLEAN :
        modal' = LET done == [modal EXCEPT !.flight = @ \ {r}]
                     only == IF \E s \in Sides : sides = {s} THEN CHOOSE s \in sides : TRUE ELSE None
                 IN  IF ~Here(r) \/ ~OnSell THEN done
                     ELSE [done EXCEPT !.panel.shares = IF ok THEN sides ELSE {},
                                       !.panel.side = IF ok THEN only ELSE None,
                                       !.panel.amount = 1, !.panel.loading = FALSE]

(* Mutant of ActionDisabled: a sale under way disables nothing. *)
ActionDisabledOnQuote == modal.panel.loading \/ modal.panel.quoting

ActionDisabled == modal.panel.loading \/ modal.panel.selling \/ modal.panel.quoting

TypeSale(n) ==
    /\ OnSell /\ modal.panel.shares # {} /\ ~ActionDisabled
    /\ modal' = [modal EXCEPT !.panel.amount = n, !.panel.quote = None, !.panel.failed = FALSE]

Quoting(side, amount) ==
    Send([modal EXCEPT !.panel.side = side, !.panel.amount = amount, !.panel.quoting = TRUE,
                       !.panel.failed = FALSE],
         Request("quote", [side |-> side, amount |-> amount]))

Terms(s) ==
    /\ OnSell /\ s \in modal.panel.shares /\ ~ActionDisabled
    /\ modal' = Quoting(s, modal.panel.amount)

(* The suggestions of a refused quote stay clickable while a sale is under way.   *)
SelectSuggested ==
    /\ OnSell /\ modal.panel.shares # {} /\ modal.panel.quote = FALSE
    /\ ~modal.panel.quoting /\ ~modal.panel.failed /\ modal.panel.side # None
    /\ modal' = Quoting(modal.panel.side, 1)

QuoteAnswered ==
    \E r \in Pending("quote"), quote \in BOOLEAN \union {None} :
        modal' = LET done == [modal EXCEPT !.flight = @ \ {r}]
                 IN  IF ~Here(r) \/ ~OnSell THEN done
                     ELSE [done EXCEPT !.panel.quote = quote, !.panel.quoting = FALSE,
                                       !.panel.failed = (quote = None)]

ConfirmSale(s) ==
    /\ OnSell /\ s \in modal.panel.shares /\ ~ActionDisabled
    /\ modal' = Send([modal EXCEPT !.panel.side = s, !.panel.selling = TRUE],
                     Request("confirm", [side |-> s, amount |-> modal.panel.amount]))

(* The quote of the sale: refused, failed (as for an amount below 1) or allowed,  *)
(* and then the sale is sent even if its panel has gone.                          *)
ConfirmAnswered ==
    \E r \in Pending("confirm"), quote \in BOOLEAN \union {None} :
        LET done == [modal EXCEPT !.flight = @ \ {r}]
            seen == IF Here(r) /\ OnSell
                    THEN [done EXCEPT !.panel.selling = (quote = TRUE),
                                      !.panel.quote = IF quote = None THEN @ ELSE quote,
                                      !.panel.failed = (quote = None) \/ @]
                    ELSE done
        IN  /\ r.data.amount < 1 => quote = None
            /\ modal' = IF quote = TRUE THEN Send(seen, [r EXCEPT !.kind = "sale"]) ELSE seen

SaleAnswered ==
    \E r \in Pending("sale"), ok \in BOOLEAN :
        LET done == [modal EXCEPT !.flight = @ \ {r}]
        IN  modal' = IF ok THEN TransactionSuccess(done)
                     ELSE IF Here(r) /\ OnSell
                     THEN [done EXCEPT !.panel.selling = FALSE, !.panel.failed = TRUE]
                     ELSE done

ProjectionAnswered ==
    \E r \in Pending("projection") :
        modal' = [modal EXCEPT !.flight = @ \ {r}, !.panel.projecting = IF Here(r) THEN FALSE ELSE @]

Next ==
    \/ Close \/ (modal.mount < MaxMounts /\ Open) \/ SessionEnds \/ SessionBegins
    \/ \E t \in {"buy", "sell"} : modal.mount < MaxMounts /\ SwitchTab(t)
    \/ \E s \in Sides : ChooseSide(s) \/ Terms(s) \/ ConfirmSale(s)
    \/ \E n \in 0..1 : TypeBet(n) \/ TypeSale(n)
    \/ ToggleTerms \/ UpdateProjection \/ ConfirmBet \/ ConfirmUnsent \/ ShowPurchased \/ PhaseResets
    \/ SelectSuggested \/ OrderAnswered \/ CloserFires \/ RefetchData
    \/ LoadAnswered \/ QuoteAnswered \/ ConfirmAnswered \/ SaleAnswered \/ ProjectionAnswered

Spec == Init /\ [][Next]_modal
-----------------------------------------------------------------------------
(* The fields stay in their sets; every request knows the panel that sent it. *)
TypeOK ==
    /\ modal \in [panel : Panels, token : BOOLEAN, mount : Nat, sent : Nat, closers : Nat,
                  refreshes : 0..1, flight : SUBSET Requests, sentHere : BOOLEAN, emptied : BOOLEAN]
    /\ \A r \in modal.flight : r.mount <= modal.mount

(* PURCHASED is shown before the answer, but only after this panel sent an order, for a *)
(* click that throws schedules no success, or after a click once the login had ended,      *)
(* which sends nothing and does not throw.                                                *)
PurchasedOnlyAfterOrder == modal.panel.phase = "success" => modal.sentHere \/ modal.emptied

Sales == Pending("confirm") \union Pending("sale")

(* Two sales are under way at once only if their panels were different mounts:    *)
(* within one, neither a suggestion nor a failed quote lets a second one start.   *)
SalesOverlapOnlyAcrossMounts == \A r, s \in Sales : r.mount = s.mount => r = s

(* What makes them inductive: the panel that sold is disabled, and the timer of the  *)
(* animation was armed by such a click.                                            *)
SellingWhileSold    == OnSell => \A r \in Sales : Here(r) => modal.panel.selling
ArmedOnlyAfterOrder   == modal.panel.armed => modal.sentHere \/ modal.emptied

ModalInv ==
    /\ TypeOK
    /\ PurchasedOnlyAfterOrder /\ ArmedOnlyAfterOrder
    /\ SalesOverlapOnlyAcrossMounts /\ SellingWhileSold
=============================================================================
