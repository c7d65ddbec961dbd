------------------------------ MODULE SaleMath ------------------------------
(***************************************************************************)
(* The integer arithmetic of a sale: how a request for credits against a    *)
(* sellable position becomes a number of whole shares, a sale value, a dust  *)
(* fee and the net proceeds credited to the seller                          *)
(* (backend/internal/domain/bets/bet_sell.go).                              *)
(***************************************************************************)
EXTENDS Integers

(* The quote every early return of Quote stands for: no shares change hands. *)
NoQuote == [shares |-> 0, value |-> 0, dust |-> 0, perShare |-> 0]

(* The part of the request the whole shares leave over. *)
RawDust(requested, saleValue) ==
    IF requested < saleValue THEN 0 ELSE requested - saleValue

(* The dust fee charged: the left-over, capped by the configuration. *)
NormalDust(dust, maxDust) ==
    IF dust <= 0 \/ maxDust < 0 THEN 0
    ELSE IF dust > maxDust THEN maxDust ELSE dust

(* saleCalculator.Quote: position value, shares owned, credits requested. *)
Quote(value, owned, requested, maxDust) ==
    IF owned <= 0 \/ value <= 0 THEN NoQuote
    ELSE LET perShare == value \div owned
         IN IF perShare <= 0 \/ requested < perShare THEN NoQuote
            ELSE LET wanted == requested \div perShare
                     shares == IF wanted > owned THEN owned ELSE wanted
                 IN [shares   |-> shares,
                     value    |-> shares * perShare,
                     dust     |-> NormalDust(RawDust(requested, shares * perShare), maxDust),
                     perShare |-> perShare]

(* Mutant of NetProceeds: the dust is paid out instead of kept. *)
GrossProceeds(quote) == quote.value + quote.dust

(* netSaleProceeds: what the seller's balance is credited. *)
NetProceeds(quote) ==
    IF quote.value < quote.dust THEN 0 ELSE quote.value - quote.dust

(* validateSaleWithinSellableInventory, after the quote was computed. *)
WithinInventory(quote, sellableShares, sellableValue) ==
    /\ sellableShares > 0
    /\ sellableValue > 0
    /\ quote.shares > 0
    /\ quote.shares <= sellableShares
    /\ quote.value <= sellableValue

(* sellInTransaction between the position loads and the credit: the sellable  *)
(* shares are capped by the shares held, and a sale that is refused quotes    *)
(* no shares.                                                                *)
ExecutableQuote(held, sellable, requested, maxDust) ==
    LET shares == IF sellable.shares > held THEN held ELSE sellable.shares
        quote  == Quote(sellable.value, shares, requested, maxDust)
    IN IF WithinInventory(quote, shares, sellable.value) THEN quote ELSE NoQuote
=============================================================================
