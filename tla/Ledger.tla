------------------------------- MODULE Ledger -------------------------------
(***************************************************************************)
(* What placing and selling promise, without workers, locks or transactions: *)
(* a bet is charged and recorded in one step, against the balance and the    *)
(* participation of that moment; a sale is credited and recorded in one      *)
(* step, priced against every earlier sale of its market and against some    *)
(* of the bets.  Betting implements it.                                     *)
(***************************************************************************)
EXTENDS BettingRules

VARIABLES account,    \* [Users -> Int]
          rows,       \* the sequence of bet rows
          lifecycle   \* [Markets -> lifecycle status]

vars == <<account, rows, lifecycle>>

Init ==
    /\ account = InitialBalance
    /\ rows = <<>>
    /\ lifecycle \in [Markets -> {"proposed", "published"}]

FreshStamps == Stamps \ {rows[i].placed_at : i \in DOMAIN rows}

Record(row) ==
    /\ rows' = Append(rows, row)
    /\ account' = [account EXCEPT ![row.user] = @ + row.delta]
    /\ UNCHANGED lifecycle

(* The market is published, or was resolved since the request was let in. *)
Buy(r, at) ==
    LET hasBet == UserHasBet(rows, r.user, r.market)
    IN /\ lifecycle[r.market] \in {"published", "resolved"}
       /\ EnsureSufficient(account[r.user], TotalCost(hasBet, r.amount))
       /\ Record(BuyRow(r, hasBet, at))

(* The position was read when there were j rows and the sellable shares when  *)
(* there were k: bets may have been recorded since, sales may not.           *)
Sell(r, at, j, k) ==
    LET quote == QuoteFrom(r, RowsOf(rows, j, r.market), RowsOf(rows, k, r.market))
    IN /\ j <= k
       /\ lifecycle[r.market] # "resolved"
       /\ NoSaleSince(rows, j, r.market)
       /\ quote.shares > 0
       /\ Record(SaleRow(r, quote, at))

SetLifecycle(m, value) ==
    /\ lifecycle' = [lifecycle EXCEPT ![m] = value]
    /\ UNCHANGED <<account, rows>>

Decide(m)  == lifecycle[m] = "proposed" /\ \E v \in {"published", "rejected"} : SetLifecycle(m, v)
Resolve(m) == SetLifecycle(m, "resolved")

(* rows' # rows comes first so that TLC prices a sale only for a step that     *)
(* records one.                                                              *)
Next ==
    \/ \E r \in BuyRequests, at \in FreshStamps : Buy(r, at)
    \/ /\ rows' # rows
       /\ \E r \in SellRequests, at \in FreshStamps, j, k \in 0..Len(rows) : Sell(r, at, j, k)
    \/ \E m \in Markets : Decide(m) \/ Resolve(m)

Spec == Init /\ [][Next]_vars
=============================================================================
