---------------------------- MODULE MarketHistory ----------------------------
(***************************************************************************)
(* The bet history of one open market under one request at a time: buys     *)
(* append a row of credits, sales append a row of shares priced by the       *)
(* position mathematics.  Betting.tla models the same requests as            *)
(* concurrent transactions; here the subject is what a long legal history    *)
(* does to the numbers.                                                      *)
(***************************************************************************)
EXTENDS PositionMath

CONSTANTS Traders,         \* users who buy and sell
          BuyAmounts,      \* credits of a buy
          SellRequests,    \* credits asked for in a sale
          MaxDustPerSale,  \* configuration maxDustPerSale
          MaxRows          \* bound on the length of the history

ASSUME HistoryAssumption ==
    /\ BuyAmounts \subseteq Nat \ {0}
    /\ SellRequests \subseteq Nat \ {0}
    /\ MaxDustPerSale \in Int
    /\ MaxRows \in Nat

SM == INSTANCE SaleMath

VARIABLES rows,   \* the market's bet rows in placed_at order
          cash    \* credits debited for buys minus credits paid for sales

vars == <<rows, cash>>

Outcomes == {"YES", "NO"}

Init == rows = <<>> /\ cash = 0

(* The prices of the history are numbers: every denominator the WPAM formula   *)
(* divided by was positive.  Past that the code divides by zero in floating   *)
(* point and converts the result to int64, and the model stops.              *)
Priced(history) == \A i \in 1..Len(history) : Subsidization + Stake(history, i) > 0

Buy(u, o, a) ==
    /\ Len(rows) < MaxRows
    /\ rows' = Append(rows, [user |-> u, amount |-> a, outcome |-> o])
    /\ cash' = cash + a

(* The sale the code executes for this request; no shares when it refuses. *)
QuoteFor(history, u, o, credits) ==
    SM!ExecutableQuote(Position(history, u, "none")[o], SellablePosition(history, u, o),
                       credits, MaxDustPerSale)

(* Mutant of Execute: a refused quote is written as a row of no shares. *)
ExecuteAnything(u, o, quote) ==
    /\ rows' = Append(rows, [user |-> u, amount |-> -quote.shares, outcome |-> o])
    /\ cash' = cash - SM!NetProceeds(quote)

(* The proceeds leave the market; the dust stays in it. *)
Execute(u, o, quote) ==
    /\ quote.shares > 0
    /\ rows' = Append(rows, [user |-> u, amount |-> -quote.shares, outcome |-> o])
    /\ cash' = cash - SM!NetProceeds(quote)

Sell(u, o, credits) ==
    /\ 0 < Len(rows) /\ Len(rows) < MaxRows
    /\ Execute(u, o, QuoteFor(rows, u, o, credits))

Next ==
    /\ Priced(rows)
    /\ \E u \in Traders, o \in Outcomes :
         \/ \E a \in BuyAmounts : Buy(u, o, a)
         \/ \E c \in SellRequests : Sell(u, o, c)

Spec == Init /\ [][Next]_vars

-----------------------------------------------------------------------------
IsBuy(row)    == row.amount > 0
Live          == rows # <<>> /\ Priced(rows)
NoSaleYet     == \A i \in DOMAIN rows : IsBuy(rows[i])
Worth(result) == MapThenSumSet(LAMBDA u : Valuations(rows, result)[u], RowUsers(rows))

(* Rows are buys of credits or sales of at least one share. *)
TypeOK ==
    /\ rows \in Seq([user : Traders, amount : Int \ {0}, outcome : Outcomes])
    /\ cash \in Int

(* However the rounding falls, what the positions are worth adds up: to the    *)
(* outstanding shares while the market is open, to the whole volume once it    *)
(* is resolved; unless nobody has a position of positive value, and then       *)
(* nothing is handed out (adjust_valuation.go).                               *)
ValuationsFillThePool ==
    Live => \A result \in {"none", "YES", "NO"} :
      \/ \A u \in RowUsers(rows) : Valuations(rows, result)[u] <= 0
      \/ Worth(result) = TargetPool(rows, NetShares(rows), result)

(* Whatever was sold before, a sale is only ever executed by a user who bought *)
(* that outcome and after whose purchase somebody else bought: nobody cashes   *)
(* out against a market they alone have moved (sellable.go).                  *)
SalesSellUnlockedLots ==
    \A i \in DOMAIN rows : ~IsBuy(rows[i]) =>
      \E j \in 1..i, k \in 1..i :
        /\ j < k /\ IsBuy(rows[j]) /\ IsBuy(rows[k])
        /\ rows[j].user = rows[i].user /\ rows[j].outcome = rows[i].outcome
        /\ rows[k].user # rows[i].user

(* As long as nobody has sold, the price is a probability, no position has a   *)
(* negative value in the open market, and what the positions are worth under  *)
(* either result is covered by the credits in the market.  Sales end all of   *)
(* this (see the last section).                                              *)
SoundWhileOnlyBuys ==
    (Live /\ NoSaleYet) =>
      /\ 0 < LastProbability(rows).num
      /\ LastProbability(rows).num < 2 * LastProbability(rows).den
      /\ \A u \in RowUsers(rows) : Valuations(rows, "none")[u] >= 0
      /\ \A result \in {"YES", "NO"} : Worth(result) <= cash

(* A sale never pays the seller more than the seller's position was worth in  *)
(* the same history, though the shares come from the lot replay and the value *)
(* from the valuation.                                                       *)
SalePaysAtMostThePosition ==
    [][\A u \in Traders :
         (Len(rows') = Len(rows) + 1 /\ ~IsBuy(rows'[Len(rows')]) /\ rows'[Len(rows')].user = u)
           => cash - cash' <= Valuations(rows, "none")[u]]_vars

-----------------------------------------------------------------------------
(* What the documentation says, which sales refute. *)

(* "normalized price, between 0 and 1". *)
PriceIsNormalized ==
    Live => /\ 0 <= LastProbability(rows).num
            /\ LastProbability(rows).num <= 2 * LastProbability(rows).den

(* "ensures user values match total market volume": of the markets where       *)
(* anybody has a position of any value, open or resolved.                     *)
ValuesMatchTheVolume ==
    Live => \A result \in {"none", "YES", "NO"} :
      \/ \A u \in RowUsers(rows) : Valuations(rows, result)[u] = 0
      \/ Worth(result) = TargetPool(rows, NetShares(rows), result)

(* "money in = money out + money still retained by the market": a resolution   *)
(* pays out of the credits the market still has.                             *)
ResolutionIsFunded == Live => \A result \in {"YES", "NO"} : Worth(result) <= cash

LastRow == rows'[Len(rows')]

(* "Previously unlocked value must remain executable after a later same-user  *)
(* buy".                                                                     *)
BuyNeverRelocks ==
    [][(Live /\ IsBuy(LastRow) /\ SellablePosition(rows, LastRow.user, LastRow.outcome).shares > 0)
         => SellablePosition(rows', LastRow.user, LastRow.outcome).shares > 0]_vars

(* The traders are interchangeable: ties between them are broken by their       *)
(* first rows, never by their names.                                         *)
TraderSymmetry == Permutations(Traders)
=============================================================================
