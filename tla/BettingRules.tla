---------------------------- MODULE BettingRules ----------------------------
(***************************************************************************)
(* What a bet costs, what a sale pays and the row each of them writes: the  *)
(* rules that the transactions of Betting and the atomic operations of       *)
(* Ledger share (backend/internal/domain/bets).                             *)
(*                                                                         *)
(* The market mathematics is a parameter: Held and Sellable say how many     *)
(* shares a set of bet rows gives a user, and what part of them can be sold. *)
(* The TLC runs instantiate them with PositionMath.                         *)
(***************************************************************************)
EXTENDS SaleMath, Sequences

CONSTANTS Users, Markets,
          BuyRequests,       \* [user, market, outcome, amount]: credits to spend
          SellRequests,      \* [user, market, outcome, amount]: credits asked for
          InitialBalance,    \* [Users -> Int]
          MaxDebt,           \* configuration maximumDebtAllowed
          InitialBetFee,     \* configuration initialBetFee
          BuySharesFee,      \* configuration buySharesFee
          MaxDustPerSale,    \* configuration maxDustPerSale
          MaxStamps,         \* bound: placed_at values handed out
          Held(_, _, _),     \* (rows, user, outcome) -> shares held
          Sellable(_, _, _)  \* (rows, user, outcome) -> [shares, value] sellable now

Outcomes == {"YES", "NO"}
Request  == [user : Users, market : Markets, outcome : Outcomes, amount : Nat \ {0}]
Stamps   == 1..MaxStamps

ASSUME RulesAssumption ==
    /\ \A r \in BuyRequests \union SellRequests : r \in Request
    /\ MaxDebt \in Nat
    /\ InitialBetFee \in Nat
    /\ BuySharesFee \in Nat
    /\ MaxDustPerSale \in Int
    /\ MaxStamps \in Nat

ASSUME BalanceAssumption ==
    /\ InitialBalance \in [Users -> Int]
    /\ \A u \in Users : InitialBalance[u] >= -MaxDebt

(* A market without rows gives nobody shares. *)
ASSUME HeldAssumption == \A u \in Users, o \in Outcomes : Held({}, u, o) = 0

(* A bet row.  placed_at is the model's stamp; fee and delta are not columns: *)
(* they remember the participation fee charged with the row and the change of *)
(* the user's balance the transaction meant to make.                         *)
Row == [user : Users, market : Markets, outcome : Outcomes, amount : Int \ {0},
        placed_at : Stamps, fee : Int, delta : Int]

(* CalculateMarketPositionForUser gives shares only to users with a row in the *)
(* market: to anybody else it answers with an empty position.                *)
OnlyTradersHold(pool) ==
    \A rows \in SUBSET pool, u \in Users, o \in Outcomes :
      (\A row \in rows : row.user # u) => Held(rows, u, o) = 0

IsSale(row) == row.amount < 0

(* The bet table is the sequence of its rows in commit order, so what a        *)
(* statement reads is a prefix of it: the rows of market m among the first k. *)
RowsOf(rows, k, m) == {rows[i] : i \in {j \in 1..k : rows[j].market = m}}

(* Mutant of UserHasBet: a bet in any market counts. *)
UserHasBetAnywhere(rows, u, m) == \E i \in 1..Len(rows) : rows[i].user = u

(* UserHasBet: any row of the user in the market, a sale included. *)
UserHasBet(rows, u, m) == \E i \in 1..Len(rows) : rows[i].user = u /\ rows[i].market = m

(* No sale was committed in market m after the first k rows. *)
NoSaleSince(rows, k, m) ==
    \A i \in (k + 1)..Len(rows) : rows[i].market = m => ~IsSale(rows[i])

(* feeCalculator.Calculate: the participation fee, and the cost of the bet. *)
InitialFee(hasBet) == IF hasBet THEN 0 ELSE InitialBetFee
TotalCost(hasBet, amount) == amount + InitialFee(hasBet) + BuySharesFee

(* Mutant of EnsureSufficient: the cost of this bet is left out. *)
EnsureSolvent(balance, totalCost) == balance >= -MaxDebt

(* balanceGuard.EnsureSufficient. *)
EnsureSufficient(balance, totalCost) == balance - totalCost >= -MaxDebt

(* NewBet with the debit that goes with it. *)
BuyRow(r, hasBet, at) ==
    [user |-> r.user, market |-> r.market, outcome |-> r.outcome, amount |-> r.amount,
     placed_at |-> at, fee |-> InitialFee(hasBet), delta |-> -TotalCost(hasBet, r.amount)]

(* The fields of a UserPosition are int64, whatever the mathematics returns. *)
PositionsAreInts(r, positionRows, sellableRows) ==
    /\ Held(positionRows, r.user, r.outcome) \in Int
    /\ Sellable(sellableRows, r.user, r.outcome) \in [shares : Int, value : Int]

(* The quote of request r from the rows of the two position loads. *)
QuoteFrom(r, positionRows, sellableRows) ==
    ExecutableQuote(Held(positionRows, r.user, r.outcome),
                    Sellable(sellableRows, r.user, r.outcome), r.amount, MaxDustPerSale)

(* NewSaleBet with the credit that goes with it. *)
SaleRow(r, quote, at) ==
    [user |-> r.user, market |-> r.market, outcome |-> r.outcome, amount |-> -quote.shares,
     placed_at |-> at, fee |-> 0, delta |-> NetProceeds(quote)]
=============================================================================
