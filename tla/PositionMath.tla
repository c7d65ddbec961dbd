---------------------------- MODULE PositionMath ----------------------------
(***************************************************************************)
(* Positions, valuations and unlocked inventory of one binary market,       *)
(* derived from its bet rows: WPAM probabilities, DBPM payouts, netting,    *)
(* valuation adjustment and the unlocked-lot replay                         *)
(* (backend/internal/domain/math/...).                                     *)
(*                                                                         *)
(* A row is [user, amount, outcome]; a buy has amount > 0 in credits, a     *)
(* sale amount < 0 in shares.  The rows of a market are the sequence in     *)
(* placed_at order.  The code works in float64; here every probability is   *)
(* the exact fraction, so the model agrees with the code except where a     *)
(* float rounding error straddles a half.                                  *)
(*                                                                         *)
(* Each stage of the pipeline is an operator of the values of the stages    *)
(* before it: TLC evaluates an argument once, a LET name at every use.      *)
(***************************************************************************)
EXTENDS Integers, SequencesExt, FiniteSetsExt, Functions

CONSTANT Subsidization   \* WPAM seed weight; the position calculator's is 1

ASSUME SubsidizationAssumption == Subsidization \in Nat \ {0}

OtherOutcome == [YES |-> "NO", NO |-> "YES"]

(* The function f: TLC tabulates it for the comparison, and evaluates it once. *)
Table(f) == IF f = f THEN f ELSE f

SumUpTo(f(_), n) ==
    LET sum[i \in 0..n] == IF i = 0 THEN 0 ELSE sum[i - 1] + f(i) IN sum[n]

(* math.Round of the fraction n / d, d > 0: half away from zero. *)
RoundDiv(n, d) ==
    IF n >= 0 THEN (2 * n + d) \div (2 * d) ELSE -((d - 2 * n) \div (2 * d))

AbsInt(n) == IF n < 0 THEN -n ELSE n
NonNeg(n) == IF n < 0 THEN 0 ELSE n

-----------------------------------------------------------------------------
(* GetMarketVolume: the sum of the row amounts, sales included. *)
Stake(rows, i)    == SumUpTo(LAMBDA j : rows[j].amount, i)
Volume(rows)      == Stake(rows, Len(rows))
YesStake(rows, i) ==
    SumUpTo(LAMBDA j : IF rows[j].outcome = "YES" THEN rows[j].amount ELSE 0, i)

(* Mutant of Probabilities: the seed is missing from the denominator. *)
UnseededProbabilities(rows) ==
    Table([i \in 0..Len(rows) |-> [num |-> Subsidization + 2 * YesStake(rows, i),
                                   den |-> Stake(rows, i)]])

(* CalculateMarketProbabilitiesWPAM with initial probability 1/2: after row i *)
(* the probability is num / (2 * den).                                       *)
Probabilities(rows) ==
    Table([i \in 0..Len(rows) |-> [num |-> Subsidization + 2 * YesStake(rows, i),
                                   den |-> Subsidization + Stake(rows, i)]])

(* singleCreditYesNoAllocator: a volume of one share goes to the side with  *)
(* the larger exposure.                                                     *)
SingleCredit(yes, no, o) ==
    IF (o = "YES" /\ yes > no) \/ (o = "NO" /\ no > yes) THEN 1 ELSE 0

(* The weight of outcome o at probability p, over 2 * p.den. *)
Weight(p, o) == IF o = "YES" THEN p.num ELSE 2 * p.den - p.num

(* DivideUpMarketPoolSharesDBPM: the shares of outcome o in the pool. *)
PoolShares(volume, yes, last, o) ==
    IF volume = 1 THEN SingleCredit(yes, volume - yes, o)
    ELSE RoundDiv(volume * Weight(last, o), 2 * last.den)

(* The least common denominator of the course payouts. *)
Lcm(m, n) == (m \div Max({d \in 1..n : m % d = 0 /\ n % d = 0})) * n

CommonDen(probs, n) == FoldLeft(Lcm, 1, [i \in 1..n |-> probs[i].den])

(* CalculateCoursePayoutsDBPM, times 2 * last.den and the common denominator: *)
(* |current - at placement| * amount.  The factor cancels when normalised.    *)
CoursePayouts(rows, probs, last, common) ==
    Table([i \in 1..Len(rows) |->
        AbsInt(last.num * probs[i].den - probs[i].num * last.den)
          * rows[i].amount * (common \div probs[i].den)])

(* What the rows of outcome o add up to in a payout table. *)
SideTotal(rows, payouts, o) ==
    SumUpTo(LAMBDA i : IF rows[i].outcome = o THEN payouts[i] ELSE 0, Len(rows))

(* CalculateScaledPayoutsDBPM with the normalisation factors: a side whose   *)
(* course payouts do not sum to a positive number is scaled to zero.         *)
ScalePayout(payout, total, shares) ==
    IF total <= 0 THEN 0 ELSE RoundDiv(payout * AbsInt(shares), total)

ScaledPayouts(rows, course, total, shares) ==
    Table([i \in 1..Len(rows) |->
        ScalePayout(course[i], total[rows[i].outcome], shares[rows[i].outcome])])

(* AdjustPayouts: spread the difference to the volume over the rows; a       *)
(* surplus is taken back from the newest, a shortfall given to the oldest.   *)
AdjustPayouts(scaled, excess, n) ==
    Table([i \in 1..n |->
        IF excess > 0
        THEN scaled[i] - (excess \div n) - (IF i > n - (excess % n) THEN 1 ELSE 0)
        ELSE scaled[i] + ((-excess) \div n) + (IF i <= (-excess) % n THEN 1 ELSE 0)])

PayoutsFromScaled(rows, scaled) ==
    AdjustPayouts(scaled, SumUpTo(LAMBDA i : scaled[i], Len(rows)) - Volume(rows), Len(rows))

PayoutsFromCourse(rows, course, last) ==
    PayoutsFromScaled(rows,
        ScaledPayouts(rows, course,
            Table([o \in {"YES", "NO"} |-> SideTotal(rows, course, o)]),
            Table([o \in {"YES", "NO"} |->
                PoolShares(Volume(rows), YesStake(rows, Len(rows)), last, o)])))

PayoutsFrom(rows, probs) ==
    PayoutsFromCourse(rows,
        CoursePayouts(rows, probs, probs[Len(rows)], CommonDen(probs, Len(rows))),
        probs[Len(rows)])

(* The final payout of every row (CalculateBetPayouts). *)
FinalPayouts(rows) == PayoutsFrom(rows, Probabilities(rows))

-----------------------------------------------------------------------------
RowUsers(rows) == {rows[i].user : i \in 1..Len(rows)}

(* AggregateUserPayoutsDBPM: payouts of the user on one side, not negative. *)
GrossShares(rows, payouts, u, o) ==
    NonNeg(SumUpTo(LAMBDA i : IF rows[i].user = u /\ rows[i].outcome = o THEN payouts[i] ELSE 0,
                   Len(rows)))

(* NetAggregateMarketPositions: [user -> [outcome -> shares]]. *)
NetFrom(users, gross) ==
    Table([u \in users |-> [o \in {"YES", "NO"} |-> NonNeg(gross[u][o] - gross[u][OtherOutcome[o]])]])

NetPositions(rows, payouts) ==
    NetFrom(RowUsers(rows),
            Table([u \in RowUsers(rows) |->
                Table([o \in {"YES", "NO"} |-> GrossShares(rows, payouts, u, o)])]))

NetShares(rows) == NetPositions(rows, FinalPayouts(rows))

(* PositionValue, rounded: resolution is "none" while the market is open. *)
PositionValue(shares, last, resolution) ==
    CASE resolution = "none" ->
           IF shares["YES"] > 0 THEN RoundDiv(shares["YES"] * last.num, 2 * last.den)
           ELSE RoundDiv(shares["NO"] * Weight(last, "NO"), 2 * last.den)
      [] resolution \in {"YES", "NO"} -> shares[resolution]
      [] OTHER -> 0

FirstRow(rows, u) == Min({i \in 1..Len(rows) : rows[i].user = u})

(* targetValuationPool: the shares outstanding, the volume once resolved. *)
TargetPool(rows, net, resolution) ==
    IF resolution # "none" THEN Volume(rows)
    ELSE MapThenSumSet(LAMBDA u : net[u]["YES"] + net[u]["NO"], RowUsers(rows))

(* The order of adjustment: larger value first, then the earlier first row. *)
Before(raw, first, u, v) == raw[u] > raw[v] \/ (raw[u] = raw[v] /\ first[u] < first[v])

(* Mutant of RoundRobin: the remainder is lost. *)
EvenShare(delta, winners, raw, first, u) == AbsInt(delta) \div Cardinality(winners)

(* The credits user u gets of |delta| handed out one by one to the winners. *)
RoundRobin(delta, winners, raw, first, u) ==
    AbsInt(delta) \div Cardinality(winners)
      + (IF Cardinality({v \in winners : Before(raw, first, v, u)})
              < AbsInt(delta) % Cardinality(winners) THEN 1 ELSE 0)

Sign(n) == IF n < 0 THEN -1 ELSE 1

(* AdjustUserValuationsToTarget: only users with a positive raw value take    *)
(* part.                                                                     *)
AdjustBy(raw, winners, delta, first) ==
    Table([u \in DOMAIN raw |->
        IF winners = {} THEN raw[u]
        ELSE IF u \notin winners THEN 0
        ELSE raw[u] + Sign(delta) * RoundRobin(delta, winners, raw, first, u)])

AdjustAmong(raw, winners, target, first) ==
    AdjustBy(raw, winners, target - MapThenSumSet(LAMBDA u : raw[u], winners), first)

AdjustToTarget(raw, target, first) ==
    AdjustAmong(raw, {u \in DOMAIN raw : raw[u] > 0}, target, first)

(* CalculateRoundedUserValuationsFromUserMarketPositions. *)
ValuationsFrom(rows, net, last, resolution) ==
    AdjustToTarget(Table([u \in RowUsers(rows) |-> PositionValue(net[u], last, resolution)]),
                   TargetPool(rows, net, resolution),
                   Table([u \in RowUsers(rows) |-> FirstRow(rows, u)]))

LastProbability(rows) == Probabilities(rows)[Len(rows)]

Valuations(rows, resolution) ==
    ValuationsFrom(rows, NetShares(rows), LastProbability(rows), resolution)

(* CalculateMarketPositionForUser: a user without a row has nothing. *)
PositionFrom(rows, net, u, resolution) ==
    IF u \notin RowUsers(rows) THEN [YES |-> 0, NO |-> 0, value |-> 0]
    ELSE [YES   |-> net[u]["YES"],
          NO    |-> net[u]["NO"],
          value |-> ValuationsFrom(rows, net, LastProbability(rows), resolution)[u]]

Position(rows, u, resolution) == PositionFrom(rows, NetShares(rows), u, resolution)

-----------------------------------------------------------------------------
(* deriveRemainingUnlockedShares: own buys become lots, a later buy of       *)
(* another user unlocks every lot so far, an own sale consumes unlocked lots *)
(* in order.  A consumed lot holds 0, so the consume head needs no variable. *)
LeftToConsume(lots, k, shares) == NonNeg(shares - SumUpTo(LAMBDA j : lots[j], k - 1))

ConsumeLots(lots, end, shares) ==
    [k \in 1..Len(lots) |->
       IF k > end THEN lots[k] ELSE NonNeg(lots[k] - LeftToConsume(lots, k, shares))]

(* Mutant of ReplayRow: the user's own buys unlock too. *)
ReplayRowSelfUnlocking(lotState, row, payout, u, o) ==
    IF row.user # u
    THEN IF row.amount > 0 THEN [lotState EXCEPT !.end = Len(lotState.lots)] ELSE lotState
    ELSE IF row.outcome = o /\ row.amount > 0 /\ payout > 0
         THEN [lots |-> Append(lotState.lots, payout), end |-> Len(lotState.lots) + 1]
    ELSE IF row.outcome = o /\ row.amount < 0
         THEN [lotState EXCEPT !.lots = ConsumeLots(@, lotState.end, -row.amount)]
    ELSE lotState

ReplayRow(lotState, row, payout, u, o) ==
    IF row.user # u
    THEN IF row.amount > 0 THEN [lotState EXCEPT !.end = Len(lotState.lots)] ELSE lotState
    ELSE IF row.outcome = o /\ row.amount > 0 /\ payout > 0
         THEN [lotState EXCEPT !.lots = Append(@, payout)]
    ELSE IF row.outcome = o /\ row.amount < 0
         THEN [lotState EXCEPT !.lots = ConsumeLots(@, lotState.end, -row.amount)]
    ELSE lotState

Unlocked(lotState) == SumUpTo(LAMBDA k : lotState.lots[k], lotState.end)

UnlockedFrom(rows, payouts, u, o) ==
    Unlocked(FoldLeft(LAMBDA acc, i : ReplayRow(acc, rows[i], payouts[i], u, o),
                      [lots |-> <<>>, end |-> 0],
                      [i \in 1..Len(rows) |-> i]))

UnlockedShares(rows, u, o) == UnlockedFrom(rows, FinalPayouts(rows), u, o)

(* CalculateUnlockedSellablePosition: shares and value of outcome o that     *)
(* user u may sell now.                                                     *)
SellableFrom(held, value, unlocked) ==
    IF held <= 0 \/ value <= 0 \/ unlocked <= 0 THEN [shares |-> 0, value |-> 0]
    ELSE [shares |-> Min({unlocked, held}),
          value  |-> Min({Min({unlocked, held}) * (value \div held), value})]

SellableOf(rows, current, payouts, u, o) ==
    SellableFrom(current[o], current.value, UnlockedFrom(rows, payouts, u, o))

SellableGiven(rows, payouts, u, o) ==
    SellableOf(rows, PositionFrom(rows, NetPositions(rows, payouts), u, "none"), payouts, u, o)

SellablePosition(rows, u, o) == SellableGiven(rows, FinalPayouts(rows), u, o)
=============================================================================
