----------------------------- MODULE MCBetting -----------------------------
(***************************************************************************)
(* Betting on small instances: the market mathematics is PositionMath with  *)
(* the position calculator's seed of 1, on the rows in placed_at order.      *)
(***************************************************************************)
EXTENDS Betting, TLC

PM == INSTANCE PositionMath WITH Subsidization <- 1
SQ == INSTANCE SequencesExt

History(rows) == SQ!SetToSortSeq(rows, LAMBDA r, s : r.placed_at < s.placed_at)

MCHeld(rows, u, o) == PM!Position(History(rows), u, "none")[o]
MCSellable(rows, u, o) ==
    IF rows = {} THEN [shares |-> 0, value |-> 0] ELSE PM!SellablePosition(History(rows), u, o)

(* A stand-in for the liveness run, where TLC evaluates ENABLED and a deep     *)
(* computation is out of reach: one share per credit, worth one, all of them   *)
(* sellable.  It answers some requests with a sale and refuses others.        *)
OneShareHeld(rows, u, o) ==
    MapThenSumSet(LAMBDA r : IF r.user = u /\ r.outcome = o THEN r.amount ELSE 0, rows)
OneShareSellable(rows, u, o) ==
    [shares |-> OneShareHeld(rows, u, o), value |-> OneShareHeld(rows, u, o)]

CONSTANTS alice, bob, m1, m2

Req(u, m, o, a) == [user |-> u, market |-> m, outcome |-> o, amount |-> a]

MCBuyRequests  == {Req(alice, m1, "YES", 1), Req(alice, m1, "YES", 2), Req(bob, m1, "NO", 1)}
MCSellRequests == {Req(alice, m1, "YES", 1), Req(alice, m1, "YES", 2)}

(* Two markets: alice's requests in both compete for her balance. *)
MCTwoMarketBuys  == {Req(alice, m1, "YES", 1), Req(bob, m1, "NO", 1), Req(alice, m2, "NO", 2)}

(* The liveness run: a placement and a sale of one user, and another user. *)
MCLiveBuys  == {Req(alice, m1, "YES", 2), Req(bob, m1, "NO", 1)}
MCLiveSells == {Req(alice, m1, "YES", 1)}

MCInitialBalance == [u \in Users |-> 1]

(* What the proofs assume of the market mathematics, on the rows of a small    *)
(* market: two bets of alice and one of bob, and a sale of each.              *)
SampleRows ==
    {BuyRow(Req(alice, m1, "YES", 2), FALSE, 1), BuyRow(Req(bob, m1, "NO", 1), FALSE, 2),
     BuyRow(Req(alice, m1, "NO", 1), TRUE, 3),
     [BuyRow(Req(alice, m1, "YES", 1), TRUE, 4) EXCEPT !.amount = -1],
     [BuyRow(Req(bob, m1, "NO", 1), TRUE, 5) EXCEPT !.amount = -1]}

ASSUME SampleAssumption == OnlyTradersHold(SampleRows)

WorkerSymmetry == Permutations(Workers)
=============================================================================
