--------------------------- MODULE BettingProofs ---------------------------
(***************************************************************************)
(* Theorems about Betting for every set of users, markets, requests and     *)
(* workers, every configuration and every market mathematics.              *)
(***************************************************************************)
EXTENDS Betting, ArithmeticProofs

-----------------------------------------------------------------------------
(* The rows that the rules build have the type of a row. *)

LEMMA BuyRowType ==
    ASSUME NEW r \in Request, NEW hasBet \in BOOLEAN, NEW at \in Stamps
    PROVE  BuyRow(r, hasBet, at) \in Row
  BY RulesAssumption DEF BuyRow, Row, Request, InitialFee, TotalCost

LEMMA QuoteFromType ==
    ASSUME NEW r \in Request, NEW position, NEW sellable,
           PositionsAreInts(r, position, sellable)
    PROVE  /\ QuoteFrom(r, position, sellable) \in QuoteType
           /\ QuoteFrom(r, position, sellable).shares > 0
                => QuoteFrom(r, position, sellable).shares <= Held(position, r.user, r.outcome)
  BY RulesAssumption, ExecutableQuoteBounds DEF QuoteFrom, PositionsAreInts, Request

LEMMA SaleRowType ==
    ASSUME NEW r \in Request, NEW quote \in QuoteType, quote.shares > 0, NEW at \in Stamps
    PROVE  SaleRow(r, quote, at) \in Row
  BY NetProceedsBounds DEF SaleRow, Row, Request, QuoteType

-----------------------------------------------------------------------------
(* Type correctness. *)

LEMMA EndRequestType ==
    ASSUME TypeOK, NEW w \in Workers, EndRequest(w)
    PROVE  /\ userLock' \in [Users -> Workers \union {NoWorker}]
           /\ marketLock' \in [Markets -> Workers \union {NoWorker}]
           /\ pc' \in [Workers -> Steps]
           /\ req' \in [Workers -> Request \union {NoRequest}]
           /\ \A v \in Workers : pc'[v] # "idle" => req'[v] \in Request
           /\ \A v \in Workers : Drafted(v)' => draft'[v] \in Row
           /\ loaded' \in [Workers -> Int]
           /\ seen' \in [Workers -> [position : Nat, sellable : Nat]]
           /\ draft' \in [Workers -> Row \union {NoRow}]
  BY DEF TypeOK, EndRequest, Goto, Steps, NothingSeen, Drafted

(* A step of a busy worker to its next statement. *)
LEMMA GotoType ==
    ASSUME TypeOK, NEW w \in Workers, NEW step \in Steps, Goto(w, step),
           pc[w] # "idle", req' = req,
           draft' = draft \/ draft' = [draft EXCEPT ![w] = draft'[w]],
           step \in {"debit", "commitPlace", "credit", "commitSale"} => draft'[w] \in Row
    PROVE  /\ pc' \in [Workers -> Steps]
           /\ \A v \in Workers : pc'[v] # "idle" => req'[v] \in Request
           /\ \A v \in Workers : Drafted(v)' => draft'[v] \in Row
  BY DEF TypeOK, Goto, Drafted

LEMMA RefuseType ==
    ASSUME TypeOK, NEW w \in Workers, Refuse(w)
    PROVE  TypeOK'
  BY EndRequestType DEF TypeOK, Refuse, dbVars, Drafted

LEMMA CommitType ==
    ASSUME TypeOK, NEW w \in Workers, Commit(w), pc[w] \in {"commitPlace", "commitSale"}
    PROVE  TypeOK'
  <1>1. /\ draft[w] \in Row /\ draft[w].delta \in Int
        /\ loaded[w] \in Int /\ balance \in [Users -> Int]
    BY DEF TypeOK, Drafted, Row
  <1>2. bets' \in Seq(Row)
    BY <1>1 DEF TypeOK, Commit
  <1>3. balance' \in [Users -> Int]
    <2> DEFINE credited == loaded[w] + draft[w].delta
    <2>1. credited \in Int
      BY <1>1
    <2>2. balance' = [balance EXCEPT ![req[w].user] = credited]
      BY DEF Commit
    <2> HIDE DEF credited
    <2> QED
      BY <1>1, <2>1, <2>2
  <1> QED
    BY <1>2, <1>3, EndRequestType DEF TypeOK, Commit, Drafted

LEMMA TypeInductive == TypeOK /\ [Next]_vars => TypeOK'
  <1> SUFFICES ASSUME TypeOK, [Next]_vars PROVE TypeOK'
    OBVIOUS
  <1>1. ASSUME NEW w \in Workers, BeginPlace(w) PROVE TypeOK'
    BY <1>1, RulesAssumption DEF TypeOK, BeginPlace, Goto, At, Steps, Drafted, dbVars
  <1>2. ASSUME NEW w \in Workers, BeginSell(w) PROVE TypeOK'
    BY <1>2, RulesAssumption DEF TypeOK, BeginSell, Goto, At, Steps, Drafted, dbVars
  <1>3. ASSUME NEW w \in Workers, PlaceGate(w) PROVE TypeOK'
    <2>1. CASE IsTradable(req[w].market)
      BY <1>3, <2>1 DEF TypeOK, PlaceGate, Goto, At, Steps, PlaceSteps, Drafted, dbVars
    <2> QED
      BY <1>3, <2>1, RefuseType DEF PlaceGate
  <1>4. ASSUME NEW w \in Workers, PlaceLockUser(w) PROVE TypeOK'
    <2>1. req[w].user \in Users
      BY <1>4 DEF TypeOK, PlaceLockUser, At, Request
    <2> QED
      BY <1>4, <2>1 DEF TypeOK, PlaceLockUser, Goto, At, Steps, PlaceSteps, Drafted, dbVars
  <1>5. ASSUME NEW w \in Workers, PlaceHasBet(w) PROVE TypeOK'
    <2> DEFINE hasBet == UserHasBet(bets, req[w].user, req[w].market)
               row    == BuyRow(req[w], hasBet, clock + 1)
    <2>1. CASE EnsureSufficient(loaded[w], TotalCost(hasBet, req[w].amount))
      <3>1. clock' = clock + 1 /\ clock + 1 \in Stamps
        BY <1>5, <2>1, RulesAssumption DEF PlaceHasBet, Stamp, TypeOK, Stamps
      <3>2. req[w] \in Request /\ hasBet \in BOOLEAN /\ pc[w] # "idle"
        BY <1>5 DEF TypeOK, PlaceHasBet, At, UserHasBet
      <3>3. row \in Row
        <4> HIDE DEF hasBet
        <4> QED BY <3>1, <3>2, BuyRowType
      <3>4. /\ draft' = [draft EXCEPT ![w] = row]
            /\ Goto(w, "debit")
            /\ UNCHANGED <<balance, bets, lifecycle, expired, userLock, marketLock,
                           req, loaded, seen>>
        BY <1>5, <2>1 DEF PlaceHasBet, Stamp
      <3> HIDE DEF row
      <3>5. draft' \in [Workers -> Row \union {NoRow}] /\ draft'[w] = row
        BY <3>3, <3>4 DEF TypeOK
      <3>6. clock' \in 0..MaxStamps
        BY <3>1 DEF Stamps
      <3>7. "debit" \in Steps
        BY DEF Steps, PlaceSteps
      <3>8. /\ pc' \in [Workers -> Steps]
            /\ \A v \in Workers : pc'[v] # "idle" => req'[v] \in Request
            /\ \A v \in Workers : Drafted(v)' => draft'[v] \in Row
        BY <3>2, <3>3, <3>4, <3>5, <3>7, GotoType
      <3> QED
        BY <3>4, <3>5, <3>6, <3>8 DEF TypeOK
    <2> QED
      BY <1>5, <2>1, RefuseType DEF PlaceHasBet
  <1>6. ASSUME NEW w \in Workers, PlaceDebit(w) PROVE TypeOK'
    <2>1. req[w].user \in Users
      BY <1>6 DEF TypeOK, PlaceDebit, At, Request
    <2> QED
      BY <1>6, <2>1 DEF TypeOK, PlaceDebit, Goto, At, Steps, PlaceSteps, Drafted, dbVars
  <1>7. ASSUME NEW w \in Workers, PlaceCommit(w) PROVE TypeOK'
    BY <1>7, CommitType DEF PlaceCommit, At
  <1>8. ASSUME NEW w \in Workers, SellGate(w) PROVE TypeOK'
    <2>1. CASE SellGateOpen(req[w].market)
      <3>1. /\ Goto(w, "loadPosition") /\ pc[w] # "idle"
            /\ marketLock' = [marketLock EXCEPT ![req[w].market] = w]
            /\ UNCHANGED <<dbVars, userLock, req, loaded, seen, draft>>
        BY <1>8, <2>1 DEF SellGate, At
      <3>2. "loadPosition" \in Steps
        BY DEF Steps, SellSteps
      <3> QED
        BY <3>1, <3>2, GotoType DEF TypeOK, dbVars
    <2> QED
      BY <1>8, <2>1, RefuseType DEF SellGate
  <1>9. ASSUME NEW w \in Workers,
               SellLoadPosition(w) \/ SellLoadSellable(w)
        PROVE  TypeOK'
    <2>1. PICK step \in {"loadSellable", "quote"} :
            /\ Goto(w, step) /\ pc[w] # "idle"
            /\ \/ seen' = [seen EXCEPT ![w].position = Len(bets)]
               \/ seen' = [seen EXCEPT ![w].sellable = Len(bets)]
            /\ UNCHANGED <<dbVars, userLock, marketLock, req, loaded, draft>>
      BY <1>9 DEF SellLoadPosition, SellLoadSellable, At
    <2>2. step \in Steps
      BY DEF Steps, SellSteps
    <2>3. Len(bets) \in Nat
      BY DEF TypeOK
    <2>4. seen' \in [Workers -> [position : Nat, sellable : Nat]]
      <3>1. seen[w] \in [position : Nat, sellable : Nat]
        BY DEF TypeOK
      <3>2. /\ [seen[w] EXCEPT !.position = Len(bets)] \in [position : Nat, sellable : Nat]
            /\ [seen[w] EXCEPT !.sellable = Len(bets)] \in [position : Nat, sellable : Nat]
        BY <2>3, <3>1
      <3> QED
        BY <2>1, <3>2 DEF TypeOK
    <2> QED
      BY <2>1, <2>2, <2>4, GotoType DEF TypeOK, dbVars
  <1>10. ASSUME NEW w \in Workers, SellQuote(w) PROVE TypeOK'
    <2> DEFINE position == RowsOf(bets, seen[w].position, req[w].market)
               sellable == RowsOf(bets, seen[w].sellable, req[w].market)
               quote    == QuoteFrom(req[w], position, sellable)
               row      == SaleRow(req[w], quote, clock + 1)
    <2>1. CASE quote.shares > 0
      <3>1. clock' = clock + 1 /\ clock + 1 \in Stamps
        BY <1>10, <2>1, RulesAssumption DEF SellQuote, Stamp, TypeOK, Stamps
      <3>2. /\ req[w] \in Request /\ pc[w] # "idle"
            /\ PositionsAreInts(req[w], position, sellable)
        BY <1>10 DEF TypeOK, SellQuote, At
      <3>3. row \in Row
        <4> HIDE DEF position, sellable
        <4>1. quote \in QuoteType
          BY <3>2, QuoteFromType
        <4> HIDE DEF quote
        <4> QED BY <2>1, <3>1, <3>2, <4>1, SaleRowType
      <3>4. /\ draft' = [draft EXCEPT ![w] = row]
            /\ Goto(w, "credit")
            /\ UNCHANGED <<balance, bets, lifecycle, expired, userLock, marketLock,
                           req, loaded, seen>>
        BY <1>10, <2>1 DEF SellQuote, Stamp
      <3> HIDE DEF row
      <3>5. draft' \in [Workers -> Row \union {NoRow}] /\ draft'[w] = row
        BY <3>3, <3>4 DEF TypeOK
      <3>6. clock' \in 0..MaxStamps
        BY <3>1 DEF Stamps
      <3>7. "credit" \in Steps
        BY DEF Steps, SellSteps
      <3>8. /\ pc' \in [Workers -> Steps]
            /\ \A v \in Workers : pc'[v] # "idle" => req'[v] \in Request
            /\ \A v \in Workers : Drafted(v)' => draft'[v] \in Row
        BY <3>2, <3>3, <3>4, <3>5, <3>7, GotoType
      <3> QED
        BY <3>4, <3>5, <3>6, <3>8 DEF TypeOK
    <2> QED
      BY <1>10, <2>1, RefuseType DEF SellQuote
  <1>11. ASSUME NEW w \in Workers, SellCredit(w) PROVE TypeOK'
    <2>1. req[w].user \in Users
      BY <1>11 DEF TypeOK, SellCredit, At, Request
    <2> QED
      BY <1>11, <2>1 DEF TypeOK, SellCredit, Goto, At, Steps, SellSteps, Drafted, dbVars
  <1>12. ASSUME NEW w \in Workers, SellCommit(w) PROVE TypeOK'
    BY <1>12, CommitType DEF SellCommit, At
  <1>13. ASSUME NEW w \in Workers, Rollback(w) PROVE TypeOK'
    BY <1>13, RefuseType DEF Rollback
  <1>14. ASSUME NEW m \in Markets, MarketStep(m) PROVE TypeOK'
    BY <1>14 DEF TypeOK, MarketStep, ApproveMarket, RejectMarket, ResolveMarket,
                 SetLifecycle, Expire, Lifecycle, Drafted
  <1>15. CASE UNCHANGED vars
    BY <1>15 DEF TypeOK, Drafted, vars
  <1> QED
    BY <1>1, <1>2, <1>3, <1>4, <1>5, <1>6, <1>7, <1>8, <1>9, <1>10, <1>11,
       <1>12, <1>13, <1>14, <1>15 DEF Next, WorkerStep, PlaceStep, SellStep

LEMMA TypeInit == Init => TypeOK
  BY RulesAssumption, BalanceAssumption
  DEF Init, TypeOK, Lifecycle, Steps, NothingSeen, Drafted

(* Every reachable state is well typed; in particular a draft that reaches    *)
(* its commit is a row, with an amount that is not zero.                     *)
THEOREM TypeCorrect == Spec => []TypeOK
  BY TypeInit, TypeInductive, PTL DEF Spec

-----------------------------------------------------------------------------
(* Row locks: a transaction past its locking statement holds the row. *)

LEMMA EndRequestFrame ==
    ASSUME TypeOK, NEW w \in Workers, EndRequest(w)
    PROVE  /\ pc'[w] = "idle"
           /\ \A v \in Workers \ {w} :
                /\ pc'[v] = pc[v] /\ req'[v] = req[v] /\ loaded'[v] = loaded[v]
                /\ seen'[v] = seen[v] /\ draft'[v] = draft[v]
                /\ \A u \in Users : userLock[u] = v => userLock'[u] = v
                /\ \A m \in Markets : marketLock[m] = v => marketLock'[m] = v
  BY DEF TypeOK, EndRequest, Goto

LEMMA EndRequestLocks ==
    ASSUME TypeOK, LocksHeld, NEW w \in Workers, EndRequest(w)
    PROVE  LocksHeld'
  <1> SUFFICES ASSUME NEW v \in Workers
               PROVE  /\ HoldsUser(v)' => userLock'[req'[v].user] = v
                      /\ HoldsMarket(v)' => marketLock'[req'[v].market] = v
    BY DEF LocksHeld
  <1>1. CASE v = w
    BY <1>1, EndRequestFrame DEF HoldsUser, HoldsMarket, SellSteps
  <1>2. CASE v # w
    <2>1. pc'[v] = pc[v] /\ req'[v] = req[v]
      BY <1>2, EndRequestFrame
    <2>2. pc[v] # "idle" => req[v].user \in Users /\ req[v].market \in Markets
      BY DEF TypeOK, Request
    <2> QED
      BY <1>2, <2>1, <2>2, EndRequestFrame DEF LocksHeld, HoldsUser, HoldsMarket, SellSteps
  <1> QED
    BY <1>1, <1>2

LEMMA LocksInductive == TypeOK /\ LocksHeld /\ [Next]_vars => LocksHeld'
  <1> SUFFICES ASSUME TypeOK, LocksHeld, [Next]_vars PROVE LocksHeld'
    OBVIOUS
  <1> USE DEF LocksHeld, HoldsUser, HoldsMarket, SellSteps, PlaceSteps
  <1>1. ASSUME NEW w \in Workers, BeginPlace(w) PROVE LocksHeld'
    BY <1>1 DEF TypeOK, BeginPlace, Goto, At
  <1>2. ASSUME NEW w \in Workers, BeginSell(w) PROVE LocksHeld'
    BY <1>2 DEF TypeOK, BeginSell, Goto, At
  <1>3. ASSUME NEW w \in Workers, PlaceGate(w) PROVE LocksHeld'
    BY <1>3, EndRequestLocks DEF TypeOK, PlaceGate, Refuse, Goto, At
  <1>4. ASSUME NEW w \in Workers, PlaceLockUser(w) PROVE LocksHeld'
    BY <1>4, WorkersAssumption DEF TypeOK, PlaceLockUser, Goto, At, Request
  <1>5. ASSUME NEW w \in Workers, PlaceHasBet(w) PROVE LocksHeld'
    BY <1>5, EndRequestLocks DEF TypeOK, PlaceHasBet, Refuse, Goto, At
  <1>6. ASSUME NEW w \in Workers, PlaceDebit(w) PROVE LocksHeld'
    BY <1>6 DEF TypeOK, PlaceDebit, Goto, At
  <1>7. ASSUME NEW w \in Workers, PlaceCommit(w) \/ SellCommit(w) PROVE LocksHeld'
    BY <1>7, EndRequestLocks DEF PlaceCommit, SellCommit, Commit
  <1>8. ASSUME NEW w \in Workers, SellGate(w) PROVE LocksHeld'
    <2>1. CASE SellGateOpen(req[w].market)
      <3>1. /\ pc' = [pc EXCEPT ![w] = "loadPosition"]
            /\ marketLock[req[w].market] = NoWorker
            /\ marketLock' = [marketLock EXCEPT ![req[w].market] = w]
            /\ userLock' = userLock /\ req' = req
        BY <1>8, <2>1 DEF SellGate, Goto
      <3>2. req[w].market \in Markets /\ pc \in [Workers -> Steps]
            /\ marketLock \in [Markets -> Workers \union {NoWorker}]
        BY <1>8 DEF TypeOK, SellGate, At, Request
      <3> QED
        BY <3>1, <3>2, WorkersAssumption
    <2> QED
      BY <1>8, <2>1, EndRequestLocks DEF SellGate, Refuse
  <1>9. ASSUME NEW w \in Workers, SellLoadPosition(w) \/ SellLoadSellable(w) PROVE LocksHeld'
    BY <1>9 DEF TypeOK, SellLoadPosition, SellLoadSellable, Goto, At
  <1>10. ASSUME NEW w \in Workers, SellQuote(w) PROVE LocksHeld'
    BY <1>10, EndRequestLocks DEF TypeOK, SellQuote, Refuse, Goto, At
  <1>11. ASSUME NEW w \in Workers, SellCredit(w) PROVE LocksHeld'
    BY <1>11, WorkersAssumption DEF TypeOK, SellCredit, Goto, At, Request
  <1>12. ASSUME NEW w \in Workers, Rollback(w) PROVE LocksHeld'
    BY <1>12, EndRequestLocks DEF Rollback, Refuse
  <1>13. ASSUME NEW m \in Markets, MarketStep(m) PROVE LocksHeld'
    BY <1>13 DEF MarketStep, ApproveMarket, RejectMarket, ResolveMarket, SetLifecycle, Expire
  <1>14. CASE UNCHANGED vars
    BY <1>14 DEF vars
  <1> QED
    BY <1>1, <1>2, <1>3, <1>4, <1>5, <1>6, <1>7, <1>8, <1>9, <1>10, <1>11, <1>12,
       <1>13, <1>14 DEF Next, WorkerStep, PlaceStep, SellStep

-----------------------------------------------------------------------------
(* What a step leaves alone. *)

CommitStep(w) == PlaceCommit(w) \/ SellCommit(w)

LEMMA StepFrame ==
    ASSUME TypeOK, NEW w \in Workers, WorkerStep(w)
    PROVE  /\ \A v \in Workers \ {w} :
                /\ pc'[v] = pc[v] /\ req'[v] = req[v] /\ loaded'[v] = loaded[v]
                /\ seen'[v] = seen[v] /\ draft'[v] = draft[v]
           /\ lifecycle' = lifecycle
           /\ CommitStep(w) \/ (balance' = balance /\ bets' = bets)
  <1>1. CASE BeginPlace(w)
    BY <1>1 DEF TypeOK, BeginPlace, Goto, dbVars
  <1>2. CASE BeginSell(w)
    BY <1>2 DEF TypeOK, BeginSell, Goto, dbVars
  <1>3. CASE Refuse(w)
    BY <1>3, EndRequestFrame DEF Refuse, dbVars
  <1>4. CASE PlaceGate(w) \/ PlaceLockUser(w) \/ PlaceHasBet(w) \/ PlaceDebit(w)
    BY <1>3, <1>4 DEF TypeOK, PlaceGate, PlaceLockUser, PlaceHasBet, PlaceDebit, Stamp, Goto, dbVars
  <1>5. CASE SellGate(w) \/ SellLoadPosition(w) \/ SellLoadSellable(w)
    BY <1>3, <1>5 DEF TypeOK, SellGate, SellLoadPosition, SellLoadSellable, Goto, dbVars
  <1>6. CASE SellQuote(w) \/ SellCredit(w)
    BY <1>3, <1>6 DEF TypeOK, SellQuote, SellCredit, Stamp, Goto, dbVars
  <1>7. CASE CommitStep(w)
    BY <1>7, EndRequestFrame DEF CommitStep, PlaceCommit, SellCommit, Commit
  <1> QED
    BY <1>1, <1>2, <1>3, <1>4, <1>5, <1>6, <1>7
    DEF WorkerStep, PlaceStep, SellStep, Rollback, CommitStep

LEMMA AppendRow ==
    ASSUME NEW rows \in Seq(Row), NEW row \in Row
    PROVE  /\ Len(Append(rows, row)) = Len(rows) + 1
           /\ \A i \in 1..Len(rows) : Append(rows, row)[i] = rows[i]
           /\ Append(rows, row)[Len(rows) + 1] = row
           /\ DOMAIN rows = 1..Len(rows)
           /\ DOMAIN Append(rows, row) = 1..(Len(rows) + 1)
  OBVIOUS

LEMMA RowFields ==
    ASSUME TypeOK
    PROVE  \A i \in DOMAIN bets : bets[i].market \in Markets /\ bets[i].placed_at \in Nat
  <1>1. bets \in Seq(Row)
    BY DEF TypeOK
  <1>2. \A i \in DOMAIN bets : bets[i] \in Row
    BY <1>1
  <1>3. \A row \in Row : row.market \in Markets /\ row.placed_at \in Nat
    BY RulesAssumption DEF Row, Stamps
  <1> QED
    BY <1>2, <1>3

(* A row of another user does not change whether a user takes part. *)
LEMMA HasBetFrame ==
    ASSUME NEW rows \in Seq(Row), NEW row \in Row, NEW u, NEW m, row.user # u
    PROVE  UserHasBet(Append(rows, row), u, m) = UserHasBet(rows, u, m)
  BY AppendRow DEF UserHasBet

(* What has been read of the table stays what it was. *)
LEMMA RowsOfFrame ==
    ASSUME NEW rows \in Seq(Row), NEW row \in Row, NEW m,
           NEW k \in Nat, k <= Len(rows)
    PROVE  RowsOf(Append(rows, row), k, m) = RowsOf(rows, k, m)
  BY AppendRow DEF RowsOf

LEMMA NoSaleFrame ==
    ASSUME NEW rows \in Seq(Row), NEW row \in Row, NEW m, NEW k \in Nat,
           NoSaleSince(rows, k, m), row.market = m => ~IsSale(row)
    PROVE  NoSaleSince(Append(rows, row), k, m)
  BY AppendRow DEF NoSaleSince

(* The row a transaction commits is its requester's, in the market it asked   *)
(* for, and it is a sale exactly if the request was one.                     *)
LEMMA DraftOf ==
    ASSUME TypeOK, PlacementsCurrent, SalesCurrent, NEW w \in Workers, Drafted(w)
    PROVE  /\ draft[w].user = req[w].user
           /\ draft[w].market = req[w].market
           /\ IsSale(draft[w]) => pc[w] \in SellSteps
  <1>0. req[w] \in Request /\ draft[w] \in Row
    BY DEF TypeOK, Drafted
  <1>1. CASE pc[w] \in {"debit", "commitPlace"}
    <2>1. PICK hasBet \in BOOLEAN : draft[w] = BuyRow(req[w], hasBet, draft[w].placed_at)
      BY <1>1 DEF PlacementsCurrent, UserHasBet
    <2> QED
      BY <1>0, <2>1 DEF BuyRow, IsSale, Request
  <1>2. CASE pc[w] \in {"credit", "commitSale"}
    <2>1. \E quote : draft[w] = SaleRow(req[w], quote, draft[w].placed_at)
      BY <1>2 DEF SalesCurrent
    <2> QED
      BY <1>2, <2>1 DEF SaleRow, SellSteps
  <1> QED
    BY <1>1, <1>2 DEF Drafted

-----------------------------------------------------------------------------
(* Two transactions never hold the same row, so a commit disturbs nothing     *)
(* that another transaction has read under its locks.                        *)

LEMMA LocksExclusive ==
    ASSUME LocksHeld, NEW v \in Workers, NEW w \in Workers, v # w
    PROVE  /\ HoldsUser(v) /\ HoldsUser(w) => req[v].user # req[w].user
           /\ HoldsMarket(v) /\ HoldsMarket(w) => req[v].market # req[w].market
  BY DEF LocksHeld

LEMMA CommitFacts ==
    ASSUME TypeOK, PlacementsCurrent, SalesCurrent, NEW w \in Workers, CommitStep(w)
    PROVE  /\ bets \in Seq(Row) /\ draft[w] \in Row
           /\ bets' = Append(bets, draft[w])
           /\ balance' = [balance EXCEPT ![req[w].user] = balance[req[w].user] + draft[w].delta]
           /\ draft[w].user = req[w].user /\ draft[w].market = req[w].market
           /\ req[w] \in Request /\ HoldsUser(w) /\ Drafted(w)
           /\ IsSale(draft[w]) => HoldsMarket(w)
           /\ EndRequest(w) /\ clock' = clock
  <1>1. Commit(w) /\ pc[w] \in {"commitPlace", "commitSale"}
    BY DEF CommitStep, PlaceCommit, SellCommit, At
  <1>2. HoldsUser(w) /\ Drafted(w)
    BY <1>1 DEF HoldsUser, Drafted
  <1>3. bets \in Seq(Row) /\ draft[w] \in Row /\ req[w] \in Request
    BY <1>1, <1>2 DEF TypeOK
  <1>4. loaded[w] = balance[req[w].user]
    BY <1>1 DEF PlacementsCurrent
  <1> QED
    BY <1>1, <1>2, <1>3, <1>4, DraftOf DEF Commit, HoldsMarket

(* What a placement knows of its user, for one worker. *)
PlacementCurrent(w) ==
    LET hasBet == UserHasBet(bets, req[w].user, req[w].market)
    IN /\ pc[w] \in {"hasBet", "commitPlace", "commitSale"} => loaded[w] = balance[req[w].user]
       /\ pc[w] \in {"debit", "commitPlace"} =>
            /\ draft[w] = BuyRow(req[w], hasBet, draft[w].placed_at)
            /\ EnsureSufficient(balance[req[w].user], TotalCost(hasBet, req[w].amount))

(* The requester's own step. *)
LEMMA PlacementOwnStep ==
    ASSUME TypeOK, LocksHeld, PlacementsCurrent, NEW w \in Workers, WorkerStep(w)
    PROVE  PlacementCurrent(w)'
  <1>1. CASE pc'[w] \notin {"hasBet", "debit", "commitPlace", "commitSale"}
    BY <1>1 DEF PlacementCurrent
  <1>2. CASE PlaceLockUser(w)
    BY <1>2 DEF TypeOK, PlaceLockUser, Goto, dbVars, PlacementCurrent
  <1>3. CASE PlaceHasBet(w)
    <2> DEFINE hasBet == UserHasBet(bets, req[w].user, req[w].market)
    <2>1. CASE EnsureSufficient(loaded[w], TotalCost(hasBet, req[w].amount))
      <3>1. /\ draft' = [draft EXCEPT ![w] = BuyRow(req[w], hasBet, clock + 1)]
            /\ pc' = [pc EXCEPT ![w] = "debit"]
            /\ UNCHANGED <<balance, bets, req, loaded>>
        BY <1>3, <2>1 DEF PlaceHasBet, Stamp, Goto
      <3>2. pc'[w] = "debit" /\ draft'[w] = BuyRow(req[w], hasBet, clock + 1)
        BY <3>1 DEF TypeOK
      <3>3. draft'[w] = BuyRow(req[w], hasBet, draft'[w].placed_at)
        BY <3>2 DEF BuyRow
      <3>4. loaded[w] = balance[req[w].user]
        BY <1>3 DEF PlaceHasBet, At, PlacementsCurrent
      <3> QED
        BY <2>1, <3>1, <3>2, <3>3, <3>4 DEF PlacementCurrent
    <2>2. CASE Refuse(w)
      BY <1>1, <2>2, EndRequestFrame DEF Refuse
    <2> QED
      BY <1>3, <2>1, <2>2 DEF PlaceHasBet
  <1>4. CASE PlaceDebit(w)
    <2>1. /\ pc' = [pc EXCEPT ![w] = "commitPlace"] /\ pc[w] = "debit"
          /\ loaded' = [loaded EXCEPT ![w] = balance[req[w].user]]
          /\ UNCHANGED <<balance, bets, req, draft>>
      BY <1>4 DEF PlaceDebit, At, Goto, dbVars
    <2>2. pc'[w] = "commitPlace" /\ loaded'[w] = balance[req[w].user]
      BY <2>1 DEF TypeOK
    <2> QED
      BY <2>1, <2>2 DEF PlacementsCurrent, PlacementCurrent
  <1>5. CASE SellCredit(w)
    BY <1>5 DEF TypeOK, SellCredit, Goto, dbVars, PlacementCurrent
  <1>6. CASE Refuse(w) \/ CommitStep(w)
    BY <1>1, <1>6, EndRequestFrame DEF Refuse, CommitStep, PlaceCommit, SellCommit, Commit
  <1>7. CASE BeginPlace(w) \/ BeginSell(w) \/ PlaceGate(w)
    BY <1>1, <1>6, <1>7 DEF TypeOK, BeginPlace, BeginSell, PlaceGate, Goto
  <1>8. CASE SellGate(w) \/ SellLoadPosition(w) \/ SellLoadSellable(w) \/ SellQuote(w)
    BY <1>1, <1>6, <1>8 DEF TypeOK, SellGate, SellLoadPosition, SellLoadSellable, SellQuote, Goto
  <1> QED
    BY <1>2, <1>3, <1>4, <1>5, <1>6, <1>7, <1>8
    DEF WorkerStep, PlaceStep, SellStep, Rollback, CommitStep

(* A step of another worker. *)
LEMMA PlacementOtherStep ==
    ASSUME TypeOK, LocksHeld, PlacementsCurrent, SalesCurrent,
           NEW w \in Workers, WorkerStep(w), NEW v \in Workers, v # w
    PROVE  PlacementCurrent(v)'
  <1>0. PlacementCurrent(v)
    BY DEF PlacementsCurrent, PlacementCurrent
  <1>1. pc'[v] = pc[v] /\ req'[v] = req[v] /\ loaded'[v] = loaded[v] /\ draft'[v] = draft[v]
    BY StepFrame
  <1>2. CASE balance' = balance /\ bets' = bets
    BY <1>0, <1>1, <1>2 DEF PlacementCurrent
  <1>3. CASE CommitStep(w) /\ HoldsUser(v)
    <2>0. /\ bets \in Seq(Row) /\ draft[w] \in Row /\ bets' = Append(bets, draft[w])
          /\ balance' = [balance EXCEPT ![req[w].user] = balance[req[w].user] + draft[w].delta]
          /\ draft[w].user = req[w].user /\ HoldsUser(w)
      BY <1>3, CommitFacts
    <2>1. req[v].user # req[w].user
      BY <1>3, <2>0, LocksExclusive
    <2>2. balance'[req[v].user] = balance[req[v].user]
      <3>1. req[v].user \in Users
        BY <1>3 DEF TypeOK, HoldsUser, Request
      <3>2. balance \in [Users -> Int]
        BY DEF TypeOK
      <3> QED BY <2>0, <2>1, <3>1, <3>2
    <2>3. UserHasBet(bets', req[v].user, req[v].market)
            = UserHasBet(bets, req[v].user, req[v].market)
      BY <2>0, <2>1, HasBetFrame
    <2> QED
      BY <1>0, <1>1, <2>2, <2>3 DEF PlacementCurrent
  <1>4. CASE ~HoldsUser(v)
    BY <1>1, <1>4 DEF PlacementCurrent, HoldsUser
  <1> QED
    BY <1>2, <1>3, <1>4, StepFrame

LEMMA PlacementsInductive ==
    ASSUME TypeOK, LocksHeld, PlacementsCurrent, SalesCurrent, [Next]_vars
    PROVE  PlacementsCurrent'
  <1>1. ASSUME NEW w \in Workers, WorkerStep(w), NEW v \in Workers
        PROVE  PlacementCurrent(v)'
    BY <1>1, PlacementOwnStep, PlacementOtherStep
  <1>2. CASE UNCHANGED <<balance, bets, pc, req, loaded, draft>>
    BY <1>2 DEF PlacementsCurrent
  <1>3. ASSUME NEW m \in Markets, MarketStep(m)
        PROVE  UNCHANGED <<balance, bets, pc, req, loaded, draft>>
    BY <1>3 DEF MarketStep, ApproveMarket, RejectMarket, ResolveMarket, SetLifecycle, Expire
  <1> QED
    BY <1>1, <1>2, <1>3 DEF Next, vars, PlacementsCurrent, PlacementCurrent

-----------------------------------------------------------------------------
(* Sales are serial: the market row is held from the gate to the commit. *)

(* What a sale knows of its market, for one worker. *)
SaleCurrent(w) ==
    /\ pc[w] \in {"loadSellable", "quote", "credit", "commitSale"} =>
         /\ seen[w].position <= Len(bets)
         /\ NoSaleSince(bets, seen[w].position, req[w].market)
    /\ pc[w] \in {"quote", "credit", "commitSale"} =>
         /\ seen[w].position <= seen[w].sellable
         /\ seen[w].sellable <= Len(bets)
    /\ pc[w] \in {"credit", "commitSale"} =>
         LET quote == QuoteFrom(req[w], RowsOf(bets, seen[w].position, req[w].market),
                                        RowsOf(bets, seen[w].sellable, req[w].market))
         IN /\ RowsOf(bets, seen[w].position, req[w].market) # {}
            /\ quote.shares > 0
            /\ NetProceeds(quote) \in Nat
            /\ draft[w] = SaleRow(req[w], quote, draft[w].placed_at)

LEMMA SaleQuoteStep ==
    ASSUME TypeOK, SalesCurrent, NEW w \in Workers, SellQuote(w)
    PROVE  SaleCurrent(w)'
  <1> DEFINE position == RowsOf(bets, seen[w].position, req[w].market)
             sellable == RowsOf(bets, seen[w].sellable, req[w].market)
             quote    == QuoteFrom(req[w], position, sellable)
  <1>1. CASE quote.shares > 0
    <2>1. /\ pc[w] = "quote" /\ pc' = [pc EXCEPT ![w] = "credit"]
          /\ draft' = [draft EXCEPT ![w] = SaleRow(req[w], quote, clock + 1)]
          /\ UNCHANGED <<bets, req, seen>>
          /\ PositionsAreInts(req[w], position, sellable)
      BY <1>1 DEF SellQuote, Stamp, Goto, At
    <2>2. req[w] \in Request
      BY <2>1 DEF TypeOK
    <2>3. /\ quote \in QuoteType /\ NetProceeds(quote) \in Nat
          /\ quote.shares <= Held(position, req[w].user, req[w].outcome)
      <3> HIDE DEF position, sellable
      <3> QED BY <1>1, <2>1, <2>2, QuoteFromType, NetProceedsBounds
    <2>4. position # {}
      <3> HIDE DEF position, quote
      <3>1. quote.shares \in Nat
        BY <2>3 DEF QuoteType
      <3>2. req[w].user \in Users /\ req[w].outcome \in Outcomes
        BY <2>2 DEF Request
      <3>3. ASSUME position = {} PROVE FALSE
        <4>1. Held(position, req[w].user, req[w].outcome) = 0
          BY <3>2, <3>3, HeldAssumption
        <4> QED BY <1>1, <2>3, <3>1, <4>1
      <3> QED BY <3>3
    <2>5. pc'[w] = "credit" /\ draft'[w] = SaleRow(req[w], quote, clock + 1)
      BY <2>1 DEF TypeOK
    <2>6. draft'[w] = SaleRow(req[w], quote, draft'[w].placed_at)
      BY <2>5 DEF SaleRow
    <2>7. SaleCurrent(w)
      BY DEF SalesCurrent, SaleCurrent
    <2> QED
      BY <1>1, <2>1, <2>3, <2>4, <2>5, <2>6, <2>7 DEF SaleCurrent
  <1>2. CASE Refuse(w)
    BY <1>2, EndRequestFrame DEF Refuse, SaleCurrent
  <1> QED
    BY <1>1, <1>2 DEF SellQuote

LEMMA SaleOwnStep ==
    ASSUME TypeOK, SalesCurrent, NEW w \in Workers, WorkerStep(w)
    PROVE  SaleCurrent(w)'
  <1>0. SaleCurrent(w)
    BY DEF SalesCurrent, SaleCurrent
  <1>1. CASE pc'[w] \notin {"loadSellable", "quote", "credit", "commitSale"}
    BY <1>1 DEF SaleCurrent
  <1>2. CASE SellLoadPosition(w)
    <2>1. /\ pc'[w] = "loadSellable" /\ seen'[w].position = Len(bets)
          /\ bets' = bets /\ req' = req /\ Len(bets) \in Nat
      BY <1>2 DEF TypeOK, SellLoadPosition, Goto, dbVars
    <2>2. NoSaleSince(bets, Len(bets), req[w].market)
      BY <2>1 DEF NoSaleSince
    <2> QED
      BY <2>1, <2>2 DEF SaleCurrent
  <1>3. CASE SellLoadSellable(w)
    <2>1. /\ pc[w] = "loadSellable" /\ pc'[w] = "quote"
          /\ seen'[w].position = seen[w].position /\ seen'[w].sellable = Len(bets)
          /\ bets' = bets /\ req' = req /\ Len(bets) \in Nat
      BY <1>3 DEF TypeOK, SellLoadSellable, Goto, At, dbVars
    <2> QED
      BY <1>0, <2>1 DEF SaleCurrent
  <1>4. CASE SellCredit(w)
    BY <1>0, <1>4 DEF TypeOK, SellCredit, Goto, At, dbVars, SaleCurrent
  <1>5. CASE Refuse(w) \/ CommitStep(w)
    BY <1>1, <1>5, EndRequestFrame DEF Refuse, CommitStep, PlaceCommit, SellCommit, Commit
  <1>6. CASE BeginPlace(w) \/ BeginSell(w) \/ PlaceGate(w) \/ PlaceLockUser(w)
    BY <1>1, <1>5, <1>6 DEF TypeOK, BeginPlace, BeginSell, PlaceGate, PlaceLockUser, Goto
  <1>7. CASE PlaceHasBet(w) \/ PlaceDebit(w) \/ SellGate(w)
    BY <1>1, <1>5, <1>7 DEF TypeOK, PlaceHasBet, PlaceDebit, SellGate, Goto
  <1> QED
    BY <1>2, <1>3, <1>4, <1>5, <1>6, <1>7, SaleQuoteStep
    DEF WorkerStep, PlaceStep, SellStep, Rollback, CommitStep

LEMMA SaleOtherStep ==
    ASSUME TypeOK, LocksHeld, PlacementsCurrent, SalesCurrent,
           NEW w \in Workers, WorkerStep(w), NEW v \in Workers, v # w
    PROVE  SaleCurrent(v)'
  <1>0. SaleCurrent(v)
    BY DEF SalesCurrent, SaleCurrent
  <1>1. pc'[v] = pc[v] /\ req'[v] = req[v] /\ seen'[v] = seen[v] /\ draft'[v] = draft[v]
    BY StepFrame
  <1>2. CASE bets' = bets
    BY <1>0, <1>1, <1>2 DEF SaleCurrent
  <1>3. CASE CommitStep(w) /\ HoldsMarket(v)
    <2>1. /\ bets \in Seq(Row) /\ draft[w] \in Row /\ bets' = Append(bets, draft[w])
          /\ draft[w].market = req[w].market
          /\ IsSale(draft[w]) => HoldsMarket(w)
      BY <1>3, CommitFacts
    <2>2. draft[w].market = req[v].market => ~IsSale(draft[w])
      BY <1>3, <2>1, LocksExclusive
    <2>3. /\ seen[v].position \in Nat /\ seen[v].sellable \in Nat /\ Len(bets) \in Nat
          /\ Len(bets') = Len(bets) + 1
      BY <2>1, AppendRow DEF TypeOK
    <2>4. NoSaleSince(bets, seen[v].position, req[v].market)
            => NoSaleSince(bets', seen[v].position, req[v].market)
      BY <2>1, <2>2, <2>3, NoSaleFrame
    <2>5. \A k \in Nat : k <= Len(bets)
            => RowsOf(bets', k, req[v].market) = RowsOf(bets, k, req[v].market)
      BY <2>1, RowsOfFrame
    <2> DEFINE m == req[v].market
               p == seen[v].position
               s == seen[v].sellable
    <2>6. pc[v] \in {"credit", "commitSale"} =>
            /\ RowsOf(bets', p, m) = RowsOf(bets, p, m)
            /\ RowsOf(bets', s, m) = RowsOf(bets, s, m)
      BY <1>0, <2>3, <2>5 DEF SaleCurrent
    <2> QED
      BY <1>0, <1>1, <2>3, <2>4, <2>6 DEF SaleCurrent
  <1>4. CASE ~HoldsMarket(v)
    BY <1>1, <1>4 DEF SaleCurrent, HoldsMarket, SellSteps
  <1> QED
    BY <1>2, <1>3, <1>4, StepFrame

LEMMA SalesInductive ==
    ASSUME TypeOK, LocksHeld, PlacementsCurrent, SalesCurrent, [Next]_vars
    PROVE  SalesCurrent'
  <1>1. ASSUME NEW w \in Workers, WorkerStep(w), NEW v \in Workers
        PROVE  SaleCurrent(v)'
    BY <1>1, SaleOwnStep, SaleOtherStep
  <1>2. CASE UNCHANGED <<bets, pc, req, seen, draft>>
    BY <1>2 DEF SalesCurrent
  <1>3. ASSUME NEW m \in Markets, MarketStep(m)
        PROVE  UNCHANGED <<bets, pc, req, seen, draft>>
    BY <1>3 DEF MarketStep, ApproveMarket, RejectMarket, ResolveMarket, SetLifecycle, Expire
  <1> QED
    BY <1>1, <1>2, <1>3 DEF Next, vars, SalesCurrent, SaleCurrent

-----------------------------------------------------------------------------
(* What a request may ask for, and the markets its gate let it into. *)

LEMMA RequestsInductive == TypeOK /\ RequestsKnown /\ [Next]_vars => RequestsKnown'
  <1> SUFFICES ASSUME TypeOK, RequestsKnown, [Next]_vars PROVE RequestsKnown'
    OBVIOUS
  <1> USE DEF RequestsKnown, PlaceSteps, SellSteps
  <1>1. ASSUME NEW w \in Workers, Refuse(w) \/ CommitStep(w) PROVE RequestsKnown'
    <2>1. EndRequest(w)
      BY <1>1 DEF Refuse, CommitStep, PlaceCommit, SellCommit, Commit
    <2> QED
      BY <2>1, EndRequestFrame
  <1>2. ASSUME NEW w \in Workers, BeginPlace(w) \/ BeginSell(w) PROVE RequestsKnown'
    BY <1>2 DEF TypeOK, BeginPlace, BeginSell, Goto
  <1>3. ASSUME NEW w \in Workers,
               PlaceGate(w) \/ PlaceLockUser(w) \/ PlaceHasBet(w) \/ PlaceDebit(w)
        PROVE  RequestsKnown'
    BY <1>1, <1>3 DEF TypeOK, PlaceGate, PlaceLockUser, PlaceHasBet, PlaceDebit, At, Goto
  <1>4. ASSUME NEW w \in Workers,
               SellGate(w) \/ SellLoadPosition(w) \/ SellLoadSellable(w)
               \/ SellQuote(w) \/ SellCredit(w)
        PROVE  RequestsKnown'
    BY <1>1, <1>4
    DEF TypeOK, SellGate, SellLoadPosition, SellLoadSellable, SellQuote, SellCredit, At, Goto
  <1>5. ASSUME NEW m \in Markets, MarketStep(m) PROVE RequestsKnown'
    BY <1>5 DEF MarketStep, ApproveMarket, RejectMarket, ResolveMarket, SetLifecycle, Expire
  <1>6. CASE UNCHANGED vars
    BY <1>6 DEF vars
  <1> QED
    BY <1>1, <1>2, <1>3, <1>4, <1>5, <1>6
    DEF Next, WorkerStep, PlaceStep, SellStep, Rollback, CommitStep

(* A published market stays published or is resolved; a market whose row is    *)
(* locked keeps its lifecycle.                                               *)
LEMMA LifecycleSteps ==
    ASSUME TypeOK, NEW m \in Markets, MarketStep(m)
    PROVE  /\ UNCHANGED <<balance, bets, clock, pc, req, seen, draft>>
           /\ \A n \in Markets :
                /\ lifecycle[n] \in {"published", "resolved"}
                     => lifecycle'[n] \in {"published", "resolved"}
                /\ marketLock[n] # NoWorker => lifecycle'[n] = lifecycle[n]
  <1>1. CASE Expire(m)
    BY <1>1 DEF Expire
  <1>2. CASE ApproveMarket(m) \/ RejectMarket(m) \/ ResolveMarket(m)
    <2>1. PICK value \in Lifecycle :
            /\ SetLifecycle(m, value)
            /\ lifecycle[m] = "proposed" \/ value = "resolved"
      BY <1>2 DEF ApproveMarket, RejectMarket, ResolveMarket, Lifecycle
    <2> QED
      BY <2>1 DEF TypeOK, SetLifecycle
  <1> QED
    BY <1>1, <1>2 DEF MarketStep

LEMMA GatesInductive ==
    TypeOK /\ LocksHeld /\ GatesPassed /\ [Next]_vars => GatesPassed'
  <1> SUFFICES ASSUME TypeOK, LocksHeld, GatesPassed, [Next]_vars PROVE GatesPassed'
    OBVIOUS
  <1> USE DEF GatesPassed, PlaceSteps, SellSteps
  <1>1. ASSUME NEW w \in Workers, Refuse(w) \/ CommitStep(w) PROVE GatesPassed'
    <2>1. EndRequest(w) /\ lifecycle' = lifecycle
      BY <1>1 DEF Refuse, CommitStep, PlaceCommit, SellCommit, Commit, dbVars
    <2> QED
      BY <2>1, EndRequestFrame
  <1>2. ASSUME NEW w \in Workers, BeginPlace(w) \/ BeginSell(w) PROVE GatesPassed'
    BY <1>2 DEF TypeOK, BeginPlace, BeginSell, Goto, dbVars
  <1>3. ASSUME NEW w \in Workers,
               PlaceGate(w) \/ PlaceLockUser(w) \/ PlaceHasBet(w) \/ PlaceDebit(w)
        PROVE  GatesPassed'
    BY <1>1, <1>3
    DEF TypeOK, PlaceGate, PlaceLockUser, PlaceHasBet, PlaceDebit, IsTradable, At, Goto, dbVars
  <1>4. ASSUME NEW w \in Workers,
               SellGate(w) \/ SellLoadPosition(w) \/ SellLoadSellable(w)
               \/ SellQuote(w) \/ SellCredit(w)
        PROVE  GatesPassed'
    BY <1>1, <1>4
    DEF TypeOK, SellGate, SellLoadPosition, SellLoadSellable, SellQuote, SellCredit,
        SellGateOpen, At, Goto, dbVars
  <1>5. ASSUME NEW m \in Markets, MarketStep(m), NEW v \in Workers
        PROVE  /\ pc'[v] \in PlaceSteps => lifecycle'[req'[v].market] \in {"published", "resolved"}
               /\ pc'[v] \in SellSteps => lifecycle'[req'[v].market] # "resolved"
    <2>1. pc' = pc /\ req' = req
      BY <1>5, LifecycleSteps
    <2>2. pc[v] # "idle" => req[v].market \in Markets
      BY DEF TypeOK, Request
    <2>3. HoldsMarket(v) => marketLock[req[v].market] # NoWorker
      BY WorkersAssumption DEF LocksHeld
    <2> QED
      BY <1>5, <2>1, <2>2, <2>3, LifecycleSteps DEF HoldsMarket
  <1>6. CASE UNCHANGED vars
    BY <1>6 DEF vars
  <1> QED
    BY <1>1, <1>2, <1>3, <1>4, <1>5, <1>6
    DEF Next, WorkerStep, PlaceStep, SellStep, Rollback, CommitStep

(* A sale is quoted from a row of its market, so that market was published. *)
LEMMA RowsPublishedInductive ==
    ASSUME TypeOK, PlacementsCurrent, SalesCurrent, GatesPassed,
           RowsOnlyInPublishedMarkets, [Next]_vars
    PROVE  RowsOnlyInPublishedMarkets'
  <1> USE DEF RowsOnlyInPublishedMarkets
  <1>0. bets \in Seq(Row) /\ \A i \in DOMAIN bets : bets[i].market \in Markets
    BY RowFields DEF TypeOK
  <1>1. ASSUME NEW w \in Workers, CommitStep(w) PROVE RowsOnlyInPublishedMarkets'
    <2>1. /\ draft[w] \in Row /\ bets' = Append(bets, draft[w]) /\ lifecycle' = lifecycle
          /\ draft[w].market = req[w].market
      BY <1>1, CommitFacts DEF CommitStep, PlaceCommit, SellCommit, Commit
    <2>2. lifecycle[req[w].market] \in {"published", "resolved"}
      <3>1. CASE PlaceCommit(w)
        BY <3>1 DEF PlaceCommit, At, GatesPassed, PlaceSteps
      <3>2. CASE SellCommit(w)
        <4>1. /\ RowsOf(bets, seen[w].position, req[w].market) # {}
              /\ seen[w].position <= Len(bets)
          BY <3>2 DEF SellCommit, At, SalesCurrent
        <4>2. seen[w].position \in Nat
          BY DEF TypeOK
        <4>3. PICK j \in 1..seen[w].position : bets[j].market = req[w].market
          BY <4>1 DEF RowsOf
        <4>4. j \in DOMAIN bets
          BY <1>0, <4>1, <4>2, <4>3
        <4> QED
          BY <4>3, <4>4
      <3> QED
        BY <1>1, <3>1, <3>2 DEF CommitStep
    <2>3. SUFFICES ASSUME NEW i \in DOMAIN bets'
                   PROVE  lifecycle[bets'[i].market] \in {"published", "resolved"}
      BY <2>1
    <2>4. (i \in DOMAIN bets /\ bets'[i] = bets[i]) \/ bets'[i] = draft[w]
      <3>1. i \in 1..(Len(bets) + 1) /\ Len(bets) \in Nat
        BY <1>0, <2>1, <2>3, AppendRow
      <3> QED
        BY <1>0, <2>1, <3>1, AppendRow
    <2> QED
      BY <2>1, <2>2, <2>4
  <1>2. ASSUME NEW m \in Markets, MarketStep(m) PROVE RowsOnlyInPublishedMarkets'
    BY <1>0, <1>2, LifecycleSteps
  <1>3. CASE UNCHANGED <<bets, lifecycle>>
    BY <1>3
  <1> QED
    BY <1>1, <1>2, <1>3, StepFrame DEF Next, vars

-----------------------------------------------------------------------------
(* Nobody falls below the debt limit. *)

LEMMA DebtInductive ==
    ASSUME TypeOK, PlacementsCurrent, SalesCurrent, DebtFloor, [Next]_vars
    PROVE  DebtFloor'
  <1>1. ASSUME NEW w \in Workers, CommitStep(w) PROVE DebtFloor'
    <2> DEFINE u == req[w].user
    <2>1. /\ balance' = [balance EXCEPT ![u] = balance[u] + draft[w].delta]
          /\ draft[w] \in Row /\ req[w] \in Request
      BY <1>1, CommitFacts
    <2>2. /\ balance \in [Users -> Int] /\ u \in Users /\ draft[w].delta \in Int
          /\ MaxDebt \in Nat
      BY <2>1, RulesAssumption DEF TypeOK, Row, Request
    <2>3. balance[u] + draft[w].delta >= -MaxDebt
      <3>1. CASE PlaceCommit(w)
        <4> DEFINE hasBet == UserHasBet(bets, u, req[w].market)
                   cost   == TotalCost(hasBet, req[w].amount)
        <4>1. EnsureSufficient(balance[u], cost) /\ draft[w].delta = -cost
          <5>1. /\ EnsureSufficient(balance[u], cost)
                /\ draft[w] = BuyRow(req[w], hasBet, draft[w].placed_at)
            BY <3>1 DEF PlaceCommit, At, PlacementsCurrent
          <5> HIDE DEF hasBet, u
          <5>2. BuyRow(req[w], hasBet, draft[w].placed_at).delta = -cost
            BY DEF BuyRow
          <5> QED
            BY <5>1, <5>2
        <4>2. cost \in Int
          BY <2>1, RulesAssumption DEF TotalCost, InitialFee, Request
        <4> HIDE DEF cost
        <4> QED
          BY <2>2, <4>1, <4>2 DEF EnsureSufficient
      <3>2. CASE SellCommit(w)
        <4>1. \E quote : NetProceeds(quote) \in Nat
                         /\ draft[w] = SaleRow(req[w], quote, draft[w].placed_at)
          BY <3>2 DEF SellCommit, At, SalesCurrent
        <4>2. draft[w].delta \in Nat
          BY <4>1 DEF SaleRow
        <4> QED
          BY <2>2, <4>2 DEF DebtFloor
      <3> QED
        BY <1>1, <3>1, <3>2 DEF CommitStep
    <2> HIDE DEF u
    <2> QED
      BY <2>1, <2>2, <2>3 DEF DebtFloor
  <1>2. CASE UNCHANGED balance
    BY <1>2 DEF DebtFloor
  <1> QED
    BY <1>1, <1>2, StepFrame, LifecycleSteps DEF Next, vars

-----------------------------------------------------------------------------
(* No two rows carry the same placed_at. *)

LEMMA StampStep ==
    ASSUME TypeOK, StampsUnique, NEW w \in Workers, NEW row \in Row,
           Stamp(w, row), row.placed_at = clock + 1,
           bets' = bets, \A v \in Workers \ {w} : pc'[v] = pc[v]
    PROVE  StampsUnique'
  <1>1. /\ clock \in Nat /\ clock' = clock + 1
        /\ draft'[w] = row /\ \A v \in Workers \ {w} : draft'[v] = draft[v]
    BY DEF TypeOK, Stamp
  <1>2. \A i \in DOMAIN bets : bets[i].placed_at \in Nat
    BY RowFields
  <1>3. \A v \in Workers : Drafted(v) => draft[v].placed_at \in Nat
    BY RulesAssumption DEF TypeOK, Row, Stamps
  <1>4. \A i \in DOMAIN bets' : bets'[i].placed_at <= clock'
    BY <1>1, <1>2 DEF StampsUnique
  <1>5. ASSUME NEW v \in Workers, Drafted(v)'
        PROVE  /\ draft'[v].placed_at <= clock'
               /\ \A i \in DOMAIN bets' : bets'[i].placed_at # draft'[v].placed_at
               /\ \A x \in Workers \ {v} :
                    Drafted(x)' => draft'[x].placed_at # draft'[v].placed_at
    <2>1. \A x \in Workers \ {w} : Drafted(x)' => Drafted(x) /\ draft'[x] = draft[x]
      BY <1>1 DEF Drafted
    <2>2. CASE v = w
      BY <1>1, <1>2, <1>3, <2>1, <2>2 DEF StampsUnique
    <2>3. CASE v # w
      BY <1>1, <1>2, <1>3, <1>5, <2>1, <2>3 DEF StampsUnique
    <2> QED
      BY <2>2, <2>3
  <1> QED
    BY <1>4, <1>5 DEF StampsUnique

LEMMA StampCommit ==
    ASSUME TypeOK, PlacementsCurrent, SalesCurrent, StampsUnique,
           NEW w \in Workers, CommitStep(w)
    PROVE  StampsUnique'
  <1>1. /\ bets \in Seq(Row) /\ draft[w] \in Row /\ bets' = Append(bets, draft[w])
        /\ Drafted(w) /\ EndRequest(w) /\ clock' = clock
    BY CommitFacts
  <1>2. \A i \in DOMAIN bets' : (i \in DOMAIN bets /\ bets'[i] = bets[i]) \/ bets'[i] = draft[w]
    <2>1. \A i \in DOMAIN bets' : i \in 1..(Len(bets) + 1) /\ Len(bets) \in Nat
      BY <1>1, AppendRow
    <2> QED
      BY <1>1, <2>1, AppendRow
  <1>3. \A v \in Workers : Drafted(v)' => v # w /\ Drafted(v) /\ draft'[v] = draft[v]
    BY <1>1, EndRequestFrame DEF Drafted
  <1> QED
    BY <1>1, <1>2, <1>3 DEF StampsUnique

LEMMA StampFrame ==
    ASSUME StampsUnique, bets' = bets, clock' = clock,
           \A v \in Workers : Drafted(v)' => Drafted(v) /\ draft'[v] = draft[v]
    PROVE  StampsUnique'
  BY DEF StampsUnique

LEMMA StampsInductive ==
    ASSUME TypeOK, PlacementsCurrent, SalesCurrent, StampsUnique, [Next]_vars
    PROVE  StampsUnique'
  <1>1. ASSUME NEW w \in Workers, Refuse(w) PROVE StampsUnique'
    <2>1. \A v \in Workers : Drafted(v)' => Drafted(v) /\ draft'[v] = draft[v]
      BY <1>1, EndRequestFrame DEF Refuse, Drafted
    <2> QED
      BY <1>1, <2>1, StampFrame DEF Refuse, dbVars
  <1>2. ASSUME NEW w \in Workers, BeginPlace(w) \/ BeginSell(w) PROVE StampsUnique'
    <2>1. \A v \in Workers : Drafted(v)' => Drafted(v) /\ draft'[v] = draft[v]
      BY <1>2 DEF TypeOK, BeginPlace, BeginSell, Goto, Drafted
    <2> QED
      BY <1>2, <2>1, StampFrame DEF BeginPlace, BeginSell, dbVars
  <1>3. ASSUME NEW w \in Workers, PlaceHasBet(w) PROVE StampsUnique'
    <2> DEFINE hasBet == UserHasBet(bets, req[w].user, req[w].market)
               row    == BuyRow(req[w], hasBet, clock + 1)
    <2>1. CASE Stamp(w, row) /\ Goto(w, "debit") /\ bets' = bets
      <3>1. req[w] \in Request /\ hasBet \in BOOLEAN
        BY <1>3 DEF TypeOK, PlaceHasBet, At, UserHasBet
      <3>2. clock + 1 \in Stamps
        BY <2>1, RulesAssumption DEF Stamp, TypeOK, Stamps
      <3>3. row \in Row
        <4> HIDE DEF hasBet
        <4> QED BY <3>1, <3>2, BuyRowType
      <3>4. row.placed_at = clock + 1 /\ \A v \in Workers \ {w} : pc'[v] = pc[v]
        BY <2>1 DEF BuyRow, TypeOK, Goto
      <3> HIDE DEF row
      <3> QED
        BY <2>1, <3>3, <3>4, StampStep
    <2> QED
      BY <1>1, <1>3, <2>1 DEF PlaceHasBet
  <1>4. ASSUME NEW w \in Workers, SellQuote(w) PROVE StampsUnique'
    <2> DEFINE position == RowsOf(bets, seen[w].position, req[w].market)
               sellable == RowsOf(bets, seen[w].sellable, req[w].market)
               quote    == QuoteFrom(req[w], position, sellable)
               row      == SaleRow(req[w], quote, clock + 1)
    <2>1. CASE quote.shares > 0 /\ Stamp(w, row) /\ Goto(w, "credit") /\ bets' = bets
      <3>1. req[w] \in Request /\ PositionsAreInts(req[w], position, sellable)
        BY <1>4 DEF TypeOK, SellQuote, At
      <3>2. clock + 1 \in Stamps
        BY <2>1, RulesAssumption DEF Stamp, TypeOK, Stamps
      <3>3. row \in Row
        <4> HIDE DEF position, sellable
        <4>1. quote \in QuoteType
          BY <3>1, QuoteFromType
        <4> HIDE DEF quote
        <4> QED BY <2>1, <3>1, <3>2, <4>1, SaleRowType
      <3>4. row.placed_at = clock + 1
        <4> HIDE DEF quote
        <4> QED BY DEF SaleRow
      <3>5. \A v \in Workers \ {w} : pc'[v] = pc[v]
        BY <2>1 DEF TypeOK, Goto
      <3> HIDE DEF row
      <3> QED
        BY <2>1, <3>3, <3>4, <3>5, StampStep
    <2> QED
      BY <1>1, <1>4, <2>1 DEF SellQuote
  <1>5. ASSUME NEW w \in Workers, PlaceGate(w) \/ PlaceLockUser(w) \/ PlaceDebit(w)
        PROVE  StampsUnique'
    <2>1. CASE Refuse(w)
      BY <1>1, <2>1
    <2>2. CASE ~Refuse(w)
      <3>1. \A v \in Workers : Drafted(v)' => Drafted(v) /\ draft'[v] = draft[v]
        BY <1>5, <2>2 DEF TypeOK, PlaceGate, PlaceLockUser, PlaceDebit, At, Goto, Drafted
      <3> QED
        BY <1>5, <2>2, <3>1, StampFrame DEF PlaceGate, PlaceLockUser, PlaceDebit, dbVars
    <2> QED
      BY <2>1, <2>2
  <1>6. ASSUME NEW w \in Workers,
               SellGate(w) \/ SellLoadPosition(w) \/ SellLoadSellable(w) \/ SellCredit(w)
        PROVE  StampsUnique'
    <2>1. CASE Refuse(w)
      BY <1>1, <2>1
    <2>2. CASE ~Refuse(w)
      <3>1. \A v \in Workers : Drafted(v)' => Drafted(v) /\ draft'[v] = draft[v]
        BY <1>6, <2>2
        DEF TypeOK, SellGate, SellLoadPosition, SellLoadSellable, SellCredit, At, Goto, Drafted
      <3> QED
        BY <1>6, <2>2, <3>1, StampFrame
        DEF SellGate, SellLoadPosition, SellLoadSellable, SellCredit, dbVars
    <2> QED
      BY <2>1, <2>2
  <1>7. ASSUME NEW m \in Markets, MarketStep(m) PROVE StampsUnique'
    BY <1>7, LifecycleSteps, StampFrame DEF Drafted
  <1>8. CASE UNCHANGED vars
    BY <1>8, StampFrame DEF vars, Drafted
  <1> QED
    BY <1>1, <1>2, <1>3, <1>4, <1>5, <1>6, <1>7, <1>8, StampCommit
    DEF Next, WorkerStep, PlaceStep, SellStep, Rollback, CommitStep

-----------------------------------------------------------------------------
(* The inductive invariant and what follows from it. *)

LEMMA InvariantInit == Init => IInv
  <1> SUFFICES ASSUME Init PROVE IInv
    OBVIOUS
  <1>1. TypeOK
    BY TypeInit
  <1>2. \A w \in Workers : pc[w] = "idle"
    BY DEF Init
  <1>3. /\ LocksHeld /\ RequestsKnown /\ PlacementsCurrent /\ SalesCurrent /\ GatesPassed
    BY <1>2 DEF LocksHeld, HoldsUser, HoldsMarket, RequestsKnown, PlacementsCurrent,
                SalesCurrent, GatesPassed, PlaceSteps, SellSteps
  <1>4. StampsUnique /\ RowsOnlyInPublishedMarkets
    BY <1>2 DEF Init, StampsUnique, Drafted, RowsOnlyInPublishedMarkets
  <1>5. DebtFloor
    BY BalanceAssumption DEF Init, DebtFloor
  <1> QED
    BY <1>1, <1>3, <1>4, <1>5 DEF IInv

LEMMA InvariantStep == IInv /\ [Next]_vars => IInv'
  BY TypeInductive, LocksInductive, RequestsInductive, PlacementsInductive, SalesInductive,
     StampsInductive, GatesInductive, RowsPublishedInductive, DebtInductive
  DEF IInv

LEMMA Invariant == Spec => []IInv
  BY InvariantInit, InvariantStep, PTL DEF Spec

(* Overlapping placements of one user never take the balance below the limit: *)
(* the debit is checked against a balance that is still the user's at the     *)
(* commit.                                                                   *)
THEOREM NobodyBelowTheDebtFloor == Spec => []DebtFloor
  <1>1. IInv => DebtFloor
    BY DEF IInv
  <1> QED
    BY Invariant, <1>1, PTL

(* From the moment a sale has read its position to its commit, no other sale  *)
(* of the market is committed.                                               *)
THEOREM SalesDoNotOverlap == Spec => []SalesAreSerial
  <1>1. IInv => SalesAreSerial
    BY DEF IInv, SalesCurrent, SalesAreSerial
  <1> QED
    BY Invariant, <1>1, PTL

(* No row, of a sale or a bet, is in a market still proposed or rejected. *)
THEOREM RowsNeedPublication == Spec => []RowsOnlyInPublishedMarkets
  <1>1. IInv => RowsOnlyInPublishedMarkets
    BY DEF IInv
  <1> QED
    BY Invariant, <1>1, PTL

(* A resolution waits for the sales that hold the market, and later sales are *)
(* refused.                                                                  *)
THEOREM NoSaleIntoResolvedMarket == Spec => NoSaleAfterResolution
  <1> DEFINE Quiet == \A i \in NewRows : IsSale(bets'[i]) => lifecycle[bets'[i].market] # "resolved"
  <1>1. IInv /\ [Next]_vars => [Quiet]_vars
    <2> SUFFICES ASSUME IInv, [Next]_vars PROVE Quiet
      OBVIOUS
    <2>1. CASE bets' = bets
      BY <2>1 DEF NewRows
    <2>2. ASSUME NEW w \in Workers, CommitStep(w) PROVE Quiet
      <3>1. /\ bets \in Seq(Row) /\ draft[w] \in Row /\ bets' = Append(bets, draft[w])
            /\ draft[w].market = req[w].market
            /\ IsSale(draft[w]) => HoldsMarket(w)
        BY <2>2, CommitFacts DEF IInv
      <3>2. \A i \in NewRows : bets'[i] = draft[w]
        <4>1. /\ DOMAIN bets = 1..Len(bets) /\ DOMAIN bets' = 1..(Len(bets) + 1)
              /\ Len(bets) \in Nat /\ bets'[Len(bets) + 1] = draft[w]
          BY <3>1, AppendRow
        <4> QED
          BY <4>1 DEF NewRows
      <3>3. HoldsMarket(w) => lifecycle[req[w].market] # "resolved"
        BY DEF IInv, GatesPassed, HoldsMarket
      <3> QED
        BY <3>1, <3>2, <3>3
    <2> QED
      BY <2>1, <2>2, StepFrame, LifecycleSteps DEF Next, vars, IInv
  <1> QED
    BY Invariant, <1>1, PTL DEF Spec, NoSaleAfterResolution

-----------------------------------------------------------------------------
(* The balances are what the rows come to. *)

Deltas(rows)    == [i \in DOMAIN rows |-> rows[i].delta]
RowsBy(rows, u) == {i \in DOMAIN rows : rows[i].user = u}

LEMMA DeltasType ==
    ASSUME NEW rows \in Seq(Row), NEW u
    PROVE  /\ IsFiniteSet(RowsBy(rows, u))
           /\ \A i \in RowsBy(rows, u) : Deltas(rows)[i] \in Int
  <1>1. DOMAIN rows = 1..Len(rows) /\ Len(rows) \in Nat
    OBVIOUS
  <1>2. IsFiniteSet(DOMAIN rows)
    BY <1>1, FS_Interval
  <1>3. \A row \in Row : row.delta \in Int
    BY DEF Row
  <1>4. \A i \in DOMAIN rows : rows[i] \in Row
    OBVIOUS
  <1> QED
    BY <1>2, <1>3, <1>4, FS_Subset DEF RowsBy, Deltas

(* The sum in the statement of the invariant, as a sum of ArithmeticProofs. *)
LEMMA BalancesAreSums ==
    ASSUME NEW rows \in Seq(Row), NEW u
    PROVE  MapThenSumSet(LAMBDA i : rows[i].delta, {i \in DOMAIN rows : rows[i].user = u})
             = Sum(Deltas(rows), RowsBy(rows, u))
  BY DEF Sum, Deltas, RowsBy, MapThenSumSet, MapThenFoldSet

(* A row appended adds its change to its user's rows, and to nobody else's. *)
LEMMA AppendSums ==
    ASSUME NEW rows \in Seq(Row), NEW row \in Row, NEW u
    PROVE  Sum(Deltas(Append(rows, row)), RowsBy(Append(rows, row), u))
             = IF row.user = u THEN row.delta + Sum(Deltas(rows), RowsBy(rows, u))
                               ELSE Sum(Deltas(rows), RowsBy(rows, u))
  <1> DEFINE more == Append(rows, row)
             n    == Len(rows) + 1
             mine == RowsBy(rows, u)
             old  == Deltas(rows)
             new  == Deltas(more)
  <1>1. more \in Seq(Row) /\ Len(rows) \in Nat
    OBVIOUS
  <1>2. /\ DOMAIN rows = 1..Len(rows) /\ DOMAIN more = 1..n /\ more[n] = row
        /\ \A i \in 1..Len(rows) : more[i] = rows[i]
    BY AppendRow
  <1>3. IsFiniteSet(mine) /\ \A i \in mine : old[i] \in Int
    BY DeltasType
  <1>4. n \notin mine /\ \A i \in mine : i \in 1..Len(rows)
    BY <1>1, <1>2 DEF RowsBy
  <1>5. RowsBy(more, u) = IF row.user = u THEN mine \union {n} ELSE mine
    BY <1>1, <1>2 DEF RowsBy
  <1>6. \A i \in RowsBy(more, u) : new[i] \in Int
    BY <1>1, DeltasType
  <1>7. new[n] = row.delta /\ \A i \in mine : new[i] = old[i]
    BY <1>1, <1>2, <1>4 DEF Deltas
  <1> HIDE DEF more, n, mine, old, new
  <1>8. Sum(new, mine) = Sum(old, mine)
    BY <1>3, <1>7, SumSame
  <1>9. CASE row.user = u
    <2>1. Sum(new, mine \union {n}) = new[n] + Sum(new, mine)
      <3>1. \A i \in mine \union {n} : new[i] \in Int
        BY <1>5, <1>6, <1>9
      <3> QED
        BY <1>3, <1>4, <3>1, SumOneMore
    <2> QED
      BY <1>5, <1>7, <1>8, <1>9, <2>1 DEF more, mine, old, new
  <1>10. CASE row.user # u
    BY <1>5, <1>8, <1>10 DEF more, mine, old, new
  <1> QED
    BY <1>9, <1>10

LEMMA BooksAgree ==
    TypeOK => (BalancesMatchRows
                 <=> \A u \in Users :
                       balance[u] = InitialBalance[u] + Sum(Deltas(bets), RowsBy(bets, u)))
  <1> SUFFICES ASSUME TypeOK
               PROVE  BalancesMatchRows
                        <=> \A u \in Users :
                              balance[u] = InitialBalance[u] + Sum(Deltas(bets), RowsBy(bets, u))
    OBVIOUS
  <1>1. bets \in Seq(Row)
    BY DEF TypeOK
  <1> QED
    BY <1>1, BalancesAreSums DEF BalancesMatchRows

LEMMA BooksInit == Init => BalancesMatchRows
  <1> SUFFICES ASSUME Init, NEW u \in Users
               PROVE  balance[u] = InitialBalance[u] + Sum(Deltas(bets), RowsBy(bets, u))
    BY TypeInit, BooksAgree
  <1>1. RowsBy(bets, u) = {}
    BY DEF Init, RowsBy
  <1>2. Sum(Deltas(bets), {}) = 0
    BY SumEmpty
  <1>3. balance[u] = InitialBalance[u] /\ InitialBalance[u] \in Int
    BY BalanceAssumption DEF Init
  <1> QED
    BY <1>1, <1>2, <1>3

LEMMA BooksStep == IInv /\ BalancesMatchRows /\ [Next]_vars => BalancesMatchRows'
  <1> SUFFICES ASSUME IInv, BalancesMatchRows, [Next]_vars PROVE BalancesMatchRows'
    OBVIOUS
  <1>1. CASE UNCHANGED <<balance, bets>>
    <2>1. bets' \in Seq(Row)
      BY <1>1 DEF IInv, TypeOK
    <2>2. SUFFICES ASSUME NEW u \in Users
                   PROVE  balance'[u] = InitialBalance[u] + Sum(Deltas(bets'), RowsBy(bets', u))
      BY <2>1, BalancesAreSums DEF BalancesMatchRows, MapThenSumSet, MapThenFoldSet
    <2>3. balance[u] = InitialBalance[u] + Sum(Deltas(bets), RowsBy(bets, u))
      BY BooksAgree DEF IInv
    <2> QED
      BY <1>1, <2>3
  <1>2. ASSUME NEW w \in Workers, CommitStep(w) PROVE BalancesMatchRows'
    <2>1. /\ bets \in Seq(Row) /\ draft[w] \in Row /\ bets' = Append(bets, draft[w])
          /\ balance' = [balance EXCEPT ![draft[w].user] = balance[draft[w].user] + draft[w].delta]
          /\ draft[w].user \in Users /\ draft[w].delta \in Int
      BY <1>2, CommitFacts DEF IInv, Row
    <2>2. bets' \in Seq(Row)
      BY <2>1
    <2>3. SUFFICES ASSUME NEW u \in Users
                   PROVE  balance'[u] = InitialBalance[u] + Sum(Deltas(bets'), RowsBy(bets', u))
      BY <2>2, BalancesAreSums DEF BalancesMatchRows, MapThenSumSet, MapThenFoldSet
    <2> DEFINE sum == Sum(Deltas(bets), RowsBy(bets, u))
    <2>4. balance[u] = InitialBalance[u] + sum
      BY BooksAgree DEF IInv
    <2>5. sum \in Int /\ InitialBalance[u] \in Int /\ balance \in [Users -> Int]
      BY <2>1, DeltasType, SumType, BalanceAssumption DEF IInv, TypeOK
    <2>6. Sum(Deltas(bets'), RowsBy(bets', u))
            = IF draft[w].user = u THEN draft[w].delta + sum ELSE sum
      BY <2>1, AppendSums
    <2> HIDE DEF sum
    <2> QED
      BY <2>1, <2>4, <2>5, <2>6
  <1> QED
    BY <1>1, <1>2, StepFrame, LifecycleSteps DEF Next, vars, IInv

(* However the debits and credits of a user's requests overlap, no commit is  *)
(* lost: the balance is the initial one and what the committed rows say.     *)
THEOREM NoTransactionIsLost == Spec => []BalancesMatchRows
  BY Invariant, BooksInit, BooksStep, PTL DEF Spec

-----------------------------------------------------------------------------
(* The participation fee. *)

(* A sale that was quoted is of a user who takes part in the market. *)
SellersTakePart ==
    \A w \in Workers :
      pc[w] \in {"credit", "commitSale"} => UserHasBet(bets, req[w].user, req[w].market)

LEMMA HasBetKept ==
    ASSUME NEW rows \in Seq(Row), NEW row \in Row, NEW u, NEW m, UserHasBet(rows, u, m)
    PROVE  UserHasBet(Append(rows, row), u, m)
  <1>1. PICK i \in 1..Len(rows) : rows[i].user = u /\ rows[i].market = m
    BY DEF UserHasBet
  <1>2. i \in 1..Len(Append(rows, row)) /\ Append(rows, row)[i] = rows[i]
    BY AppendRow
  <1> QED
    BY <1>1, <1>2 DEF UserHasBet

LEMMA QuotedHasBet ==
    ASSUME OnlyTradersHold(Row), TypeOK, SalesCurrent, NEW w \in Workers, SellQuote(w),
           pc'[w] = "credit"
    PROVE  UserHasBet(bets, req[w].user, req[w].market)
  <1> DEFINE position == RowsOf(bets, seen[w].position, req[w].market)
             sellable == RowsOf(bets, seen[w].sellable, req[w].market)
             quote    == QuoteFrom(req[w], position, sellable)
  <1>1. CASE quote.shares > 0
    <2>1. PositionsAreInts(req[w], position, sellable) /\ pc[w] = "quote"
      BY DEF SellQuote, At
    <2>2. /\ req[w] \in Request /\ bets \in Seq(Row)
          /\ seen[w].position \in Nat /\ seen[w].position <= Len(bets)
      BY <2>1 DEF TypeOK, SalesCurrent
    <2>3. /\ quote \in QuoteType
          /\ quote.shares <= Held(position, req[w].user, req[w].outcome)
      <3> HIDE DEF position, sellable
      <3> QED BY <1>1, <2>1, <2>2, QuoteFromType
    <2>4. position \in SUBSET Row
      <3>1. \A i \in 1..seen[w].position : bets[i] \in Row
        BY <2>2
      <3> QED
        BY <3>1 DEF RowsOf
    <2>5. Held(position, req[w].user, req[w].outcome) # 0
      <3> HIDE DEF position, quote
      <3> QED BY <1>1, <2>3 DEF QuoteType
    <2>6. \E row \in position : row.user = req[w].user
      <3>1. req[w].user \in Users /\ req[w].outcome \in Outcomes
        BY <2>2 DEF Request
      <3> HIDE DEF position
      <3> QED BY <2>4, <2>5, <3>1 DEF OnlyTradersHold
    <2>7. PICK i \in 1..seen[w].position :
            bets[i].market = req[w].market /\ bets[i].user = req[w].user
      BY <2>6 DEF RowsOf
    <2>8. i \in 1..Len(bets)
      BY <2>2, <2>7
    <2> QED
      BY <2>7, <2>8 DEF UserHasBet
  <1>2. CASE Refuse(w)
    BY <1>2, EndRequestFrame DEF Refuse
  <1> QED
    BY <1>1, <1>2 DEF SellQuote

LEMMA SellersOwnStep ==
    ASSUME OnlyTradersHold(Row), IInv, SellersTakePart, NEW w \in Workers, WorkerStep(w),
           pc'[w] \in {"credit", "commitSale"}
    PROVE  UserHasBet(bets', req'[w].user, req'[w].market)
  <1>0. TypeOK
    BY DEF IInv
  <1>1. CASE SellQuote(w)
    <2>1. pc'[w] = "credit" /\ req' = req /\ bets' = bets
      BY <1>0, <1>1, EndRequestFrame DEF SellQuote, Refuse, TypeOK, Goto, EndRequest, At
    <2> QED
      BY <1>0, <1>1, <2>1, QuotedHasBet DEF IInv
  <1>2. CASE SellCredit(w)
    BY <1>0, <1>2 DEF SellCredit, At, dbVars, SellersTakePart
  <1>3. CASE Refuse(w) \/ CommitStep(w)
    BY <1>0, <1>3, EndRequestFrame DEF Refuse, CommitStep, PlaceCommit, SellCommit, Commit
  <1>4. CASE BeginPlace(w) \/ BeginSell(w) \/ PlaceGate(w) \/ PlaceLockUser(w)
    BY <1>0, <1>3, <1>4 DEF TypeOK, BeginPlace, BeginSell, PlaceGate, PlaceLockUser, Goto
  <1>5. CASE PlaceHasBet(w) \/ PlaceDebit(w)
    BY <1>0, <1>3, <1>5 DEF TypeOK, PlaceHasBet, PlaceDebit, Goto
  <1>6. CASE SellGate(w) \/ SellLoadPosition(w) \/ SellLoadSellable(w)
    BY <1>0, <1>3, <1>6 DEF TypeOK, SellGate, SellLoadPosition, SellLoadSellable, Goto
  <1> QED
    BY <1>1, <1>2, <1>3, <1>4, <1>5, <1>6
    DEF WorkerStep, PlaceStep, SellStep, Rollback, CommitStep

LEMMA SellersInductive ==
    OnlyTradersHold(Row) /\ IInv /\ SellersTakePart /\ [Next]_vars => SellersTakePart'
  <1> SUFFICES ASSUME OnlyTradersHold(Row), IInv, SellersTakePart, [Next]_vars
               PROVE  SellersTakePart'
    OBVIOUS
  <1>1. ASSUME NEW w \in Workers, WorkerStep(w), NEW v \in Workers,
               pc'[v] \in {"credit", "commitSale"}
        PROVE  UserHasBet(bets', req'[v].user, req'[v].market)
    <2>1. CASE v = w
      BY <1>1, <2>1, SellersOwnStep
    <2>2. CASE v # w
      <3>1. pc'[v] = pc[v] /\ req'[v] = req[v]
        BY <1>1, <2>2, StepFrame DEF IInv
      <3>2. UserHasBet(bets, req[v].user, req[v].market)
        BY <1>1, <3>1 DEF SellersTakePart
      <3>3. CASE CommitStep(w)
        <4>1. bets \in Seq(Row) /\ draft[w] \in Row /\ bets' = Append(bets, draft[w])
          BY <1>1, <3>3, CommitFacts DEF IInv
        <4> QED
          BY <3>1, <3>2, <4>1, HasBetKept
      <3>4. CASE bets' = bets
        BY <3>1, <3>2, <3>4
      <3> QED
        BY <1>1, <3>3, <3>4, StepFrame DEF IInv
    <2> QED
      BY <2>1, <2>2
  <1>2. CASE UNCHANGED <<bets, pc, req>>
    BY <1>2 DEF SellersTakePart
  <1> QED
    BY <1>1, <1>2, LifecycleSteps DEF Next, vars, IInv, SellersTakePart

(* The rows of a user in a market that were charged the fee. *)
FeeRows(rows, u, m) ==
    {j \in DOMAIN rows : rows[j].user = u /\ rows[j].market = m /\ rows[j].fee = InitialBetFee}

OneFeeEach(rows) ==
    \A i \in DOMAIN rows : \E k : FeeRows(rows, rows[i].user, rows[i].market) = {k}

(* The first row of a user in a market is charged, a later one is not. *)
LEMMA OneFeeAppend ==
    ASSUME InitialBetFee # 0, NEW rows \in Seq(Row), NEW row \in Row, OneFeeEach(rows),
           row.fee = InitialFee(UserHasBet(rows, row.user, row.market))
    PROVE  OneFeeEach(Append(rows, row))
  <1> DEFINE more == Append(rows, row)
             n    == Len(rows) + 1
  <1>1. /\ DOMAIN rows = 1..Len(rows) /\ DOMAIN more = 1..n /\ more[n] = row
        /\ \A i \in 1..Len(rows) : more[i] = rows[i]
        /\ Len(rows) \in Nat
    BY AppendRow
  <1>2. DOMAIN more = DOMAIN rows \union {n} /\ n \notin DOMAIN rows
    BY <1>1
  <1> HIDE DEF more, n
  <1>3. ASSUME NEW u, NEW m
        PROVE  FeeRows(more, u, m) = IF row.user = u /\ row.market = m /\ row.fee = InitialBetFee
                                     THEN FeeRows(rows, u, m) \union {n} ELSE FeeRows(rows, u, m)
    BY <1>1, <1>2 DEF FeeRows
  <1>4. ASSUME NEW i \in DOMAIN rows
        PROVE  \E k : FeeRows(more, more[i].user, more[i].market) = {k}
    <2>1. more[i] = rows[i]
      BY <1>1
    <2>2. row.user = rows[i].user /\ row.market = rows[i].market => row.fee # InitialBetFee
      BY <1>1 DEF UserHasBet, InitialFee
    <2> DEFINE u == rows[i].user
               m == rows[i].market
    <2>3. FeeRows(more, u, m) = FeeRows(rows, u, m)
      <3> HIDE DEF u, m
      <3>1. row.user = u /\ row.market = m => row.fee # InitialBetFee
        BY <2>2 DEF u, m
      <3> QED
        BY <1>3, <3>1
    <2>4. PICK k : FeeRows(rows, u, m) = {k}
      BY DEF OneFeeEach
    <2>5. FeeRows(more, more[i].user, more[i].market) = {k}
      BY <2>1, <2>3, <2>4
    <2> QED
      BY <2>5
  <1>5. \E k : FeeRows(more, row.user, row.market) = {k}
    <2>1. CASE UserHasBet(rows, row.user, row.market)
      <3>1. PICK i \in DOMAIN rows : rows[i].user = row.user /\ rows[i].market = row.market
        BY <1>1, <2>1 DEF UserHasBet
      <3>2. more[i] = rows[i]
        BY <1>1
      <3> QED
        BY <1>4, <3>1, <3>2
    <2>2. CASE ~UserHasBet(rows, row.user, row.market)
      <3>1. FeeRows(rows, row.user, row.market) = {}
        BY <1>1, <2>2 DEF UserHasBet, FeeRows
      <3>2. row.fee = InitialBetFee
        BY <2>2 DEF InitialFee
      <3>3. FeeRows(more, row.user, row.market) = {n}
        BY <1>3, <3>1, <3>2
      <3> QED
        BY <3>3
    <2> QED
      BY <2>1, <2>2
  <1> QED
    BY <1>1, <1>2, <1>4, <1>5 DEF OneFeeEach, more

LEMMA FeeStep ==
    ASSUME InitialBetFee # 0, IInv, SellersTakePart, OneFeeEach(bets), [Next]_vars
    PROVE  OneFeeEach(bets')
  <1>1. ASSUME NEW w \in Workers, CommitStep(w) PROVE OneFeeEach(bets')
    <2>1. /\ bets \in Seq(Row) /\ draft[w] \in Row /\ bets' = Append(bets, draft[w])
          /\ draft[w].user = req[w].user /\ draft[w].market = req[w].market
      BY <1>1, CommitFacts DEF IInv
    <2>2. draft[w].fee = InitialFee(UserHasBet(bets, draft[w].user, draft[w].market))
      <3>1. CASE PlaceCommit(w)
        <4> DEFINE hasBet == UserHasBet(bets, req[w].user, req[w].market)
        <4>1. draft[w] = BuyRow(req[w], hasBet, draft[w].placed_at)
          BY <3>1 DEF PlaceCommit, At, IInv, PlacementsCurrent
        <4> HIDE DEF hasBet
        <4>2. BuyRow(req[w], hasBet, draft[w].placed_at).fee = InitialFee(hasBet)
          BY DEF BuyRow
        <4> QED
          BY <2>1, <4>1, <4>2 DEF hasBet
      <3>2. CASE SellCommit(w)
        <4>1. UserHasBet(bets, req[w].user, req[w].market)
          BY <3>2 DEF SellCommit, At, SellersTakePart
        <4>2. \E quote : draft[w] = SaleRow(req[w], quote, draft[w].placed_at)
          BY <3>2 DEF SellCommit, At, IInv, SalesCurrent
        <4>3. draft[w].fee = 0
          BY <4>2 DEF SaleRow
        <4> QED
          BY <2>1, <4>1, <4>3 DEF InitialFee
      <3> QED
        BY <1>1, <3>1, <3>2 DEF CommitStep
    <2> QED
      BY <2>1, <2>2, OneFeeAppend
  <1>2. CASE bets' = bets
    BY <1>2
  <1> QED
    BY <1>1, <1>2, StepFrame, LifecycleSteps DEF Next, vars, IInv

LEMMA OneFeeCounted == OneFeeEach(bets) => OneParticipationFee
  <1> SUFFICES ASSUME OneFeeEach(bets), NEW i \in DOMAIN bets
               PROVE  Cardinality(FeeRows(bets, bets[i].user, bets[i].market)) = 1
    BY DEF OneParticipationFee, FeeRows
  <1> QED
    BY FS_Singleton DEF OneFeeEach

(* Where there is a participation fee and only traders hold shares, each user   *)
(* is charged it once per market, whatever first bets overlap.               *)
THEOREM FeeChargedOnce ==
    ASSUME InitialBetFee # 0, OnlyTradersHold(Row)
    PROVE  Spec => []OneParticipationFee
  <1>1. Init => SellersTakePart /\ OneFeeEach(bets)
    BY DEF Init, SellersTakePart, OneFeeEach
  <1>2. IInv /\ SellersTakePart /\ OneFeeEach(bets) /\ [Next]_vars
          => (SellersTakePart /\ OneFeeEach(bets))'
    BY SellersInductive, FeeStep
  <1> QED
    BY <1>1, <1>2, Invariant, OneFeeCounted, PTL DEF Spec

-----------------------------------------------------------------------------
(* Betting implements Ledger: a transaction takes effect at its commit. *)

(* The rules of Ledger are the rules of Betting. *)
LEMMA RulesAgree ==
    /\ L!Stamps = Stamps
    /\ \A rows, k, m : L!RowsOf(rows, k, m) = RowsOf(rows, k, m)
    /\ \A rows, u, m : L!UserHasBet(rows, u, m) = UserHasBet(rows, u, m)
    /\ \A rows, k, m : L!NoSaleSince(rows, k, m) = NoSaleSince(rows, k, m)
    /\ \A hasBet, amount : L!TotalCost(hasBet, amount) = TotalCost(hasBet, amount)
    /\ \A b, cost : L!EnsureSufficient(b, cost) = EnsureSufficient(b, cost)
    /\ \A r, hasBet, at : L!BuyRow(r, hasBet, at) = BuyRow(r, hasBet, at)
    /\ \A r, quote, at : L!SaleRow(r, quote, at) = SaleRow(r, quote, at)
    /\ \A r, p, s : L!QuoteFrom(r, p, s) = QuoteFrom(r, p, s)
  <1>1. L!Stamps = Stamps
    BY DEF L!Stamps, Stamps
  <1>2. \A rows, k, m : L!RowsOf(rows, k, m) = RowsOf(rows, k, m)
    BY DEF L!RowsOf, RowsOf
  <1>3. \A rows, u, m : L!UserHasBet(rows, u, m) = UserHasBet(rows, u, m)
    BY DEF L!UserHasBet, UserHasBet
  <1>4. \A rows, k, m : L!NoSaleSince(rows, k, m) = NoSaleSince(rows, k, m)
    BY DEF L!NoSaleSince, NoSaleSince, L!IsSale, IsSale
  <1>5. \A hasBet, amount : L!TotalCost(hasBet, amount) = TotalCost(hasBet, amount)
    BY DEF L!TotalCost, TotalCost, L!InitialFee, InitialFee
  <1>6. \A b, cost : L!EnsureSufficient(b, cost) = EnsureSufficient(b, cost)
    BY DEF L!EnsureSufficient, EnsureSufficient
  <1>7. \A r, hasBet, at : L!BuyRow(r, hasBet, at) = BuyRow(r, hasBet, at)
    BY <1>5 DEF L!BuyRow, BuyRow, L!InitialFee, InitialFee
  <1>8. \A r, quote, at : L!SaleRow(r, quote, at) = SaleRow(r, quote, at)
    BY DEF L!SaleRow, SaleRow, L!NetProceeds, NetProceeds
  <1>9. \A r, p, s : L!QuoteFrom(r, p, s) = QuoteFrom(r, p, s)
    <2>1. \A value, owned, asked, dust : L!Quote(value, owned, asked, dust) = Quote(value, owned, asked, dust)
      <3>1. \A a, b : L!NormalDust(a, b) = NormalDust(a, b)
        BY DEF L!NormalDust, NormalDust
      <3>2. \A a, b : L!RawDust(a, b) = RawDust(a, b)
        BY DEF L!RawDust, RawDust
      <3> QED
        BY <3>1, <3>2 DEF L!Quote, Quote, L!NoQuote, NoQuote
    <2>2. \A quote, shares, value : L!WithinInventory(quote, shares, value) = WithinInventory(quote, shares, value)
      BY DEF L!WithinInventory, WithinInventory
    <2>3. \A held, sellable, asked, dust : L!ExecutableQuote(held, sellable, asked, dust) = ExecutableQuote(held, sellable, asked, dust)
      BY <2>1, <2>2 DEF L!ExecutableQuote, ExecutableQuote, L!NoQuote, NoQuote
    <2> QED
      BY <2>3 DEF L!QuoteFrom, QuoteFrom
  <1> QED
    BY <1>1, <1>2, <1>3, <1>4, <1>5, <1>6, <1>7, <1>8, <1>9

LEMMA RecordCommit ==
    ASSUME IInv, NEW w \in Workers, CommitStep(w)
    PROVE  /\ L!Record(draft[w]) /\ bets' # bets
           /\ draft[w].placed_at \in L!FreshStamps
  <1>1. /\ bets \in Seq(Row) /\ draft[w] \in Row /\ bets' = Append(bets, draft[w])
        /\ balance' = [balance EXCEPT ![req[w].user] = balance[req[w].user] + draft[w].delta]
        /\ draft[w].user = req[w].user /\ Drafted(w) /\ lifecycle' = lifecycle
    BY CommitFacts DEF IInv, CommitStep, PlaceCommit, SellCommit, Commit
  <1>2. Len(bets') # Len(bets)
    BY <1>1, AppendRow
  <1>3. draft[w].placed_at \in Stamps
    BY <1>1 DEF Row
  <1>4. \A i \in DOMAIN bets : bets[i].placed_at # draft[w].placed_at
    BY <1>1 DEF IInv, StampsUnique
  <1> QED
    BY <1>1, <1>2, <1>3, <1>4, RulesAgree DEF L!Record, L!FreshStamps

LEMMA BuyRefines ==
    ASSUME IInv, NEW w \in Workers, PlaceCommit(w)
    PROVE  \E r \in BuyRequests, at \in L!FreshStamps : L!Buy(r, at)
  <1> DEFINE hasBet == UserHasBet(bets, req[w].user, req[w].market)
             at     == draft[w].placed_at
  <1>1. pc[w] = "commitPlace" /\ CommitStep(w)
    BY DEF PlaceCommit, At, CommitStep
  <1>2. req[w] \in BuyRequests /\ lifecycle[req[w].market] \in {"published", "resolved"}
    BY <1>1 DEF IInv, RequestsKnown, GatesPassed, PlaceSteps
  <1>3. /\ draft[w] = BuyRow(req[w], hasBet, at)
        /\ EnsureSufficient(balance[req[w].user], TotalCost(hasBet, req[w].amount))
    BY <1>1 DEF IInv, PlacementsCurrent
  <1>4. L!Record(draft[w]) /\ at \in L!FreshStamps
    BY <1>1, RecordCommit
  <1>5. L!Buy(req[w], at)
    <2> HIDE DEF hasBet, at
    <2>1. hasBet = L!UserHasBet(bets, req[w].user, req[w].market)
      BY RulesAgree DEF hasBet
    <2> QED
      BY <1>2, <1>3, <1>4, <2>1, RulesAgree DEF L!Buy
  <1> QED
    BY <1>2, <1>4, <1>5

LEMMA SellRefines ==
    ASSUME IInv, NEW w \in Workers, SellCommit(w)
    PROVE  \E r \in SellRequests, at \in L!FreshStamps, j, k \in 0..Len(bets) :
             L!Sell(r, at, j, k)
  <1> DEFINE j     == seen[w].position
             k     == seen[w].sellable
             at    == draft[w].placed_at
             quote == QuoteFrom(req[w], RowsOf(bets, j, req[w].market), RowsOf(bets, k, req[w].market))
  <1>1. pc[w] = "commitSale" /\ CommitStep(w)
    BY DEF SellCommit, At, CommitStep
  <1>2. req[w] \in SellRequests /\ lifecycle[req[w].market] # "resolved"
    BY <1>1 DEF IInv, RequestsKnown, GatesPassed, SellSteps
  <1>3. /\ j <= k /\ k <= Len(bets) /\ j <= Len(bets)
        /\ NoSaleSince(bets, j, req[w].market)
        /\ quote.shares > 0
        /\ draft[w] = SaleRow(req[w], quote, at)
    BY <1>1 DEF IInv, SalesCurrent
  <1>4. j \in Nat /\ k \in Nat /\ Len(bets) \in Nat
    BY DEF IInv, TypeOK
  <1>5. L!Record(draft[w]) /\ at \in L!FreshStamps
    BY <1>1, RecordCommit
  <1>6. L!Sell(req[w], at, j, k)
    <2> HIDE DEF j, k, at
    <2>1. quote = L!QuoteFrom(req[w], L!RowsOf(bets, j, req[w].market),
                                      L!RowsOf(bets, k, req[w].market))
      BY RulesAgree
    <2> HIDE DEF quote
    <2> QED
      BY <1>2, <1>3, <1>5, <2>1, RulesAgree DEF L!Sell
  <1>7. j \in 0..Len(bets) /\ k \in 0..Len(bets)
    <2> HIDE DEF j, k
    <2> QED BY <1>3, <1>4
  <1> QED
    BY <1>2, <1>5, <1>6, <1>7

LEMMA MarketRefines ==
    ASSUME NEW m \in Markets, MarketStep(m)
    PROVE  L!Next \/ UNCHANGED L!vars
  <1>1. CASE Expire(m)
    BY <1>1 DEF Expire, L!vars
  <1>2. CASE ApproveMarket(m) \/ RejectMarket(m)
    <2>1. L!Decide(m)
      BY <1>2 DEF ApproveMarket, RejectMarket, SetLifecycle, L!Decide, L!SetLifecycle
    <2> QED
      BY <2>1 DEF L!Next
  <1>3. CASE ResolveMarket(m)
    <2>1. L!Resolve(m)
      BY <1>3 DEF ResolveMarket, SetLifecycle, L!Resolve, L!SetLifecycle
    <2> QED
      BY <2>1 DEF L!Next
  <1> QED
    BY <1>1, <1>2, <1>3 DEF MarketStep

LEMMA StepRefines == IInv /\ [Next]_vars => [L!Next]_L!vars
  <1> SUFFICES ASSUME IInv, [Next]_vars PROVE L!Next \/ UNCHANGED L!vars
    OBVIOUS
  <1>1. ASSUME NEW w \in Workers, CommitStep(w) PROVE L!Next
    <2>1. CASE PlaceCommit(w)
      BY <2>1, BuyRefines DEF L!Next
    <2>2. CASE SellCommit(w)
      BY <1>1, <2>2, SellRefines, RecordCommit DEF L!Next
    <2> QED
      BY <1>1, <2>1, <2>2 DEF CommitStep
  <1>2. CASE UNCHANGED <<balance, bets, lifecycle>>
    BY <1>2 DEF L!vars
  <1> QED
    BY <1>1, <1>2, StepFrame, MarketRefines DEF Next, vars, IInv

(* Requests may overlap in any order and roll back anywhere: what they leave   *)
(* in the tables is a sequence of atomic bets and sales.                     *)
THEOREM BettingImplementsLedger == Spec => LedgerSpec
  <1>1. Init => L!Init
    BY DEF Init, L!Init
  <1> QED
    BY <1>1, Invariant, StepRefines, PTL DEF Spec, LedgerSpec, L!Spec
=============================================================================
