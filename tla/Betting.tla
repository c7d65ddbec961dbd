------------------------------ MODULE Betting ------------------------------
(***************************************************************************)
(* Placing and selling as the concurrent database transactions they are     *)
(* (backend/internal/domain/bets, backend/internal/repository/bets).        *)
(*                                                                         *)
(* A worker is the goroutine of one HTTP request.  A step is one statement   *)
(* of its transaction under READ COMMITTED with the SELECT ... FOR UPDATE    *)
(* row locks of Postgres; the transaction's own writes stay in draft and     *)
(* loaded until Commit.  Any step may instead fail and roll back, which is   *)
(* also what a crash of the server leaves behind.                            *)
(*                                                                         *)
(* The rows of the other components are seen here as their repository        *)
(* statements: a market row is approved, rejected or resolved when no        *)
(* transaction holds it, and its trading deadline passes at any time.        *)
(***************************************************************************)
EXTENDS BettingRules, FiniteSetsExt

CONSTANTS Workers, NoWorker, NoRow, NoRequest

ASSUME WorkersAssumption == NoWorker \notin Workers

VARIABLES balance,     \* [Users -> Int]: users.account_balance, committed
          bets,        \* the committed bet rows, in commit order
          lifecycle,   \* [Markets -> lifecycle_status]
          expired,     \* [Markets -> BOOLEAN]: resolution_date_time has passed
          clock,       \* placed_at values handed out
          userLock,    \* [Users -> worker holding the row, or NoWorker]
          marketLock,  \* [Markets -> worker holding the row, or NoWorker]
          pc,          \* [Workers -> the statement that comes next]
          req,         \* [Workers -> the request being served]
          loaded,      \* [Workers -> the balance last read in the transaction]
          seen,        \* [Workers -> length of bets at the position and the sellable load]
          draft        \* [Workers -> the row the transaction is about to insert]

dbVars == <<balance, bets, lifecycle, expired, clock>>
vars   == <<balance, bets, lifecycle, expired, clock, userLock, marketLock,
            pc, req, loaded, seen, draft>>

Lifecycle == {"proposed", "published", "rejected", "resolved"}

PlaceSteps == {"lockUser", "hasBet", "debit", "commitPlace"}
SellSteps  == {"loadPosition", "loadSellable", "quote", "credit", "commitSale"}
Steps      == {"idle", "placeGate", "sellGate"} \union PlaceSteps \union SellSteps

NothingSeen == [position |-> 0, sellable |-> 0]

(* Mutant of IsTradable: the rule of the sell gate below. *)
IsUnresolved(m) == lifecycle[m] # "resolved" /\ ~expired[m]

(* Market.IsTradableAt on the row as the markets repository maps it. *)
IsTradable(m) == lifecycle[m] = "published" /\ ~expired[m]

(* IsTradableAt on the row as sellMarketModelToDomain maps it: the lifecycle  *)
(* is not copied, so it counts as published.                                 *)
SellGateOpen(m) == lifecycle[m] # "resolved" /\ ~expired[m]

Init ==
    /\ balance = InitialBalance
    /\ bets = <<>>
    /\ lifecycle \in [Markets -> {"proposed", "published"}]
    /\ expired = [m \in Markets |-> FALSE]
    /\ clock = 0
    /\ userLock = [u \in Users |-> NoWorker]
    /\ marketLock = [m \in Markets |-> NoWorker]
    /\ pc = [w \in Workers |-> "idle"]
    /\ req = [w \in Workers |-> NoRequest]
    /\ loaded = [w \in Workers |-> 0]
    /\ seen = [w \in Workers |-> NothingSeen]
    /\ draft = [w \in Workers |-> NoRow]

-----------------------------------------------------------------------------
At(w, step)    == pc[w] = step
Goto(w, step)  == pc' = [pc EXCEPT ![w] = step]

(* The transaction ends: its locks are released, its memory is forgotten. *)
EndRequest(w) ==
    /\ userLock' = [u \in Users |-> IF userLock[u] = w THEN NoWorker ELSE userLock[u]]
    /\ marketLock' = [m \in Markets |-> IF marketLock[m] = w THEN NoWorker ELSE marketLock[m]]
    /\ req' = [req EXCEPT ![w] = NoRequest]
    /\ loaded' = [loaded EXCEPT ![w] = 0]
    /\ seen' = [seen EXCEPT ![w] = NothingSeen]
    /\ draft' = [draft EXCEPT ![w] = NoRow]
    /\ Goto(w, "idle")

Refuse(w) == EndRequest(w) /\ UNCHANGED dbVars

(* Bound: a request begins only if a stamp is left for it. *)
Unstamped  == {v \in Workers : pc[v] # "idle" /\ draft[v] = NoRow}
StampsLeft == clock + Cardinality(Unstamped) < MaxStamps

BeginPlace(w) ==
    /\ At(w, "idle")
    /\ StampsLeft
    /\ \E r \in BuyRequests : req' = [req EXCEPT ![w] = r]
    /\ Goto(w, "placeGate")
    /\ UNCHANGED <<dbVars, userLock, marketLock, loaded, seen, draft>>

BeginSell(w) ==
    /\ At(w, "idle")
    /\ StampsLeft
    /\ \E r \in SellRequests : req' = [req EXCEPT ![w] = r]
    /\ Goto(w, "sellGate")
    /\ UNCHANGED <<dbVars, userLock, marketLock, loaded, seen, draft>>

(* clock.Now(): a placed_at value later than every one handed out so far. *)
Stamp(w, row) ==
    /\ clock < MaxStamps
    /\ clock' = clock + 1
    /\ draft' = [draft EXCEPT ![w] = row]

-----------------------------------------------------------------------------
(* Placing.  The market is read before the transaction begins and without a *)
(* lock: nothing keeps it open from here on.                                *)
PlaceGate(w) ==
    /\ At(w, "placeGate")
    /\ IF IsTradable(req[w].market)
       THEN /\ Goto(w, "lockUser")
            /\ UNCHANGED <<dbVars, userLock, marketLock, req, loaded, seen, draft>>
       ELSE Refuse(w)

(* Mutant of PlaceLockUser: a plain SELECT. *)
PlaceReadUser(w) ==
    /\ At(w, "lockUser")
    /\ loaded' = [loaded EXCEPT ![w] = balance[req[w].user]]
    /\ Goto(w, "hasBet")
    /\ UNCHANGED <<dbVars, userLock, marketLock, req, seen, draft>>

(* users.GetUser: SELECT ... FOR UPDATE of the user's row. *)
PlaceLockUser(w) ==
    /\ At(w, "lockUser")
    /\ userLock[req[w].user] = NoWorker
    /\ userLock' = [userLock EXCEPT ![req[w].user] = w]
    /\ loaded' = [loaded EXCEPT ![w] = balance[req[w].user]]
    /\ Goto(w, "hasBet")
    /\ UNCHANGED <<dbVars, marketLock, req, seen, draft>>

(* Mutant of PlaceHasBet: the placement also locks its market row, as a sale  *)
(* does, but with the user's row already held.                              *)
PlaceHasBetLockingMarket(w) ==
    LET hasBet == UserHasBet(bets, req[w].user, req[w].market)
    IN /\ At(w, "hasBet")
       /\ marketLock[req[w].market] = NoWorker
       /\ IF EnsureSufficient(loaded[w], TotalCost(hasBet, req[w].amount))
          THEN /\ marketLock' = [marketLock EXCEPT ![req[w].market] = w]
               /\ Stamp(w, BuyRow(req[w], hasBet, clock + 1))
               /\ Goto(w, "debit")
               /\ UNCHANGED <<balance, bets, lifecycle, expired, userLock, req, loaded, seen>>
          ELSE Refuse(w)

(* UserHasBet, the fees, EnsureSufficient on the balance read before, and    *)
(* the time stamp of the bet.                                               *)
PlaceHasBet(w) ==
    LET hasBet == UserHasBet(bets, req[w].user, req[w].market)
    IN /\ At(w, "hasBet")
       /\ IF EnsureSufficient(loaded[w], TotalCost(hasBet, req[w].amount))
          THEN /\ Stamp(w, BuyRow(req[w], hasBet, clock + 1))
               /\ Goto(w, "debit")
               /\ UNCHANGED <<balance, bets, lifecycle, expired, userLock, marketLock,
                              req, loaded, seen>>
          ELSE Refuse(w)

(* ApplyTransaction(BUY): the balance is read again and the debited value    *)
(* written in the transaction.                                              *)
PlaceDebit(w) ==
    /\ At(w, "debit")
    /\ loaded' = [loaded EXCEPT ![w] = balance[req[w].user]]
    /\ Goto(w, "commitPlace")
    /\ UNCHANGED <<dbVars, userLock, marketLock, req, seen, draft>>

(* The insert of the bet and the commit, which publishes the row and the     *)
(* written balance together and releases the locks.                         *)
Commit(w) ==
    /\ bets' = Append(bets, draft[w])
    /\ balance' = [balance EXCEPT ![req[w].user] = loaded[w] + draft[w].delta]
    /\ EndRequest(w)
    /\ UNCHANGED <<lifecycle, expired, clock>>

PlaceCommit(w) == At(w, "commitPlace") /\ Commit(w)

-----------------------------------------------------------------------------
(* Mutant of SellGate: the market is read without FOR UPDATE. *)
SellGateUnlocked(w) ==
    /\ At(w, "sellGate")
    /\ IF SellGateOpen(req[w].market)
       THEN /\ Goto(w, "loadPosition")
            /\ UNCHANGED <<dbVars, userLock, marketLock, req, loaded, seen, draft>>
       ELSE Refuse(w)

(* Selling.  The gate is inside the transaction and keeps the market row      *)
(* locked until the end.                                                     *)
SellGate(w) ==
    /\ At(w, "sellGate")
    /\ marketLock[req[w].market] = NoWorker
    /\ IF SellGateOpen(req[w].market)
       THEN /\ marketLock' = [marketLock EXCEPT ![req[w].market] = w]
            /\ Goto(w, "loadPosition")
            /\ UNCHANGED <<dbVars, userLock, req, loaded, seen, draft>>
       ELSE Refuse(w)

(* GetUserPositionInMarket: the rows committed at this moment. *)
SellLoadPosition(w) ==
    /\ At(w, "loadPosition")
    /\ seen' = [seen EXCEPT ![w].position = Len(bets)]
    /\ Goto(w, "loadSellable")
    /\ UNCHANGED <<dbVars, userLock, marketLock, req, loaded, draft>>

(* GetUserSellablePositionInMarket: the rows are loaded a second time. *)
SellLoadSellable(w) ==
    /\ At(w, "loadSellable")
    /\ seen' = [seen EXCEPT ![w].sellable = Len(bets)]
    /\ Goto(w, "quote")
    /\ UNCHANGED <<dbVars, userLock, marketLock, req, loaded, draft>>

(* Mutant of SellQuote: a quote of no shares is executed. *)
SellAnyQuote(w) ==
    LET quote == QuoteFrom(req[w], RowsOf(bets, seen[w].position, req[w].market),
                                   RowsOf(bets, seen[w].sellable, req[w].market))
    IN /\ At(w, "quote")
       /\ Stamp(w, SaleRow(req[w], quote, clock + 1))
       /\ Goto(w, "credit")
       /\ UNCHANGED <<balance, bets, lifecycle, expired, userLock, marketLock,
                      req, loaded, seen>>

(* The quote, its checks and the time stamp of the sale. *)
SellQuote(w) ==
    LET position == RowsOf(bets, seen[w].position, req[w].market)
        sellable == RowsOf(bets, seen[w].sellable, req[w].market)
        quote    == QuoteFrom(req[w], position, sellable)
    IN /\ At(w, "quote")
       /\ PositionsAreInts(req[w], position, sellable)
       /\ IF quote.shares > 0
          THEN /\ Stamp(w, SaleRow(req[w], quote, clock + 1))
               /\ Goto(w, "credit")
               /\ UNCHANGED <<balance, bets, lifecycle, expired, userLock, marketLock,
                              req, loaded, seen>>
          ELSE Refuse(w)

(* CreditSale: ApplyTransaction(SALE) reads the balance FOR UPDATE and writes *)
(* the credited value in the transaction.                                    *)
SellCredit(w) ==
    /\ At(w, "credit")
    /\ userLock[req[w].user] = NoWorker
    /\ userLock' = [userLock EXCEPT ![req[w].user] = w]
    /\ loaded' = [loaded EXCEPT ![w] = balance[req[w].user]]
    /\ Goto(w, "commitSale")
    /\ UNCHANGED <<dbVars, marketLock, req, seen, draft>>

SellCommit(w) == At(w, "commitSale") /\ Commit(w)

(* A statement fails, the client is gone or the process dies: the database    *)
(* rolls the transaction back.                                               *)
Rollback(w) == pc[w] # "idle" /\ Refuse(w)

-----------------------------------------------------------------------------
(* The market row as the repository statements of the other services write   *)
(* it: an UPDATE waits for the row lock, and its WHERE decides.              *)
SetLifecycle(m, value) ==
    /\ marketLock[m] = NoWorker
    /\ lifecycle' = [lifecycle EXCEPT ![m] = value]
    /\ UNCHANGED <<balance, bets, expired, clock, userLock, marketLock,
                   pc, req, loaded, seen, draft>>

ApproveMarket(m) == lifecycle[m] = "proposed" /\ SetLifecycle(m, "published")
RejectMarket(m)  == lifecycle[m] = "proposed" /\ SetLifecycle(m, "rejected")
ResolveMarket(m) == SetLifecycle(m, "resolved")

(* The resolution date passes. *)
Expire(m) ==
    /\ ~expired[m]
    /\ expired' = [expired EXCEPT ![m] = TRUE]
    /\ UNCHANGED <<balance, bets, lifecycle, clock, userLock, marketLock,
                   pc, req, loaded, seen, draft>>

-----------------------------------------------------------------------------
PlaceStep(w) ==
    PlaceGate(w) \/ PlaceLockUser(w) \/ PlaceHasBet(w) \/ PlaceDebit(w) \/ PlaceCommit(w)

SellStep(w) ==
    \/ SellGate(w) \/ SellLoadPosition(w) \/ SellLoadSellable(w)
    \/ SellQuote(w) \/ SellCredit(w) \/ SellCommit(w)

MarketStep(m) == ApproveMarket(m) \/ RejectMarket(m) \/ ResolveMarket(m) \/ Expire(m)

WorkerStep(w) ==
    BeginPlace(w) \/ BeginSell(w) \/ PlaceStep(w) \/ SellStep(w) \/ Rollback(w)

Next == (\E w \in Workers : WorkerStep(w)) \/ (\E m \in Markets : MarketStep(m))

Spec == Init /\ [][Next]_vars

(* A goroutine that can run its next statement eventually does.  Postgres     *)
(* queues the waiters of a row lock, so a statement that waits for a row      *)
(* gets it if it is released again and again: strong fairness.               *)
Fairness ==
    \A w \in Workers :
      /\ WF_vars(PlaceGate(w) \/ PlaceHasBet(w) \/ PlaceDebit(w) \/ PlaceCommit(w))
      /\ WF_vars(SellLoadPosition(w) \/ SellLoadSellable(w) \/ SellQuote(w) \/ SellCommit(w))
      /\ SF_vars(PlaceLockUser(w))
      /\ SF_vars(SellGate(w))
      /\ SF_vars(SellCredit(w))

FairSpec == Spec /\ Fairness

-----------------------------------------------------------------------------
HoldsUser(w)   == pc[w] \in {"hasBet", "debit", "commitPlace", "commitSale"}
HoldsMarket(w) == pc[w] \in SellSteps
Drafted(w)     == pc[w] \in {"debit", "commitPlace", "credit", "commitSale"}

(* Every variable has its type. *)
TypeOK ==
    /\ balance \in [Users -> Int]
    /\ bets \in Seq(Row)
    /\ lifecycle \in [Markets -> Lifecycle]
    /\ expired \in [Markets -> BOOLEAN]
    /\ clock \in 0..MaxStamps
    /\ userLock \in [Users -> Workers \union {NoWorker}]
    /\ marketLock \in [Markets -> Workers \union {NoWorker}]
    /\ pc \in [Workers -> Steps]
    /\ req \in [Workers -> Request \union {NoRequest}]
    /\ \A w \in Workers : pc[w] # "idle" => req[w] \in Request
    /\ \A w \in Workers : Drafted(w) => draft[w] \in Row
    /\ loaded \in [Workers -> Int]
    /\ seen \in [Workers -> [position : Nat, sellable : Nat]]
    /\ draft \in [Workers -> Row \union {NoRow}]

(* The books agree: a user's balance is the initial balance plus what each    *)
(* committed row of the user was meant to take or give.  Overlapping          *)
(* requests of one user never overwrite each other's debit or credit          *)
(* (place_transaction.go locks the user's row before the balance is read).    *)
BalancesMatchRows ==
    \A u \in Users :
      balance[u] = InitialBalance[u]
                   + MapThenSumSet(LAMBDA i : bets[i].delta,
                                   {i \in DOMAIN bets : bets[i].user = u})

(* Nobody is ever in debt beyond the configured limit, however many requests  *)
(* of the user run at once (EnsureSufficient reads one balance, the debit     *)
(* another).                                                                 *)
DebtFloor == \A u \in Users : balance[u] >= -MaxDebt

(* The first participation fee is charged exactly once per user and market,   *)
(* though hasBet is read before the row is inserted and two first bets may    *)
(* run at once.                                                              *)
OneParticipationFee ==
    \A i \in DOMAIN bets :
      Cardinality({j \in DOMAIN bets : /\ bets[j].user = bets[i].user
                                       /\ bets[j].market = bets[i].market
                                       /\ bets[j].fee = InitialBetFee}) = 1

(* A sale is priced against every sale committed before it in its market:     *)
(* no two sales consume the same unlocked shares (sell_transaction.go).       *)
SalesAreSerial ==
    \A w \in Workers :
      pc[w] \in {"quote", "credit", "commitSale"} =>
        NoSaleSince(bets, seen[w].position, req[w].market)

(* No row is ever in a market that is still proposed or was rejected, though   *)
(* the place gate is checked outside the transaction and the sell gate, as    *)
(* the row is mapped there, only sees whether the market is resolved.         *)
RowsOnlyInPublishedMarkets ==
    \A i \in DOMAIN bets : lifecycle[bets[i].market] \in {"published", "resolved"}

(* The rows a step commits. *)
NewRows == DOMAIN bets' \ DOMAIN bets

(* No sale is committed into a resolved market: the sale holds the market row *)
(* and the resolution has to wait for it.                                    *)
NoSaleAfterResolution ==
    [][\A i \in NewRows : IsSale(bets'[i]) => lifecycle[bets'[i].market] # "resolved"]_vars

(* "closed: market is no longer accepting trades", and a resolved market has  *)
(* paid out: what the documentation says of every new row.  The place gate    *)
(* does not ensure it.                                                       *)
NoBetOnceClosed ==
    [][\A i \in NewRows : ~IsSale(bets'[i]) => IsTradable(bets'[i].market)]_vars

(* Every request is eventually answered: the row locks of overlapping         *)
(* placements and sales never leave one waiting for ever.                    *)
EveryRequestIsAnswered ==
    \A w \in Workers : (pc[w] # "idle") ~> (pc[w] = "idle")

-----------------------------------------------------------------------------
(* The inductive invariant behind the safety properties.                     *)

(* A transaction holds the rows it has locked. *)
LocksHeld ==
    \A w \in Workers :
      /\ HoldsUser(w) => userLock[req[w].user] = w
      /\ HoldsMarket(w) => marketLock[req[w].market] = w

(* What a placement has read of its user is still so: the balance, the        *)
(* participation and with them the row and the debit it computed.             *)
PlacementsCurrent ==
    \A w \in Workers :
      LET hasBet == UserHasBet(bets, req[w].user, req[w].market)
      IN /\ pc[w] \in {"hasBet", "commitPlace", "commitSale"} => loaded[w] = balance[req[w].user]
         /\ pc[w] \in {"debit", "commitPlace"} =>
              /\ draft[w] = BuyRow(req[w], hasBet, draft[w].placed_at)
              /\ EnsureSufficient(balance[req[w].user], TotalCost(hasBet, req[w].amount))

(* The rows a sale has read are a prefix of the table, with every sale of the  *)
(* market in it, and its draft is the quote of those rows.                    *)
SalesCurrent ==
    \A w \in Workers :
      /\ pc[w] \in {"loadSellable", "quote", "credit", "commitSale"} =>
           /\ seen[w].position <= Len(bets)
           /\ NoSaleSince(bets, seen[w].position, req[w].market)
      /\ pc[w] \in {"quote", "credit", "commitSale"} =>
           /\ seen[w].position <= seen[w].sellable
           /\ seen[w].sellable <= Len(bets)
      /\ pc[w] \in {"credit", "commitSale"} =>
           LET quote == QuoteFrom(req[w], RowsOf(bets, seen[w].position, req[w].market),
                                          RowsOf(bets, seen[w].sellable, req[w].market))
           IN /\ RowsOf(bets, seen[w].position, req[w].market) # {}
              /\ quote.shares > 0
              /\ NetProceeds(quote) \in Nat
              /\ draft[w] = SaleRow(req[w], quote, draft[w].placed_at)

(* A request serves what a client may ask for. *)
RequestsKnown ==
    \A w \in Workers :
      /\ pc[w] \in {"placeGate"} \union PlaceSteps => req[w] \in BuyRequests
      /\ pc[w] \in {"sellGate"} \union SellSteps => req[w] \in SellRequests

(* A placed_at value is used once and is not later than the clock. *)
StampsUnique ==
    /\ \A i \in DOMAIN bets : bets[i].placed_at <= clock
    /\ \A w \in Workers : Drafted(w) =>
         /\ draft[w].placed_at <= clock
         /\ \A i \in DOMAIN bets : bets[i].placed_at # draft[w].placed_at
         /\ \A v \in Workers \ {w} :
              Drafted(v) => draft[v].placed_at # draft[w].placed_at

(* Past the gate, the market was published; during a sale, it is unresolved. *)
GatesPassed ==
    \A w \in Workers :
      /\ pc[w] \in PlaceSteps => lifecycle[req[w].market] \in {"published", "resolved"}
      /\ pc[w] \in SellSteps => lifecycle[req[w].market] # "resolved"

IInv ==
    /\ TypeOK
    /\ LocksHeld
    /\ RequestsKnown
    /\ PlacementsCurrent
    /\ SalesCurrent
    /\ StampsUnique
    /\ GatesPassed
    /\ RowsOnlyInPublishedMarkets
    /\ DebtFloor

-----------------------------------------------------------------------------
(* Each transaction takes effect in one step, at its commit, as if no other    *)
(* request ran: Betting implements Ledger.                                    *)
L == INSTANCE Ledger WITH account <- balance, rows <- bets, lifecycle <- lifecycle

LedgerSpec == L!Spec
=============================================================================
