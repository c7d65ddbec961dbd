----------------------------- MODULE Resolution -----------------------------
(***************************************************************************)
(* Resolving one market, resolving a group and approving an answer of it, as  *)
(* the concurrent requests they are (backend/internal/domain/markets,         *)
(* backend/internal/repository/markets).                                    *)
(*                                                                         *)
(* A market resolved alone is a run of statements, each its own transaction:  *)
(* balances are read and written back without a lock.  A group is resolved,    *)
(* and an answer approved, in one transaction, which reads users FOR UPDATE.  *)
(* Either may fail at any statement; a failed transaction leaves nothing.     *)
(* A request that its first read refuses changes nothing and is left out.     *)
(***************************************************************************)
EXTENDS Integers, Sequences, FiniteSets

CONSTANTS Users, Workers, None, GroupRow, AdditionRow,
          Markets, Child,       \* the answers of the group, and the one proposed
          Payments,             \* [market, result -> what winners, or bettors after N/A, get]
          Bettors, Fee,         \* [market -> who bought], and the fee of a first bet
          Steward, Proposer, Cost, MaxDebt, InitialBalance,
          Swings, MaxTrades     \* bound: what trading does to a balance, and how often

VARIABLES outcome,     \* [Markets + Child -> the result or None], committed
          members,     \* the answers of the group
          group,       \* its lifecycle_status
          addition,    \* the status of the proposed answer
          balance,     \* [Users -> account_balance], committed
          lock,        \* the rows an open transaction wrote or locked, and by whom
          work,        \* [Workers -> the request and where it is]
          trades,
          settled,     \* history: [market -> the requests that resolved it]
          before,      \* history: [worker -> the requests that ended before it began]
          decided,     \* history: the requests that approved the answer, "rejected"
          ledger,      \* history: [Users -> what the balance should be]
          raced        \* history: users whose balance was written over a newer one

rows == <<outcome, members, group, addition, balance>>
past == <<settled, before, decided, ledger, raced>>
vars == <<rows, lock, work, trades, past>>

AllMarkets == Markets \union {Child}
Rows       == AllMarkets \union Users \union {GroupRow, AdditionRow}
Results    == {"YES", "NO", "N/A"}

Idle == [phase |-> "idle", kind |-> None, plan |-> [m \in {} |-> None], todo |-> {}, at |-> None,
         due |-> <<>>, read |-> None, paid |-> [u \in Users |-> 0],
         base |-> [u \in Users |-> None]]

Init ==
    /\ outcome = [m \in AllMarkets |-> None] /\ members = Markets
    /\ group = "published" /\ addition = "pending"
    /\ balance = InitialBalance /\ ledger = InitialBalance
    /\ lock = [r \in Rows |-> None]
    /\ work = [w \in Workers |-> Idle]
    /\ trades = 0
    /\ settled = [m \in AllMarkets |-> {}] /\ before = [w \in Workers |-> {}]
    /\ decided = {} /\ raced = {}
-----------------------------------------------------------------------------
Ended  == {w \in Workers : work[w].phase = "done"}
Groups == {w \in Workers : work[w].kind = "group"}

(* A request of a kind is in a phase; it moves on, with some fields set. *)
In(w, kind, phase) == work[w].kind = kind /\ work[w].phase = phase
Moves(w, record)   == work' = [work EXCEPT ![w] = record]

Begin(w, record) ==
    /\ work[w].phase = "idle"
    /\ Moves(w, record)
    /\ before' = [before EXCEPT ![w] = Ended]
    /\ UNCHANGED <<rows, lock, trades, settled, decided, ledger, raced>>

(* A statement of a transaction: it waits for the rows it locks. *)
Free(w, row)  == lock[row] \in {None, w}
Locks(w, row) == lock' = [lock EXCEPT ![row] = w]

(* Mutant of Released: the transaction is left open. *)
ReleasedNever(w) == lock

(* COMMIT and ROLLBACK. *)
Released(w) == [r \in Rows |-> IF lock[r] = w THEN None ELSE lock[r]]
Stays       == UNCHANGED <<rows, trades, past>>

Finished(w) == [work[w] EXCEPT !.phase = "done", !.todo = {}, !.at = None, !.due = <<>>,
                               !.read = None, !.paid = Idle.paid, !.base = Idle.base]

(* An error, a lost connection or a crash: a transaction is rolled back. *)
Fail(w) ==
    /\ work[w].phase \notin {"idle", "done"}
    /\ Moves(w, Finished(w))
    /\ lock' = Released(w)
    /\ Stays

(* The balances a transaction read and what it adds, committed with its rows. *)
CommitBalances(w) ==
    /\ balance' = [u \in Users |-> IF work[w].base[u] = None THEN balance[u]
                                   ELSE work[w].base[u] + work[w].paid[u]]
    /\ ledger' = [u \in Users |-> ledger[u] + work[w].paid[u]]
    /\ lock' = Released(w)
    /\ Moves(w, Finished(w))

(* ApplyTransaction of a transaction: SELECT ... FOR UPDATE, then the update.  *)
Pays(w, u, amount, record) ==
    /\ Free(w, u) /\ Locks(w, u)
    /\ Moves(w, [record EXCEPT !.paid[u] = @ + amount,
                               !.base[u] = IF @ = None THEN balance[u] ELSE @])
    /\ Stays
-----------------------------------------------------------------------------
(* ResolveMarket: read, update, pay one after the other, all on their own.   *)
Income(ms) == Fee * Cardinality(UNION {Bettors[m] : m \in ms})

(* The fees of all bettors, once each, unless everything is N/A. *)
WorkProfit(ms, results) ==
    IF results = {"N/A"} \/ Income(ms) = 0 THEN <<>>
    ELSE <<[user |-> Steward, amount |-> Income(ms)]>>

(* Mutant of AloneBegin: the status of the market is not checked. *)
AloneBeginAlways(w, m, result) ==
    /\ m \in members
    /\ Begin(w, [Idle EXCEPT !.phase = "update", !.kind = "alone", !.at = m,
                             !.plan = [x \in {m} |-> result]])

(* GetByID and ValidateResolutionRequest. *)
AloneBegin(w, m, result) ==
    /\ m \in members /\ outcome[m] = None
    /\ Begin(w, [Idle EXCEPT !.phase = "update", !.kind = "alone", !.at = m,
                             !.plan = [x \in {m} |-> result]])

(* The update has no condition on the state of the row. *)
AloneUpdate(w) ==
    LET m == work[w].at
        result == work[w].plan[m] IN
    /\ In(w, "alone", "update") /\ lock[m] = None
    /\ outcome' = [outcome EXCEPT ![m] = result]
    /\ settled' = [settled EXCEPT ![m] = @ \union {w}]
    /\ Moves(w, [work[w] EXCEPT !.phase = "pay",
                     !.due = Payments[m, result] \o WorkProfit({m}, {result})])
    /\ UNCHANGED <<members, group, addition, balance, lock, trades, before, decided, ledger, raced>>

(* updateUserBalance reads without a lock and writes what it computed.        *)
AloneRead(w) ==
    /\ In(w, "alone", "pay") /\ work[w].due # <<>> /\ work[w].read = None
    /\ Moves(w, [work[w] EXCEPT !.read = balance[Head(work[w].due).user]])
    /\ Stays /\ UNCHANGED lock

AloneWrite(w) ==
    LET u == Head(work[w].due).user
        amount == Head(work[w].due).amount IN
    /\ In(w, "alone", "pay") /\ work[w].read # None /\ lock[u] = None
    /\ balance' = [balance EXCEPT ![u] = work[w].read + amount]
    /\ ledger' = [ledger EXCEPT ![u] = @ + amount]
    /\ raced' = IF balance[u] = work[w].read THEN raced ELSE raced \union {u}
    /\ Moves(w, [work[w] EXCEPT !.due = Tail(@), !.read = None])
    /\ UNCHANGED <<outcome, members, group, addition, lock, trades, settled, before, decided>>

AloneEnd(w) ==
    /\ In(w, "alone", "pay") /\ work[w].due = <<>>
    /\ Moves(w, Finished(w))
    /\ Stays /\ UNCHANGED lock
-----------------------------------------------------------------------------
(* ResolveMarketGroup: every answer with a result, or all of them N/A.        *)
Plans == [members -> {"YES", "NO"}] \union {[m \in members |-> "N/A"]}

(* The group and its members are read, and each member found unresolved.     *)
GroupBegin(w, plan) ==
    /\ group = "published" /\ \A m \in members : outcome[m] = None
    /\ Begin(w, [Idle EXCEPT !.phase = "read", !.kind = "group", !.plan = plan,
                             !.todo = members])

(* resolveMarket reads the member once more; another transaction may have won. *)
GroupRead(w, m) ==
    /\ In(w, "group", "read") /\ m \in work[w].todo /\ outcome[m] = None
    /\ \A n \in work[w].todo : m <= n
    /\ Moves(w, [work[w] EXCEPT !.phase = "update", !.at = m])
    /\ Stays /\ UNCHANGED lock

GroupUpdate(w) ==
    LET m == work[w].at IN
    /\ In(w, "group", "update") /\ Free(w, m) /\ Locks(w, m)
    /\ Moves(w, [work[w] EXCEPT !.phase = "pay", !.todo = @ \ {m},
                                !.due = Payments[m, work[w].plan[m]]])
    /\ Stays

(* Mutant of GroupPay: the user is read without FOR UPDATE. *)
GroupPayUnlocked(w) ==
    LET u == Head(work[w].due).user IN
    /\ work[w].kind = "group" /\ work[w].phase \in {"pay", "profit"} /\ work[w].due # <<>>
    /\ Moves(w, [work[w] EXCEPT !.due = Tail(@), !.paid[u] = @ + Head(work[w].due).amount,
                                !.base[u] = IF @ = None THEN balance[u] ELSE @])
    /\ Stays /\ UNCHANGED lock

GroupPay(w) ==
    /\ work[w].kind = "group" /\ work[w].phase \in {"pay", "profit"} /\ work[w].due # <<>>
    /\ Pays(w, Head(work[w].due).user, Head(work[w].due).amount,
            [work[w] EXCEPT !.due = Tail(@)])

GroupPaid(w) ==
    /\ In(w, "group", "pay") /\ work[w].due = <<>>
    /\ Moves(w, [work[w] EXCEPT !.phase = IF work[w].todo = {} THEN "mark" ELSE "read"])
    /\ Stays /\ UNCHANGED lock

(* MarkMarketGroupResolved updates a published group, or the request fails.  *)
GroupMark(w) ==
    /\ In(w, "group", "mark") /\ Free(w, GroupRow) /\ group = "published"
    /\ Locks(w, GroupRow)
    /\ Moves(w, [work[w] EXCEPT !.phase = "profit",
                     !.due = WorkProfit(DOMAIN work[w].plan,
                                        {work[w].plan[m] : m \in DOMAIN work[w].plan})])
    /\ Stays

GroupCommit(w) ==
    /\ In(w, "group", "profit") /\ work[w].due = <<>>
    /\ outcome' = [m \in AllMarkets |-> IF m \in DOMAIN work[w].plan THEN work[w].plan[m]
                                        ELSE outcome[m]]
    /\ settled' = [m \in AllMarkets |-> IF m \in DOMAIN work[w].plan THEN settled[m] \union {w}
                                        ELSE settled[m]]
    /\ group' = "resolved"
    /\ CommitBalances(w)
    /\ UNCHANGED <<members, addition, trades, before, decided, raced>>
-----------------------------------------------------------------------------
(* ApproveMarketGroupAnswerAddition.                                         *)

(* Mutant of AddBegin: a resolved group takes answers. *)
AddBeginAlways(w) ==
    /\ addition = "pending"
    /\ Begin(w, [Idle EXCEPT !.phase = "charge", !.kind = "addition"])

AddBegin(w) ==
    /\ addition = "pending" /\ group = "published"
    /\ Begin(w, [Idle EXCEPT !.phase = "charge", !.kind = "addition"])

(* ValidateUserBalance and the fee, on the locked row of the proposer.        *)
AddCharge(w) ==
    /\ In(w, "addition", "charge") /\ balance[Proposer] - Cost >= -MaxDebt
    /\ Pays(w, Proposer, -Cost, [work[w] EXCEPT !.phase = "review"])

(* Mutant of AddReview: the status is written over. *)
AddReviewAlways(w) ==
    /\ In(w, "addition", "review") /\ Free(w, AdditionRow)
    /\ Locks(w, AdditionRow)
    /\ Moves(w, [work[w] EXCEPT !.phase = "commit"])
    /\ Stays

(* The child, its unique label in the group, and the review of a pending addition. *)
AddReview(w) ==
    /\ In(w, "addition", "review") /\ Free(w, AdditionRow) /\ addition = "pending"
    /\ Locks(w, AdditionRow)
    /\ Moves(w, [work[w] EXCEPT !.phase = "commit"])
    /\ Stays

AddCommit(w) ==
    /\ In(w, "addition", "commit")
    /\ addition' = "approved" /\ members' = members \union {Child}
    /\ decided' = decided \union {w}
    /\ CommitBalances(w)
    /\ UNCHANGED <<outcome, group, trades, settled, before, raced>>

(* RejectMarketGroupAnswerAddition: one conditional update. *)
RejectAddition ==
    /\ addition = "pending" /\ lock[AdditionRow] = None
    /\ addition' = "rejected"
    /\ decided' = decided \union {"rejected"}
    /\ UNCHANGED <<outcome, members, group, balance, lock, work, trades, settled, before,
                   ledger, raced>>

(* A bet or a sale: its transaction locks the user's row (Betting). *)
Trade(u, swing) ==
    /\ trades < MaxTrades /\ lock[u] = None
    /\ trades' = trades + 1
    /\ balance' = [balance EXCEPT ![u] = @ + swing]
    /\ ledger' = [ledger EXCEPT ![u] = @ + swing]
    /\ UNCHANGED <<outcome, members, group, addition, lock, work, settled, before, decided, raced>>

Step(w) ==
    \/ \E m \in AllMarkets, result \in Results : AloneBegin(w, m, result)
    \/ AloneUpdate(w) \/ AloneRead(w) \/ AloneWrite(w) \/ AloneEnd(w)
    \/ \E plan \in Plans : GroupBegin(w, plan)
    \/ \E m \in AllMarkets : GroupRead(w, m)
    \/ GroupUpdate(w) \/ GroupPay(w) \/ GroupPaid(w) \/ GroupMark(w) \/ GroupCommit(w)
    \/ AddBegin(w) \/ AddCharge(w) \/ AddReview(w) \/ AddCommit(w)
    \/ Fail(w)

Next == (\E w \in Workers : Step(w)) \/ RejectAddition \/ \E u \in Users, s \in Swings : Trade(u, s)

Spec == Init /\ [][Next]_vars
-----------------------------------------------------------------------------
Payment == [user : Users, amount : Int]
Phases  == {"idle", "update", "pay", "read", "mark", "profit", "charge", "review", "commit", "done"}
Planned == UNION {[S -> Results] : S \in SUBSET AllMarkets}
Request ==
    [phase : Phases, kind : {"alone", "group", "addition", None}, plan : Planned, todo : SUBSET AllMarkets,
     at : AllMarkets \union {None}, due : Seq(Payment), read : Int \union {None},
     paid : [Users -> Int], base : [Users -> Int \union {None}]]

(* What a request has still to resolve is in its plan; it read a balance to pay from. *)
Planful(record) ==
    /\ record.todo \subseteq DOMAIN record.plan
    /\ record.phase = "update" => record.at \in DOMAIN record.plan
    /\ record.read # None => record.kind = "alone" /\ record.phase = "pay" /\ record.due # <<>>

(* What the constants are; the instances of TLC are checked against it with the types. *)
ConstantsOK ==
    /\ None \notin Workers /\ None \notin Results /\ None \notin Int
    /\ None \notin {"alone", "group", "addition"} /\ "rejected" \notin Workers
    /\ Markets # {} /\ Child \notin Markets
    /\ Payments \in [AllMarkets \X Results -> Seq(Payment)]
    /\ Fee \in Nat /\ IsFiniteSet(Users) /\ Bettors \in [AllMarkets -> SUBSET Users]
    /\ Steward \in Users /\ Proposer \in Users
    /\ Cost \in Int /\ InitialBalance \in [Users -> Int] /\ Swings \subseteq Int

(* The fields stay in their sets; a row is held only by a transaction that is open. *)
TypeOK ==
    /\ outcome \in [AllMarkets -> Results \union {None}]
    /\ members \in {Markets, AllMarkets}
    /\ group \in {"published", "resolved"}
    /\ addition \in {"pending", "approved", "rejected"}
    /\ balance \in [Users -> Int] /\ ledger \in [Users -> Int]
    /\ lock \in [Rows -> Workers \union {None}]
    /\ work \in [Workers -> Request] /\ \A w \in Workers : Planful(work[w])
    /\ \A r \in Rows : lock[r] # None =>
           /\ work[lock[r]].phase \notin {"idle", "done"}
           /\ work[lock[r]].kind \in {"group", "addition"}
    /\ settled \in [AllMarkets -> SUBSET Workers] /\ before \in [Workers -> SUBSET Workers]

Overlapped(v, w) == v \notin before[w] /\ w \notin before[v]

(* Nothing in the update keeps a market from being resolved, and its winners from being   *)
(* paid, twice.  Yet this takes two requests under way at the same time, one of which      *)
(* resolves the market alone: the second group to be marked resolved is rolled back.       *)
TwiceOnlyByOverlap ==
    \A m \in AllMarkets : \A v, w \in settled[m] :
        v # w => Overlapped(v, w) /\ {v, w} \ Groups # {}

(* A balance is what was traded, paid and charged, unless the payment of a market resolved  *)
(* alone was written over a newer balance: nothing else loses a change.                    *)
BalanceExplained == \A u \in Users \ raced : balance[u] = ledger[u]

(* A resolved group leaves an answer open only if that answer was approved while a          *)
(* resolution of the group was under way: the resolution settles the members it read.      *)
OpenOnlyByOverlap ==
    group = "resolved" =>
        \A m \in members : outcome[m] = None =>
            m = Child /\ \E v \in decided \intersect Workers, w \in Groups \intersect Ended : Overlapped(v, w)

(* A proposed answer is decided once: two approvals of it, or an approval and a rejection,   *)
(* may be under way together, but one of them is refused and charges nobody, and the answer  *)
(* is in the group exactly if it was approved.                                              *)
DecidedOnce ==
    /\ \A v, w \in decided : v = w
    /\ (decided = {}) = (addition = "pending")
    /\ (Child \in members) = (addition = "approved")

(* The two, of a group and the answer proposed for it. *)
GroupIsWhole == OpenOnlyByOverlap /\ DecidedOnce
=============================================================================
