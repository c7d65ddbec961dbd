--------------------------- MODULE ServiceProofs ---------------------------
(***************************************************************************)
(* Theorems about the service for all its constants: about resolutions,       *)
(* whatever a result pays, about accounts, stewards and snapshots, and about   *)
(* the four together.                                                        *)
(***************************************************************************)
EXTENDS Service, FiniteSetTheorems, TLAPS

-----------------------------------------------------------------------------
(* Resolutions: type correctness. *)

LEMMA IncomeType ==
    ASSUME ConstantsOK, NEW ms, ms \subseteq AllMarkets
    PROVE  Income(ms) \in Int
<1>1. UNION {Bettors[m] : m \in ms} \subseteq Users
  BY DEF ConstantsOK
<1>2. Cardinality(UNION {Bettors[m] : m \in ms}) \in Nat
  BY <1>1, FS_Subset, FS_CardinalityType DEF ConstantsOK
<1>3. \A a, b \in Nat : a * b \in Int
  OBVIOUS
<1> QED
  BY <1>2, <1>3 DEF Income, ConstantsOK

LEMMA WorkProfitType ==
    ASSUME ConstantsOK, NEW ms, ms \subseteq AllMarkets, NEW results
    PROVE  WorkProfit(ms, results) \in Seq(Payment)
<1>1. [user |-> Steward, amount |-> Income(ms)] \in Payment
  BY IncomeType DEF Payment, ConstantsOK
<1>2. \A p \in Payment : <<p>> \in Seq(Payment)
  OBVIOUS
<1>3. <<>> \in Seq(Payment)
  OBVIOUS
<1> QED
  BY <1>1, <1>2, <1>3 DEF WorkProfit

LEMMA PaymentsType ==
    ASSUME ConstantsOK, NEW m \in AllMarkets, NEW result \in Results
    PROVE  Payments[m, result] \in Seq(Payment)
<1>1. <<m, result>> \in AllMarkets \X Results
  OBVIOUS
<1>2. Payments \in [AllMarkets \X Results -> Seq(Payment)]
  BY DEF ConstantsOK
<1> DEFINE D == AllMarkets \X Results
<1>3. Payments[<<m, result>>] \in Seq(Payment)
  <2> HIDE DEF D
  <2>1. <<m, result>> \in D /\ Payments \in [D -> Seq(Payment)]
    BY <1>1, <1>2 DEF D
  <2> QED
    BY <2>1
<1> QED
  BY <1>3

LEMMA ConcatPayments ==
    ASSUME NEW s \in Seq(Payment), NEW t \in Seq(Payment)
    PROVE  s \o t \in Seq(Payment)
  OBVIOUS

(* The first payment due and the rest. *)
LEMMA DueType ==
    ASSUME NEW due \in Seq(Payment), due # <<>>
    PROVE  /\ Head(due) \in Payment /\ Tail(due) \in Seq(Payment)
           /\ Head(due).user \in Users /\ Head(due).amount \in Int
<1>1. Head(due) \in Payment /\ Tail(due) \in Seq(Payment)
  OBVIOUS
<1> QED
  BY <1>1 DEF Payment

LEMMA PlannedType ==
    ASSUME NEW S, S \subseteq AllMarkets, NEW plan \in [S -> Results]
    PROVE  plan \in Planned
  BY DEF Planned

LEMMA PlannedDomain ==
    ASSUME NEW plan \in Planned
    PROVE  /\ DOMAIN plan \subseteq AllMarkets
           /\ plan \in [DOMAIN plan -> Results]
  BY DEF Planned

LEMMA IdleType == Idle \in Request
<1>1. Idle.plan \in Planned
  <2>1. Idle.plan \in [{} -> Results]
    BY DEF Idle
  <2> QED
    BY <2>1, PlannedType
<1>2. Idle.due \in Seq(Payment)
  BY DEF Idle
<1> QED
  BY <1>1, <1>2 DEF Idle, Request, Phases

(* A request in its next phase. *)
LEMMA MovesType ==
    ASSUME TypeOK, NEW w \in Workers, NEW record \in Request, Moves(w, record)
    PROVE  /\ work' \in [Workers -> Request]
           /\ work'[w] = record
           /\ \A v \in Workers \ {w} : work'[v] = work[v]
  BY DEF TypeOK, Moves

LEMMA FinishedType ==
    ASSUME TypeOK, NEW w \in Workers
    PROVE  Finished(w) \in Request
<1>1. work[w] \in Request /\ Idle \in Request
  BY IdleType DEF TypeOK
<1>2. <<>> \in Seq(Payment)
  OBVIOUS
<1> QED
  BY <1>1, <1>2 DEF Finished, Request, Phases

(* Rows are locked for open transactions only. *)
LocksOK ==
    /\ lock \in [Rows -> Workers \union {None}]
    /\ work \in [Workers -> Request] /\ \A w \in Workers : Planful(work[w])
    /\ \A r \in Rows : lock[r] # None =>
           /\ work[lock[r]].phase \notin {"idle", "done"}
           /\ work[lock[r]].kind \in {"group", "addition"}

(* A step that locks nothing: of a request that stays open, begins, or came alone. *)
LEMMA MoveKeepsLocks ==
    ASSUME TypeOK, NEW w \in Workers, NEW record \in Request, Planful(record),
           Moves(w, record), lock' = lock,
           \/ record.phase \notin {"idle", "done"} /\ record.kind = work[w].kind
           \/ work[w].phase = "idle"
           \/ work[w].kind = "alone"
    PROVE  LocksOK'
  BY MovesType DEF TypeOK, LocksOK

(* A step that locks a row. *)
LEMMA LockKeepsLocks ==
    ASSUME TypeOK, NEW w \in Workers, NEW record \in Request, Planful(record),
           Moves(w, record), NEW r \in Rows, Locks(w, r),
           record.phase \notin {"idle", "done"}, record.kind = work[w].kind,
           record.kind \in {"group", "addition"}
    PROVE  LocksOK'
  BY MovesType DEF TypeOK, LocksOK, Locks

(* The end of a transaction leaves no row to it. *)
LEMMA ReleaseKeepsLocks ==
    ASSUME TypeOK, ConstantsOK, NEW w \in Workers, lock' = Released(w), Moves(w, Finished(w))
    PROVE  LocksOK'
<1>1. Finished(w) \in Request /\ Planful(Finished(w))
  <2>1. work[w] \in Request
    BY DEF TypeOK
  <2> QED
    BY <2>1, FinishedType DEF Planful, Finished, Request
<1>2. /\ work' \in [Workers -> Request] /\ work'[w] = Finished(w)
      /\ \A v \in Workers \ {w} : work'[v] = work[v]
  BY <1>1, MovesType
<1> QED
  BY <1>1, <1>2 DEF TypeOK, Released, LocksOK

LEMMA InitType == ConstantsOK /\ Init => TypeOK
  BY IdleType DEF ConstantsOK, Init, TypeOK, AllMarkets, Planful, Idle

LEMMA AloneType ==
    ASSUME TypeOK, ConstantsOK, NEW w \in Workers,
           \/ \E m \in AllMarkets, result \in Results : AloneBegin(w, m, result)
           \/ AloneUpdate(w) \/ AloneRead(w) \/ AloneWrite(w) \/ AloneEnd(w)
    PROVE  TypeOK'
<1> USE DEF LocksOK, Rows, Planful
<1>0. work[w] \in Request
  BY DEF TypeOK
<1>1. ASSUME NEW m \in AllMarkets, NEW result \in Results, AloneBegin(w, m, result)
      PROVE  TypeOK'
  <2> DEFINE plan == [x \in {m} |-> result]
             record == [Idle EXCEPT !.phase = "update", !.kind = "alone", !.at = m,
                                    !.plan = plan]
  <2>1. plan \in Planned
    BY PlannedType
  <2>2. record \in Request
    BY <2>1, IdleType DEF Request, Phases
  <2>3. Planful(record)
    BY DEF Idle
  <2>4. Moves(w, record) /\ lock' = lock /\ work[w].phase = "idle"
    BY <1>1 DEF AloneBegin, Begin
  <2>5. LocksOK'
    BY <2>2, <2>3, <2>4, MoveKeepsLocks
  <2> QED
    BY <1>1, <2>5 DEF TypeOK, AloneBegin, Begin, Ended, rows
<1>2. CASE AloneUpdate(w)
  <2> DEFINE m == work[w].at
             result == work[w].plan[m]
             due == Payments[m, result] \o WorkProfit({m}, {result})
             record == [work[w] EXCEPT !.phase = "pay", !.due = due]
  <2>1. m \in DOMAIN work[w].plan /\ work[w].plan \in Planned
    BY <1>0, <1>2 DEF AloneUpdate, In, TypeOK, Request
  <2>2. m \in AllMarkets /\ result \in Results
    BY <2>1, PlannedDomain
  <2>3. due \in Seq(Payment)
    <3>1. Payments[m, result] \in Seq(Payment)
      BY <2>2, PaymentsType
    <3>2. WorkProfit({m}, {result}) \in Seq(Payment)
      BY <2>2, WorkProfitType
    <3> HIDE DEF m, result
    <3> QED
      BY <3>1, <3>2, ConcatPayments
  <2>4. record \in Request
    BY <1>0, <2>3 DEF Request, Phases
  <2>5. Planful(record)
    BY <1>0, <1>2 DEF Request, TypeOK, AloneUpdate, In
  <2>6. Moves(w, record) /\ lock' = lock /\ work[w].kind = "alone"
    BY <1>2 DEF AloneUpdate, In
  <2>7. LocksOK'
    BY <2>4, <2>5, <2>6, MoveKeepsLocks
  <2> QED
    BY <1>2, <2>2, <2>7 DEF TypeOK, AloneUpdate, Results
<1>3. CASE AloneRead(w)
  <2> DEFINE record == [work[w] EXCEPT !.read = balance[Head(work[w].due).user]]
  <2>1. balance[Head(work[w].due).user] \in Int
    BY <1>0, <1>3, DueType DEF AloneRead, Request, TypeOK
  <2>2. record \in Request /\ Planful(record)
    <3>1. record \in Request
      BY <1>0, <2>1 DEF Request
    <3>2. Planful(record)
      BY <1>0, <1>3 DEF Request, TypeOK, AloneRead, In
    <3> QED
      BY <3>1, <3>2
  <2>3. Moves(w, record) /\ lock' = lock /\ work[w].kind = "alone"
    BY <1>3 DEF AloneRead, In
  <2>4. LocksOK'
    BY <2>2, <2>3, MoveKeepsLocks
  <2> QED
    BY <1>3, <2>4 DEF TypeOK, AloneRead, Stays, rows, past
<1>4. CASE AloneWrite(w)
  <2> DEFINE due == work[w].due
             record == [work[w] EXCEPT !.due = Tail(@), !.read = None]
  <2>1. work[w].read # None
    BY <1>4 DEF AloneWrite
  <2>2. due # <<>>
    BY <1>0, <1>4 DEF AloneWrite, TypeOK, Planful
  <2>3. Head(due).user \in Users /\ Head(due).amount \in Int /\ Tail(due) \in Seq(Payment)
    BY <1>0, <2>2, DueType DEF Request
  <2>4. record \in Request /\ Planful(record)
    BY <1>0, <2>3 DEF Request, TypeOK
  <2>5. Moves(w, record) /\ lock' = lock /\ work[w].kind = "alone"
    BY <1>4 DEF AloneWrite, In
  <2>6. LocksOK'
    BY <2>4, <2>5, MoveKeepsLocks
  <2>7. balance' \in [Users -> Int] /\ ledger' \in [Users -> Int]
    BY <1>0, <1>4, <2>1, <2>3 DEF AloneWrite, TypeOK, Request
  <2> QED
    BY <1>4, <2>6, <2>7 DEF TypeOK, AloneWrite
<1>5. CASE AloneEnd(w)
  <2>1. LocksOK'
    <3>1. Finished(w) \in Request /\ Planful(Finished(w))
      BY <1>0, FinishedType DEF Finished, Request
    <3>2. Moves(w, Finished(w)) /\ lock' = lock /\ work[w].kind = "alone"
      BY <1>5 DEF AloneEnd, In
    <3> QED
      BY <3>1, <3>2, MoveKeepsLocks
  <2> QED
    BY <1>5, <2>1 DEF TypeOK, AloneEnd, Stays, rows, past
<1> QED
  BY <1>1, <1>2, <1>3, <1>4, <1>5

(* What a group resolution needs of its request. *)
LEMMA GroupRequest ==
    ASSUME TypeOK, NEW w \in Workers, work[w].kind # "alone"
    PROVE  work[w].read = None
  BY DEF TypeOK, Planful

(* A payment inside a transaction locks the row of the user. *)
LEMMA PaysType ==
    ASSUME TypeOK, ConstantsOK, NEW w \in Workers, NEW u \in Users, NEW amount \in Int,
           NEW record \in Request, Pays(w, u, amount, record), Planful(record),
           record.phase \notin {"idle", "done"}, record.kind = work[w].kind,
           record.kind \in {"group", "addition"}
    PROVE  TypeOK'
<1> DEFINE next == [record EXCEPT !.paid[u] = @ + amount,
                                  !.base[u] = IF @ = None THEN balance[u] ELSE @]
<1> DEFINE paid == [record.paid EXCEPT ![u] = @ + amount]
           base == [record.base EXCEPT ![u] = IF @ = None THEN balance[u] ELSE @]
<1>1. next \in Request
  <2>1. paid \in [Users -> Int] /\ base \in [Users -> Int \union {None}]
    BY DEF TypeOK, Request
  <2>2. next = [record EXCEPT !.paid = paid, !.base = base]
    BY DEF Request
  <2> HIDE DEF paid, base, next
  <2>3. [record EXCEPT !.paid = paid, !.base = base] \in Request
    BY <2>1 DEF Request
  <2> QED
    BY <2>2, <2>3
<1>2. Planful(next) /\ next.phase \notin {"idle", "done"} /\ next.kind = work[w].kind
      /\ next.kind \in {"group", "addition"}
  BY DEF Planful, Request
<1>3. Moves(w, next) /\ Locks(w, u) /\ u \in Rows
  BY DEF Pays, Rows
<1> HIDE DEF next
<1>4. LocksOK'
  BY <1>1, <1>2, <1>3, LockKeepsLocks
<1> QED
  BY <1>4 DEF LocksOK, TypeOK, Pays, Stays, rows, past

(* A transaction commits the balances it read and changed. *)
LEMMA CommitType ==
    ASSUME TypeOK, ConstantsOK, NEW w \in Workers, CommitBalances(w)
    PROVE  LocksOK' /\ balance' \in [Users -> Int] /\ ledger' \in [Users -> Int]
<1>1. LocksOK'
  BY ReleaseKeepsLocks DEF CommitBalances
<1>2. work[w].base \in [Users -> Int \union {None}] /\ work[w].paid \in [Users -> Int]
  BY DEF TypeOK, Request
<1> QED
  BY <1>1, <1>2 DEF CommitBalances, TypeOK

LEMMA GroupType ==
    ASSUME TypeOK, ConstantsOK, NEW w \in Workers,
           \/ \E plan \in Plans : GroupBegin(w, plan)
           \/ \E m \in AllMarkets : GroupRead(w, m)
           \/ GroupUpdate(w) \/ GroupPay(w) \/ GroupPaid(w) \/ GroupMark(w) \/ GroupCommit(w)
    PROVE  TypeOK'
<1> USE DEF LocksOK
<1>0. work[w] \in Request /\ Planful(work[w])
  BY DEF TypeOK
<1>1. ASSUME NEW plan \in Plans, GroupBegin(w, plan)
      PROVE  TypeOK'
  <2> DEFINE record == [Idle EXCEPT !.phase = "read", !.kind = "group", !.plan = plan,
                                    !.todo = members]
  <2>1. plan \in [members -> Results] /\ members \subseteq AllMarkets
    BY DEF Plans, Results, TypeOK, AllMarkets
  <2>2. plan \in Planned
    BY <2>1, PlannedType
  <2>3. record \in Request /\ Planful(record)
    <3>1. record \in Request
      BY <2>1, <2>2, IdleType DEF Request, Phases
    <3>2. Planful(record)
      BY <2>1 DEF Idle, Planful
    <3> QED
      BY <3>1, <3>2
  <2>4. Moves(w, record) /\ lock' = lock /\ work[w].phase = "idle"
    BY <1>1 DEF GroupBegin, Begin
  <2>5. LocksOK'
    BY <2>3, <2>4, MoveKeepsLocks
  <2> QED
    BY <1>1, <2>5 DEF TypeOK, GroupBegin, Begin, Ended, rows
<1>2. ASSUME NEW m \in AllMarkets, GroupRead(w, m)
      PROVE  TypeOK'
  <2> DEFINE record == [work[w] EXCEPT !.phase = "update", !.at = m]
  <2>1. record \in Request
    BY <1>0 DEF Request, Phases
  <2>2. Planful(record) /\ record.phase = "update" /\ record.kind = work[w].kind
    BY <1>0, <1>2 DEF Request, Planful, GroupRead, In
  <2>3. Moves(w, record) /\ lock' = lock
    BY <1>2 DEF GroupRead
  <2>4. LocksOK'
    BY <2>1, <2>2, <2>3, MoveKeepsLocks
  <2> QED
    BY <1>2, <2>4 DEF TypeOK, GroupRead, Stays, rows, past
<1>3. CASE GroupUpdate(w)
  <2> DEFINE m == work[w].at
             record == [work[w] EXCEPT !.phase = "pay", !.todo = @ \ {m},
                                       !.due = Payments[m, work[w].plan[m]]]
  <2>1. m \in AllMarkets /\ work[w].plan[m] \in Results
    BY <1>0, <1>3, PlannedDomain DEF GroupUpdate, In, Planful, Request
  <2>2. Payments[m, work[w].plan[m]] \in Seq(Payment)
    BY <2>1, PaymentsType
  <2>3. record \in Request
    BY <1>0, <2>2 DEF Request, Phases
  <2>4. Planful(record) /\ record.phase = "pay" /\ record.kind = work[w].kind
        /\ record.kind \in {"group", "addition"}
    BY <1>0, <1>3, GroupRequest DEF Request, Planful, GroupUpdate, In
  <2>5. Moves(w, record) /\ Locks(w, m) /\ m \in Rows
    BY <1>3, <2>1 DEF GroupUpdate, Rows
  <2>6. LocksOK'
    BY <2>3, <2>4, <2>5, LockKeepsLocks
  <2> QED
    BY <1>3, <2>6 DEF TypeOK, GroupUpdate, Stays, rows, past
<1>4. CASE GroupPay(w)
  <2> DEFINE due == work[w].due
             record == [work[w] EXCEPT !.due = Tail(@)]
  <2>1. due \in Seq(Payment) /\ due # <<>>
    BY <1>0, <1>4 DEF GroupPay, Request
  <2>2. Head(due).user \in Users /\ Head(due).amount \in Int /\ Tail(due) \in Seq(Payment)
    BY <2>1, DueType
  <2>3. record \in Request
    BY <1>0, <2>2 DEF Request
  <2>4. /\ Planful(record) /\ record.phase \notin {"idle", "done"}
        /\ record.kind = work[w].kind /\ record.kind \in {"group", "addition"}
    BY <1>0, <1>4, GroupRequest DEF Request, Planful, GroupPay
  <2>5. Pays(w, Head(due).user, Head(due).amount, record)
    BY <1>4 DEF GroupPay
  <2> HIDE DEF due, record
  <2> QED
    BY <2>2, <2>3, <2>4, <2>5, PaysType
<1>5. CASE GroupPaid(w)
  <2> DEFINE record == [work[w] EXCEPT !.phase = IF work[w].todo = {} THEN "mark" ELSE "read"]
  <2>1. record \in Request
    BY <1>0 DEF Request, Phases
  <2>2. Planful(record) /\ record.phase \notin {"idle", "done"} /\ record.kind = work[w].kind
    BY <1>0, <1>5, GroupRequest DEF Request, Planful, GroupPaid, In
  <2>3. Moves(w, record) /\ lock' = lock
    BY <1>5 DEF GroupPaid
  <2>4. LocksOK'
    BY <2>1, <2>2, <2>3, MoveKeepsLocks
  <2> QED
    BY <1>5, <2>4 DEF TypeOK, GroupPaid, Stays, rows, past
<1>6. CASE GroupMark(w)
  <2> DEFINE results == {work[w].plan[m] : m \in DOMAIN work[w].plan}
             profit == WorkProfit(DOMAIN work[w].plan, results)
             record == [work[w] EXCEPT !.phase = "profit", !.due = profit]
  <2>1. profit \in Seq(Payment)
    BY <1>0, PlannedDomain, WorkProfitType DEF Request
  <2>2. record \in Request
    BY <1>0, <2>1 DEF Request, Phases
  <2>3. /\ Planful(record) /\ record.phase = "profit" /\ record.kind = work[w].kind
        /\ record.kind \in {"group", "addition"}
    BY <1>0, <1>6, GroupRequest DEF Request, Planful, GroupMark, In
  <2>4. Moves(w, record) /\ Locks(w, GroupRow) /\ GroupRow \in Rows
    BY <1>6 DEF GroupMark, Rows
  <2>5. LocksOK'
    BY <2>2, <2>3, <2>4, LockKeepsLocks
  <2> QED
    BY <1>6, <2>5 DEF TypeOK, GroupMark, Stays, rows, past
<1>7. CASE GroupCommit(w)
  <2>1. LocksOK' /\ balance' \in [Users -> Int] /\ ledger' \in [Users -> Int]
    BY <1>7, CommitType DEF GroupCommit
  <2>2. outcome' \in [AllMarkets -> Results \union {None}]
    BY <1>0, <1>7, PlannedDomain DEF GroupCommit, TypeOK, Request
  <2>3. settled' \in [AllMarkets -> SUBSET Workers]
    BY <1>7 DEF GroupCommit, TypeOK
  <2> QED
    BY <1>7, <2>1, <2>2, <2>3 DEF TypeOK, GroupCommit
<1> QED
  BY <1>1, <1>2, <1>3, <1>4, <1>5, <1>6, <1>7

LEMMA AdditionType ==
    ASSUME TypeOK, ConstantsOK, NEW w \in Workers,
           AddBegin(w) \/ AddCharge(w) \/ AddReview(w) \/ AddCommit(w)
    PROVE  TypeOK'
<1> USE DEF LocksOK
<1>0. work[w] \in Request /\ Planful(work[w])
  BY DEF TypeOK
<1>1. CASE AddBegin(w)
  <2> DEFINE record == [Idle EXCEPT !.phase = "charge", !.kind = "addition"]
  <2>1. record \in Request
    BY IdleType DEF Request, Phases
  <2>2. Planful(record)
    BY DEF Idle, Planful
  <2>3. Moves(w, record) /\ lock' = lock /\ work[w].phase = "idle"
    BY <1>1 DEF AddBegin, Begin
  <2>4. LocksOK'
    BY <2>1, <2>2, <2>3, MoveKeepsLocks
  <2> QED
    BY <1>1, <2>4 DEF TypeOK, AddBegin, Begin, Ended, rows
<1>2. CASE AddCharge(w)
  <2> DEFINE record == [work[w] EXCEPT !.phase = "review"]
  <2>1. record \in Request
    BY <1>0 DEF Request, Phases
  <2>2. /\ Planful(record) /\ record.phase = "review" /\ record.kind = work[w].kind
        /\ record.kind \in {"group", "addition"}
    BY <1>0, <1>2, GroupRequest DEF Request, Planful, AddCharge, In
  <2>3. Pays(w, Proposer, -Cost, record) /\ Proposer \in Users /\ -Cost \in Int
    BY <1>2 DEF AddCharge, ConstantsOK
  <2> HIDE DEF record
  <2> QED
    BY <2>1, <2>2, <2>3, PaysType
<1>3. CASE AddReview(w)
  <2> DEFINE record == [work[w] EXCEPT !.phase = "commit"]
  <2>1. record \in Request
    BY <1>0 DEF Request, Phases
  <2>2. /\ Planful(record) /\ record.phase = "commit" /\ record.kind = work[w].kind
        /\ record.kind \in {"group", "addition"}
    BY <1>0, <1>3, GroupRequest DEF Request, Planful, AddReview, In
  <2>3. Moves(w, record) /\ Locks(w, AdditionRow) /\ AdditionRow \in Rows
    BY <1>3 DEF AddReview, Rows
  <2>4. LocksOK'
    BY <2>1, <2>2, <2>3, LockKeepsLocks
  <2> QED
    BY <1>3, <2>4 DEF TypeOK, AddReview, Stays, rows, past
<1>4. CASE AddCommit(w)
  <2>1. LocksOK' /\ balance' \in [Users -> Int] /\ ledger' \in [Users -> Int]
    BY <1>4, CommitType DEF AddCommit
  <2>2. members' \in {Markets, AllMarkets}
    BY <1>4 DEF AddCommit, TypeOK, AllMarkets
  <2> QED
    BY <1>4, <2>1, <2>2 DEF TypeOK, AddCommit
<1> QED
  BY <1>1, <1>2, <1>3, <1>4

LEMMA StepType == ASSUME TypeOK, ConstantsOK, [Next]_vars PROVE TypeOK'
<1>1. ASSUME NEW w \in Workers, Fail(w)
      PROVE  TypeOK'
  <2>1. LocksOK'
    BY <1>1, ReleaseKeepsLocks DEF Fail
  <2> QED
    BY <1>1, <2>1 DEF Fail, Stays, rows, past, TypeOK, LocksOK
<1>2. CASE RejectAddition
  BY <1>2 DEF RejectAddition, TypeOK
<1>3. ASSUME NEW u \in Users, NEW s \in Swings, Trade(u, s)
      PROVE  TypeOK'
  BY <1>3 DEF Trade, TypeOK, ConstantsOK
<1>4. CASE UNCHANGED vars
  BY <1>4 DEF vars, rows, past, TypeOK
<1> QED
  BY <1>1, <1>2, <1>3, <1>4, AloneType, GroupType, AdditionType DEF Next, Step

(* The fields stay in their sets, and a row of the database is held only by a group          *)
(* resolution or an approval that is open (grouped_transaction.go): for any users, answers,   *)
(* concurrent requests and payments.                                                         *)
THEOREM TypeCorrect == ASSUME ConstantsOK PROVE Spec => []TypeOK
<1>1. Init => TypeOK
  BY InitType
<1>2. TypeOK /\ [Next]_vars => TypeOK'
  BY StepType
<1> QED
  BY <1>1, <1>2, PTL DEF Spec

-----------------------------------------------------------------------------
(* What any step of a request does to the requests and to the rows they hold. *)
Locking(w) ==
    \A r \in Rows : \/ lock'[r] = lock[r]
                    \/ Free(w, r) /\ lock'[r] = w
                    \/ lock[r] = w /\ lock'[r] = None /\ work'[w].phase = "done"

Starts(w) ==
    /\ work[w].phase = "idle" /\ work'[w].phase \notin {"done", "profit", "commit"}
    /\ before' = [before EXCEPT ![w] = Ended]
    /\ work'[w].base = Idle.base /\ work'[w].paid = Idle.paid

Continues(w) ==
    /\ work[w].phase # "idle" /\ before' = before
    /\ work'[w].kind = work[w].kind /\ work'[w].plan = work[w].plan

Shape(w) ==
    /\ \A v \in Workers \ {w} : work'[v] = work[v]
    /\ work[w].phase # "done" /\ work'[w].phase # "idle"
    /\ Starts(w) \/ Continues(w)
    /\ Locking(w)

(* What is committed is left alone, and no request is about to commit. *)
Quiet(w) ==
    /\ UNCHANGED <<outcome, members, group, addition, settled, decided>>
    /\ work'[w].phase \in {"profit", "commit"} => work'[w].phase = work[w].phase

LEMMA EndShape ==
    ASSUME TypeOK, ConstantsOK, NEW w \in Workers, Moves(w, Finished(w)), before' = before,
           work[w].phase \notin {"idle", "done"}, lock' = lock \/ lock' = Released(w)
    PROVE  Shape(w) /\ work'[w].phase = "done" /\ work'[w].base = Idle.base
           /\ work'[w].paid = Idle.paid
<1>1. work[w] \in Request /\ Finished(w) \in Request
  BY FinishedType DEF TypeOK
<1>2. work'[w] = Finished(w) /\ \A v \in Workers \ {w} : work'[v] = work[v]
  BY <1>1, MovesType
<1>3. /\ Finished(w).phase = "done" /\ Finished(w).kind = work[w].kind
      /\ Finished(w).plan = work[w].plan
      /\ Finished(w).base = Idle.base /\ Finished(w).paid = Idle.paid
  BY <1>1 DEF Finished, Request
<1>4. Locking(w)
  BY <1>2, <1>3 DEF Locking, Released, TypeOK
<1> QED
  BY <1>2, <1>3, <1>4 DEF Shape, Continues

LEMMA MoveShape ==
    ASSUME TypeOK, ConstantsOK, NEW w \in Workers, NEW record, Moves(w, record), before' = before,
           work[w].phase \notin {"idle", "done"}, record.phase \notin {"idle", "done"},
           record.kind = work[w].kind, record.plan = work[w].plan,
           lock' = lock \/ \E r \in Rows : Free(w, r) /\ Locks(w, r)
    PROVE  Shape(w) /\ work'[w] = record
<1>1. work'[w] = record /\ \A v \in Workers \ {w} : work'[v] = work[v]
  BY DEF Moves, TypeOK
<1>2. Locking(w)
  BY <1>1 DEF Locking, Locks, TypeOK
<1> QED
  BY <1>1, <1>2 DEF Shape, Continues

LEMMA BeginShape ==
    ASSUME TypeOK, NEW w \in Workers, NEW record, Begin(w, record),
           record.phase \notin {"idle", "done", "profit", "commit"},
           record.base = Idle.base, record.paid = Idle.paid
    PROVE  Shape(w) /\ Quiet(w) /\ work'[w] = record
<1>1. work'[w] = record /\ \A v \in Workers \ {w} : work'[v] = work[v]
  BY DEF Begin, Moves, TypeOK
<1> QED
  BY <1>1 DEF Shape, Starts, Locking, Quiet, Begin, rows

(* The requests that begin, each with what it is to settle. *)
LEMMA Beginnings ==
    ASSUME TypeOK, NEW w \in Workers
    PROVE  /\ \A m \in AllMarkets, result \in Results : AloneBegin(w, m, result) =>
                  /\ Shape(w) /\ Quiet(w) /\ work[w].phase = "idle" /\ work'[w].kind = "alone"
                  /\ DOMAIN work'[w].plan = {m} /\ outcome[m] = None
           /\ \A plan \in Plans : GroupBegin(w, plan) =>
                  /\ Shape(w) /\ Quiet(w) /\ work[w].phase = "idle" /\ work'[w].kind = "group"
                  /\ DOMAIN work'[w].plan = members /\ \A m \in members : outcome[m] = None
                  /\ group = "published"
           /\ AddBegin(w) =>
                  /\ Shape(w) /\ Quiet(w) /\ work[w].phase = "idle" /\ work'[w].kind = "addition"
                  /\ DOMAIN work'[w].plan = {} /\ group = "published"
<1>1. ASSUME NEW m \in AllMarkets, NEW result \in Results, AloneBegin(w, m, result)
      PROVE  /\ Shape(w) /\ Quiet(w) /\ work[w].phase = "idle" /\ work'[w].kind = "alone"
             /\ DOMAIN work'[w].plan = {m} /\ outcome[m] = None
  <2> DEFINE plan == [x \in {m} |-> result]
             record == [Idle EXCEPT !.phase = "update", !.kind = "alone", !.at = m,
                                    !.plan = plan]
  <2>1. /\ record.phase = "update" /\ record.kind = "alone" /\ record.plan = plan
        /\ record.base = Idle.base /\ record.paid = Idle.paid
    BY DEF Idle
  <2>2. Begin(w, record) /\ outcome[m] = None /\ work[w].phase = "idle"
    BY <1>1 DEF AloneBegin, Begin
  <2> HIDE DEF record
  <2>3. Shape(w) /\ Quiet(w) /\ work'[w] = record
    BY <2>1, <2>2, BeginShape
  <2> QED
    BY <2>1, <2>2, <2>3
<1>2. ASSUME NEW plan \in Plans, GroupBegin(w, plan)
      PROVE  /\ Shape(w) /\ Quiet(w) /\ work[w].phase = "idle" /\ work'[w].kind = "group"
             /\ DOMAIN work'[w].plan = members /\ \A m \in members : outcome[m] = None
             /\ group = "published"
  <2> DEFINE record == [Idle EXCEPT !.phase = "read", !.kind = "group", !.plan = plan,
                                    !.todo = members]
  <2>1. /\ record.phase = "read" /\ record.kind = "group" /\ record.plan = plan
        /\ record.base = Idle.base /\ record.paid = Idle.paid
    BY DEF Idle
  <2>2. Begin(w, record) /\ work[w].phase = "idle"
    BY <1>2 DEF GroupBegin, Begin
  <2>3. DOMAIN plan = members
    BY DEF Plans
  <2> HIDE DEF record
  <2>4. Shape(w) /\ Quiet(w) /\ work'[w] = record
    BY <2>1, <2>2, BeginShape
  <2> QED
    BY <1>2, <2>1, <2>2, <2>3, <2>4 DEF GroupBegin
<1>3. ASSUME AddBegin(w)
      PROVE  /\ Shape(w) /\ Quiet(w) /\ work[w].phase = "idle" /\ work'[w].kind = "addition"
             /\ DOMAIN work'[w].plan = {} /\ group = "published"
  <2> DEFINE record == [Idle EXCEPT !.phase = "charge", !.kind = "addition"]
  <2>1. /\ record.phase = "charge" /\ record.kind = "addition" /\ DOMAIN record.plan = {}
        /\ record.base = Idle.base /\ record.paid = Idle.paid
    BY DEF Idle
  <2>2. Begin(w, record) /\ work[w].phase = "idle"
    BY <1>3 DEF AddBegin, Begin
  <2> HIDE DEF record
  <2>3. Shape(w) /\ Quiet(w) /\ work'[w] = record
    BY <2>1, <2>2, BeginShape
  <2> QED
    BY <1>3, <2>1, <2>2, <2>3 DEF AddBegin
<1> QED
  BY <1>1, <1>2, <1>3

(* The statements that commit nothing and lead to no commit. *)
Statement(w) ==
    \/ AloneRead(w) \/ AloneWrite(w) \/ AloneEnd(w)
    \/ \E m \in AllMarkets : GroupRead(w, m)
    \/ GroupUpdate(w) \/ GroupPay(w) \/ GroupPaid(w) \/ AddCharge(w) \/ Fail(w)

LEMMA PaysShape ==
    ASSUME TypeOK, ConstantsOK, NEW w \in Workers, NEW u \in Users, NEW amount,
           NEW record \in Request, Pays(w, u, amount, record),
           work[w].phase \notin {"idle", "done"}, record.phase \notin {"idle", "done"},
           record.kind = work[w].kind, record.plan = work[w].plan
    PROVE  /\ Shape(w) /\ work'[w].phase = record.phase
           /\ UNCHANGED <<outcome, members, group, addition, settled, decided>>
<1> DEFINE next == [record EXCEPT !.paid[u] = @ + amount,
                                  !.base[u] = IF @ = None THEN balance[u] ELSE @]
<1>1. /\ next.phase = record.phase /\ next.kind = record.kind /\ next.plan = record.plan
  BY DEF Request
<1>2. Moves(w, next) /\ before' = before /\ Free(w, u) /\ Locks(w, u) /\ u \in Rows
  BY DEF Pays, Rows, Stays, past
<1> HIDE DEF next
<1>3. Shape(w) /\ work'[w] = next
  BY <1>1, <1>2, MoveShape
<1> QED
  BY <1>1, <1>3 DEF Pays, Stays, rows, past

LEMMA StatementShape ==
    ASSUME TypeOK, ConstantsOK, NEW w \in Workers, Statement(w)
    PROVE  Shape(w) /\ Quiet(w)
<1>0. work[w] \in Request
  BY DEF TypeOK
<1>1. CASE AloneRead(w)
  <2> DEFINE record == [work[w] EXCEPT !.read = balance[Head(work[w].due).user]]
  <2>1. /\ record.phase = "pay" /\ work[w].phase = "pay"
        /\ record.kind = work[w].kind /\ record.plan = work[w].plan
    BY <1>0, <1>1 DEF AloneRead, In, Request
  <2>2. Moves(w, record) /\ before' = before /\ lock' = lock
    BY <1>1 DEF AloneRead, Stays, past
  <2> HIDE DEF record
  <2>3. Shape(w) /\ work'[w] = record
    BY <2>1, <2>2, MoveShape
  <2> QED
    BY <1>1, <2>1, <2>3 DEF AloneRead, Quiet, Stays, rows, past
<1>2. CASE AloneWrite(w)
  <2> DEFINE record == [work[w] EXCEPT !.due = Tail(@), !.read = None]
  <2>1. /\ record.phase = "pay" /\ work[w].phase = "pay"
        /\ record.kind = work[w].kind /\ record.plan = work[w].plan
    BY <1>0, <1>2 DEF AloneWrite, In, Request
  <2>2. Moves(w, record) /\ before' = before /\ lock' = lock
    BY <1>2 DEF AloneWrite
  <2> HIDE DEF record
  <2>3. Shape(w) /\ work'[w] = record
    BY <2>1, <2>2, MoveShape
  <2> QED
    BY <1>2, <2>1, <2>3 DEF AloneWrite, Quiet
<1>3. CASE AloneEnd(w)
  BY <1>3, EndShape DEF AloneEnd, In, Quiet, Stays, rows, past
<1>4. ASSUME NEW m \in AllMarkets, GroupRead(w, m)
      PROVE  Shape(w) /\ Quiet(w)
  <2> DEFINE record == [work[w] EXCEPT !.phase = "update", !.at = m]
  <2>1. /\ record.phase = "update" /\ work[w].phase = "read"
        /\ record.kind = work[w].kind /\ record.plan = work[w].plan
    BY <1>0, <1>4 DEF GroupRead, In, Request
  <2>2. Moves(w, record) /\ before' = before /\ lock' = lock
    BY <1>4 DEF GroupRead, Stays, past
  <2> HIDE DEF record
  <2>3. Shape(w) /\ work'[w] = record
    BY <2>1, <2>2, MoveShape
  <2> QED
    BY <1>4, <2>1, <2>3 DEF GroupRead, Quiet, Stays, rows, past
<1>5. CASE GroupUpdate(w)
  <2> DEFINE m == work[w].at
             record == [work[w] EXCEPT !.phase = "pay", !.todo = @ \ {m},
                                       !.due = Payments[m, work[w].plan[m]]]
  <2>1. /\ record.phase = "pay" /\ work[w].phase = "update"
        /\ record.kind = work[w].kind /\ record.plan = work[w].plan
    BY <1>0, <1>5 DEF GroupUpdate, In, Request
  <2>2. m \in Rows
    BY <1>0, <1>5, PlannedDomain DEF GroupUpdate, In, TypeOK, Planful, Request, Rows
  <2>3. Moves(w, record) /\ before' = before /\ Free(w, m) /\ Locks(w, m)
    BY <1>5 DEF GroupUpdate, Stays, past
  <2> HIDE DEF record
  <2>4. Shape(w) /\ work'[w] = record
    BY <2>1, <2>2, <2>3, MoveShape
  <2> QED
    BY <1>5, <2>1, <2>4 DEF GroupUpdate, Quiet, Stays, rows, past
<1>6. CASE GroupPay(w)
  <2> DEFINE due == work[w].due
             record == [work[w] EXCEPT !.due = Tail(@)]
  <2>1. Head(due).user \in Users /\ Tail(due) \in Seq(Payment)
    BY <1>0, <1>6, DueType DEF GroupPay, Request
  <2>2. /\ record \in Request /\ record.phase = work[w].phase
        /\ record.kind = work[w].kind /\ record.plan = work[w].plan
    BY <1>0, <2>1 DEF Request
  <2>3. Pays(w, Head(due).user, Head(due).amount, record)
        /\ work[w].phase \notin {"idle", "done"}
    BY <1>6 DEF GroupPay
  <2> HIDE DEF due, record
  <2> QED
    BY <2>1, <2>2, <2>3, PaysShape DEF Quiet
<1>7. CASE GroupPaid(w)
  <2> DEFINE record == [work[w] EXCEPT !.phase = IF work[w].todo = {} THEN "mark" ELSE "read"]
  <2>1. /\ record.phase \in {"mark", "read"} /\ work[w].phase = "pay"
        /\ record.kind = work[w].kind /\ record.plan = work[w].plan
    BY <1>0, <1>7 DEF GroupPaid, In, Request
  <2>2. Moves(w, record) /\ before' = before /\ lock' = lock
    BY <1>7 DEF GroupPaid, Stays, past
  <2> HIDE DEF record
  <2>3. Shape(w) /\ work'[w] = record
    BY <2>1, <2>2, MoveShape
  <2> QED
    BY <1>7, <2>1, <2>3 DEF GroupPaid, Quiet, Stays, rows, past
<1>8. CASE AddCharge(w)
  <2> DEFINE record == [work[w] EXCEPT !.phase = "review"]
  <2>1. /\ record \in Request /\ record.phase = "review" /\ work[w].phase = "charge"
        /\ record.kind = work[w].kind /\ record.plan = work[w].plan
    BY <1>0, <1>8 DEF AddCharge, In, Request, Phases
  <2>2. Pays(w, Proposer, -Cost, record) /\ Proposer \in Users
    BY <1>8 DEF AddCharge, ConstantsOK
  <2> HIDE DEF record
  <2> QED
    BY <2>1, <2>2, PaysShape DEF Quiet
<1>9. CASE Fail(w)
  BY <1>9, EndShape DEF Fail, Quiet, Stays, rows, past
<1> QED
  BY <1>1, <1>2, <1>3, <1>4, <1>5, <1>6, <1>7, <1>8, <1>9 DEF Statement

(* The updates that commit, and those that decide that a commit will come. *)
LEMMA UpdateShape ==
    ASSUME TypeOK, ConstantsOK, NEW w \in Workers
    PROVE  /\ AloneUpdate(w) => Shape(w) /\ Continues(w) /\ work'[w].phase = "pay"
           /\ GroupMark(w) => /\ Shape(w) /\ Continues(w) /\ work'[w].phase = "profit"
                              /\ lock'[GroupRow] = w
           /\ AddReview(w) => /\ Shape(w) /\ Continues(w) /\ work'[w].phase = "commit"
                              /\ lock'[AdditionRow] = w
           /\ GroupCommit(w) \/ AddCommit(w) =>
                  Shape(w) /\ Continues(w) /\ work'[w].phase = "done"
<1>0. work[w] \in Request
  BY DEF TypeOK
<1>1. ASSUME AloneUpdate(w)
      PROVE  Shape(w) /\ Continues(w) /\ work'[w].phase = "pay"
  <2> DEFINE due == Payments[work[w].at, work[w].plan[work[w].at]]
                    \o WorkProfit({work[w].at}, {work[w].plan[work[w].at]})
             record == [work[w] EXCEPT !.phase = "pay", !.due = due]
  <2>1. /\ record.phase = "pay" /\ work[w].phase = "update"
        /\ record.kind = work[w].kind /\ record.plan = work[w].plan
    BY <1>0, <1>1 DEF AloneUpdate, In, Request
  <2>2. Moves(w, record) /\ before' = before /\ lock' = lock
    BY <1>1 DEF AloneUpdate
  <2> HIDE DEF record
  <2>3. Shape(w) /\ work'[w] = record
    BY <2>1, <2>2, MoveShape
  <2> QED
    BY <2>1, <2>2, <2>3 DEF Continues
<1>2. ASSUME GroupMark(w)
      PROVE  Shape(w) /\ Continues(w) /\ work'[w].phase = "profit" /\ lock'[GroupRow] = w
  <2> DEFINE profit == WorkProfit(DOMAIN work[w].plan,
                                  {work[w].plan[m] : m \in DOMAIN work[w].plan})
             record == [work[w] EXCEPT !.phase = "profit", !.due = profit]
  <2>1. /\ record.phase = "profit" /\ work[w].phase = "mark"
        /\ record.kind = work[w].kind /\ record.plan = work[w].plan
    BY <1>0, <1>2 DEF GroupMark, In, Request
  <2>2. /\ Moves(w, record) /\ before' = before /\ Free(w, GroupRow) /\ Locks(w, GroupRow)
        /\ GroupRow \in Rows
    BY <1>2 DEF GroupMark, Stays, past, Rows
  <2> HIDE DEF record
  <2>3. Shape(w) /\ work'[w] = record
    BY <2>1, <2>2, MoveShape
  <2> QED
    BY <2>1, <2>2, <2>3 DEF Continues, Locks, TypeOK
<1>3. ASSUME AddReview(w)
      PROVE  Shape(w) /\ Continues(w) /\ work'[w].phase = "commit" /\ lock'[AdditionRow] = w
  <2> DEFINE record == [work[w] EXCEPT !.phase = "commit"]
  <2>1. /\ record.phase = "commit" /\ work[w].phase = "review"
        /\ record.kind = work[w].kind /\ record.plan = work[w].plan
    BY <1>0, <1>3 DEF AddReview, In, Request
  <2>2. /\ Moves(w, record) /\ before' = before /\ Free(w, AdditionRow) /\ Locks(w, AdditionRow)
        /\ AdditionRow \in Rows
    BY <1>3 DEF AddReview, Stays, past, Rows
  <2> HIDE DEF record
  <2>3. Shape(w) /\ work'[w] = record
    BY <2>1, <2>2, MoveShape
  <2> QED
    BY <2>1, <2>2, <2>3 DEF Continues, Locks, TypeOK
<1>4. ASSUME GroupCommit(w) \/ AddCommit(w)
      PROVE  Shape(w) /\ Continues(w) /\ work'[w].phase = "done"
  <2>1. /\ Moves(w, Finished(w)) /\ lock' = Released(w) /\ before' = before
        /\ work[w].phase \notin {"idle", "done"}
    BY <1>4 DEF GroupCommit, AddCommit, CommitBalances, In
  <2>2. Shape(w) /\ work'[w].phase = "done"
    BY <2>1, EndShape
  <2> QED
    BY <2>1, <2>2 DEF Shape, Starts
<1> QED
  BY <1>1, <1>2, <1>3, <1>4

-----------------------------------------------------------------------------
(* Why a market is resolved twice only by requests that overlap: a request began after the   *)
(* ends it knows of, found what it settles unresolved, and whatever was settled stays so; a    *)
(* group is marked by one request, which holds the row until it commits.                      *)
Settling ==
    /\ \A w \in Workers : before[w] \subseteq Ended
    /\ \A w \in Workers : \A v \in before[w], m \in DOMAIN work[w].plan : v \notin settled[m]
    /\ \A m \in AllMarkets : \A v \in settled[m] :
           /\ outcome[m] # None /\ work[v].phase # "idle"
           /\ v \in Groups => group = "resolved"
    /\ \A w \in Workers : In(w, "group", "profit") => lock[GroupRow] = w /\ group = "published"

LEMMA SettlingInit == ConstantsOK /\ Init => Settling /\ TwiceOnlyByOverlap
  BY DEF Init, Settling, TwiceOnlyByOverlap, Ended, Groups, In, Idle

(* Ends and locks along a step of a request that settles nothing. *)
LEMMA SettlingShape ==
    ASSUME TypeOK, TypeOK', ConstantsOK, Settling, NEW w \in Workers, Shape(w)
    PROVE  /\ Ended \subseteq Ended' /\ w \notin Ended
           /\ \A v \in Workers : before'[v] \subseteq Ended'
           /\ \A v \in Workers \ {w} : before'[v] = before[v]
           /\ \A v \in Workers : work[v].phase # "idle" =>
                  work'[v].phase # "idle" /\ (v \in Groups' => v \in Groups)
           /\ \A v \in Workers \ {w} : In(v, "group", "profit") => lock'[GroupRow] = v
<1>1. Ended \subseteq Ended' /\ w \notin Ended
  BY DEF Shape, Ended
<1>2. \A v \in Workers \ {w} : before'[v] = before[v]
  BY DEF Shape, Starts, Continues, TypeOK
<1>3. \A v \in Workers : before'[v] \subseteq Ended'
  BY <1>1, <1>2 DEF Shape, Starts, Continues, TypeOK, Settling
<1>4. \A v \in Workers : work[v].phase # "idle" =>
          work'[v].phase # "idle" /\ (v \in Groups' => v \in Groups)
  BY DEF Shape, Starts, Continues, Groups
<1>5. \A v \in Workers \ {w} : In(v, "group", "profit") => lock'[GroupRow] = v
  <2> SUFFICES ASSUME NEW v \in Workers \ {w}, In(v, "group", "profit")
               PROVE  lock'[GroupRow] = v
    OBVIOUS
  <2>1. lock[GroupRow] = v /\ GroupRow \in Rows /\ v # None
    BY DEF Settling, Rows, ConstantsOK
  <2> QED
    BY <2>1 DEF Shape, Locking, Free
<1> QED
  BY <1>1, <1>2, <1>3, <1>4, <1>5

LEMMA SettlingQuiet ==
    ASSUME TypeOK, TypeOK', ConstantsOK, Settling, TwiceOnlyByOverlap, NEW w \in Workers, Shape(w),
           UNCHANGED <<outcome, group, settled>>,
           Starts(w) => \A m \in DOMAIN work'[w].plan : outcome[m] = None,
           work'[w].phase = "profit" => \/ work[w].phase = "profit" /\ Continues(w)
                                        \/ lock'[GroupRow] = w /\ group = "published"
    PROVE  Settling' /\ TwiceOnlyByOverlap'
<1>1. \A v \in Workers : before'[v] \subseteq Ended'
  BY SettlingShape
<1>2. ASSUME NEW x \in Workers, NEW v \in before'[x], NEW m \in DOMAIN work'[x].plan
      PROVE  v \notin settled'[m]
  <2>1. m \in AllMarkets
    BY PlannedDomain DEF TypeOK, Request
  <2>2. CASE x = w /\ Starts(w)
    BY <1>2, <2>1, <2>2 DEF Settling
  <2>3. CASE ~(x = w /\ Starts(w))
    <3>1. before'[x] = before[x] /\ work'[x].plan = work[x].plan
      BY <2>3 DEF Shape, Starts, Continues, TypeOK
    <3> QED
      BY <1>2, <3>1 DEF Settling
  <2> QED
    BY <2>2, <2>3
<1>3. ASSUME NEW m \in AllMarkets, NEW v \in settled'[m]
      PROVE  /\ outcome'[m] # None /\ work'[v].phase # "idle"
             /\ v \in Groups' => group' = "resolved"
  <2>1. v \in Workers /\ v \in settled[m]
    BY <1>3 DEF TypeOK
  <2> QED
    BY <2>1, SettlingShape DEF Settling
<1>4. ASSUME NEW v \in Workers, In(v, "group", "profit")'
      PROVE  lock'[GroupRow] = v /\ group' = "published"
  <2>1. CASE v # w
    <3>1. In(v, "group", "profit")
      BY <1>4, <2>1 DEF Shape, In
    <3> QED
      BY <2>1, <3>1, SettlingShape DEF Settling
  <2>2. CASE v = w /\ work[w].phase = "profit" /\ Continues(w)
    <3>1. In(w, "group", "profit") /\ work'[w].phase # "done"
      BY <1>4, <2>2 DEF Continues, In
    <3>2. lock[GroupRow] = w /\ GroupRow \in Rows
      BY <3>1 DEF Settling, Rows
    <3> QED
      BY <2>2, <3>1, <3>2 DEF Settling, Shape, Locking
  <2> QED
    BY <1>4, <2>1, <2>2 DEF In
<1>5. Settling'
  BY <1>1, <1>2, <1>3, <1>4 DEF Settling
<1>6. ASSUME NEW m \in AllMarkets, NEW x \in settled[m], NEW y \in settled[m], x # y
      PROVE  Overlapped(x, y)' /\ {x, y} \ Groups' # {}
  <2>1. x \in Workers /\ y \in Workers /\ work[x].phase # "idle" /\ work[y].phase # "idle"
    BY DEF TypeOK, Settling
  <2>2. Overlapped(x, y) /\ {x, y} \ Groups # {}
    BY <1>6 DEF TwiceOnlyByOverlap
  <2>3. before'[x] = before[x] /\ before'[y] = before[y]
    BY <2>1 DEF Shape, Starts, Continues, TypeOK
  <2>4. {x, y} \ Groups' # {}
    BY <2>1, <2>2, SettlingShape
  <2> QED
    BY <2>2, <2>3, <2>4 DEF Overlapped
<1>7. TwiceOnlyByOverlap'
  BY <1>6 DEF TwiceOnlyByOverlap
<1> QED
  BY <1>5, <1>7

(* A commit: w resolves the markets ms, which nobody it knows of has resolved. *)
LEMMA SettlingCommit ==
    ASSUME TypeOK, TypeOK', ConstantsOK, Settling, TwiceOnlyByOverlap, NEW w \in Workers,
           Shape(w), Continues(w), work'[w].phase # "profit",
           NEW ms, ms \subseteq AllMarkets, ms \subseteq DOMAIN work[w].plan,
           \A m \in AllMarkets : settled'[m] = IF m \in ms THEN settled[m] \union {w} ELSE settled[m],
           \A m \in AllMarkets : IF m \in ms THEN outcome'[m] # None ELSE outcome'[m] = outcome[m],
           \/ group' = group /\ w \notin Groups
           \/ /\ group' = "resolved" /\ In(w, "group", "profit")
    PROVE  Settling' /\ TwiceOnlyByOverlap'
<1>0. w \notin Ended /\ before' = before /\ \A v \in Workers : w \notin before[v]
  BY SettlingShape DEF Settling, Continues
<1>1. \A v \in Workers : before'[v] \subseteq Ended'
  BY SettlingShape
<1>2. ASSUME NEW x \in Workers, NEW v \in before'[x], NEW m \in DOMAIN work'[x].plan
      PROVE  v \notin settled'[m]
  <2>1. m \in AllMarkets /\ work'[x].plan = work[x].plan
    BY PlannedDomain DEF TypeOK, Request, Shape, Continues
  <2>2. v \notin settled[m] /\ v # w
    BY <1>0, <1>2, <2>1 DEF Settling
  <2> QED
    BY <2>1, <2>2
<1>3. ASSUME NEW m \in AllMarkets, NEW v \in settled'[m]
      PROVE  /\ outcome'[m] # None /\ work'[v].phase # "idle"
             /\ v \in Groups' => group' = "resolved"
  <2>1. CASE v \in settled[m]
    <3>1. v \in Workers
      BY <2>1 DEF TypeOK
    <3>2. group = "resolved" => group' = "resolved"
      OBVIOUS
    <3> QED
      BY <2>1, <3>1, <3>2, SettlingShape DEF Settling
  <2>2. CASE v \notin settled[m]
    <3>1. v = w /\ m \in ms
      BY <1>3, <2>2
    <3>2. w \in Groups' => w \in Groups
      BY DEF Groups, Continues
    <3> QED
      BY <3>1, <3>2 DEF Shape
  <2> QED
    BY <2>1, <2>2
<1>4. ASSUME NEW v \in Workers, In(v, "group", "profit")'
      PROVE  lock'[GroupRow] = v /\ group' = "published"
  <2>1. v # w
    BY <1>4 DEF In
  <2>2. In(v, "group", "profit")
    BY <1>4, <2>1 DEF Shape, In
  <2>3. lock[GroupRow] = v /\ group = "published"
    BY <2>2 DEF Settling
  <2>4. ~ In(w, "group", "profit")
    BY <2>1, <2>3 DEF Settling
  <2> QED
    BY <2>1, <2>2, <2>3, <2>4, SettlingShape
<1>5. Settling'
  BY <1>1, <1>2, <1>3, <1>4 DEF Settling
<1>6. \A v \in Workers : work[v].phase # "idle" => (v \in Groups' <=> v \in Groups)
  BY DEF Groups, Shape, Continues
<1>7. ASSUME NEW m \in AllMarkets, NEW v \in settled[m], v # w, m \in ms
      PROVE  /\ Overlapped(v, w) /\ Overlapped(w, v)
             /\ {v, w} \ Groups # {} /\ {w, v} \ Groups # {}
  <2>1. v \notin before[w] /\ w \notin before[v] /\ v \in Workers
    BY <1>0, <1>7 DEF Settling, TypeOK
  <2>2. v \in Groups => w \notin Groups
    BY <1>7 DEF Settling, In
  <2> QED
    BY <2>1, <2>2 DEF Overlapped
<1>8. ASSUME NEW m \in AllMarkets, NEW x \in settled'[m], NEW y \in settled'[m], x # y
      PROVE  Overlapped(x, y)' /\ {x, y} \ Groups' # {}
  <2>1. x \in Workers /\ y \in Workers /\ work[x].phase # "idle" /\ work[y].phase # "idle"
    BY <1>8 DEF TypeOK, Settling, Continues
  <2>2. Overlapped(x, y) /\ {x, y} \ Groups # {}
    <3>0. settled'[m] = IF m \in ms THEN settled[m] \union {w} ELSE settled[m]
      OBVIOUS
    <3>1. CASE x \in settled[m] /\ y \in settled[m]
      BY <1>8, <3>1 DEF TwiceOnlyByOverlap
    <3>2. CASE x \notin settled[m]
      <4>1. x = w /\ m \in ms /\ y \in settled[m] /\ y # w
        BY <1>8, <3>0, <3>2
      <4>2. Overlapped(w, y) /\ {w, y} \ Groups # {}
        BY <1>7, <4>1
      <4> QED
        BY <4>1, <4>2
    <3>3. CASE y \notin settled[m]
      <4>1. y = w /\ m \in ms /\ x \in settled[m] /\ x # w
        BY <1>8, <3>0, <3>3
      <4>2. Overlapped(x, w) /\ {x, w} \ Groups # {}
        BY <1>7, <4>1
      <4> QED
        BY <4>1, <4>2
    <3> QED
      BY <3>1, <3>2, <3>3
  <2> QED
    BY <1>0, <1>6, <2>1, <2>2 DEF Overlapped
<1> QED
  BY <1>5, <1>8 DEF TwiceOnlyByOverlap

LEMMA SettlingStep ==
    ASSUME TypeOK, TypeOK', ConstantsOK, Settling, TwiceOnlyByOverlap, [Next]_vars
    PROVE  Settling' /\ TwiceOnlyByOverlap'
<1>1. ASSUME NEW w \in Workers, Step(w)
      PROVE  Settling' /\ TwiceOnlyByOverlap'
  <2>0. work[w] \in Request /\ Planful(work[w])
    BY DEF TypeOK
  <2>1. ASSUME Shape(w), Quiet(w), work[w].phase = "idle",
               \A m \in DOMAIN work'[w].plan : outcome[m] = None
        PROVE  Settling' /\ TwiceOnlyByOverlap'
    <3>1. work'[w].phase # "profit"
      BY <2>1 DEF Shape, Starts, Continues
    <3> QED
      BY <2>1, <3>1, SettlingQuiet DEF Quiet
  <2>2. CASE \/ \E m \in AllMarkets, result \in Results : AloneBegin(w, m, result)
             \/ \E plan \in Plans : GroupBegin(w, plan)
             \/ AddBegin(w)
    BY <2>1, <2>2, Beginnings
  <2>3. CASE Statement(w)
    <3>1. Shape(w) /\ Quiet(w)
      BY <2>3, StatementShape
    <3>2. work[w].phase # "idle"
      BY <2>0, <2>3 DEF Statement, AloneRead, AloneWrite, AloneEnd, GroupRead, GroupUpdate, GroupPay,
         GroupPaid, AddCharge, Fail, In
    <3>3. Continues(w) /\ ~Starts(w)
      BY <3>1, <3>2 DEF Shape, Starts
    <3> QED
      BY <3>1, <3>3, SettlingQuiet DEF Quiet
  <2>4. CASE AloneUpdate(w)
    <3> DEFINE m == work[w].at
    <3>1. Shape(w) /\ Continues(w) /\ work'[w].phase = "pay"
      BY <2>4, UpdateShape
    <3>2. m \in DOMAIN work[w].plan /\ m \in AllMarkets /\ work[w].plan[m] \in Results
      BY <2>0, <2>4, PlannedDomain DEF AloneUpdate, In, Planful, Request
    <3>3. w \notin Groups
      BY <2>4 DEF AloneUpdate, In, Groups
    <3>4. \A n \in AllMarkets : settled'[n] = IF n \in {m} THEN settled[n] \union {w} ELSE settled[n]
      BY <2>4, <3>2 DEF AloneUpdate, TypeOK
    <3>5. \A n \in AllMarkets : IF n \in {m} THEN outcome'[n] # None ELSE outcome'[n] = outcome[n]
      BY <2>4, <3>2 DEF AloneUpdate, TypeOK, ConstantsOK
    <3>6. group' = group /\ {m} \subseteq AllMarkets /\ {m} \subseteq DOMAIN work[w].plan
      BY <2>4, <3>2 DEF AloneUpdate
    <3> HIDE DEF m
    <3> QED
      BY <3>1, <3>3, <3>4, <3>5, <3>6, SettlingCommit
  <2>5. CASE GroupMark(w)
    BY <2>5, UpdateShape, SettlingQuiet DEF GroupMark, Stays, rows, past, Starts, Continues
  <2>6. CASE GroupCommit(w)
    <3> DEFINE ms == DOMAIN work[w].plan
    <3>1. Shape(w) /\ Continues(w) /\ work'[w].phase = "done"
      BY <2>6, UpdateShape
    <3>2. ms \subseteq AllMarkets /\ \A m \in ms : work[w].plan[m] \in Results
      BY <2>0, PlannedDomain DEF Request
    <3>3. \A n \in AllMarkets : settled'[n] = IF n \in ms THEN settled[n] \union {w} ELSE settled[n]
      BY <2>6 DEF GroupCommit
    <3>4. \A n \in AllMarkets : IF n \in ms THEN outcome'[n] # None ELSE outcome'[n] = outcome[n]
      BY <2>6, <3>2 DEF GroupCommit, ConstantsOK
    <3>5. group' = "resolved" /\ In(w, "group", "profit")
      BY <2>6 DEF GroupCommit
    <3> QED
      BY <3>1, <3>2, <3>3, <3>4, <3>5, SettlingCommit
  <2>7. CASE AddReview(w)
    BY <2>7, UpdateShape, SettlingQuiet DEF AddReview, Stays, rows, past, Starts, Continues
  <2>8. CASE AddCommit(w)
    BY <2>8, UpdateShape, SettlingQuiet DEF AddCommit, Starts, Continues
  <2> QED
    BY <1>1, <2>2, <2>3, <2>4, <2>5, <2>6, <2>7, <2>8 DEF Step, Statement
<1>2. ASSUME UNCHANGED <<outcome, group, lock, work, settled, before>>
      PROVE  Settling' /\ TwiceOnlyByOverlap'
  BY <1>2 DEF Settling, TwiceOnlyByOverlap, Ended, Groups, In, Overlapped
<1>3. CASE RejectAddition
  BY <1>2, <1>3 DEF RejectAddition
<1>4. CASE \E u \in Users, s \in Swings : Trade(u, s)
  BY <1>2, <1>4 DEF Trade
<1>5. CASE UNCHANGED vars
  BY <1>2, <1>5 DEF vars, rows, past
<1> QED
  BY <1>1, <1>3, <1>4, <1>5 DEF Next

(* A market is resolved, and paid for, twice only by two requests under way together of which  *)
(* one resolves it alone (market_resolution.go reads, checks and updates unconditionally;     *)
(* MarkMarketGroupResolved updates a published group only).                                   *)
THEOREM TwiceOnlyByOverlapAlways == ASSUME ConstantsOK PROVE Spec => []TwiceOnlyByOverlap
<1> DEFINE Inv == TypeOK /\ Settling /\ TwiceOnlyByOverlap
<1>1. Init => Inv
  BY InitType, SettlingInit
<1>2. Inv /\ [Next]_vars => Inv'
  BY StepType, SettlingStep
<1>3. Inv => TwiceOnlyByOverlap
  OBVIOUS
<1> QED
  BY <1>1, <1>2, <1>3, PTL DEF Spec

-----------------------------------------------------------------------------
(* Why balances are explained: what a transaction read of a user stays true until its end,    *)
(* because it holds the row, and it pays nobody it did not read.                              *)
Funded ==
    \A w \in Workers, u \in Users :
        IF work[w].base[u] = None THEN work[w].paid[u] = 0
                                  ELSE lock[u] = w /\ work[w].base[u] = balance[u]

LEMMA FundedInit == ConstantsOK /\ Init => Funded /\ BalanceExplained
  BY DEF Init, Funded, BalanceExplained, Idle

LEMMA FundedOthers ==
    ASSUME TypeOK, ConstantsOK, Funded, NEW w \in Workers, Shape(w),
           NEW v \in Workers \ {w}, NEW u \in Users
    PROVE  IF work'[v].base[u] = None THEN work'[v].paid[u] = 0
           ELSE lock[u] = v /\ lock'[u] = v /\ work'[v].base[u] = balance[u]
<1>1. work'[v] = work[v] /\ v # None /\ u \in Rows
  BY DEF Shape, ConstantsOK, Rows
<1>2. CASE work[v].base[u] # None
  <2>1. lock[u] = v
    BY <1>2 DEF Funded
  <2>2. lock'[u] = v
    BY <1>1, <2>1 DEF Shape, Locking, Free
  <2> QED
    BY <1>1, <1>2, <2>1, <2>2 DEF Funded
<1>3. CASE work[v].base[u] = None
  BY <1>1, <1>3 DEF Funded
<1> QED
  BY <1>2, <1>3

(* Steps that leave the balances alone, and what their request read and pays. *)
LEMMA FundedRests ==
    ASSUME TypeOK, ConstantsOK, Funded, BalanceExplained, NEW w \in Workers, Shape(w),
           UNCHANGED <<balance, ledger, raced>>,
           \/ /\ work'[w].base = work[w].base /\ work'[w].paid = work[w].paid
              /\ work'[w].phase # "done"
           \/ work'[w].base = Idle.base /\ work'[w].paid = Idle.paid
    PROVE  Funded' /\ BalanceExplained'
<1>1. ASSUME NEW u \in Users
      PROVE  IF work'[w].base[u] = None THEN work'[w].paid[u] = 0
             ELSE lock'[u] = w /\ work'[w].base[u] = balance[u]
  <2>1. CASE work'[w].base = work[w].base /\ work'[w].paid = work[w].paid
             /\ work'[w].phase # "done"
    <3>1. u \in Rows
      BY DEF Rows
    <3> QED
      BY <2>1, <3>1 DEF Funded, Shape, Locking
  <2>2. CASE work'[w].base = Idle.base /\ work'[w].paid = Idle.paid
    BY <2>2 DEF Idle
  <2> QED
    BY <2>1, <2>2
<1>2. Funded'
  BY <1>1, FundedOthers DEF Funded
<1>3. BalanceExplained'
  BY DEF BalanceExplained
<1> QED
  BY <1>2, <1>3

(* A payment: the row is locked by its first read. *)
LEMMA FundedPays ==
    ASSUME TypeOK, ConstantsOK, Funded, BalanceExplained, NEW w \in Workers, NEW x \in Users,
           NEW amount \in Int, NEW record \in Request, Pays(w, x, amount, record),
           Shape(w), record.paid = work[w].paid, record.base = work[w].base,
           record.phase \notin {"idle", "done"}
    PROVE  Funded' /\ BalanceExplained'
<1> DEFINE paid == [record.paid EXCEPT ![x] = @ + amount]
           base == [record.base EXCEPT ![x] = IF @ = None THEN balance[x] ELSE @]
           next == [record EXCEPT !.paid[x] = @ + amount,
                                  !.base[x] = IF @ = None THEN balance[x] ELSE @]
<1>1. next.paid = paid /\ next.base = base /\ next.phase = record.phase
  BY DEF Request
<1>2. Moves(w, next) /\ UNCHANGED <<balance, ledger, raced>>
      /\ Free(w, x) /\ lock' = [lock EXCEPT ![x] = w]
  BY DEF Pays, Stays, rows, past, Locks
<1>3. work'[w] = next
  BY <1>2 DEF Moves, TypeOK
<1>4. ASSUME NEW u \in Users
      PROVE  IF next.base[u] = None THEN next.paid[u] = 0
             ELSE lock'[u] = w /\ next.base[u] = balance[u]
  <2>0. u \in Rows /\ x \in Rows /\ balance[u] \in Int /\ None \notin Int
    BY DEF Rows, TypeOK, ConstantsOK
  <2>1. record.base \in [Users -> Int \union {None}] /\ record.paid \in [Users -> Int]
    BY DEF Request
  <2>2. CASE u = x
    BY <1>1, <1>2, <2>0, <2>1, <2>2 DEF Funded, TypeOK
  <2>3. CASE u # x
    <3>1. next.base[u] = work[w].base[u] /\ next.paid[u] = work[w].paid[u]
      BY <1>1, <2>1, <2>3
    <3>2. lock'[u] = lock[u]
      BY <1>2, <2>0, <2>3 DEF TypeOK
    <3> QED
      BY <3>1, <3>2 DEF Funded
  <2> QED
    BY <2>2, <2>3
<1> HIDE DEF next
<1>5. Funded'
  BY <1>2, <1>3, <1>4, FundedOthers DEF Funded
<1>6. BalanceExplained'
  BY <1>2 DEF BalanceExplained
<1> QED
  BY <1>5, <1>6

LEMMA FundedCommit ==
    ASSUME TypeOK, ConstantsOK, Funded, BalanceExplained, NEW w \in Workers, CommitBalances(w),
           Shape(w), raced' = raced
    PROVE  Funded' /\ BalanceExplained'
<1>1. work[w].base \in [Users -> Int \union {None}] /\ work[w].paid \in [Users -> Int]
  BY DEF TypeOK, Request
<1>2. work'[w].base = Idle.base /\ work'[w].paid = Idle.paid
  BY DEF CommitBalances, Moves, TypeOK, Finished, Request
<1>3. BalanceExplained'
  <2> SUFFICES ASSUME NEW u \in Users, u \notin raced
               PROVE  balance'[u] = ledger'[u]
    BY DEF BalanceExplained
  <2>1. balance[u] = ledger[u] /\ balance[u] \in Int
    BY DEF BalanceExplained, TypeOK
  <2>2. CASE work[w].base[u] = None
    BY <1>1, <2>1, <2>2 DEF CommitBalances, Funded
  <2>3. CASE work[w].base[u] # None
    BY <1>1, <2>1, <2>3 DEF CommitBalances, Funded
  <2> QED
    BY <2>2, <2>3
<1>4. ASSUME NEW v \in Workers \ {w}, NEW u \in Users, work'[v].base[u] # None
      PROVE  balance'[u] = balance[u]
  <2>1. lock[u] = v
    BY <1>4, FundedOthers
  <2>2. work[w].base[u] = None
    BY <2>1 DEF Funded
  <2> QED
    BY <2>2 DEF CommitBalances
<1>5. Funded'
  <2>1. \A u \in Users : work'[w].base[u] = None /\ work'[w].paid[u] = 0
    BY <1>2 DEF Idle
  <2> QED
    BY <1>4, <2>1, FundedOthers DEF Funded
<1> QED
  BY <1>3, <1>5

(* Statements whose request keeps what it read and pays, and leaves the balances. *)
LEMMA Restful ==
    ASSUME TypeOK, ConstantsOK, NEW w \in Workers,
           \/ AloneUpdate(w) \/ AloneRead(w) \/ AloneEnd(w)
           \/ \E m \in AllMarkets : GroupRead(w, m)
           \/ GroupUpdate(w) \/ GroupPaid(w) \/ GroupMark(w) \/ AddReview(w) \/ Fail(w)
    PROVE  /\ Shape(w) /\ UNCHANGED <<balance, ledger, raced>>
           /\ \/ /\ work'[w].base = work[w].base /\ work'[w].paid = work[w].paid
                 /\ work'[w].phase # "done"
              \/ work'[w].base = Idle.base /\ work'[w].paid = Idle.paid
<1>0. work[w] \in Request
  BY DEF TypeOK
<1>1. Shape(w)
  BY StatementShape, UpdateShape DEF Statement
<1>2. UNCHANGED <<balance, ledger, raced>>
  BY DEF AloneUpdate, AloneRead, AloneEnd, GroupRead, GroupUpdate, GroupPaid, GroupMark, AddReview,
     Fail, Stays, rows, past
<1>3. ASSUME NEW record, Moves(w, record)
      PROVE  work'[w] = record
  BY <1>3 DEF Moves, TypeOK
<1>4. CASE AloneUpdate(w)
  <2> DEFINE due == Payments[work[w].at, work[w].plan[work[w].at]]
                    \o WorkProfit({work[w].at}, {work[w].plan[work[w].at]})
             record == [work[w] EXCEPT !.phase = "pay", !.due = due]
  <2>1. record.base = work[w].base /\ record.paid = work[w].paid /\ record.phase = "pay"
    BY <1>0 DEF Request
  <2>2. Moves(w, record)
    BY <1>4 DEF AloneUpdate
  <2> HIDE DEF record
  <2> QED
    BY <1>1, <1>2, <1>3, <2>1, <2>2
<1>5. CASE AloneRead(w)
  <2> DEFINE record == [work[w] EXCEPT !.read = balance[Head(work[w].due).user]]
  <2>1. record.base = work[w].base /\ record.paid = work[w].paid /\ record.phase = "pay"
    BY <1>0, <1>5 DEF AloneRead, In, Request
  <2>2. Moves(w, record)
    BY <1>5 DEF AloneRead
  <2> HIDE DEF record
  <2> QED
    BY <1>1, <1>2, <1>3, <2>1, <2>2
<1>6. CASE \E m \in AllMarkets : GroupRead(w, m)
  <2> PICK m \in AllMarkets : GroupRead(w, m)
    BY <1>6
  <2> DEFINE record == [work[w] EXCEPT !.phase = "update", !.at = m]
  <2>1. record.base = work[w].base /\ record.paid = work[w].paid /\ record.phase = "update"
    BY <1>0 DEF Request
  <2>2. Moves(w, record)
    BY DEF GroupRead
  <2> HIDE DEF record
  <2> QED
    BY <1>1, <1>2, <1>3, <2>1, <2>2
<1>7. CASE GroupUpdate(w)
  <2> DEFINE due == Payments[work[w].at, work[w].plan[work[w].at]]
             record == [work[w] EXCEPT !.phase = "pay", !.todo = @ \ {work[w].at}, !.due = due]
  <2>1. record.base = work[w].base /\ record.paid = work[w].paid /\ record.phase = "pay"
    BY <1>0 DEF Request
  <2>2. Moves(w, record)
    BY <1>7 DEF GroupUpdate
  <2> HIDE DEF record
  <2> QED
    BY <1>1, <1>2, <1>3, <2>1, <2>2
<1>8. CASE GroupPaid(w)
  <2> DEFINE record == [work[w] EXCEPT !.phase = IF work[w].todo = {} THEN "mark" ELSE "read"]
  <2>1. record.base = work[w].base /\ record.paid = work[w].paid /\ record.phase # "done"
    BY <1>0 DEF Request
  <2>2. Moves(w, record)
    BY <1>8 DEF GroupPaid
  <2> HIDE DEF record
  <2> QED
    BY <1>1, <1>2, <1>3, <2>1, <2>2
<1>9. CASE GroupMark(w)
  <2> DEFINE profit == WorkProfit(DOMAIN work[w].plan,
                                  {work[w].plan[m] : m \in DOMAIN work[w].plan})
             record == [work[w] EXCEPT !.phase = "profit", !.due = profit]
  <2>1. record.base = work[w].base /\ record.paid = work[w].paid /\ record.phase = "profit"
    BY <1>0 DEF Request
  <2>2. Moves(w, record)
    BY <1>9 DEF GroupMark
  <2> HIDE DEF record
  <2> QED
    BY <1>1, <1>2, <1>3, <2>1, <2>2
<1>10. CASE AddReview(w)
  <2> DEFINE record == [work[w] EXCEPT !.phase = "commit"]
  <2>1. record.base = work[w].base /\ record.paid = work[w].paid /\ record.phase = "commit"
    BY <1>0 DEF Request
  <2>2. Moves(w, record)
    BY <1>10 DEF AddReview
  <2> HIDE DEF record
  <2> QED
    BY <1>1, <1>2, <1>3, <2>1, <2>2
<1>11. CASE AloneEnd(w) \/ Fail(w)
  <2>1. work'[w].base = Idle.base /\ work'[w].paid = Idle.paid
    BY <1>11, EndShape DEF AloneEnd, Fail, In, Stays, past
  <2> QED
    BY <1>1, <1>2, <2>1
<1> QED
  BY <1>4, <1>5, <1>6, <1>7, <1>8, <1>9, <1>10, <1>11

LEMMA FundedStep ==
    ASSUME TypeOK, ConstantsOK, Funded, BalanceExplained, [Next]_vars
    PROVE  Funded' /\ BalanceExplained'
<1>1. ASSUME NEW w \in Workers, Step(w)
      PROVE  Funded' /\ BalanceExplained'
  <2>0. work[w] \in Request /\ Planful(work[w])
    BY DEF TypeOK
  <2>1. CASE \/ \E m \in AllMarkets, result \in Results : AloneBegin(w, m, result)
             \/ \E plan \in Plans : GroupBegin(w, plan)
             \/ AddBegin(w)
    <3>1. Shape(w) /\ work[w].phase = "idle"
      BY <2>1, Beginnings
    <3>2. work'[w].base = Idle.base /\ work'[w].paid = Idle.paid
      BY <3>1 DEF Shape, Starts, Continues
    <3>3. UNCHANGED <<balance, ledger, raced>>
      BY <2>1 DEF AloneBegin, GroupBegin, AddBegin, Begin, rows
    <3> QED
      BY <3>1, <3>2, <3>3, FundedRests
  <2>2. CASE \/ AloneUpdate(w) \/ AloneRead(w) \/ AloneEnd(w)
             \/ \E m \in AllMarkets : GroupRead(w, m)
             \/ GroupUpdate(w) \/ GroupPaid(w) \/ GroupMark(w) \/ AddReview(w) \/ Fail(w)
    BY <2>2, Restful, FundedRests
  <2>3. CASE AloneWrite(w)
    <3> DEFINE due == work[w].due
               x == Head(due).user
               record == [work[w] EXCEPT !.due = Tail(@), !.read = None]
    <3>1. due \in Seq(Payment) /\ due # <<>> /\ work[w].read \in Int
      BY <2>0, <2>3 DEF AloneWrite, Planful, Request
    <3>2. x \in Users /\ Head(due).amount \in Int
      BY <3>1, DueType
    <3>3. Shape(w)
      BY <2>3, StatementShape DEF Statement
    <3>4. work'[w] = record /\ record.base = work[w].base /\ record.paid = work[w].paid
      BY <2>0, <2>3 DEF AloneWrite, Moves, TypeOK, Request
    <3>5. /\ lock[x] = None /\ lock' = lock
          /\ balance' = [balance EXCEPT ![x] = work[w].read + Head(due).amount]
          /\ ledger' = [ledger EXCEPT ![x] = @ + Head(due).amount]
          /\ raced' = IF balance[x] = work[w].read THEN raced ELSE raced \union {x}
      BY <2>3 DEF AloneWrite
    <3> HIDE DEF x, record
    <3>6. \A v \in Workers : work[v].base[x] = None
      BY <3>2, <3>5 DEF Funded, ConstantsOK
    <3>7. \A v \in Workers : work'[v].base = work[v].base /\ work'[v].paid = work[v].paid
      BY <3>3, <3>4 DEF Shape
    <3>8. \A u \in Users : u # x => balance'[u] = balance[u] /\ ledger'[u] = ledger[u]
      BY <3>5 DEF TypeOK
    <3>9. Funded'
      BY <3>5, <3>6, <3>7, <3>8 DEF Funded
    <3>10. x \notin raced' => balance'[x] = ledger'[x]
      BY <3>2, <3>5 DEF BalanceExplained, TypeOK
    <3>11. BalanceExplained'
      BY <3>5, <3>8, <3>10 DEF BalanceExplained
    <3> QED
      BY <3>9, <3>11
  <2>4. CASE GroupPay(w)
    <3> DEFINE due == work[w].due
               record == [work[w] EXCEPT !.due = Tail(@)]
    <3>1. Head(due).user \in Users /\ Head(due).amount \in Int /\ Tail(due) \in Seq(Payment)
      BY <2>0, <2>4, DueType DEF GroupPay, Request
    <3>2. /\ record \in Request /\ record.phase = work[w].phase
          /\ record.paid = work[w].paid /\ record.base = work[w].base
      BY <2>0, <3>1 DEF Request
    <3>3. Pays(w, Head(due).user, Head(due).amount, record)
          /\ work[w].phase \notin {"idle", "done"}
      BY <2>4 DEF GroupPay
    <3>4. Shape(w)
      BY <2>4, StatementShape DEF Statement
    <3> HIDE DEF due, record
    <3> QED
      BY <3>1, <3>2, <3>3, <3>4, FundedPays
  <2>5. CASE AddCharge(w)
    <3> DEFINE record == [work[w] EXCEPT !.phase = "review"]
    <3>1. /\ record \in Request /\ record.phase = "review"
          /\ record.paid = work[w].paid /\ record.base = work[w].base
      BY <2>0 DEF Request, Phases
    <3>2. Pays(w, Proposer, -Cost, record) /\ Proposer \in Users /\ -Cost \in Int
      BY <2>5 DEF AddCharge, ConstantsOK
    <3>3. Shape(w)
      BY <2>5, StatementShape DEF Statement
    <3> HIDE DEF record
    <3> QED
      BY <3>1, <3>2, <3>3, FundedPays
  <2>6. CASE GroupCommit(w) \/ AddCommit(w)
    BY <2>6, UpdateShape, FundedCommit DEF GroupCommit, AddCommit
  <2> QED
    BY <1>1, <2>1, <2>2, <2>3, <2>4, <2>5, <2>6 DEF Step
<1>2. CASE RejectAddition
  BY <1>2 DEF RejectAddition, Funded, BalanceExplained
<1>3. ASSUME NEW x \in Users, NEW s \in Swings, Trade(x, s)
      PROVE  Funded' /\ BalanceExplained'
  <2>1. \A v \in Workers : work[v].base[x] = None
    BY <1>3 DEF Trade, Funded, ConstantsOK
  <2>2. \A u \in Users : u # x => balance'[u] = balance[u] /\ ledger'[u] = ledger[u]
    BY <1>3 DEF Trade, TypeOK
  <2>3. balance'[x] = balance[x] + s /\ ledger'[x] = ledger[x] + s
    BY <1>3 DEF Trade, TypeOK
  <2>4. Funded'
    BY <1>3, <2>1, <2>2 DEF Trade, Funded
  <2>5. BalanceExplained'
    BY <1>3, <2>2, <2>3 DEF Trade, BalanceExplained
  <2> QED
    BY <2>4, <2>5
<1>4. CASE UNCHANGED vars
  BY <1>4 DEF vars, rows, past, Funded, BalanceExplained
<1> QED
  BY <1>1, <1>2, <1>3, <1>4 DEF Next

(* Whatever fails, overlaps and is rolled back, a balance is the sum of what was traded, paid   *)
(* and charged, unless updateUserBalance wrote it over a newer one for a market resolved alone. *)
THEOREM BalanceAlwaysExplained == ASSUME ConstantsOK PROVE Spec => []BalanceExplained
<1> DEFINE Inv == TypeOK /\ Funded /\ BalanceExplained
<1>1. Init => Inv
  BY InitType, FundedInit
<1>2. Inv /\ [Next]_vars => Inv'
  BY StepType, FundedStep
<1>3. Inv => BalanceExplained
  OBVIOUS
<1> QED
  BY <1>1, <1>2, <1>3, PTL DEF Spec

-----------------------------------------------------------------------------
(* Why a proposed answer is decided once: its row is locked between review and commit. *)
Deciding ==
    \A w \in Workers : In(w, "addition", "commit") => lock[AdditionRow] = w /\ addition = "pending"

LEMMA DecidingInit == ConstantsOK /\ Init => Deciding /\ DecidedOnce
  BY DEF Init, Deciding, DecidedOnce, In, Idle, ConstantsOK

LEMMA DecidingOthers ==
    ASSUME TypeOK, ConstantsOK, Deciding, NEW w \in Workers, Shape(w), NEW v \in Workers,
           v # w, In(v, "addition", "commit")'
    PROVE  In(v, "addition", "commit") /\ lock[AdditionRow] = v /\ lock'[AdditionRow] = v
<1>1. In(v, "addition", "commit")
  BY DEF Shape, In
<1>2. lock[AdditionRow] = v /\ AdditionRow \in Rows /\ v # None
  BY <1>1 DEF Deciding, Rows, ConstantsOK
<1> QED
  BY <1>1, <1>2 DEF Shape, Locking, Free

LEMMA DecidingQuiet ==
    ASSUME TypeOK, ConstantsOK, Deciding, DecidedOnce, NEW w \in Workers, Shape(w),
           UNCHANGED <<members, addition, decided>>,
           work'[w].phase = "commit" => \/ work[w].phase = "commit"
                                        \/ lock'[AdditionRow] = w /\ addition = "pending"
    PROVE  Deciding' /\ DecidedOnce'
<1>1. DecidedOnce'
  BY DEF DecidedOnce
<1>2. ASSUME NEW v \in Workers, In(v, "addition", "commit")'
      PROVE  lock'[AdditionRow] = v /\ addition = "pending"
  <2>1. CASE v # w
    BY <1>2, <2>1, DecidingOthers DEF Deciding
  <2>2. CASE v = w /\ work[w].phase = "commit"
    <3>1. Continues(w)
      BY <2>2 DEF Shape, Starts
    <3>2. In(w, "addition", "commit") /\ work'[w].phase # "done"
      BY <1>2, <2>2, <3>1 DEF Continues, In
    <3>3. lock[AdditionRow] = w /\ addition = "pending" /\ AdditionRow \in Rows
      BY <3>2 DEF Deciding, Rows
    <3> QED
      BY <2>2, <3>2, <3>3 DEF Shape, Locking
  <2> QED
    BY <1>2, <2>1, <2>2 DEF In
<1>3. Deciding'
  BY <1>2 DEF Deciding
<1> QED
  BY <1>1, <1>3

LEMMA DecidingStep ==
    ASSUME TypeOK, ConstantsOK, Deciding, DecidedOnce, [Next]_vars
    PROVE  Deciding' /\ DecidedOnce'
<1>1. ASSUME NEW w \in Workers, Step(w)
      PROVE  Deciding' /\ DecidedOnce'
  <2>1. ASSUME Shape(w), Quiet(w)
        PROVE  Deciding' /\ DecidedOnce'
    BY <2>1, DecidingQuiet DEF Quiet
  <2>2. CASE \/ \E m \in AllMarkets, result \in Results : AloneBegin(w, m, result)
             \/ \E plan \in Plans : GroupBegin(w, plan)
             \/ AddBegin(w)
    BY <2>1, <2>2, Beginnings
  <2>3. CASE Statement(w)
    BY <2>1, <2>3, StatementShape
  <2>4. CASE AloneUpdate(w) \/ GroupMark(w) \/ GroupCommit(w)
    <3>1. Shape(w) /\ work'[w].phase # "commit"
      BY <2>4, UpdateShape
    <3>2. UNCHANGED <<members, addition, decided>>
      BY <2>4 DEF AloneUpdate, GroupMark, GroupCommit, Stays, rows, past
    <3> QED
      BY <3>1, <3>2, DecidingQuiet
  <2>5. CASE AddReview(w)
    <3>1. Shape(w) /\ lock'[AdditionRow] = w
      BY <2>5, UpdateShape
    <3>2. UNCHANGED <<members, addition, decided>> /\ addition = "pending"
      BY <2>5 DEF AddReview, Stays, rows, past
    <3> QED
      BY <3>1, <3>2, DecidingQuiet
  <2>6. CASE AddCommit(w)
    <3>1. Shape(w) /\ work'[w].phase = "done"
      BY <2>6, UpdateShape
    <3>2. lock[AdditionRow] = w /\ addition = "pending"
      BY <2>6 DEF AddCommit, Deciding
    <3>3. DecidedOnce'
      BY <2>6, <3>2 DEF AddCommit, DecidedOnce
    <3>4. \A v \in Workers : ~ In(v, "addition", "commit")'
      BY <3>1, <3>2, DecidingOthers DEF In
    <3> QED
      BY <3>3, <3>4 DEF Deciding
  <2> QED
    BY <1>1, <2>2, <2>3, <2>4, <2>5, <2>6 DEF Step, Statement
<1>2. CASE RejectAddition
  <2>1. \A v \in Workers : ~ In(v, "addition", "commit")
    BY <1>2 DEF RejectAddition, Deciding, ConstantsOK
  <2>2. DecidedOnce'
    BY <1>2 DEF RejectAddition, DecidedOnce
  <2> QED
    BY <1>2, <2>1, <2>2 DEF RejectAddition, Deciding, In
<1>3. CASE \E u \in Users, s \in Swings : Trade(u, s)
  BY <1>3 DEF Trade, Deciding, DecidedOnce, In
<1>4. CASE UNCHANGED vars
  BY <1>4 DEF vars, rows, past, Deciding, DecidedOnce, In
<1> QED
  BY <1>1, <1>2, <1>3, <1>4 DEF Next
-----------------------------------------------------------------------------
(* Why only an answer approved meanwhile is left open: a resolution that is open, or was       *)
(* committed, plans every member but that one, and an approval that is open began before any   *)
(* resolution was committed.                                                                  *)
Committed(w) == \E m \in AllMarkets : w \in settled[m]

Missed(w) ==
    /\ members \ DOMAIN work[w].plan \subseteq {Child}
    /\ Child \in members \ DOMAIN work[w].plan =>
           \E v \in decided \intersect Workers : Overlapped(v, w)

Whole ==
    /\ \A w \in Workers : work[w].phase = "idle" => w \notin decided /\ work[w].kind = None
    /\ \A w \in Groups : Markets \subseteq DOMAIN work[w].plan
    /\ \A w \in Groups : work[w].phase # "done" \/ Committed(w) => Missed(w)
    /\ \A v \in Workers, w \in Groups : work[v].kind = "addition" /\ Committed(w) => w \notin before[v]
    /\ group = "resolved" =>
           \E w \in Groups : work[w].phase = "done" /\ \A m \in DOMAIN work[w].plan : w \in settled[m]

LEMMA WholeInit == ConstantsOK /\ Init => Whole
  BY DEF Init, Whole, Groups, Idle, ConstantsOK

LEMMA WholeOpen ==
    ASSUME TypeOK, ConstantsOK, Settling, Whole
    PROVE  OpenOnlyByOverlap
<1> SUFFICES ASSUME group = "resolved", NEW m \in members, outcome[m] = None
             PROVE  m = Child /\ \E v \in decided \intersect Workers, w \in Groups \intersect Ended :
                                     Overlapped(v, w)
  BY DEF OpenOnlyByOverlap
<1>1. PICK w \in Groups : work[w].phase = "done" /\ \A n \in DOMAIN work[w].plan : w \in settled[n]
  BY DEF Whole
<1>2. w \in Workers /\ m \in AllMarkets /\ w \in Ended
  BY <1>1 DEF Groups, Ended, TypeOK, AllMarkets
<1>3. m \notin DOMAIN work[w].plan
  BY <1>1, <1>2 DEF Settling
<1>4. Committed(w)
  <2>1. PICK n \in Markets : TRUE
    BY DEF ConstantsOK
  <2>2. n \in DOMAIN work[w].plan /\ n \in AllMarkets
    BY <2>1 DEF Whole, AllMarkets
  <2> QED
    BY <1>1, <2>2 DEF Committed
<1>5. Missed(w)
  BY <1>4 DEF Whole
<1> QED
  BY <1>2, <1>3, <1>5 DEF Missed

(* A step of the request w, by what it may add to the resolved, the decided and the members. *)
LEMMA WholeShape ==
    ASSUME TypeOK, TypeOK', ConstantsOK, Settling, Whole, NEW w \in Workers, Shape(w),
           \A m \in AllMarkets : settled[m] \subseteq settled'[m]
                                 /\ settled'[m] \subseteq settled[m] \union {w},
           \/ group' = group
           \/ /\ w \in Groups' /\ work'[w].phase = "done"
              /\ \A m \in DOMAIN work'[w].plan : w \in settled'[m],
           decided \subseteq decided', decided' \subseteq decided \union {w},
           \/ members' = members
           \/ members' = members \union {Child} /\ w \in decided' /\ work[w].kind = "addition",
           Starts(w) => /\ UNCHANGED <<settled, decided, members, group>>
                        /\ w \in Groups' => DOMAIN work'[w].plan = members
                        /\ work'[w].kind = "addition" => group = "published"
    PROVE  Whole'
<1>0. w \notin Ended /\ work[w].phase # "done" /\ \A v \in Workers : w \notin before[v]
  BY DEF Settling, Shape, Ended
<1>1. \A v \in Workers : work[v].phase # "idle" =>
          work'[v].kind = work[v].kind /\ work'[v].plan = work[v].plan /\ before'[v] = before[v]
  BY DEF Shape, Starts, Continues, TypeOK
<1>2. \A v \in Groups : work[v].phase # "idle" /\ v \in Workers
  BY DEF Whole, Groups, ConstantsOK
<1>3. \A v \in Workers \ {w} : v \in Groups' <=> v \in Groups
  BY DEF Shape, Groups
<1>4. Continues(w) => (w \in Groups' <=> w \in Groups)
  BY DEF Continues, Groups
<1>5. \A v \in Workers \ {w} : Committed(v)' => Committed(v)
  BY DEF Committed
<1>6. \A v \in Workers : work'[v].phase = "idle" => v \notin decided' /\ work'[v].kind = None
  BY DEF Whole, Shape
<1>7. \A v \in Groups' : Markets \subseteq DOMAIN work'[v].plan
  <2> SUFFICES ASSUME NEW v \in Groups'
               PROVE  Markets \subseteq DOMAIN work'[v].plan
    OBVIOUS
  <2>1. CASE v = w /\ Starts(w)
    BY <2>1 DEF TypeOK, AllMarkets
  <2>2. CASE ~(v = w /\ Starts(w))
    <3>1. v \in Groups /\ work'[v].plan = work[v].plan
      BY <1>1, <1>2, <1>3, <1>4, <2>2 DEF Shape, Groups
    <3> QED
      BY <3>1 DEF Whole
  <2> QED
    BY <2>1, <2>2
<1>8. ASSUME NEW v \in Groups', work'[v].phase # "done" \/ Committed(v)'
      PROVE  Missed(v)'
  <2>1. CASE v = w /\ Starts(w)
    <3>1. members' \ DOMAIN work'[v].plan = {}
      BY <2>1
    <3> QED
      BY <3>1 DEF Missed
  <2>2. CASE ~(v = w /\ Starts(w))
    <3>1. v \in Groups /\ v \in Workers /\ work'[v].plan = work[v].plan /\ before'[v] = before[v]
      BY <1>1, <1>2, <1>3, <1>4, <2>2 DEF Shape, Groups
    <3>2. work[v].phase # "done" \/ Committed(v)
      BY <1>0, <1>5, <1>8, <3>1 DEF Shape
    <3>3. Missed(v)
      BY <3>1, <3>2 DEF Whole
    <3>4. ASSUME NEW x \in decided \intersect Workers, Overlapped(x, v)
          PROVE  x \in decided' \intersect Workers /\ Overlapped(x, v)'
      <4>1. work[x].phase # "idle"
        BY DEF Whole
      <4> QED
        BY <1>1, <3>1, <3>4, <4>1 DEF Overlapped
    <3>5. CASE members' = members
      <4>1. members' \ DOMAIN work'[v].plan \subseteq {Child}
        BY <3>1, <3>3, <3>5 DEF Missed
      <4>2. ASSUME Child \in members' \ DOMAIN work'[v].plan
            PROVE  \E x \in decided' \intersect Workers : Overlapped(x, v)'
        <5>1. PICK x \in decided \intersect Workers : Overlapped(x, v)
          BY <3>1, <3>3, <3>5, <4>2 DEF Missed
        <5>2. x \in decided' \intersect Workers /\ Overlapped(x, v)'
          BY <3>4, <5>1
        <5> QED
          BY <5>2
      <4> QED
        BY <4>1, <4>2 DEF Missed
    <3>6. CASE members' = members \union {Child} /\ w \in decided' /\ work[w].kind = "addition"
      <4>1. members' \ DOMAIN work'[v].plan \subseteq {Child}
        BY <3>1, <3>3, <3>6 DEF Missed
      <4>2. work[w].phase # "idle"
        BY <3>6 DEF Whole, ConstantsOK
      <4>3. w \notin before[v] /\ v \notin before[w]
        <5>1. CASE work[v].phase # "done"
          BY <1>0, <3>1, <5>1 DEF Settling, Ended
        <5>2. CASE Committed(v)
          BY <1>0, <3>1, <3>6, <5>2 DEF Whole
        <5> QED
          BY <3>2, <5>1, <5>2
      <4>4. w \in decided' \intersect Workers /\ Overlapped(w, v)'
        BY <1>1, <3>1, <3>6, <4>2, <4>3 DEF Overlapped
      <4> QED
        BY <4>1, <4>4 DEF Missed
    <3> QED
      BY <3>5, <3>6
  <2> QED
    BY <2>1, <2>2
<1>9. ASSUME NEW v \in Workers, NEW x \in Groups', work'[v].kind = "addition", Committed(x)'
      PROVE  x \notin before'[v]
  <2>1. x # v /\ x \in Workers
    BY <1>9 DEF Groups
  <2>2. CASE v = w /\ Starts(w)
    <3>1. x \in Groups /\ Committed(x)
      BY <1>3, <1>5, <1>9, <2>1, <2>2
    <3> QED
      BY <1>9, <2>2, <3>1 DEF Settling, Committed
  <2>3. CASE ~(v = w /\ Starts(w))
    <3>1. work[v].kind = "addition" /\ before'[v] = before[v]
      BY <1>9, <2>3 DEF Shape, Starts, Continues, TypeOK
    <3>2. CASE x = w
      BY <1>0, <3>1, <3>2
    <3>3. CASE x # w
      BY <1>3, <1>5, <1>9, <2>1, <3>1, <3>3 DEF Whole
    <3> QED
      BY <3>2, <3>3
  <2> QED
    BY <2>2, <2>3
<1>10. group' = "resolved" =>
           \E x \in Groups' : work'[x].phase = "done" /\ \A m \in DOMAIN work'[x].plan : x \in settled'[m]
  <2>1. CASE group' = group /\ group = "resolved"
    <3>1. PICK x \in Groups : work[x].phase = "done" /\ \A m \in DOMAIN work[x].plan : x \in settled[m]
      BY <2>1 DEF Whole
    <3>2. x # w /\ x \in Workers /\ x \in Groups' /\ work'[x] = work[x]
      BY <1>0, <1>2, <1>3, <3>1 DEF Shape
    <3>3. \A m \in DOMAIN work[x].plan : m \in AllMarkets
      BY <3>2, PlannedDomain DEF TypeOK, Request
    <3> QED
      BY <3>1, <3>2, <3>3
  <2>2. CASE group' # group
    BY <2>2
  <2> QED
    BY <2>1, <2>2
<1> QED
  BY <1>6, <1>7, <1>8, <1>9, <1>10 DEF Whole

LEMMA WholeStep ==
    ASSUME TypeOK, TypeOK', ConstantsOK, Settling, Whole, [Next]_vars
    PROVE  Whole'
<1>1. ASSUME NEW w \in Workers, Step(w)
      PROVE  Whole'
  <2>0. work[w] \in Request /\ Planful(work[w])
    BY DEF TypeOK
  <2>1. ASSUME Shape(w), Continues(w),
               UNCHANGED <<members, group, settled, decided>>
        PROVE  Whole'
    BY <2>1, WholeShape DEF Starts, Continues
  <2>2. CASE \/ \E m \in AllMarkets, result \in Results : AloneBegin(w, m, result)
             \/ \E plan \in Plans : GroupBegin(w, plan)
             \/ AddBegin(w)
    <3>1. /\ Shape(w) /\ Quiet(w)
          /\ w \in Groups' => DOMAIN work'[w].plan = members
          /\ work'[w].kind = "addition" => group = "published"
      BY <2>2, Beginnings DEF Groups
    <3> QED
      BY <3>1, WholeShape DEF Quiet
  <2>3. CASE Statement(w)
    <3>1. Shape(w) /\ Quiet(w)
      BY <2>3, StatementShape
    <3>2. work[w].phase # "idle"
      BY <2>0, <2>3 DEF Statement, AloneRead, AloneWrite, AloneEnd, GroupRead, GroupUpdate, GroupPay,
         GroupPaid, AddCharge, Fail, In
    <3> QED
      BY <2>1, <3>1, <3>2 DEF Shape, Starts, Quiet
  <2>4. CASE AloneUpdate(w)
    <3>1. Shape(w) /\ Continues(w)
      BY <2>4, UpdateShape
    <3>2. \A m \in AllMarkets : settled[m] \subseteq settled'[m]
                                /\ settled'[m] \subseteq settled[m] \union {w}
      BY <2>4 DEF AloneUpdate, TypeOK
    <3>3. UNCHANGED <<members, group, decided>>
      BY <2>4 DEF AloneUpdate
    <3> QED
      BY <3>1, <3>2, <3>3, WholeShape DEF Starts, Continues
  <2>5. CASE GroupMark(w) \/ AddReview(w)
    BY <2>1, <2>5, UpdateShape DEF GroupMark, AddReview, Stays, rows, past
  <2>6. CASE GroupCommit(w)
    <3>1. Shape(w) /\ Continues(w) /\ work'[w].phase = "done"
      BY <2>6, UpdateShape
    <3>2. \A m \in AllMarkets : settled[m] \subseteq settled'[m]
                                /\ settled'[m] \subseteq settled[m] \union {w}
      BY <2>6 DEF GroupCommit
    <3>3. UNCHANGED <<members, decided>> /\ w \in Groups
      BY <2>6 DEF GroupCommit, In, Groups
    <3>4. w \in Groups'
      BY <3>1, <3>3 DEF Continues, Groups
    <3>5. \A m \in DOMAIN work'[w].plan : w \in settled'[m]
      BY <2>0, <2>6, <3>1, PlannedDomain DEF GroupCommit, Continues, Request
    <3> QED
      BY <3>1, <3>2, <3>3, <3>4, <3>5, WholeShape DEF Starts, Continues
  <2>7. CASE AddCommit(w)
    <3>1. Shape(w) /\ Continues(w)
      BY <2>7, UpdateShape
    <3>2. /\ UNCHANGED <<group, settled>> /\ decided' = decided \union {w}
          /\ members' = members \union {Child} /\ work[w].kind = "addition"
      BY <2>7 DEF AddCommit, In
    <3> QED
      BY <3>1, <3>2, WholeShape DEF Starts, Continues
  <2> QED
    BY <1>1, <2>2, <2>3, <2>4, <2>5, <2>6, <2>7 DEF Step, Statement
<1>2. CASE RejectAddition
  <2>1. /\ UNCHANGED <<members, group, settled, before, work>>
        /\ decided \subseteq decided' /\ \A v \in Workers : v \in decided' => v \in decided
    BY <1>2 DEF RejectAddition, ConstantsOK
  <2>2. \A v \in Workers : Missed(v) => Missed(v)'
    BY <2>1 DEF Missed, Overlapped
  <2> QED
    BY <2>1, <2>2 DEF Whole, Groups, Committed
<1>3. ASSUME UNCHANGED <<members, group, settled, before, work, decided>>
      PROVE  Whole'
  BY <1>3 DEF Whole, Groups, Committed, Missed, Overlapped
<1>4. CASE \E u \in Users, s \in Swings : Trade(u, s)
  BY <1>3, <1>4 DEF Trade
<1>5. CASE UNCHANGED vars
  BY <1>3, <1>5 DEF vars, rows, past
<1> QED
  BY <1>1, <1>2, <1>4, <1>5 DEF Next

(* A resolved group leaves no answer open but one approved while a resolution was under way    *)
(* (ResolveMarketGroup settles the members it read), and that answer is approved or rejected   *)
(* once (the conditional Review of the addition).                                             *)
THEOREM GroupAlwaysWhole == ASSUME ConstantsOK PROVE Spec => []GroupIsWhole
<1> DEFINE Inv == /\ TypeOK /\ Settling /\ TwiceOnlyByOverlap /\ Whole
                  /\ Deciding /\ DecidedOnce
<1>1. Init => Inv
  BY InitType, SettlingInit, WholeInit, DecidingInit
<1>2. Inv /\ [Next]_vars => Inv'
  <2> SUFFICES ASSUME Inv, [Next]_vars
               PROVE  Inv'
    OBVIOUS
  <2>1. TypeOK'
    BY StepType
  <2>2. Settling' /\ TwiceOnlyByOverlap' /\ Whole'
    BY <2>1, SettlingStep, WholeStep
  <2>3. Deciding' /\ DecidedOnce'
    BY DecidingStep
  <2> QED
    BY <2>1, <2>2, <2>3
<1>3. Inv => GroupIsWhole
  BY WholeOpen DEF GroupIsWhole
<1> QED
  BY <1>1, <1>2, <1>3, PTL DEF Spec
-----------------------------------------------------------------------------
(* Accounts: types. *)
AccountTasks ==
    /\ tasks \in [Clerks -> Account!Request]
    /\ \A w \in Clerks : tasks[w].phase # "idle" => Account!Holds(tasks[w])

LEMMA AccountMoves ==
    ASSUME AccountTasks, NEW w \in Clerks, NEW r \in Account!Request,
           r.phase # "idle" => Account!Holds(r), Account!Moves(w, r)
    PROVE  /\ AccountTasks'
           /\ tasks'[w] = r /\ \A v \in Clerks \ {w} : tasks'[v] = tasks[v]
  BY DEF AccountTasks, Account!Moves, Account!Holds

LEMMA AccountEnds ==
    ASSUME AccountTasks, NEW w \in Clerks, tasks[w].phase # "idle", Account!Ends(w)
    PROVE  /\ AccountTasks'
           /\ tasks'[w] = [tasks[w] EXCEPT !.phase = "done", !.row = None]
           /\ \A v \in Clerks \ {w} : tasks'[v] = tasks[v]
<1> DEFINE r == [tasks[w] EXCEPT !.phase = "done", !.row = None]
<1>1. r \in Account!Request /\ Account!Holds(r)
  BY DEF AccountTasks, Account!Request, Account!Phases, Account!Holds
<1>2. Account!Moves(w, r)
  BY DEF Account!Ends
<1> HIDE DEF r
<1>3. AccountTasks' /\ tasks'[w] = r /\ \A v \in Clerks \ {w} : tasks'[v] = tasks[v]
  BY <1>1, <1>2, AccountMoves
<1> QED
  BY <1>3 DEF r

(* A request begins. *)
LEMMA AccountBegins ==
    ASSUME Account!TypeOK, NEW w \in Clerks,
           NEW kind \in Account!Kinds, NEW phase \in Account!Phases \ {"charge", "refund", "save"},
           NEW p, IF kind \in Account!Saves THEN p = None ELSE p \in Proposals,
           Account!Begin(w, kind, phase, p)
    PROVE  /\ Account!TypeOK'
           /\ tasks'[w] = [phase |-> phase, kind |-> kind, market |-> p, row |-> None]
           /\ \A v \in Clerks \ {w} : tasks'[v] = tasks[v]
<1> DEFINE r == [phase |-> phase, kind |-> kind, market |-> p, row |-> None]
<1>1. r \in Account!Request
  BY DEF Account!Request
<1>2. Account!Holds(r)
  BY DEF Account!Holds, Account!Kinds, Account!Saves, Account!Roles
<1>3. AccountTasks /\ Account!Moves(w, r)
  BY DEF Account!Begin, Account!TypeOK, AccountTasks
<1>4. AccountTasks' /\ tasks'[w] = r /\ \A v \in Clerks \ {w} : tasks'[v] = tasks[v]
  <2> HIDE DEF r
  <2> QED
    BY <1>1, <1>2, <1>3, AccountMoves
<1>5. story'.crowded \in BOOLEAN /\ story'.mixed \in BOOLEAN
  BY DEF Account!Begin, Account!TypeOK
<1> QED
  BY <1>4, <1>5 DEF Account!Begin, Account!TypeOK, AccountTasks

LEMMA AccountInitType == Account!ConstantsOK /\ Account!Init => Account!TypeOK
<1> SUFFICES ASSUME Account!ConstantsOK, Account!Init
             PROVE  Account!TypeOK
  OBVIOUS
<1>1. Account!Idle \in Account!Request /\ Account!Idle.phase = "idle"
  BY DEF Account!Idle, Account!Request, Account!Phases
<1>2. user \in Account!Row /\ market \in [Proposals -> Account!Lifecycle \union {None}]
  BY DEF Account!Init, Account!Row, Account!ConstantsOK, Account!Lifecycle
<1>3. {p \in Proposals : market[p] # None} \in SUBSET Proposals
  OBVIOUS
<1> QED
  BY <1>1, <1>2, <1>3 DEF Account!Init, Account!TypeOK, Account!ConstantsOK

(* The steps after a request began that write no balance. *)
LEMMA AccountReadType ==
    ASSUME Account!TypeOK, NEW w \in Clerks, NEW phase \in Account!Phases \ {"idle"},
           tasks[w].phase # "idle", Account!ReadRow(w, phase)
    PROVE  Account!TypeOK'
<1> DEFINE r == [tasks[w] EXCEPT !.phase = phase, !.row = user]
<1>1. r \in Account!Request
  BY DEF Account!Request, Account!TypeOK
<1>2. Account!Holds(r)
  BY DEF Account!Holds, Account!TypeOK, Account!Request
<1>3. AccountTasks'
  <2>1. AccountTasks /\ Account!Moves(w, r)
    BY DEF AccountTasks, Account!TypeOK, Account!ReadRow
  <2> HIDE DEF r
  <2> QED
    BY <1>1, <1>2, <2>1, AccountMoves
<1> QED
  BY <1>3 DEF Account!ReadRow, Account!TypeOK, AccountTasks

LEMMA AccountPhaseType ==
    ASSUME AccountTasks, NEW w \in Clerks, tasks[w].phase # "idle",
           NEW phase \in Account!Phases \ {"charge", "refund", "save"},
           Account!Moves(w, [tasks[w] EXCEPT !.phase = phase])
    PROVE  AccountTasks'
<1> DEFINE r == [tasks[w] EXCEPT !.phase = phase]
<1>1. r \in Account!Request /\ Account!Holds(r)
  BY DEF Account!Request, AccountTasks, Account!Holds
<1>2. Account!Moves(w, r)
  OBVIOUS
<1> HIDE DEF r
<1> QED
  BY <1>1, <1>2, AccountMoves

(* A balance is written. *)
LEMMA AccountWriteType ==
    ASSUME Account!TypeOK, NEW w \in Clerks, NEW amount \in Int, NEW s,
           tasks[w].phase \in {"charge", "refund"}, Account!WriteBalance(w, amount, s),
           s \in [ledger : Int, raced : BOOLEAN, crowded : BOOLEAN, mixed : BOOLEAN,
                  unaudited : BOOLEAN, charged : SUBSET Proposals,
                  approved : SUBSET Proposals, refunds : [Proposals -> Nat]]
    PROVE  /\ user' \in Account!Row
           /\ story' \in [ledger : Int, raced : BOOLEAN, crowded : BOOLEAN, mixed : BOOLEAN,
                          unaudited : BOOLEAN, charged : SUBSET Proposals,
                          approved : SUBSET Proposals, refunds : [Proposals -> Nat]]
           /\ user'.balance = tasks[w].row.balance + amount
           /\ story'.ledger = s.ledger + amount
           /\ story'.raced = (s.raced \/ tasks[w].row.balance # user.balance)
           /\ user'.status = user.status
           /\ story'.crowded = s.crowded /\ story'.mixed = s.mixed
           /\ story'.unaudited = s.unaudited /\ story'.charged = s.charged
           /\ story'.approved = s.approved /\ story'.refunds = s.refunds
<1>1. tasks[w].row \in Account!Row /\ user \in Account!Row
  BY DEF Account!TypeOK, Account!Holds
<1>2. tasks[w].row.balance \in Int /\ user.balance \in Int
  BY <1>1 DEF Account!Row
<1>3. user' \in Account!Row /\ user'.balance = tasks[w].row.balance + amount
      /\ user'.status = user.status
  BY <1>1, <1>2 DEF Account!WriteBalance, Account!Row
<1>4. s.ledger + amount \in Int
  OBVIOUS
<1> QED
  BY <1>3, <1>4 DEF Account!WriteBalance

Charges(w) == Account!CreateCharge(w) \/ Account!RefundWrite(w)

LEMMA AccountChargeType ==
    ASSUME Account!ConstantsOK, Account!TypeOK, NEW w \in Clerks, Charges(w)
    PROVE  Account!TypeOK'
<1> DEFINE Story == [ledger : Int, raced : BOOLEAN, crowded : BOOLEAN, mixed : BOOLEAN,
                     unaudited : BOOLEAN, charged : SUBSET Proposals,
                     approved : SUBSET Proposals, refunds : [Proposals -> Nat]]
<1>1. CASE Account!CreateCharge(w)
  <2> DEFINE s == [story EXCEPT !.charged = @ \union {tasks[w].market}]
  <2>1. tasks[w].kind = "create" /\ tasks[w].phase = "charge" /\ tasks[w].market \in Proposals
    BY <1>1 DEF Account!CreateCharge, Account!In, Account!TypeOK, Account!Holds
  <2>2. s \in Story
    BY <2>1 DEF Account!TypeOK
  <2>3. Account!WriteBalance(w, -Price, s) /\ -Price \in Int
    BY <1>1 DEF Account!CreateCharge, Account!ConstantsOK
  <2>4. user' \in Account!Row /\ story' \in Story
    <3> HIDE DEF s
    <3> QED
      BY <2>1, <2>2, <2>3, AccountWriteType
  <2>5. AccountTasks'
    BY <1>1, <2>1, AccountPhaseType
       DEF Account!CreateCharge, Account!TypeOK, AccountTasks, Account!Phases
  <2> QED
    BY <1>1, <2>4, <2>5 DEF Account!CreateCharge, Account!TypeOK, AccountTasks
<1>2. CASE Account!RefundWrite(w)
  <2> DEFINE s == [story EXCEPT !.refunds[tasks[w].market] = @ + 1]
  <2>1. tasks[w].kind = "reject" /\ tasks[w].phase = "refund" /\ tasks[w].market \in Proposals
    BY <1>2 DEF Account!RefundWrite, Account!In, Account!TypeOK, Account!Holds
  <2>2. s \in Story
    BY <2>1 DEF Account!TypeOK
  <2>3. Account!WriteBalance(w, Price, s) /\ Price \in Int
    BY <1>2 DEF Account!RefundWrite, Account!ConstantsOK
  <2>4. user' \in Account!Row /\ story' \in Story
    <3> HIDE DEF s
    <3> QED
      BY <2>1, <2>2, <2>3, AccountWriteType
  <2>5. AccountTasks'
    BY <1>2, <2>1, AccountEnds DEF Account!RefundWrite, Account!TypeOK, AccountTasks
  <2> QED
    BY <1>2, <2>4, <2>5 DEF Account!RefundWrite, Account!TypeOK, AccountTasks
<1> QED
  BY <1>1, <1>2 DEF Charges

(* The statements on a proposal that write no balance. *)
Decides(w) ==
    \/ Account!CreateValidate(w) \/ Account!CreateRead(w) \/ Account!CreateInsert(w)
    \/ Account!Approve(w) \/ Account!Reject(w) \/ Account!RefundRead(w) \/ Account!Resolve(w)

LEMMA AccountDecideType ==
    ASSUME Account!TypeOK, NEW w \in Clerks, Decides(w)
    PROVE  Account!TypeOK'
<1> USE DEF Account!In
<1>0. AccountTasks
  BY DEF AccountTasks, Account!TypeOK
<1>1. CASE Account!CreateValidate(w)
  <2>1. AccountTasks'
    BY <1>0, <1>1, AccountPhaseType DEF Account!CreateValidate, Account!Phases
  <2> QED
    BY <1>1, <2>1 DEF Account!CreateValidate, Account!TypeOK, AccountTasks
<1>2. CASE Account!CreateRead(w)
  BY <1>2, AccountReadType DEF Account!CreateRead, Account!Phases
<1>3. CASE Account!CreateInsert(w)
  <2>1. AccountTasks'
    BY <1>0, <1>3, AccountEnds DEF Account!CreateInsert
  <2> QED
    BY <1>3, <2>1 DEF Account!CreateInsert, Account!TypeOK, AccountTasks, Account!Lifecycle
<1>4. CASE Account!Approve(w)
  <2>1. AccountTasks'
    BY <1>0, <1>4, AccountEnds DEF Account!Approve
  <2>2. tasks[w].market \in Proposals
    BY <1>4 DEF Account!Approve, Account!TypeOK, Account!Holds
  <2> QED
    BY <1>4, <2>1, <2>2 DEF Account!Approve, Account!TypeOK, AccountTasks, Account!Lifecycle
<1>5. CASE Account!Reject(w)
  <2>1. AccountTasks'
    BY <1>0, <1>5, AccountPhaseType DEF Account!Reject, Account!Phases
  <2> QED
    BY <1>5, <2>1 DEF Account!Reject, Account!TypeOK, AccountTasks, Account!Lifecycle
<1>6. CASE Account!RefundRead(w)
  BY <1>6, AccountReadType DEF Account!RefundRead, Account!Phases
<1>7. CASE Account!Resolve(w)
  <2>1. AccountTasks'
    BY <1>0, <1>7, AccountEnds DEF Account!Resolve
  <2> QED
    BY <1>7, <2>1 DEF Account!Resolve, Account!TypeOK, AccountTasks, Account!Lifecycle
<1> QED
  BY <1>1, <1>2, <1>3, <1>4, <1>5, <1>6, <1>7 DEF Decides

(* The saves of the row, and what may happen to any request. *)
Others(w) ==
    \/ Account!SaveRead(w) \/ Account!Save(w) \/ Account!WriteAudit(w) \/ Account!Fail(w)

LEMMA AccountSaved ==
    ASSUME Account!TypeOK, NEW w \in Clerks, tasks[w].phase = "save"
    PROVE  /\ Account!Saved(w) \in Account!Row
           /\ Account!Saved(w).balance = tasks[w].row.balance
           /\ tasks[w].kind = "profile" => Account!Saved(w).status = tasks[w].row.status
           /\ tasks[w].kind \in Account!Roles => Account!Saved(w).status = Account!Told(w)
  BY DEF Account!TypeOK, Account!Holds, Account!Saved, Account!Row, Account!Roles, Account!Told

LEMMA AccountOtherType ==
    ASSUME Account!TypeOK, NEW w \in Clerks, Others(w)
    PROVE  Account!TypeOK'
<1> USE DEF Account!In
<1>0. AccountTasks
  BY DEF AccountTasks, Account!TypeOK
<1>1. CASE Account!SaveRead(w)
  BY <1>1, AccountReadType DEF Account!SaveRead, Account!Phases
<1>2. CASE Account!Save(w)
  <2>1. tasks[w].phase = "save"
    BY <1>2 DEF Account!Save
  <2>2. AccountTasks'
    BY <1>0, <1>2, <2>1, AccountEnds, AccountPhaseType DEF Account!Save, Account!Phases
  <2>3. user' \in Account!Row
    BY <1>2, <2>1, AccountSaved DEF Account!Save
  <2> QED
    BY <1>2, <2>2, <2>3 DEF Account!Save, Account!TypeOK, AccountTasks
<1>3. CASE Account!WriteAudit(w)
  <2>1. AccountTasks'
    BY <1>0, <1>3, AccountEnds DEF Account!WriteAudit
  <2> QED
    BY <1>3, <2>1 DEF Account!WriteAudit, Account!TypeOK, AccountTasks, Account!Told
<1>4. CASE Account!Fail(w)
  <2>1. AccountTasks'
    BY <1>0, <1>4, AccountEnds DEF Account!Fail
  <2> QED
    BY <1>4, <2>1 DEF Account!Fail, Account!TypeOK, AccountTasks
<1> QED
  BY <1>1, <1>2, <1>3, <1>4 DEF Others

(* How a request begins. *)
Begins(w) ==
    \/ \E p \in Proposals : Account!CreateBegin(w, p) \/ Account!ResolveBegin(w, p)
    \/ \E p \in Proposals, kind \in {"approve", "reject"} : Account!ReviewBegin(w, kind, p)
    \/ \E kind \in Account!Saves : Account!SaveBegin(w, kind)

LEMMA AccountBeginType ==
    ASSUME Account!TypeOK, NEW w \in Clerks, Begins(w)
    PROVE  Account!TypeOK'
<1>1. ASSUME NEW p \in Proposals, Account!CreateBegin(w, p) \/ Account!ResolveBegin(w, p)
      PROVE  Account!TypeOK'
  <2>1. {"create", "resolve"} \subseteq Account!Kinds \ Account!Saves
    BY DEF Account!Kinds, Account!Saves, Account!Roles
  <2> QED
    BY <1>1, <2>1, AccountBegins
       DEF Account!CreateBegin, Account!ResolveBegin, Account!Phases
<1>2. ASSUME NEW p \in Proposals, NEW kind \in {"approve", "reject"},
             Account!ReviewBegin(w, kind, p)
      PROVE  Account!TypeOK'
  <2>1. {"approve", "reject"} \subseteq Account!Kinds \ Account!Saves
    BY DEF Account!Kinds, Account!Saves, Account!Roles
  <2> QED
    BY <1>2, <2>1, AccountBegins DEF Account!ReviewBegin, Account!Phases
<1>3. ASSUME NEW kind \in Account!Saves, Account!SaveBegin(w, kind)
      PROVE  Account!TypeOK'
  <2>1. kind \in Account!Kinds
    BY DEF Account!Kinds
  <2> QED
    BY <1>3, <2>1, AccountBegins DEF Account!SaveBegin, Account!Phases
<1> QED
  BY <1>1, <1>2, <1>3 DEF Begins

LEMMA AccountSteps ==
    ASSUME NEW w \in Clerks, Account!Step(w)
    PROVE  Begins(w) \/ Decides(w) \/ Charges(w) \/ Others(w)
  BY DEF Account!Step, Begins, Decides, Charges, Others

LEMMA AccountTradeType ==
    ASSUME Account!ConstantsOK, Account!TypeOK, NEW g \in Gains, Account!Trade(g)
    PROVE  Account!TypeOK'
<1>1. user.balance + g \in Int /\ story.ledger + g \in Int
  BY DEF Account!ConstantsOK, Account!TypeOK, Account!Row
<1>2. user' \in Account!Row
  BY <1>1 DEF Account!Trade, Account!TypeOK, Account!Row
<1>3. PICK l \in Int, c \in BOOLEAN : story' = [story EXCEPT !.ledger = l, !.crowded = c]
  <2>1. (story.crowded \/ Account!Busy({"create"}) # {}) \in BOOLEAN
    OBVIOUS
  <2> QED
    BY <1>1, <2>1 DEF Account!Trade
<1>4. story' \in [ledger : Int, raced : BOOLEAN, crowded : BOOLEAN, mixed : BOOLEAN,
                  unaudited : BOOLEAN, charged : SUBSET Proposals,
                  approved : SUBSET Proposals, refunds : [Proposals -> Nat]]
  BY <1>3 DEF Account!TypeOK
<1>5. AccountTasks' /\ swings' \in Nat
  BY DEF Account!Trade, Account!TypeOK, AccountTasks
<1> QED
  BY <1>2, <1>4, <1>5 DEF Account!Trade, Account!TypeOK, AccountTasks

LEMMA AccountStepType ==
    ASSUME Account!ConstantsOK, Account!TypeOK, [Account!Next]_accounts
    PROVE  Account!TypeOK'
<1>1. CASE UNCHANGED accounts
  BY <1>1 DEF accounts, Account!TypeOK
<1>2. ASSUME NEW w \in Clerks, Account!Step(w)
      PROVE  Account!TypeOK'
  BY <1>2, AccountSteps, AccountBeginType, AccountDecideType, AccountChargeType,
     AccountOtherType
<1> QED
  BY <1>1, <1>2, AccountTradeType DEF Account!Next

-----------------------------------------------------------------------------
(* Accounts: what a step of a request does to it. *)

(* It stays what it is, its phase moves on; or it begins. *)
Proceeds(w) ==
    /\ tasks[w].phase # "idle" /\ tasks'[w].phase # "idle"
    /\ tasks'[w].kind = tasks[w].kind /\ tasks'[w].market = tasks[w].market

Rests(w) == \A v \in Clerks \ {w} : tasks'[v] = tasks[v]

AccountShape(w) ==
    /\ Rests(w)
    /\ tasks[w].phase = "idle" \/ Proceeds(w)
    /\ tasks'[w].phase # "idle"

LEMMA TaskEndShape ==
    ASSUME AccountTasks, NEW w \in Clerks, tasks[w].phase # "idle", Account!Ends(w)
    PROVE  Rests(w) /\ Proceeds(w) /\ tasks'[w].phase = "done"
<1>1. tasks[w] \in Account!Request
  BY DEF AccountTasks
<1> QED
  BY <1>1, AccountEnds DEF Rests, Proceeds, Account!Request

LEMMA TaskPhaseShape ==
    ASSUME AccountTasks, NEW w \in Clerks, tasks[w].phase # "idle",
           NEW phase, phase # "idle", Account!Moves(w, [tasks[w] EXCEPT !.phase = phase])
    PROVE  /\ Rests(w) /\ Proceeds(w) /\ tasks'[w].phase = phase
           /\ tasks'[w].row = tasks[w].row
<1>1. tasks[w] \in Account!Request
  BY DEF AccountTasks
<1>2. tasks'[w] = [tasks[w] EXCEPT !.phase = phase] /\ Rests(w)
  BY DEF AccountTasks, Account!Moves, Rests
<1> QED
  BY <1>1, <1>2 DEF Proceeds, Account!Request

LEMMA TaskReadShape ==
    ASSUME AccountTasks, NEW w \in Clerks, tasks[w].phase # "idle",
           NEW phase, phase # "idle", Account!ReadRow(w, phase)
    PROVE  /\ Rests(w) /\ Proceeds(w) /\ tasks'[w].phase = phase
           /\ tasks'[w].row = user
<1>1. tasks[w] \in Account!Request
  BY DEF AccountTasks
<1>2. tasks'[w] = [tasks[w] EXCEPT !.phase = phase, !.row = user] /\ Rests(w)
  BY DEF AccountTasks, Account!Moves, Account!ReadRow, Rests
<1> QED
  BY <1>1, <1>2 DEF Proceeds, Account!Request

LEMMA AccountStepShape ==
    ASSUME Account!TypeOK, NEW w \in Clerks, Account!Step(w)
    PROVE  AccountShape(w)
<1> USE DEF Account!In
<1>0. AccountTasks
  BY DEF AccountTasks, Account!TypeOK
<1>1. CASE Begins(w)
  <2>1. PICK kind, phase, p : phase # "idle" /\ Account!Begin(w, kind, phase, p)
    BY <1>1 DEF Begins, Account!CreateBegin, Account!ResolveBegin, Account!ReviewBegin,
                Account!SaveBegin
  <2> QED
    BY <1>0, <2>1 DEF AccountTasks, Account!Begin, Account!Moves, AccountShape, Rests
<1>2. CASE Decides(w) \/ Charges(w)
  <2>1. tasks[w].phase # "idle"
    BY <1>2 DEF Decides, Charges, Account!CreateValidate, Account!CreateRead,
       Account!CreateCharge, Account!CreateInsert, Account!Approve, Account!Reject,
       Account!RefundRead, Account!RefundWrite, Account!Resolve
  <2>2. \/ Account!Ends(w)
        \/ \E phase : phase # "idle" /\ Account!ReadRow(w, phase)
        \/ \E phase : phase # "idle" /\ Account!Moves(w, [tasks[w] EXCEPT !.phase = phase])
    BY <1>2 DEF Decides, Charges, Account!CreateValidate, Account!CreateRead,
       Account!CreateCharge, Account!CreateInsert, Account!Approve, Account!Reject,
       Account!RefundRead, Account!RefundWrite, Account!Resolve
  <2> QED
    BY <1>0, <2>1, <2>2, TaskEndShape, TaskPhaseShape, TaskReadShape DEF AccountShape, Proceeds
<1>3. CASE Others(w)
  <2>1. tasks[w].phase # "idle"
    BY <1>3 DEF Others, Account!SaveRead, Account!Save, Account!WriteAudit, Account!Fail
  <2>2. \/ Account!Ends(w)
        \/ \E phase : phase # "idle" /\ Account!ReadRow(w, phase)
        \/ \E phase : phase # "idle" /\ Account!Moves(w, [tasks[w] EXCEPT !.phase = phase])
    BY <1>3 DEF Others, Account!SaveRead, Account!Save, Account!WriteAudit, Account!Fail
  <2> QED
    BY <1>0, <2>1, <2>2, TaskEndShape, TaskPhaseShape, TaskReadShape DEF AccountShape, Proceeds
<1> QED
  BY <1>1, <1>2, <1>3, AccountSteps

(* What else a step changes: only the proposal it is about. *)
LEMMA AccountStepFrame ==
    ASSUME Account!ConstantsOK, Account!TypeOK, NEW w \in Clerks, Account!Step(w)
    PROVE  /\ \A p \in Proposals : p # tasks[w].market \/ tasks[w].phase = "idle" =>
                  market'[p] = market[p] /\ story'.refunds[p] = story.refunds[p]
           /\ story.charged \subseteq story'.charged
           /\ story.approved \subseteq story'.approved
           /\ \A p \in Proposals : p # tasks[w].market \/ tasks[w].phase = "idle" =>
                  (p \in story'.approved => p \in story.approved)
           /\ story.crowded => story'.crowded
           /\ story.raced => story'.raced
           /\ story.mixed => story'.mixed
           /\ story.unaudited => story'.unaudited
<1> USE DEF Account!In
<1>1. CASE Begins(w)
  <2>1. PICK kind, phase, p : Account!Begin(w, kind, phase, p)
    BY <1>1 DEF Begins, Account!CreateBegin, Account!ResolveBegin, Account!ReviewBegin,
                Account!SaveBegin
  <2> QED
    BY <2>1 DEF Account!Begin, Account!TypeOK
<1>2. CASE Decides(w)
  BY <1>2 DEF Decides, Account!CreateValidate, Account!CreateRead, Account!CreateInsert,
     Account!Approve, Account!Reject, Account!RefundRead, Account!Resolve, Account!ReadRow,
     Account!TypeOK
<1>3. CASE Account!CreateCharge(w)
  BY <1>3 DEF Account!CreateCharge, Account!WriteBalance, Account!TypeOK
<1>4. CASE Account!RefundWrite(w)
  BY <1>4 DEF Account!RefundWrite, Account!WriteBalance, Account!TypeOK
<1>5. CASE Others(w)
  BY <1>5 DEF Others, Account!SaveRead, Account!Save, Account!WriteAudit, Account!Fail,
     Account!ReadRow, Account!TypeOK
<1> QED
  BY <1>1, <1>2, <1>3, <1>4, <1>5, AccountSteps DEF Charges

-----------------------------------------------------------------------------
(* Accounts: a proposal is paid for before it exists. *)
LEMMA CreatingOwn ==
    ASSUME Account!ConstantsOK, Account!TypeOK, Account!Creating, NEW w \in Clerks,
           Account!Step(w), tasks'[w].kind = "create", tasks'[w].phase # "done"
    PROVE  LET p == tasks'[w].market
           IN  /\ p \in Proposals /\ market'[p] = None
               /\ \A v \in Clerks \ {w} : tasks[v].phase # "idle" => tasks[v].market # p
               /\ tasks'[w].phase = "insert" => p \in story'.charged
<1> USE DEF Account!In
<1>0. AccountTasks
  BY DEF AccountTasks, Account!TypeOK
<1>1. CASE Begins(w)
  <2>0. \A kind, phase, p : Account!Begin(w, kind, phase, p) => tasks'[w].kind = kind
    BY <1>0 DEF Account!Begin, Account!Moves, AccountTasks
  <2>1. PICK p \in Proposals : Account!CreateBegin(w, p)
    BY <1>1, <2>0 DEF Begins, Account!ResolveBegin, Account!ReviewBegin, Account!SaveBegin,
       Account!Saves, Account!Roles
  <2>2. tasks'[w] = [phase |-> "validate", kind |-> "create", market |-> p, row |-> None]
    BY <1>0, <2>1 DEF Account!CreateBegin, Account!Begin, Account!Moves, AccountTasks
  <2> QED
    BY <2>1, <2>2 DEF Account!CreateBegin, Account!Begin
<1>2. CASE ~Begins(w)
  <2>1. Account!CreateValidate(w) \/ Account!CreateRead(w) \/ Account!CreateCharge(w)
    <3>1. tasks[w].phase # "idle" /\ tasks[w].kind = "create"
      BY <1>2, AccountStepShape, AccountSteps
         DEF AccountShape, Proceeds, Decides, Charges, Others, Account!CreateValidate, Account!CreateRead, Account!CreateCharge,
       Account!CreateInsert, Account!Approve, Account!Reject, Account!RefundRead,
       Account!RefundWrite, Account!Resolve, Account!SaveRead, Account!Save, Account!WriteAudit, Account!Fail
    <3>2. ~Account!Ends(w)
      BY <1>0, <3>1, TaskEndShape
    <3> QED
      BY <1>2, <3>1, <3>2, AccountSteps
         DEF Decides, Charges, Others, Account!CreateInsert, Account!Approve, Account!Reject,
             Account!RefundRead, Account!RefundWrite, Account!Resolve, Account!SaveRead,
             Account!Save, Account!WriteAudit, Account!Fail, Account!Saves, Account!Roles
  <2>2. tasks[w].kind = "create" /\ tasks[w].phase \in {"validate", "read", "charge"}
    BY <2>1 DEF Account!CreateValidate, Account!CreateRead, Account!CreateCharge
  <2>3. w \in Account!Busy({"create"}) /\ tasks[w].market \in Proposals
    BY <2>2 DEF Account!Busy, Account!TypeOK, Account!Holds
  <2>4. tasks'[w].market = tasks[w].market /\ market' = market
    BY <2>1, <2>2, AccountStepShape
       DEF AccountShape, Proceeds, Account!CreateValidate, Account!CreateRead,
           Account!CreateCharge, Account!ReadRow
  <2>5. tasks'[w].phase = "insert" => tasks[w].market \in story'.charged
    <3>1. CASE Account!CreateCharge(w)
      BY <3>1 DEF Account!CreateCharge, Account!WriteBalance, Account!TypeOK
    <3>2. CASE Account!CreateValidate(w) \/ Account!CreateRead(w)
      BY <1>0, <2>2, <3>2, TaskPhaseShape, TaskReadShape
         DEF Account!CreateValidate, Account!CreateRead
    <3> QED
      BY <2>1, <3>1, <3>2
  <2> QED
    BY <2>3, <2>4, <2>5 DEF Account!Creating
<1> QED
  BY <1>1, <1>2

LEMMA CreatingStep ==
    ASSUME Account!ConstantsOK, Account!TypeOK, Account!Creating, [Account!Next]_accounts
    PROVE  Account!Creating'
<1>1. ASSUME NEW w \in Clerks, Account!Step(w)
      PROVE  Account!Creating'
  <2> SUFFICES ASSUME NEW v \in Clerks, tasks'[v].kind = "create",
                      tasks'[v].phase \notin {"idle", "done"}
               PROVE  /\ market'[tasks'[v].market] = None
                      /\ \A u \in Clerks \ {v} :
                             tasks'[u].phase # "idle" => tasks'[u].market # tasks'[v].market
                      /\ tasks'[v].phase = "insert" => tasks'[v].market \in story'.charged
    BY DEF Account!Creating, Account!Busy
  <2>1. AccountShape(w)
    BY <1>1, AccountStepShape
  <2>2. CASE v = w
    BY <1>1, <2>1, <2>2, CreatingOwn DEF AccountShape, Rests
  <2>3. CASE v # w
    <3>1. tasks'[v] = tasks[v] /\ v \in Account!Busy({"create"}) /\ tasks[v].market \in Proposals
      BY <2>1, <2>3 DEF AccountShape, Rests, Account!Busy, Account!TypeOK, Account!Holds
    <3>2. tasks[w].phase # "idle" => tasks[w].market # tasks[v].market
      BY <2>3, <3>1 DEF Account!Creating
    <3>3. market'[tasks[v].market] = None
      BY <1>1, <3>1, <3>2, AccountStepFrame DEF Account!Creating
    <3>4. tasks'[w].market # tasks[v].market
      <4>1. CASE tasks[w].phase # "idle"
        BY <2>1, <3>2, <4>1 DEF AccountShape, Proceeds
      <4>2. CASE tasks[w].phase = "idle"
        <5>1. market[tasks[v].market] = None
          BY <3>1 DEF Account!Creating
        <5>2. Begins(w)
          BY <1>1, <4>2, AccountSteps
             DEF Decides, Charges, Others, Account!CreateValidate, Account!CreateRead,
             Account!CreateCharge, Account!CreateInsert, Account!Approve, Account!Reject,
             Account!RefundRead, Account!RefundWrite, Account!Resolve, Account!SaveRead,
             Account!Save, Account!WriteAudit, Account!Fail, Account!In
        <5>3. PICK kind, phase, p : /\ Account!Begin(w, kind, phase, p)
                                    /\ p # tasks[v].market
          BY <3>1, <5>1, <5>2
             DEF Begins, Account!CreateBegin, Account!ResolveBegin, Account!ReviewBegin,
                 Account!SaveBegin, Account!ConstantsOK, Account!Lifecycle
        <5> QED
          BY <5>3 DEF Account!Begin, Account!Moves, Account!TypeOK
      <4> QED
        BY <4>1, <4>2
    <3>5. story.charged \subseteq story'.charged
      BY <1>1, AccountStepFrame
    <3> QED
      BY <2>1, <2>3, <3>1, <3>3, <3>4, <3>5 DEF Account!Creating, AccountShape, Rests
  <2> QED
    BY <2>2, <2>3
<1>2. ASSUME NEW g \in Gains, Account!Trade(g)
      PROVE  Account!Creating'
  BY <1>2 DEF Account!Trade, Account!Creating, Account!Busy, Account!TypeOK
<1>3. CASE UNCHANGED accounts
  BY <1>3 DEF accounts, Account!Creating, Account!Busy
<1> QED
  BY <1>1, <1>2, <1>3 DEF Account!Next

-----------------------------------------------------------------------------
(* Accounts: a proposal is refunded once. *)
RefundsOf(p) ==
    /\ p \in story.approved => market[p] \in {"published", "resolved"}
    /\ \A v \in Clerks : v \in Account!Refunding(p) =>
           /\ market[p] \in {"rejected", "resolved"} /\ p \notin story.approved
           /\ story.refunds[p] = 0
           /\ \A u \in Account!Refunding(p) : u = v
    /\ story.refunds[p] # 0 => market[p] \in {"rejected", "resolved"} /\ p \notin story.approved
    /\ story.refunds[p] <= 1

LEMMA RefundsByProposal == Account!Refunds <=> \A p \in Proposals : RefundsOf(p)
  BY DEF Account!Refunds, RefundsOf, Account!Refunding

LEMMA RefundsByProposalAfter == Account!Refunds' <=> \A p \in Proposals : RefundsOf(p)'
  BY DEF Account!Refunds, RefundsOf, Account!Refunding

(* Steps of another request, or that only begin. *)
LEMMA RefundsElsewhere ==
    ASSUME Account!ConstantsOK, Account!TypeOK, NEW p \in Proposals, RefundsOf(p),
           NEW w \in Clerks, Account!Step(w),
           p # tasks[w].market \/ tasks[w].phase = "idle"
    PROVE  RefundsOf(p)'
<1>0. AccountTasks
  BY DEF AccountTasks, Account!TypeOK
<1>1. AccountShape(w)
  BY AccountStepShape
<1>2. w \notin Account!Refunding(p)'
  <2>1. CASE tasks[w].phase = "idle"
    <3>1. Begins(w)
      BY <2>1, AccountSteps
         DEF Decides, Charges, Others, Account!CreateValidate, Account!CreateRead,
         Account!CreateCharge, Account!CreateInsert, Account!Approve, Account!Reject,
         Account!RefundRead, Account!RefundWrite, Account!Resolve, Account!SaveRead,
         Account!Save, Account!WriteAudit, Account!Fail, Account!In
    <3>2. PICK kind, phase, q : /\ Account!Begin(w, kind, phase, q)
                                /\ kind = "reject" => phase = "update"
      BY <3>1 DEF Begins, Account!CreateBegin, Account!ResolveBegin, Account!ReviewBegin,
         Account!SaveBegin, Account!Saves, Account!Roles
    <3>3. tasks'[w].kind = kind /\ tasks'[w].phase = phase
      BY <1>0, <3>2 DEF Account!Begin, Account!Moves, AccountTasks
    <3> QED
      BY <3>2, <3>3 DEF Account!Refunding
  <2>2. CASE tasks[w].phase # "idle"
    BY <1>1, <2>2 DEF AccountShape, Proceeds, Account!Refunding
  <2> QED
    BY <2>1, <2>2
<1>3. \A v \in Account!Refunding(p)' : v \in Account!Refunding(p)
  BY <1>1, <1>2 DEF Account!Refunding, AccountShape, Rests
<1>4. market'[p] = market[p] /\ story'.refunds[p] = story.refunds[p]
      /\ (p \in story'.approved => p \in story.approved)
  BY AccountStepFrame
<1> QED
  BY <1>3, <1>4 DEF RefundsOf

(* The statements on the proposal itself. *)
LEMMA RefundsHere ==
    ASSUME Account!ConstantsOK, Account!TypeOK, Account!Creating, NEW p \in Proposals,
           RefundsOf(p), NEW w \in Clerks, Account!Step(w),
           p = tasks[w].market, tasks[w].phase # "idle"
    PROVE  RefundsOf(p)'
<1> USE DEF Account!In
<1>0. AccountTasks
  BY DEF AccountTasks, Account!TypeOK
<1>1. AccountShape(w) /\ Proceeds(w)
  BY AccountStepShape DEF AccountShape
<1>2. \A v \in Account!Refunding(p)' : v = w \/ v \in Account!Refunding(p)
  BY <1>1 DEF Account!Refunding, AccountShape, Rests
<1>3. w \in Account!Refunding(p)' => tasks[w].kind = "reject" /\ tasks'[w].phase \in {"read", "refund"}
  BY <1>1 DEF Account!Refunding, Proceeds
<1>4. CASE Account!CreateInsert(w)
  <2>1. market[p] = None
    BY <1>4 DEF Account!CreateInsert, Account!Creating, Account!Busy
  <2>2. story.refunds[p] = 0 /\ Account!Refunding(p) = {} /\ p \notin story.approved
    BY <2>1 DEF RefundsOf, Account!ConstantsOK, Account!Lifecycle, Account!Refunding
  <2>3. Account!Refunding(p)' = {}
    BY <1>2, <1>3, <1>4, <2>2 DEF Account!CreateInsert
  <2> QED
    BY <1>4, <2>2, <2>3 DEF Account!CreateInsert, RefundsOf
<1>5. CASE Account!Approve(w)
  <2>1. market[p] = "proposed"
    BY <1>5 DEF Account!Approve
  <2>2. story.refunds[p] = 0 /\ Account!Refunding(p) = {}
    BY <2>1 DEF RefundsOf, Account!Refunding
  <2>3. Account!Refunding(p)' = {}
    BY <1>2, <1>3, <1>5, <2>2 DEF Account!Approve
  <2>4. market'[p] = "published" /\ story'.refunds[p] = 0
    BY <1>5, <2>2 DEF Account!Approve, Account!TypeOK
  <2> QED
    BY <2>3, <2>4 DEF RefundsOf
<1>6. CASE Account!Reject(w)
  <2>1. market[p] = "proposed"
    BY <1>6 DEF Account!Reject
  <2>2. story.refunds[p] = 0 /\ Account!Refunding(p) = {} /\ p \notin story.approved
    BY <2>1 DEF RefundsOf, Account!Refunding
  <2>3. market'[p] = "rejected" /\ story' = story
    BY <1>6 DEF Account!Reject, Account!TypeOK
  <2> QED
    BY <1>2, <2>2, <2>3 DEF RefundsOf
<1>7. CASE Account!RefundRead(w)
  <2>1. w \in Account!Refunding(p)
    BY <1>7 DEF Account!RefundRead, Account!Refunding
  <2>2. market' = market /\ story' = story
    BY <1>7 DEF Account!RefundRead, Account!ReadRow
  <2> QED
    BY <1>2, <2>1, <2>2 DEF RefundsOf
<1>8. CASE Account!RefundWrite(w)
  <2>1. w \in Account!Refunding(p)
    BY <1>8 DEF Account!RefundWrite, Account!Refunding
  <2>2. Account!Refunding(p)' = {}
    <3>1. tasks'[w].phase = "done"
      BY <1>0, <1>8, TaskEndShape DEF Account!RefundWrite
    <3> QED
      BY <1>2, <1>3, <2>1, <3>1 DEF RefundsOf, Account!Refunding
  <2>3. market' = market /\ story'.refunds[p] = story.refunds[p] + 1
        /\ story'.approved = story.approved
    BY <1>8 DEF Account!RefundWrite, Account!WriteBalance, Account!TypeOK
  <2> QED
    BY <2>1, <2>2, <2>3 DEF RefundsOf, Account!Refunding
<1>9. CASE Account!Resolve(w)
  <2>1. w \notin Account!Refunding(p)'
    BY <1>3, <1>9 DEF Account!Resolve
  <2>2. market'[p] = "resolved" /\ story' = story
    BY <1>9 DEF Account!Resolve, Account!TypeOK
  <2> QED
    BY <1>2, <2>1, <2>2 DEF RefundsOf
<1>10. CASE Account!CreateValidate(w) \/ Account!CreateRead(w) \/ Account!CreateCharge(w) \/ Others(w)
  <2>1. w \in Account!Refunding(p)' => w \in Account!Refunding(p)
    <3>1. CASE Account!CreateValidate(w) \/ Account!CreateRead(w) \/ Account!CreateCharge(w)
      BY <1>3, <3>1 DEF Account!CreateValidate, Account!CreateRead, Account!CreateCharge
    <3>2. CASE Account!SaveRead(w) \/ Account!Save(w)
      BY <1>3, <3>2 DEF Account!SaveRead, Account!Save, Account!Saves, Account!Roles
    <3>3. CASE Account!WriteAudit(w) \/ Account!Fail(w)
      BY <1>0, <1>3, <3>3, TaskEndShape DEF Account!WriteAudit, Account!Fail
    <3> QED
      BY <1>10, <3>1, <3>2, <3>3 DEF Others
  <2>2. market' = market /\ story'.refunds = story.refunds /\ story'.approved = story.approved
    BY <1>10 DEF Account!CreateValidate, Account!CreateRead, Account!CreateCharge, Others,
       Account!SaveRead, Account!Save, Account!WriteAudit, Account!Fail, Account!ReadRow,
       Account!WriteBalance, Account!TypeOK
  <2> QED
    BY <1>2, <2>1, <2>2 DEF RefundsOf
<1>11. ~Begins(w)
  BY DEF Begins, Account!CreateBegin, Account!ResolveBegin, Account!ReviewBegin,
         Account!SaveBegin, Account!Begin
<1> QED
  BY <1>4, <1>5, <1>6, <1>7, <1>8, <1>9, <1>10, <1>11, AccountSteps DEF Decides, Charges

LEMMA RefundsStep ==
    ASSUME Account!ConstantsOK, Account!TypeOK, Account!Creating, Account!Refunds,
           [Account!Next]_accounts
    PROVE  Account!Refunds'
<1> SUFFICES ASSUME NEW p \in Proposals, RefundsOf(p)
             PROVE  RefundsOf(p)'
  BY RefundsByProposal, RefundsByProposalAfter
<1>1. ASSUME NEW w \in Clerks, Account!Step(w)
      PROVE  RefundsOf(p)'
  BY <1>1, RefundsElsewhere, RefundsHere
<1>2. ASSUME NEW g \in Gains, Account!Trade(g)
      PROVE  RefundsOf(p)'
  BY <1>2 DEF Account!Trade, RefundsOf, Account!Refunding, Account!TypeOK
<1>3. CASE UNCHANGED accounts
  BY <1>3 DEF accounts, RefundsOf, Account!Refunding
<1> QED
  BY <1>1, <1>2, <1>3 DEF Account!Next

(* An idle request can only begin, and one that is busy has been so, or begins. *)
LEMMA BeginsOnlyIdle ==
    ASSUME NEW w \in Clerks, Account!Step(w)
    PROVE  /\ tasks[w].phase = "idle" => Begins(w)
           /\ tasks[w].phase # "idle" => ~Begins(w)
  BY AccountSteps
     DEF Begins, Account!CreateBegin, Account!ResolveBegin, Account!ReviewBegin,
         Account!SaveBegin, Account!Begin, Decides, Charges, Others, Account!CreateValidate,
         Account!CreateRead, Account!CreateCharge, Account!CreateInsert, Account!Approve,
         Account!Reject, Account!RefundRead, Account!RefundWrite, Account!Resolve,
         Account!SaveRead, Account!Save, Account!WriteAudit, Account!Fail, Account!In

(* Once done, always done. *)
LEMMA DoneStays ==
    ASSUME NEW w \in Clerks, Account!Step(w)
    PROVE  tasks[w].phase # "done"
  BY AccountSteps
     DEF Begins, Account!CreateBegin, Account!ResolveBegin, Account!ReviewBegin,
         Account!SaveBegin, Account!Begin, Decides, Charges, Others, Account!CreateValidate,
         Account!CreateRead, Account!CreateCharge, Account!CreateInsert, Account!Approve,
         Account!Reject, Account!RefundRead, Account!RefundWrite, Account!Resolve,
         Account!SaveRead, Account!Save, Account!WriteAudit, Account!Fail, Account!In

LEMMA AccountBusyBefore ==
    ASSUME Account!TypeOK, NEW w \in Clerks, Account!Step(w), AccountShape(w),
           NEW kinds, NEW v \in Account!Busy(kinds)', v # w \/ tasks[w].phase # "idle"
    PROVE  /\ v \in Account!Busy(kinds)
           /\ tasks'[v].market = tasks[v].market /\ tasks'[v].kind = tasks[v].kind
           /\ tasks[v].kind \in {"create", "approve", "reject", "resolve"} =>
                  tasks[v].market \in Proposals
<1>1. v \in Clerks /\ tasks'[v].phase \notin {"idle", "done"} /\ tasks'[v].kind \in kinds
  BY DEF Account!Busy
<1>2. tasks[v].phase \notin {"idle", "done"}
  BY <1>1, DoneStays DEF AccountShape, Rests
<1> QED
  BY <1>1, <1>2 DEF AccountShape, Rests, Proceeds, Account!Busy, Account!TypeOK, Account!Holds

LEMMA ExistingInit ==
    ASSUME Account!ConstantsOK, Account!Init
    PROVE  Account!Creating /\ Account!Existing /\ Account!Refunds
<1>1. \A w \in Clerks : tasks[w].phase = "idle"
  BY DEF Account!Init, Account!Idle
<1>2. Account!Creating /\ Account!Existing
  BY <1>1 DEF Account!Init, Account!Creating, Account!Existing, Account!Busy
<1>3. Account!Refunds
  BY <1>1 DEF Account!Init, Account!Refunds, Account!Refunding
<1> QED
  BY <1>2, <1>3

LEMMA ExistingStep ==
    ASSUME Account!ConstantsOK, Account!TypeOK, Account!Creating, Account!Existing,
           [Account!Next]_accounts
    PROVE  Account!Existing'
<1>1. ASSUME NEW w \in Clerks, Account!Step(w)
      PROVE  Account!Existing'
  <2> USE DEF Account!In
  <2>0. AccountTasks
    BY DEF AccountTasks, Account!TypeOK
  <2>1. AccountShape(w) /\ story.charged \subseteq story'.charged
    BY <1>1, AccountStepShape, AccountStepFrame
  <2>2. ASSUME NEW p \in Proposals, market'[p] # None
        PROVE  market[p] # None \/ p \in story'.charged
    <3>1. CASE market'[p] = market[p]
      BY <2>2, <3>1
    <3>2. CASE market'[p] # market[p]
      <4>1. p = tasks[w].market /\ tasks[w].phase # "idle"
        BY <1>1, <3>2, AccountStepFrame
      <4>2. \/ Account!CreateInsert(w) \/ Account!Approve(w) \/ Account!Reject(w)
            \/ Account!Resolve(w)
        BY <1>1, <3>2, AccountSteps
           DEF Begins, Account!CreateBegin, Account!ResolveBegin, Account!ReviewBegin,
           Account!SaveBegin, Account!Begin, Decides, Charges, Others, Account!CreateValidate,
           Account!CreateRead, Account!CreateCharge, Account!RefundRead, Account!RefundWrite,
           Account!SaveRead, Account!Save, Account!WriteAudit, Account!Fail, Account!ReadRow
      <4>3. CASE Account!CreateInsert(w)
        BY <2>1, <4>1, <4>3 DEF Account!CreateInsert, Account!Creating, Account!Busy
      <4>4. CASE Account!Approve(w) \/ Account!Reject(w)
        BY <4>1, <4>4 DEF Account!Approve, Account!Reject, Account!ConstantsOK, Account!Lifecycle
      <4>5. CASE Account!Resolve(w)
        BY <4>1, <4>5 DEF Account!Resolve, Account!Existing, Account!Busy
      <4> QED
        BY <4>2, <4>3, <4>4, <4>5
    <3> QED
      BY <3>1, <3>2
  <2>3. ASSUME NEW p \in Proposals, market[p] # None
        PROVE  market'[p] # None
    <3>1. CASE p # tasks[w].market \/ tasks[w].phase = "idle"
      BY <1>1, <2>3, <3>1, AccountStepFrame
    <3>2. CASE p = tasks[w].market /\ tasks[w].phase # "idle"
      BY <1>1, <2>3, <3>2, AccountSteps
         DEF Begins, Account!CreateBegin, Account!ResolveBegin, Account!ReviewBegin,
         Account!SaveBegin, Account!Begin, Decides, Charges, Others, Account!CreateValidate,
         Account!CreateRead, Account!CreateCharge, Account!RefundRead, Account!RefundWrite,
         Account!SaveRead, Account!Save, Account!WriteAudit, Account!Fail, Account!ReadRow,
         Account!CreateInsert, Account!Approve, Account!Reject, Account!Resolve,
         Account!ConstantsOK, Account!Lifecycle, Account!TypeOK
    <3> QED
      BY <3>1, <3>2
  <2>4. ASSUME NEW v \in Account!Busy({"resolve"})'
        PROVE  market'[tasks'[v].market] # None
    <3>1. CASE v # w \/ tasks[w].phase # "idle"
      <4>1. /\ v \in Account!Busy({"resolve"}) /\ tasks'[v].market = tasks[v].market
            /\ tasks[v].market \in Proposals
        <5>1. v \in Account!Busy({"resolve"}) /\ tasks'[v].market = tasks[v].market
          BY <1>1, <2>1, <2>4, <3>1, AccountBusyBefore
        <5> QED
          BY <5>1 DEF Account!Busy, Account!TypeOK, Account!Holds
      <4> QED
        BY <2>3, <4>1 DEF Account!Existing
    <3>2. CASE v = w /\ tasks[w].phase = "idle"
      <4>1. Begins(w)
        BY <1>1, <3>2, AccountSteps, BeginsOnlyIdle
      <4>2. \A kind, phase, p : Account!Begin(w, kind, phase, p) =>
                tasks'[w].kind = kind /\ tasks'[w].market = p
        BY <2>0 DEF Account!Begin, Account!Moves, AccountTasks
      <4>3. PICK p \in Proposals : Account!ResolveBegin(w, p)
        BY <2>4, <3>2, <4>1, <4>2
           DEF Begins, Account!CreateBegin, Account!ReviewBegin, Account!SaveBegin,
           Account!Saves, Account!Roles, Account!Busy
      <4> QED
        <5>1. tasks'[v].market = p
          BY <3>2, <4>2, <4>3 DEF Account!ResolveBegin
        <5>2. market[p] # None
          BY <4>3 DEF Account!ResolveBegin, Account!ConstantsOK, Account!Lifecycle
        <5> QED
          BY <2>3, <5>1, <5>2
    <3> QED
      BY <3>1, <3>2
  <2> QED
    BY <2>1, <2>2, <2>4 DEF Account!Existing
<1>2. ASSUME NEW g \in Gains, Account!Trade(g)
      PROVE  Account!Existing'
  BY <1>2 DEF Account!Trade, Account!Existing, Account!Busy, Account!TypeOK
<1>3. CASE UNCHANGED accounts
  BY <1>3 DEF accounts, Account!Existing, Account!Busy
<1> QED
  BY <1>1, <1>2, <1>3 DEF Account!Next

LEMMA PaidOnceHolds ==
    ASSUME Account!ConstantsOK, Account!TypeOK, Account!Existing, Account!Refunds
    PROVE  Account!ProposalPaidOnce
  BY DEF Account!ProposalPaidOnce, Account!Existing, Account!Refunds, Account!TypeOK

-----------------------------------------------------------------------------
(* Accounts: balances and the debt limit. *)

(* A step writes no balance, or one that was computed from the row the request has read. *)
Computed(w, amount) ==
    /\ tasks[w].row \in Account!Row
    /\ user'.balance = tasks[w].row.balance + amount
    /\ story'.ledger = story.ledger + amount
    /\ story'.raced = (story.raced \/ tasks[w].row.balance # user.balance)

LEMMA AccountBalances ==
    ASSUME Account!ConstantsOK, Account!TypeOK, NEW w \in Clerks, Account!Step(w)
    PROVE  \/ /\ user' = user /\ story'.ledger = story.ledger /\ story'.raced = story.raced
              /\ ~Charges(w) /\ ~Account!Save(w)
           \/ Account!CreateCharge(w) /\ Computed(w, -Price) /\ user'.status = user.status
           \/ Account!RefundWrite(w) /\ Computed(w, Price) /\ user'.status = user.status
           \/ Account!Save(w) /\ Computed(w, 0) /\ user' = Account!Saved(w)
<1> USE DEF Account!In
<1> DEFINE Story == [ledger : Int, raced : BOOLEAN, crowded : BOOLEAN, mixed : BOOLEAN,
                     unaudited : BOOLEAN, charged : SUBSET Proposals,
                     approved : SUBSET Proposals, refunds : [Proposals -> Nat]]
<1>1. CASE Account!CreateCharge(w)
  <2> DEFINE s == [story EXCEPT !.charged = @ \union {tasks[w].market}]
  <2>1. tasks[w].phase = "charge" /\ tasks[w].market \in Proposals /\ tasks[w].row \in Account!Row
    BY <1>1 DEF Account!CreateCharge, Account!TypeOK, Account!Holds
  <2>2. s \in Story /\ s.ledger = story.ledger /\ s.raced = story.raced
    BY <2>1 DEF Account!TypeOK
  <2>3. Account!WriteBalance(w, -Price, s) /\ -Price \in Int
    BY <1>1 DEF Account!CreateCharge, Account!ConstantsOK
  <2>4. Computed(w, -Price) /\ user'.status = user.status
    <3> HIDE DEF s
    <3> QED
      BY <2>1, <2>2, <2>3, AccountWriteType DEF Computed
  <2> QED
    BY <1>1, <2>4
<1>2. CASE Account!RefundWrite(w)
  <2> DEFINE s == [story EXCEPT !.refunds[tasks[w].market] = @ + 1]
  <2>1. tasks[w].phase = "refund" /\ tasks[w].market \in Proposals /\ tasks[w].row \in Account!Row
    BY <1>2 DEF Account!RefundWrite, Account!TypeOK, Account!Holds
  <2>2. s \in Story /\ s.ledger = story.ledger /\ s.raced = story.raced
    BY <2>1 DEF Account!TypeOK
  <2>3. Account!WriteBalance(w, Price, s) /\ Price \in Int
    BY <1>2 DEF Account!RefundWrite, Account!ConstantsOK
  <2>4. Computed(w, Price) /\ user'.status = user.status
    <3> HIDE DEF s
    <3> QED
      BY <2>1, <2>2, <2>3, AccountWriteType DEF Computed
  <2> QED
    BY <1>2, <2>4
<1>3. CASE Account!Save(w)
  <2>1. tasks[w].phase = "save" /\ tasks[w].row \in Account!Row
    BY <1>3 DEF Account!Save, Account!TypeOK, Account!Holds
  <2>2. user' = Account!Saved(w) /\ user'.balance = tasks[w].row.balance
    BY <1>3, <2>1 DEF Account!Save, Account!Saved, Account!Row
  <2>3. tasks[w].row.balance \in Int /\ story.ledger \in Int
    BY <2>1 DEF Account!Row, Account!TypeOK
  <2>4. story' = [story EXCEPT !.raced = @ \/ tasks[w].row.balance # user.balance]
    BY <1>3 DEF Account!Save
  <2>5. story'.ledger = story.ledger
        /\ story'.raced = (story.raced \/ tasks[w].row.balance # user.balance)
    BY <2>4 DEF Account!TypeOK
  <2> QED
    BY <1>3, <2>1, <2>2, <2>3, <2>5 DEF Computed
<1>4. CASE ~Charges(w) /\ ~Account!Save(w)
  <2>1. CASE Begins(w)
    <3>1. PICK kind, phase, p : Account!Begin(w, kind, phase, p)
      BY <2>1 DEF Begins, Account!CreateBegin, Account!ResolveBegin, Account!ReviewBegin,
         Account!SaveBegin
    <3> QED
      BY <1>4, <3>1 DEF Account!Begin, Account!TypeOK
  <2>2. CASE Decides(w)
    BY <1>4, <2>2 DEF Decides, Account!CreateValidate, Account!CreateRead, Account!CreateInsert,
       Account!Approve, Account!Reject, Account!RefundRead, Account!Resolve, Account!ReadRow,
       Account!TypeOK
  <2>3. CASE Account!SaveRead(w) \/ Account!WriteAudit(w) \/ Account!Fail(w)
    BY <1>4, <2>3 DEF Account!SaveRead, Account!WriteAudit, Account!Fail, Account!ReadRow,
       Account!TypeOK
  <2> QED
    BY <1>4, <2>1, <2>2, <2>3, AccountSteps DEF Others
<1> QED
  BY <1>1, <1>2, <1>3, <1>4 DEF Charges

LEMMA TradeBalances ==
    ASSUME Account!ConstantsOK, Account!TypeOK, NEW g \in Gains, Account!Trade(g)
    PROVE  /\ user.balance \in Int /\ g \in Int
           /\ user'.balance = user.balance + g /\ user'.status = user.status
           /\ story'.ledger = story.ledger + g /\ story'.raced = story.raced
           /\ story'.crowded = (story.crowded \/ Account!Busy({"create"}) # {})
           /\ story'.mixed = story.mixed /\ story'.unaudited = story.unaudited
<1>1. user.balance \in Int /\ g \in Int /\ user.balance + g >= -Limit
  BY DEF Account!Trade, Account!ConstantsOK, Account!TypeOK, Account!Row
<1>2. user'.balance = user.balance + g /\ user'.status = user.status
  BY <1>1 DEF Account!Trade, Account!TypeOK, Account!Row
<1>3. story' = [story EXCEPT !.ledger = @ + g, !.crowded = @ \/ Account!Busy({"create"}) # {}]
  BY DEF Account!Trade
<1> QED
  BY <1>1, <1>2, <1>3 DEF Account!TypeOK

LEMMA ExplainedStep ==
    ASSUME Account!ConstantsOK, Account!TypeOK, Account!BalanceExplained,
           [Account!Next]_accounts
    PROVE  Account!BalanceExplained'
<1> USE DEF Account!BalanceExplained
<1>0. user.balance \in Int /\ story.ledger \in Int
  BY DEF Account!TypeOK, Account!Row
<1>1. ASSUME NEW w \in Clerks, Account!Step(w)
      PROVE  Account!BalanceExplained'
  BY <1>0, <1>1, AccountBalances DEF Computed
<1>2. ASSUME NEW g \in Gains, Account!Trade(g)
      PROVE  Account!BalanceExplained'
  BY <1>0, <1>2, TradeBalances
<1> QED
  BY <1>1, <1>2 DEF Account!Next, accounts

LEMMA AffordInit ==
    ASSUME Account!ConstantsOK, Account!Init
    PROVE  Account!Afford /\ Account!DebtOnlyByOverlap /\ Account!BalanceExplained
<1>1. \A w \in Clerks : tasks[w].phase = "idle"
  BY DEF Account!Init, Account!Idle
<1>2. Account!Afford
  BY <1>1 DEF Account!Afford, Account!Busy
<1>3. Account!DebtOnlyByOverlap /\ Account!BalanceExplained
  BY DEF Account!Init, Account!ConstantsOK, Account!DebtOnlyByOverlap, Account!BalanceExplained
<1> QED
  BY <1>2, <1>3

(* The creations under way: one more only at the beginning of a request. *)
LEMMA CreatorsStep ==
    ASSUME Account!ConstantsOK, Account!TypeOK, Account!Afford, NEW w \in Clerks,
           Account!Step(w), ~story'.crowded, ~story'.raced
    PROVE  /\ ~story.crowded /\ ~story.raced
           /\ \A u, v \in Account!Busy({"create"})' : u = v
           /\ \A v \in Account!Busy({"create"})' :
                  v \in Account!Busy({"create"}) \/ tasks'[v].phase = "validate"
<1>1. AccountShape(w) /\ ~story.crowded /\ ~story.raced
  BY AccountStepShape, AccountStepFrame
<1>2. CASE tasks[w].phase # "idle"
  <2>1. \A v \in Account!Busy({"create"})' : v \in Account!Busy({"create"})
    BY <1>1, <1>2, AccountBusyBefore
  <2> QED
    BY <1>1, <2>1 DEF Account!Afford
<1>3. CASE tasks[w].phase = "idle"
  <2>1. \A v \in Account!Busy({"create"})' : v = w \/ v \in Account!Busy({"create"})
    BY <1>1, <1>3, AccountBusyBefore
  <2>2. PICK kind, phase, p : /\ Account!Begin(w, kind, phase, p)
                              /\ kind = "create" => phase = "validate"
    BY <1>3, BeginsOnlyIdle
       DEF Begins, Account!CreateBegin, Account!ResolveBegin, Account!ReviewBegin,
           Account!SaveBegin, Account!Saves, Account!Roles
  <2>3. tasks'[w].kind = kind /\ tasks'[w].phase = phase
    BY <2>2 DEF Account!Begin, Account!Moves, Account!TypeOK
  <2>4. kind = "create" => Account!Busy({"create"}) = {}
    <3>1. story'.crowded = (story.crowded \/ (kind = "create" /\ Account!Busy({"create"}) # {}))
      BY <2>2 DEF Account!Begin, Account!TypeOK
    <3> QED
      BY <1>1, <3>1
  <2>5. w \in Account!Busy({"create"})' => kind = "create" /\ tasks'[w].phase = "validate"
    BY <2>2, <2>3 DEF Account!Busy
  <2> QED
    BY <1>1, <2>1, <2>4, <2>5 DEF Account!Afford
<1> QED
  BY <1>2, <1>3

LEMMA AffordStep ==
    ASSUME Account!ConstantsOK, Account!TypeOK, Account!Afford, Account!DebtOnlyByOverlap,
           [Account!Next]_accounts
    PROVE  Account!Afford' /\ Account!DebtOnlyByOverlap'
<1>0. user.balance \in Int /\ Price \in Nat /\ Limit \in Nat
  BY DEF Account!TypeOK, Account!Row, Account!ConstantsOK
<1>1. ASSUME NEW w \in Clerks, Account!Step(w)
      PROVE  Account!Afford' /\ Account!DebtOnlyByOverlap'
  <2> USE DEF Account!In
  <2>0. AccountTasks
    BY DEF AccountTasks, Account!TypeOK
  <2> SUFFICES ASSUME ~story'.crowded, ~story'.raced
               PROVE  /\ \A u, v \in Account!Busy({"create"})' : u = v
                      /\ \A v \in Account!Busy({"create"})' :
                             tasks'[v].phase \in {"read", "charge"} =>
                                 user'.balance - Price >= -Limit
                      /\ user'.balance >= -Limit
    <3>1. user'.balance \in Int
      BY <1>1, AccountStepType DEF Account!Next, Account!TypeOK, Account!Row
    <3> QED
      BY <1>0, <3>1 DEF Account!Afford, Account!DebtOnlyByOverlap
  <2>1. /\ ~story.crowded /\ ~story.raced
        /\ \A u, v \in Account!Busy({"create"})' : u = v
        /\ \A v \in Account!Busy({"create"})' :
               v \in Account!Busy({"create"}) \/ tasks'[v].phase = "validate"
    BY <1>1, CreatorsStep
  <2>2. AccountShape(w) /\ user.balance >= -Limit
    BY <1>0, <1>1, <2>1, AccountStepShape DEF Account!DebtOnlyByOverlap
  <2>3. CASE Account!CreateCharge(w)
    <3>1. tasks'[w].phase = "insert" /\ w \in Account!Busy({"create"})
      BY <2>0, <2>3, TaskPhaseShape DEF Account!CreateCharge, Account!Busy
    <3>2. user.balance - Price >= -Limit
      BY <2>1, <2>3, <3>1 DEF Account!CreateCharge, Account!Afford
    <3>3. user'.balance = user.balance - Price
      <4>1. Computed(w, -Price)
        BY <1>1, <2>3, AccountBalances
           DEF Charges, Account!CreateCharge, Account!RefundWrite, Account!Save, Account!Saves,
               Account!Roles
      <4> QED
        BY <1>0, <2>1, <4>1 DEF Computed
    <3>4. \A v \in Account!Busy({"create"})' : tasks'[v].phase \notin {"read", "charge"}
      BY <2>1, <3>1 DEF Account!Afford
    <3> QED
      BY <1>0, <2>1, <3>2, <3>3, <3>4
  <2>4. CASE ~Account!CreateCharge(w)
    <3>1. user'.balance \in Int /\ user'.balance >= user.balance
      <4>1. user' = user \/ Computed(w, Price) \/ Computed(w, 0)
        BY <1>1, <2>4, AccountBalances
      <4>2. \A amount : Computed(w, amount) => tasks[w].row.balance = user.balance
        BY <2>1, Zenon DEF Computed
      <4>3. \A amount : Computed(w, amount) => user'.balance = user.balance + amount
        BY <4>2 DEF Computed
      <4> QED
        BY <1>0, <4>1, <4>3
    <3>2. ASSUME NEW v \in Account!Busy({"create"})', tasks'[v].phase \in {"read", "charge"}
          PROVE  user.balance - Price >= -Limit
      <4>1. v \in Account!Busy({"create"})
        BY <2>1, <3>2
      <4>2. CASE tasks[v].phase \in {"read", "charge"}
        BY <2>1, <4>1, <4>2 DEF Account!Afford
      <4>3. CASE tasks[v].phase \notin {"read", "charge"}
        <5>1. v = w /\ tasks[w].kind = "create" /\ tasks[w].phase # "idle"
          BY <2>2, <3>2, <4>1, <4>3 DEF AccountShape, Rests, Account!Busy
        <5>2. \/ Account!CreateValidate(w) \/ Account!CreateInsert(w)
              \/ Account!WriteAudit(w) \/ Account!Fail(w)
          BY <1>1, <2>4, <4>3, <5>1, AccountSteps, BeginsOnlyIdle
             DEF Decides, Charges, Others, Account!CreateRead, Account!Approve, Account!Reject,
             Account!RefundRead, Account!RefundWrite, Account!Resolve, Account!SaveRead,
             Account!Save, Account!Saves, Account!Roles
        <5>3. ~Account!Ends(w)
          BY <2>0, <3>2, <5>1, TaskEndShape
        <5> QED
          BY <5>2, <5>3
             DEF Account!CreateValidate, Account!CreateInsert, Account!WriteAudit, Account!Fail
      <4> QED
        BY <4>2, <4>3
    <3> QED
      BY <1>0, <2>1, <2>2, <3>1, <3>2
  <2> QED
    BY <2>3, <2>4
<1>2. ASSUME NEW g \in Gains, Account!Trade(g)
      PROVE  Account!Afford' /\ Account!DebtOnlyByOverlap'
  <2>0. /\ user.balance + g >= -Limit /\ g \in Int /\ user'.balance = user.balance + g
        /\ story'.crowded = (story.crowded \/ Account!Busy({"create"}) # {})
        /\ story'.raced = story.raced
    <3>1. user.balance + g >= -Limit
      BY <1>2 DEF Account!Trade
    <3> QED
      BY <1>2, <3>1, TradeBalances
  <2>1. user'.balance >= -Limit /\ user'.balance \in Int
    BY <1>0, <2>0
  <2>2. tasks' = tasks /\ Account!Busy({"create"})' = Account!Busy({"create"})
    BY <1>2 DEF Account!Trade, Account!Busy
  <2>3. Account!Afford'
    BY <2>0, <2>2 DEF Account!Afford
  <2>4. Account!DebtOnlyByOverlap'
    BY <1>0, <2>1 DEF Account!DebtOnlyByOverlap
  <2> QED
    BY <2>3, <2>4
<1>3. CASE UNCHANGED accounts
  BY <1>3 DEF accounts, Account!Afford, Account!DebtOnlyByOverlap, Account!Busy
<1> QED
  BY <1>1, <1>2, <1>3 DEF Account!Next

-----------------------------------------------------------------------------
(* Accounts: the role and its audit. *)
LEMMA RoleInit ==
    ASSUME Account!Init
    PROVE  Account!RoleKept /\ Account!RoleIsAudited
<1>1. \A w \in Clerks : tasks[w].phase = "idle"
  BY DEF Account!Init, Account!Idle
<1>2. Account!RoleKept
  BY <1>1 DEF Account!RoleKept, Account!Busy
<1>3. Account!RoleIsAudited
  BY DEF Account!Init, Account!RoleIsAudited
<1> QED
  BY <1>2, <1>3

(* Who gets to its audit has saved a role. *)
LEMMA AuditsFollow ==
    ASSUME Account!ConstantsOK, Account!TypeOK, NEW w \in Clerks, Account!Step(w),
           tasks'[w].phase = "audit"
    PROVE  /\ Account!Save(w) /\ tasks[w].kind \in Account!Roles
           /\ tasks'[w].kind = tasks[w].kind /\ tasks[w].phase = "save"
           /\ user'.status = Account!Told(w)
<1> USE DEF Account!In
<1>0. AccountTasks
  BY DEF AccountTasks, Account!TypeOK
<1>1. AccountShape(w) /\ ~Begins(w)
  <2>1. \A kind, phase, p : Account!Begin(w, kind, phase, p) => tasks'[w].phase = phase
    BY <1>0 DEF Account!Begin, Account!Moves, AccountTasks
  <2> QED
    BY <2>1, AccountStepShape
       DEF Begins, Account!CreateBegin, Account!ResolveBegin, Account!ReviewBegin,
           Account!SaveBegin
<1>2. tasks[w].phase # "idle" /\ Proceeds(w)
  BY <1>1, BeginsOnlyIdle DEF AccountShape
<1>3. ~Account!Ends(w)
  BY <1>0, <1>2, TaskEndShape
<1>4. \A phase \in {"charge", "refund", "save"} : ~Account!ReadRow(w, phase)
  BY <1>0, <1>2, TaskReadShape
<1>5. \A phase \in {"read", "insert"} : ~Account!Moves(w, [tasks[w] EXCEPT !.phase = phase])
  BY <1>0, <1>2, TaskPhaseShape
<1>6. Account!Save(w) /\ tasks[w].kind # "profile"
  BY <1>1, <1>3, <1>4, <1>5, AccountSteps
     DEF Decides, Charges, Others, Account!CreateValidate, Account!CreateRead,
         Account!CreateCharge, Account!CreateInsert, Account!Approve, Account!Reject,
         Account!RefundRead, Account!RefundWrite, Account!Resolve, Account!SaveRead,
         Account!Save, Account!WriteAudit, Account!Fail
<1>7. tasks[w].kind \in Account!Roles /\ tasks[w].phase = "save"
  BY <1>6 DEF Account!Save, Account!Saves
<1>8. user'.status = Account!Told(w)
  <2>1. tasks[w].row \in Account!Row /\ user' = Account!Saved(w)
    BY <1>6, <1>7 DEF Account!Save, Account!TypeOK, Account!Holds
  <2> QED
    BY <1>6, <2>1 DEF Account!Saved, Account!Told, Account!Row
<1> QED
  BY <1>2, <1>6, <1>7, <1>8 DEF Proceeds

(* The saves under way when nothing is mixed. *)
LEMMA SaversStep ==
    ASSUME Account!ConstantsOK, Account!TypeOK, Account!RoleKept, NEW w \in Clerks,
           Account!Step(w), ~story'.mixed
    PROVE  /\ ~story.mixed
           /\ \A v \in Account!Busy(Account!Roles)' : Account!Busy(Account!Saves)' = {v}
           /\ \A v \in Account!Busy(Account!Saves)' :
                  v \in Account!Busy(Account!Saves) \/ tasks'[v].phase = "read"
<1>1. AccountShape(w) /\ ~story.mixed
  BY AccountStepShape, AccountStepFrame
<1>2. \A kinds, v : v \in Account!Busy(kinds)' /\ (v # w \/ tasks[w].phase # "idle") =>
          v \in Account!Busy(kinds)
  BY <1>1, AccountBusyBefore
<1>3. Account!Busy(Account!Roles)' \subseteq Account!Busy(Account!Saves)'
  BY DEF Account!Busy, Account!Saves
<1>4. CASE tasks[w].phase # "idle"
  <2>1. /\ Account!Busy(Account!Saves)' \subseteq Account!Busy(Account!Saves)
        /\ Account!Busy(Account!Roles)' \subseteq Account!Busy(Account!Roles)
    BY <1>2, <1>4
  <2> QED
    BY <1>1, <1>3, <2>1 DEF Account!RoleKept
<1>5. CASE tasks[w].phase = "idle"
  <2>1. PICK kind, phase, p : /\ Account!Begin(w, kind, phase, p)
                              /\ kind \in Account!Saves => phase = "read"
    BY <1>5, BeginsOnlyIdle
       DEF Begins, Account!CreateBegin, Account!ResolveBegin, Account!ReviewBegin,
           Account!SaveBegin, Account!Saves, Account!Roles
  <2>2. tasks'[w].kind = kind /\ tasks'[w].phase = phase
    BY <2>1 DEF Account!Begin, Account!Moves, Account!TypeOK
  <2>3. /\ Account!Busy(Account!Saves)' \subseteq Account!Busy(Account!Saves) \union {w}
        /\ Account!Busy(Account!Roles)' \subseteq Account!Busy(Account!Roles) \union {w}
    BY <1>2
  <2>4. w \notin Account!Busy(Account!Saves)
    BY <1>5 DEF Account!Busy
  <2>5. CASE kind \notin Account!Saves
    <3>1. w \notin Account!Busy(Account!Saves)'
      BY <2>2, <2>5 DEF Account!Busy
    <3> QED
      BY <1>1, <1>3, <2>3, <3>1 DEF Account!RoleKept
  <2>6. CASE kind \in Account!Saves
    <3>1. ~(Account!Busy(Account!Saves) # {}
              /\ (kind \in Account!Roles \/ Account!Busy(Account!Roles) # {}))
      BY <2>1, <2>6 DEF Account!Begin, Account!TypeOK
    <3>2. kind \in Account!Roles => Account!Busy(Account!Saves) = {}
      BY <3>1
    <3>3. Account!Busy(Account!Roles) = {}
      BY <3>1 DEF Account!Busy, Account!Saves
    <3>4. \A v \in Account!Busy(Account!Roles)' : v = w /\ kind \in Account!Roles
      BY <2>2, <2>3, <3>3 DEF Account!Busy
    <3> QED
      BY <1>1, <1>3, <2>1, <2>2, <2>3, <2>6, <3>2, <3>4
  <2> QED
    BY <2>5, <2>6
<1> QED
  BY <1>4, <1>5

LEMMA RoleStep ==
    ASSUME Account!ConstantsOK, Account!TypeOK, Account!RoleKept, Account!RoleIsAudited,
           [Account!Next]_accounts
    PROVE  Account!RoleKept' /\ Account!RoleIsAudited'
<1>1. ASSUME NEW w \in Clerks, Account!Step(w)
      PROVE  Account!RoleKept' /\ Account!RoleIsAudited'
  <2> USE DEF Account!In
  <2>0. AccountTasks
    BY DEF AccountTasks, Account!TypeOK
  <2>1. AccountShape(w)
    BY <1>1, AccountStepShape
  <2>2. \A v \in Clerks : tasks'[v].phase = "audit" => tasks'[v].kind \in Account!Roles
    BY <1>1, <2>1, AuditsFollow DEF AccountShape, Rests, Account!RoleKept
  <2>3. CASE story'.mixed
    BY <2>2, <2>3 DEF Account!RoleKept, Account!RoleIsAudited
  <2>4. CASE ~story'.mixed
    <3>1. /\ ~story.mixed
          /\ \A v \in Account!Busy(Account!Roles)' : Account!Busy(Account!Saves)' = {v}
          /\ \A v \in Account!Busy(Account!Saves)' :
                 v \in Account!Busy(Account!Saves) \/ tasks'[v].phase = "read"
      BY <1>1, <2>4, SaversStep
    <3>2. /\ \A v \in Account!Busy(Account!Roles) : Account!Busy(Account!Saves) = {v}
          /\ \A v \in Account!Busy({"profile"}) :
                 tasks[v].phase = "save" => tasks[v].row.status = user.status
          /\ \A v \in Account!Busy(Account!Roles) :
                 tasks[v].phase = "audit" => user.status = Account!Told(v)
      BY <3>1 DEF Account!RoleKept
    <3>3. CASE Account!Save(w) /\ tasks[w].kind \in Account!Roles
      <4>1. w \in Account!Busy(Account!Roles)
        BY <3>3 DEF Account!Save, Account!Busy
      <4>2. tasks'[w].phase = "audit" /\ tasks'[w].kind = tasks[w].kind
        BY <2>0, <3>3, TaskPhaseShape DEF Account!Save, Account!Roles, Proceeds
      <4>3. user'.status = Account!Told(w) /\ Account!Told(w) = Account!Told(w)'
        BY <1>1, <4>2, AuditsFollow DEF Account!Told
      <4>4. \A v \in Account!Busy(Account!Saves)' : v = w
        BY <3>1, <3>2, <4>1, <4>2 DEF Account!Busy
      <4>5. Account!Busy({"profile"})' = {}
        BY <4>2, <4>4, <3>3 DEF Account!Busy, Account!Saves, Account!Roles
      <4>6. \A v \in Account!Busy(Account!Roles)' : v = w
        BY <4>4 DEF Account!Busy, Account!Saves
      <4>7. Account!RoleKept'
        BY <2>2, <3>1, <4>3, <4>5, <4>6 DEF Account!RoleKept
      <4>8. Account!RoleIsAudited'
        BY <4>2 DEF Account!RoleIsAudited
      <4> QED
        BY <4>7, <4>8
    <3>4. CASE ~(Account!Save(w) /\ tasks[w].kind \in Account!Roles)
      <4>1. user'.status = user.status
        <5>1. CASE Account!Save(w)
          <6>1. w \in Account!Busy({"profile"}) /\ tasks[w].phase = "save"
                /\ tasks[w].kind = "profile"
            BY <3>4, <5>1 DEF Account!Save, Account!Saves, Account!Busy
          <6>2. tasks[w].row \in Account!Row /\ tasks[w].row.status = user.status
            BY <3>2, <6>1 DEF Account!TypeOK, Account!Holds
          <6>3. user' = [tasks[w].row EXCEPT !.profile = "new"]
            BY <5>1, <6>1 DEF Account!Save, Account!Saved
          <6> QED
            BY <6>2, <6>3 DEF Account!Row
        <5>2. CASE ~Account!Save(w)
          BY <1>1, <5>2, AccountBalances
        <5> QED
          BY <5>1, <5>2
      <4>2. \A v \in Clerks : tasks'[v].phase = "audit" => tasks'[v] = tasks[v] /\ v # w
        BY <1>1, <2>1, <3>4, AuditsFollow DEF AccountShape, Rests
      <4>3. \A v \in Account!Busy(Account!Roles)' :
                tasks'[v].phase = "audit" => user'.status = Account!Told(v)'
        BY <3>2, <4>1, <4>2 DEF Account!Busy, Account!Told
      <4>4. ASSUME NEW v \in Account!Busy({"profile"})', tasks'[v].phase = "save"
            PROVE  tasks'[v].row.status = user'.status
        <5>1. CASE v # w
          BY <2>1, <3>2, <4>1, <4>4, <5>1 DEF Account!Busy, AccountShape, Rests
        <5>2. CASE v = w
          <6>1. v \in Account!Busy(Account!Saves)
            BY <3>1, <4>4 DEF Account!Busy, Account!Saves
          <6>2. tasks[w].phase # "idle" /\ Proceeds(w) /\ tasks[w].kind = "profile"
            BY <2>1, <4>4, <5>2, <6>1 DEF Account!Busy, AccountShape, Proceeds
          <6>3. ~Account!Ends(w)
            BY <2>0, <4>4, <5>2, <6>2, TaskEndShape
          <6>4. Account!SaveRead(w)
            BY <1>1, <6>2, <6>3, AccountSteps, BeginsOnlyIdle
               DEF Decides, Charges, Others, Account!CreateValidate, Account!CreateRead,
                   Account!CreateCharge, Account!CreateInsert, Account!Approve, Account!Reject,
                   Account!RefundRead, Account!RefundWrite, Account!Resolve, Account!Save,
                   Account!WriteAudit, Account!Fail
          <6>5. tasks'[w].row = user
            BY <2>0, <6>2, <6>4, TaskReadShape DEF Account!SaveRead
          <6> QED
            BY <4>1, <5>2, <6>5
        <5> QED
          BY <5>1, <5>2
      <4>5. Account!RoleKept'
        BY <2>2, <3>1, <4>3, <4>4 DEF Account!RoleKept
      <4>6. Account!RoleIsAudited'
        <5>1. CASE Account!WriteAudit(w)
          <6>1. w \in Account!Busy(Account!Roles)
            BY <5>1 DEF Account!WriteAudit, Account!Busy, Account!RoleKept
          <6>2. user.status = Account!Told(w)
            BY <3>2, <5>1, <6>1 DEF Account!WriteAudit
          <6> QED
            BY <4>1, <5>1, <6>2 DEF Account!WriteAudit, Account!RoleIsAudited
        <5>2. CASE ~Account!WriteAudit(w)
          <6>1. audit' = audit
            <7>1. CASE Begins(w)
              BY <7>1 DEF Begins, Account!CreateBegin, Account!ResolveBegin,
                 Account!ReviewBegin, Account!SaveBegin, Account!Begin
            <7>2. CASE Decides(w) \/ Charges(w)
              BY <7>2 DEF Decides, Charges, Account!CreateValidate, Account!CreateRead,
                 Account!CreateCharge, Account!CreateInsert, Account!Approve, Account!Reject,
                 Account!RefundRead, Account!RefundWrite, Account!Resolve, Account!ReadRow
            <7>3. CASE Others(w)
              BY <5>2, <7>3 DEF Others, Account!SaveRead, Account!Save, Account!Fail,
                 Account!ReadRow
            <7> QED
              BY <1>1, <7>1, <7>2, <7>3, AccountSteps
          <6>2. story.unaudited => story'.unaudited
            BY <1>1, AccountStepFrame
          <6>3. ASSUME NEW v \in Clerks, tasks[v].phase = "audit"
                PROVE  tasks'[v].phase = "audit" \/ story'.unaudited
            <7>1. CASE v # w
              BY <2>1, <6>3, <7>1 DEF AccountShape, Rests
            <7>2. CASE v = w
              <8>1. Account!Fail(w)
                BY <1>1, <5>2, <6>3, <7>2, AccountSteps, BeginsOnlyIdle
                   DEF Decides, Charges, Others, Account!CreateValidate, Account!CreateRead,
                       Account!CreateCharge, Account!CreateInsert, Account!Approve,
                       Account!Reject, Account!RefundRead, Account!RefundWrite,
                       Account!Resolve, Account!SaveRead, Account!Save
              <8> QED
                BY <6>3, <7>2, <8>1 DEF Account!Fail, Account!TypeOK
            <7> QED
              BY <7>1, <7>2
          <6> QED
            BY <3>1, <4>1, <6>1, <6>2, <6>3 DEF Account!RoleIsAudited
        <5> QED
          BY <5>1, <5>2
      <4> QED
        BY <4>5, <4>6
    <3> QED
      BY <3>3, <3>4
  <2> QED
    BY <2>3, <2>4
<1>2. ASSUME NEW g \in Gains, Account!Trade(g)
      PROVE  Account!RoleKept' /\ Account!RoleIsAudited'
  <2>1. tasks' = tasks /\ audit' = audit
    BY <1>2 DEF Account!Trade
  <2>2. user'.status = user.status /\ story'.mixed = story.mixed
        /\ story'.unaudited = story.unaudited
    BY <1>2, TradeBalances
  <2>3. /\ \A kinds : Account!Busy(kinds)' = Account!Busy(kinds)
        /\ \A w : Account!Told(w)' = Account!Told(w)
    BY <2>1 DEF Account!Busy, Account!Told
  <2>4. Account!RoleKept'
    BY <2>1, <2>2, <2>3 DEF Account!RoleKept
  <2>5. Account!RoleIsAudited'
    BY <2>1, <2>2 DEF Account!RoleIsAudited
  <2> QED
    BY <2>4, <2>5
<1>3. CASE UNCHANGED accounts
  BY <1>3 DEF accounts, Account!RoleKept, Account!RoleIsAudited, Account!Busy, Account!Told
<1> QED
  BY <1>1, <1>2, <1>3 DEF Account!Next

-----------------------------------------------------------------------------
(* Stewards: types. *)
DutiesOK ==
    /\ duties \in [Officers -> Office!Request \union {Office!Idle}]
    /\ \A w \in Office!UnderWay : duties[w].kind = "reassign" => duties[w].who \in Moderators

LEMMA DutyMoves ==
    ASSUME DutiesOK, NEW w \in Officers, duties[w].phase # "idle",
           duties[w].phase # "done", NEW phase \in Office!Phases \ {"idle"}, Office!Moves(w, phase)
    PROVE  /\ DutiesOK' /\ \A v \in Officers \ {w} : duties'[v] = duties[v]
           /\ duties[w] \in Office!Request /\ duties'[w].phase = phase
           /\ duties'[w].kind = duties[w].kind /\ duties'[w].who = duties[w].who
           /\ duties'[w].steward = duties[w].steward
<1>1. duties[w] \in Office!Request
  BY DEF DutiesOK, Office!Idle
<1>2. duties' = [duties EXCEPT ![w] = [duties[w] EXCEPT !.phase = phase]]
  BY DEF Office!Moves
<1>3. [duties[w] EXCEPT !.phase = phase] \in Office!Request
  BY <1>1 DEF Office!Request
<1>4. /\ duties'[w] = [duties[w] EXCEPT !.phase = phase]
      /\ \A v \in Officers \ {w} : duties'[v] = duties[v]
      /\ duties' \in [Officers -> Office!Request \union {Office!Idle}]
  BY <1>2, <1>3 DEF DutiesOK
<1>5. /\ duties'[w].phase = phase
      /\ duties'[w].kind = duties[w].kind /\ duties'[w].who = duties[w].who
      /\ duties'[w].steward = duties[w].steward
  BY <1>1, <1>4 DEF Office!Request
<1>6. \A v \in Office!UnderWay' : duties'[v].kind = "reassign" => duties'[v].who \in Moderators
  BY <1>4, <1>5 DEF DutiesOK, Office!UnderWay
<1> QED
  BY <1>1, <1>4, <1>5, <1>6 DEF DutiesOK

LEMMA DutyReads ==
    ASSUME Office!TypeOK, NEW w \in Officers, NEW kind \in {"reassign", "resolve"},
           NEW who \in Office!Actors, kind = "reassign" => who \in Moderators,
           Office!Read(w, kind, who)
    PROVE  /\ Office!TypeOK' /\ \A v \in Officers \ {w} : duties'[v] = duties[v]
           /\ duties[w].phase = "idle"
           /\ duties'[w] = [phase |-> "check", kind |-> kind, who |-> who,
                            steward |-> stewarded.steward]
           /\ earlier' = [earlier EXCEPT ![w] = {v \in Officers : duties[v].phase = "done"}]
<1> DEFINE r == [phase |-> "check", kind |-> kind, who |-> who, steward |-> stewarded.steward]
<1>1. r \in Office!Request
  BY DEF Office!Request, Office!Phases, Office!TypeOK
<1>2. duties' = [duties EXCEPT ![w] = r]
  BY DEF Office!Read
<1>3. /\ duties' \in [Officers -> Office!Request \union {Office!Idle}]
      /\ duties'[w] = r /\ \A v \in Officers \ {w} : duties'[v] = duties[v]
  <2> HIDE DEF r
  <2> QED
    BY <1>1, <1>2 DEF Office!TypeOK
<1>4. \A v \in Office!UnderWay' : duties'[v].kind = "reassign" => duties'[v].who \in Moderators
  BY <1>3 DEF Office!TypeOK, Office!UnderWay
<1>5. earlier' \in [Officers -> SUBSET Officers]
  BY DEF Office!Read, Office!TypeOK
<1> QED
  BY <1>3, <1>4, <1>5 DEF Office!Read, Office!TypeOK

LEMMA OfficeInitType == Office!ConstantsOK /\ Office!Init => Office!TypeOK
<1> SUFFICES ASSUME Office!ConstantsOK, Office!Init
             PROVE  Office!TypeOK
  OBVIOUS
<1>1. trail \in Seq(Office!Audit)
  BY DEF Office!Init
<1>2. \A w \in Officers : duties[w] = Office!Idle /\ duties[w].phase = "idle"
  BY DEF Office!Init, Office!Idle
<1>3. Office!UnderWay = {}
  BY <1>2 DEF Office!UnderWay
<1>4. duties \in [Officers -> Office!Request \union {Office!Idle}]
  BY DEF Office!Init
<1> QED
  BY <1>1, <1>3, <1>4 DEF Office!Init, Office!TypeOK, Office!ConstantsOK

(* The steps of a request that has begun, other than its end. *)
Acts(w) ==
    \/ Office!ReassignCheck(w) \/ Office!Reassign(w)
    \/ Office!ResolveCheck(w) \/ Office!Resolve(w) \/ Office!PayProfit(w) \/ Office!Fail(w)

LEMMA ActsShape ==
    ASSUME Office!TypeOK, NEW w \in Officers, Acts(w)
    PROVE  /\ DutiesOK' /\ w \in Office!UnderWay
           /\ duties[w] \in Office!Request /\ duties[w].phase \notin {"idle", "done"}
           /\ \A v \in Officers \ {w} : duties'[v] = duties[v]
           /\ duties'[w].phase # "idle"
           /\ duties'[w].kind = duties[w].kind /\ duties'[w].who = duties[w].who
           /\ duties'[w].steward = duties[w].steward
           /\ earlier' = earlier /\ caught' = caught /\ active' = active
<1>1. DutiesOK /\ duties[w].phase \notin {"idle", "done"}
  BY DEF DutiesOK, Office!TypeOK, Acts, Office!ReassignCheck, Office!Reassign,
     Office!ResolveCheck, Office!Resolve, Office!PayProfit, Office!Fail, Office!UnderWay,
     Office!In
<1>2. PICK phase \in Office!Phases \ {"idle"} : Office!Moves(w, phase)
  BY DEF Acts, Office!ReassignCheck, Office!Reassign, Office!ResolveCheck, Office!Resolve,
     Office!PayProfit, Office!Fail, Office!Phases
<1>3. earlier' = earlier /\ caught' = caught /\ active' = active
  BY DEF Acts, Office!ReassignCheck, Office!Reassign, Office!ResolveCheck, Office!Resolve,
     Office!PayProfit, Office!Fail
<1> QED
  BY <1>1, <1>2, <1>3, DutyMoves DEF Office!UnderWay

LEMMA ReassignAudit ==
    ASSUME Office!TypeOK, NEW w \in Officers, Office!Reassign(w)
    PROVE  LET a == [from |-> duties[w].steward, to |-> duties[w].who, by |-> w,
                     late |-> stewarded.resolvers, suspended |-> duties[w].who \notin active]
           IN  a \in Office!Audit /\ trail' = Append(trail, a)
<1>1. duties[w] \in Office!Request /\ w \in Office!UnderWay
  BY ActsShape DEF Acts
<1>2. duties[w].who \in Moderators /\ duties[w].steward \in Moderators
  BY <1>1 DEF Office!TypeOK, Office!Reassign, Office!In, Office!Request
<1>3. stewarded.resolvers \in SUBSET Officers /\ (duties[w].who \notin active) \in BOOLEAN
  BY DEF Office!TypeOK
<1> QED
  BY <1>2, <1>3 DEF Office!Reassign, Office!Audit

LEMMA ActsType ==
    ASSUME Office!TypeOK, NEW w \in Officers, Acts(w)
    PROVE  Office!TypeOK'
<1>1. /\ DutiesOK' /\ duties[w] \in Office!Request /\ w \in Office!UnderWay
      /\ earlier' = earlier /\ caught' = caught /\ active' = active
  BY ActsShape
<1>2. CASE Office!Reassign(w)
  <2>0. PICK a \in Office!Audit : trail' = Append(trail, a)
    BY <1>2, ReassignAudit
  <2>1. trail' \in Seq(Office!Audit)
    BY <2>0 DEF Office!TypeOK
  <2>2. duties[w].who \in Moderators
    BY <1>1, <1>2 DEF Office!TypeOK, Office!Reassign, Office!In
  <2> QED
    BY <1>1, <1>2, <2>1, <2>2 DEF Office!Reassign, Office!TypeOK, DutiesOK
<1>3. CASE Office!Resolve(w)
  BY <1>1, <1>3 DEF Office!Resolve, Office!TypeOK, DutiesOK
<1>4. CASE Office!PayProfit(w)
  <2>1. [to |-> duties[w].steward, by |-> w, steward |-> stewarded.steward]
            \in [to : Moderators, by : Officers, steward : Moderators]
    BY <1>1 DEF Office!Request, Office!TypeOK
  <2>2. profits' \subseteq [to : Moderators, by : Officers, steward : Moderators]
    BY <1>4, <2>1 DEF Office!PayProfit, Office!TypeOK
  <2> QED
    BY <1>1, <1>4, <2>2 DEF Office!PayProfit, Office!TypeOK, DutiesOK
<1>5. CASE Office!ReassignCheck(w) \/ Office!ResolveCheck(w) \/ Office!Fail(w)
  BY <1>1, <1>5 DEF Office!ReassignCheck, Office!ResolveCheck, Office!Fail, Office!TypeOK, DutiesOK
<1> QED
  BY <1>2, <1>3, <1>4, <1>5 DEF Acts

(* The cases of a step. *)
LEMMA OfficeSteps ==
    ASSUME [Office!Next]_stewards
    PROVE  \/ \E w \in Officers : Acts(w)
           \/ \E w \in Officers, kind \in {"reassign", "resolve"}, who \in Office!Actors :
                  /\ kind = "reassign" => who \in Moderators
                  /\ stewarded.resolvers = {} /\ Office!Read(w, kind, who)
           \/ \E m \in Moderators : Office!Suspend(m) \/ Office!Unsuspend(m)
           \/ UNCHANGED stewards
  BY DEF Office!Next, Acts, Office!ReassignRead, Office!ResolveRead, Office!Actors

LEMMA OfficeStepType ==
    ASSUME Office!TypeOK, [Office!Next]_stewards
    PROVE  Office!TypeOK'
<1>1. ASSUME NEW m \in Moderators, Office!Suspend(m)
      PROVE  Office!TypeOK'
  <2>1. caught' \in [Officers -> SUBSET Moderators]
    BY <1>1 DEF Office!Suspend, Office!TypeOK
  <2> QED
    BY <1>1, <2>1 DEF Office!Suspend, Office!TypeOK, Office!UnderWay
<1>2. ASSUME NEW m \in Moderators, Office!Unsuspend(m)
      PROVE  Office!TypeOK'
  BY <1>2 DEF Office!Unsuspend, Office!TypeOK, Office!UnderWay
<1>3. CASE UNCHANGED stewards
  BY <1>3 DEF stewards, Office!TypeOK, Office!UnderWay
<1> QED
  BY <1>1, <1>2, <1>3, OfficeSteps, ActsType, DutyReads

-----------------------------------------------------------------------------
(* Stewards: the trail of audits. *)
Trusted == Office!EndedBefore /\ Office!Acted /\ Office!ReadIsRecent /\ Office!FoundActive

LEMMA OfficeInit ==
    ASSUME Office!Init
    PROVE  Trusted /\ Office!TrailIsLinked /\ Office!StewardOnlyByOverlap
<1>1. \A w \in Officers : duties[w] = Office!Idle /\ duties[w].phase = "idle"
  BY DEF Office!Init, Office!Idle
<1>2. trail = <<>> /\ Len(trail) = 0 /\ profits = {} /\ stewarded.resolvers = {}
      /\ stewarded.steward = Creator
  BY DEF Office!Init
<1>3. Office!EndedBefore
  BY <1>2 DEF Office!Init, Office!EndedBefore
<1>4. Office!Acted
  BY <1>2 DEF Office!Acted, Office!Named
<1>5. Office!ReadIsRecent /\ Office!FoundActive
  BY <1>1, <1>2 DEF Office!ReadIsRecent, Office!FoundActive, Office!UnderWay, Office!In
<1>6. Office!TrailIsLinked /\ Office!StewardOnlyByOverlap
  BY <1>2 DEF Office!TrailIsLinked, Office!StewardOnlyByOverlap
<1> QED
  BY <1>3, <1>4, <1>5, <1>6 DEF Trusted

(* Who is under way has not ended before anything. *)
LEMMA NotEnded ==
    ASSUME Office!EndedBefore, NEW w \in Officers, duties[w].phase # "done"
    PROVE  \A v \in Officers : w \notin earlier[v]
  BY DEF Office!EndedBefore

LEMMA TrailType ==
    ASSUME Office!TypeOK
    PROVE  /\ Len(trail) \in Nat /\ trail # <<>> => Len(trail) \in 1..Len(trail)
           /\ \A i \in 1..Len(trail) : trail[i] \in Office!Audit /\ trail[i].by \in Officers
<1>1. trail \in Seq(Office!Audit)
  BY DEF Office!TypeOK
<1>2. \A i \in 1..Len(trail) : trail[i] \in Office!Audit
  BY <1>1
<1>3. Len(trail) \in Nat /\ (trail # <<>> => Len(trail) \in 1..Len(trail))
  BY <1>1
<1> QED
  BY <1>2, <1>3 DEF Office!Audit

LEMMA OfficeRests ==
    ASSUME Office!TypeOK, Trusted, Office!TrailIsLinked, Office!StewardOnlyByOverlap,
           \/ \E m \in Moderators : Office!Suspend(m) \/ Office!Unsuspend(m)
           \/ UNCHANGED stewards
    PROVE  Trusted' /\ Office!TrailIsLinked' /\ Office!StewardOnlyByOverlap'
<1>1. /\ stewarded' = stewarded /\ trail' = trail /\ duties' = duties /\ profits' = profits
      /\ earlier' = earlier
  BY DEF Office!Suspend, Office!Unsuspend, stewards
<1>2. \A w \in Officers : caught[w] \subseteq caught'[w]
  BY DEF Office!Suspend, Office!Unsuspend, stewards, Office!TypeOK
<1>3. Office!FoundActive'
  BY <1>1 DEF Trusted, Office!FoundActive, Office!Suspend, Office!Unsuspend, stewards,
     Office!In, Office!UnderWay, Office!TypeOK
<1>4. Trusted'
  BY <1>1, <1>3 DEF Trusted, Office!EndedBefore, Office!Acted, Office!Named,
     Office!ReadIsRecent, Office!UnderWay, Office!Last
<1>5. Office!TrailIsLinked'
  BY <1>1 DEF Office!TrailIsLinked, Office!Overlapped
<1>6. Office!StewardOnlyByOverlap'
  BY <1>1, <1>2, TrailType DEF Office!StewardOnlyByOverlap, Office!Overlapped
<1> QED
  BY <1>4, <1>5, <1>6

LEMMA OfficeReads ==
    ASSUME Office!TypeOK, Trusted, Office!TrailIsLinked, Office!StewardOnlyByOverlap,
           NEW w \in Officers, NEW kind \in {"reassign", "resolve"},
           NEW who \in Office!Actors, kind = "reassign" => who \in Moderators,
           stewarded.resolvers = {}, Office!Read(w, kind, who)
    PROVE  Trusted' /\ Office!TrailIsLinked' /\ Office!StewardOnlyByOverlap'
<1>1. /\ \A v \in Officers \ {w} : duties'[v] = duties[v]
      /\ duties[w].phase = "idle"
      /\ duties'[w].phase = "check" /\ duties'[w].steward = stewarded.steward
      /\ earlier'[w] = {v \in Officers : duties[v].phase = "done"}
      /\ \A v \in Officers \ {w} : earlier'[v] = earlier[v]
  <2>1. /\ \A v \in Officers \ {w} : duties'[v] = duties[v]
        /\ duties[w].phase = "idle"
        /\ duties'[w] = [phase |-> "check", kind |-> kind, who |-> who,
                         steward |-> stewarded.steward]
        /\ earlier' = [earlier EXCEPT ![w] = {v \in Officers : duties[v].phase = "done"}]
    BY DutyReads
  <2>2. earlier \in [Officers -> SUBSET Officers]
    BY DEF Office!TypeOK
  <2> QED
    BY <2>1, <2>2
<1>2. /\ stewarded' = stewarded /\ active' = active /\ trail' = trail
      /\ profits' = profits /\ caught' = caught
  BY DEF Office!Read
<1>3. Office!EndedBefore'
  BY <1>1, <1>2, NotEnded DEF Trusted, Office!EndedBefore, Office!TypeOK
<1>4. w \notin Office!Named /\ \A v \in Office!Named : duties[v].phase # "idle"
  BY <1>1 DEF Trusted, Office!Acted
<1>5. Office!Acted'
  <2>1. Office!Named' = Office!Named /\ Office!Named \subseteq Officers
    BY <1>2, TrailType DEF Office!Named, Office!TypeOK
  <2> QED
    BY <1>1, <1>2, <1>4, <2>1 DEF Trusted, Office!Acted
<1>6. Office!ReadIsRecent' /\ Office!FoundActive'
  BY <1>1, <1>2 DEF Trusted, Office!ReadIsRecent, Office!FoundActive, Office!UnderWay,
     Office!Last, Office!In
<1>7. \A v \in Office!Named : v \in Officers /\ earlier'[v] = earlier[v]
  BY <1>1, <1>4, TrailType DEF Office!Named, Office!TypeOK
<1>8. /\ \A i \in 1..Len(trail) : trail[i].by \in Office!Named /\ trail[i].late \subseteq Office!Named
      /\ \A p \in profits : p.by \in Office!Named
  BY DEF Office!Named, Trusted, Office!Acted
<1>9. Office!TrailIsLinked'
  BY <1>2, <1>7, <1>8, TrailType DEF Office!TrailIsLinked, Office!Overlapped
<1>10. Office!StewardOnlyByOverlap'
  BY <1>2, <1>7, <1>8 DEF Office!StewardOnlyByOverlap, Office!Overlapped
<1> QED
  BY <1>3, <1>5, <1>6, <1>9, <1>10 DEF Trusted

LEMMA OfficeReassigns ==
    ASSUME Office!TypeOK, Trusted, Office!TrailIsLinked, Office!StewardOnlyByOverlap,
           NEW w \in Officers, Office!Reassign(w)
    PROVE  Trusted' /\ Office!TrailIsLinked' /\ Office!StewardOnlyByOverlap'
<1> DEFINE a == [from |-> duties[w].steward, to |-> duties[w].who, by |-> w,
                 late |-> stewarded.resolvers, suspended |-> duties[w].who \notin active]
           n == Len(trail)
<1>1. /\ duties[w].phase = "update" /\ duties[w].kind = "reassign" /\ w \in Office!UnderWay
      /\ \A v \in Officers \ {w} : duties'[v] = duties[v]
      /\ duties'[w].phase = "done"
      /\ earlier' = earlier /\ caught' = caught /\ active' = active /\ profits' = profits
      /\ stewarded'.steward = duties[w].who /\ stewarded'.resolvers = stewarded.resolvers
  <2>1. \A v \in Officers \ {w} : duties'[v] = duties[v]
    BY ActsShape DEF Acts
  <2>2. duties[w] \in Office!Request
    BY ActsShape DEF Acts
  <2>3. duties'[w].phase = "done"
    BY <2>2 DEF Office!Reassign, Office!Moves, Office!Request, Office!TypeOK
  <2> QED
    BY <2>1, <2>3 DEF Office!Reassign, Office!In, Office!UnderWay, Office!TypeOK
<1>2. a \in Office!Audit /\ trail' = Append(trail, a)
  BY ReassignAudit
<1>3. a.from = duties[w].steward /\ a.to = duties[w].who /\ a.by = w
      /\ a.late = stewarded.resolvers /\ a.suspended = (duties[w].who \notin active)
  OBVIOUS
<1> HIDE DEF a
<1>4. /\ n \in Nat /\ Len(trail') = n + 1 /\ trail'[n + 1] = a /\ trail' # <<>>
      /\ \A i \in 1..n : trail'[i] = trail[i]
  <2>1. trail \in Seq(Office!Audit)
    BY DEF Office!TypeOK
  <2> QED
    BY <1>2, <2>1
<1> HIDE DEF n
<1>5. \A v \in Officers : w \notin earlier[v]
  BY <1>1, NotEnded DEF Trusted
<1>6. Office!EndedBefore'
  BY <1>1, <1>5 DEF Trusted, Office!EndedBefore, Office!TypeOK
<1>7. Office!Acted'
  <2>1. \A v \in Office!Named' : v = w \/ v \in Office!Named
    <3>1. \A i \in 1..(n + 1) : i = n + 1 \/ i \in 1..n
      BY <1>4
    <3> QED
      BY <1>1, <1>3, <1>4, <3>1 DEF Office!Named, n
  <2>2. Office!Named \subseteq Officers
    BY TrailType DEF Office!Named, Office!TypeOK
  <2>3. \A v \in Office!Named' : duties'[v].phase # "idle"
    BY <1>1, <2>1, <2>2 DEF Trusted, Office!Acted
  <2>4. \A i \in 1..Len(trail') : trail'[i].late \subseteq stewarded'.resolvers
    <3>1. \A i \in 1..(n + 1) : i = n + 1 \/ i \in 1..n
      BY <1>4
    <3>2. \A i \in 1..n : trail[i].late \subseteq stewarded.resolvers
      BY DEF Trusted, Office!Acted, n
    <3> QED
      BY <1>1, <1>3, <1>4, <3>1, <3>2
  <2> QED
    BY <2>3, <2>4 DEF Office!Acted
<1>8. Office!ReadIsRecent'
  BY <1>1, <1>3, <1>4, <1>5 DEF Office!ReadIsRecent, Office!Last, Office!UnderWay
<1>9. Office!FoundActive'
  BY <1>1 DEF Trusted, Office!FoundActive, Office!In
<1>10. trail # <<>> /\ duties[w].steward # trail[n].to => trail[n].by \notin earlier[w]
  BY <1>1 DEF Trusted, Office!ReadIsRecent, Office!Last, n
<1>11. Office!TrailIsLinked'
  <2>1. ASSUME NEW i \in 2..(n + 1), trail'[i].from # trail'[i - 1].to
        PROVE  Office!Overlapped(trail'[i].by, trail'[i - 1].by)
    <3>1. CASE i \in 2..n
      <4>1. i \in 1..n /\ i - 1 \in 1..n
        BY <1>4, <3>1
      <4> QED
        BY <1>4, <2>1, <3>1, <4>1 DEF Office!TrailIsLinked, n
    <3>2. CASE i = n + 1
      <4>1. i - 1 = n /\ n \in 1..n
        BY <1>4, <2>1, <3>2
      <4>2. trail # <<>> /\ trail'[n] = trail[n] /\ trail[n].by \in Officers
        BY <1>4, <4>1, TrailType DEF n
      <4>3. trail[n].by \notin earlier[w]
        BY <1>3, <1>4, <1>10, <2>1, <3>2, <4>1, <4>2
      <4> QED
        BY <1>3, <1>4, <1>5, <3>2, <4>1, <4>2, <4>3 DEF Office!Overlapped
    <3> QED
      BY <1>4, <3>1, <3>2
  <2>2. \A v, u : Office!Overlapped(v, u)' <=> Office!Overlapped(v, u)
    BY <1>1 DEF Office!Overlapped
  <2> QED
    BY <1>1, <1>3, <1>4, <2>1, <2>2 DEF Office!TrailIsLinked
<1>12. Office!StewardOnlyByOverlap'
  <2>2. \A v \in a.late : Office!Overlapped(v, a.by)
    BY <1>1, <1>3, <1>5 DEF Trusted, Office!EndedBefore, Office!Overlapped, Office!TypeOK
  <2>3. a.suspended => a.to \in caught[a.by]
    BY <1>1, <1>3 DEF Trusted, Office!FoundActive, Office!In
  <2>4. \A i \in 1..(n + 1) : i = n + 1 \/ i \in 1..n
    BY <1>4
  <2>5. \A i \in 1..(n + 1) : /\ \A v \in trail'[i].late : Office!Overlapped(v, trail'[i].by)
                              /\ trail'[i].suspended => trail'[i].to \in caught[trail'[i].by]
    BY <1>4, <2>2, <2>3, <2>4 DEF Office!StewardOnlyByOverlap, n
  <2>6. \A p \in profits : p.to # p.steward =>
            \E i \in 1..(n + 1) : Office!Overlapped(p.by, trail'[i].by)
    <3>1. \A i \in 1..n : i \in 1..(n + 1)
      BY <1>4
    <3> QED
      BY <1>4, <3>1 DEF Office!StewardOnlyByOverlap, n
  <2> QED
    <3>1. \A i \in 1..Len(trail') :
              /\ \A v \in trail'[i].late : v \notin earlier'[trail'[i].by]
                                             /\ trail'[i].by \notin earlier'[v]
              /\ trail'[i].suspended => trail'[i].to \in caught'[trail'[i].by]
      BY <1>1, <1>4, <2>5 DEF Office!Overlapped
    <3>2. \A p \in profits' : p.to # p.steward =>
              \E i \in 1..Len(trail') : p.by \notin earlier'[trail'[i].by]
                                         /\ trail'[i].by \notin earlier'[p.by]
      BY <1>1, <1>4, <2>6 DEF Office!Overlapped
    <3> QED
      BY <3>1, <3>2 DEF Office!StewardOnlyByOverlap, Office!Overlapped
<1> QED
  BY <1>6, <1>7, <1>8, <1>9, <1>11, <1>12 DEF Trusted

(* The steps that leave the trail as it is. *)
LEMMA OfficeOthers ==
    ASSUME Office!TypeOK, Trusted, Office!TrailIsLinked, Office!StewardOnlyByOverlap,
           NEW w \in Officers, Acts(w), ~Office!Reassign(w)
    PROVE  Trusted' /\ Office!TrailIsLinked' /\ Office!StewardOnlyByOverlap'
<1>1. /\ w \in Office!UnderWay /\ duties[w].phase \notin {"idle", "done"}
      /\ duties[w] \in Office!Request
      /\ \A v \in Officers \ {w} : duties'[v] = duties[v]
      /\ duties'[w].phase # "idle"
      /\ duties'[w].kind = duties[w].kind /\ duties'[w].who = duties[w].who
      /\ duties'[w].steward = duties[w].steward
      /\ earlier' = earlier /\ caught' = caught /\ active' = active
  BY ActsShape
<1>2. /\ trail' = trail /\ stewarded'.steward = stewarded.steward
      /\ stewarded.resolvers \subseteq stewarded'.resolvers
      /\ stewarded'.resolvers \subseteq stewarded.resolvers \union {w}
  BY DEF Acts, Office!ReassignCheck, Office!ResolveCheck, Office!Resolve, Office!PayProfit,
     Office!Fail, Office!TypeOK
<1>3. /\ profits \subseteq profits'
      /\ \A p \in profits' : p \in profits \/
             p = [to |-> duties[w].steward, by |-> w, steward |-> stewarded.steward]
  BY DEF Acts, Office!ReassignCheck, Office!ResolveCheck, Office!Resolve, Office!PayProfit,
     Office!Fail
<1>4. \A v \in Officers : w \notin earlier[v]
  BY <1>1, NotEnded DEF Trusted
<1>5. Office!EndedBefore'
  <2>1. \A u \in Officers : earlier[u] \subseteq Officers
    BY DEF Office!TypeOK
  <2>2. \A u \in Officers : \A v \in earlier[u] : v # w /\ duties'[v] = duties[v]
    BY <1>1, <1>4, <2>1
  <2> QED
    BY <1>1, <1>2, <1>4, <2>2 DEF Trusted, Office!EndedBefore
<1>6. Office!Acted'
  <2>1. \A v \in Office!Named' : v = w \/ v \in Office!Named
    BY <1>2, <1>3 DEF Office!Named
  <2>2. Office!Named \subseteq Officers
    BY TrailType DEF Office!Named, Office!TypeOK
  <2> QED
    BY <1>1, <1>2, <2>1, <2>2 DEF Trusted, Office!Acted
<1>7. Office!ReadIsRecent'
  BY <1>1, <1>2 DEF Trusted, Office!ReadIsRecent, Office!Last, Office!UnderWay
<1>8. Office!FoundActive'
  <2>1. duties'[w].kind = "reassign" /\ duties'[w].phase = "update" =>
            duties[w].phase = "update" \/ duties[w].who \in active
    BY <1>1 DEF Acts, Office!ReassignCheck, Office!ResolveCheck, Office!Resolve,
       Office!PayProfit, Office!Fail, Office!Moves, Office!In, Office!TypeOK, Office!Request
  <2> QED
    BY <1>1, <2>1 DEF Trusted, Office!FoundActive, Office!In
<1>9. Office!TrailIsLinked'
  BY <1>1, <1>2 DEF Office!TrailIsLinked, Office!Overlapped
<1>10. ASSUME NEW p \in profits', p.to # p.steward
       PROVE  \E i \in 1..Len(trail) : Office!Overlapped(p.by, trail[i].by)
  <2>1. CASE p \in profits
    BY <1>10, <2>1 DEF Office!StewardOnlyByOverlap
  <2>2. CASE p = [to |-> duties[w].steward, by |-> w, steward |-> stewarded.steward]
    <3>1. duties[w].steward # stewarded.steward /\ p.by = w
      BY <1>10, <2>2
    <3>2. trail # <<>> /\ Office!Last.by \notin earlier[w]
      BY <1>1, <3>1 DEF Trusted, Office!ReadIsRecent
    <3>3. Len(trail) \in 1..Len(trail) /\ trail[Len(trail)].by \in Officers
      BY <3>2, TrailType
    <3> QED
      BY <1>4, <3>1, <3>2, <3>3 DEF Office!Last, Office!Overlapped
  <2> QED
    BY <1>3, <2>1, <2>2
<1>11. Office!StewardOnlyByOverlap'
  BY <1>1, <1>2, <1>10 DEF Office!StewardOnlyByOverlap, Office!Overlapped
<1> QED
  BY <1>5, <1>6, <1>7, <1>8, <1>9, <1>11 DEF Trusted

LEMMA OfficeStep ==
    ASSUME Office!TypeOK, Trusted, Office!TrailIsLinked, Office!StewardOnlyByOverlap,
           [Office!Next]_stewards
    PROVE  Trusted' /\ Office!TrailIsLinked' /\ Office!StewardOnlyByOverlap'
  BY OfficeSteps, OfficeRests, OfficeReads, OfficeReassigns, OfficeOthers

-----------------------------------------------------------------------------
(* Snapshots. *)
Job == [phase : {"idle", "mark", "upsert"}, of : SUBSET Snapshots, computed : 0..bets \union {None}]

LEMMA DisplayInitType == Display!ConstantsOK /\ Display!Init => Display!TypeOK
<1> SUFFICES ASSUME Display!ConstantsOK, Display!Init
             PROVE  Display!TypeOK
  OBVIOUS
<1>1. Display!Idle \in Job /\ Display!Idle.phase = "idle"
  BY DEF Display!Idle, Job
<1>2. jobs \in [Visitors -> Job] /\ \A w \in Visitors : jobs[w].phase = "idle"
  BY <1>1 DEF Display!Init
<1> QED
  BY <1>2 DEF Display!Init, Display!TypeOK, Display!ConstantsOK, Job

LEMMA DisplayMoves ==
    ASSUME Display!TypeOK, NEW w \in Visitors, NEW r \in Job, bets' = bets,
           r.phase = "upsert" => r.computed \in 0..bets, Display!Moves(w, r)
    PROVE  /\ jobs' \in [Visitors -> Job]'
           /\ \A v \in Visitors : jobs'[v].phase = "upsert" => jobs'[v].computed \in 0..bets'
           /\ jobs'[w] = r /\ \A v \in Visitors \ {w} : jobs'[v] = jobs[v]
<1>1. jobs \in [Visitors -> Job] /\ Job' = Job
  BY DEF Display!TypeOK, Job
<1>2. /\ jobs' \in [Visitors -> Job] /\ jobs'[w] = r
      /\ \A v \in Visitors \ {w} : jobs'[v] = jobs[v]
  BY <1>1 DEF Display!Moves
<1> QED
  BY <1>1, <1>2 DEF Display!TypeOK

(* A trade is committed: there is a row more. *)
LEMMA DisplayCommits ==
    ASSUME Display!ConstantsOK, Display!TypeOK, NEW w \in Visitors, Display!TradeCommit(w)
    PROVE  Display!TypeOK' /\ Display!BehindOnlyIfExcused'
<1> DEFINE r == [Display!Idle EXCEPT !.phase = "mark", !.of = Snapshots]
<1>1. jobs' = [jobs EXCEPT ![w] = r]
  BY DEF Display!TradeCommit, Display!Moves
<1>2. bets' = bets + 1 /\ bets' \in 0..MaxRows /\ 0..bets \subseteq 0..bets'
  BY DEF Display!TradeCommit, Display!TypeOK, Display!ConstantsOK
<1>3. r \in Job' /\ Job \subseteq Job' /\ r.phase = "mark" /\ r.of = Snapshots
  BY <1>2 DEF Job, Display!Idle
<1>4. jobs \in [Visitors -> Job]
  BY DEF Display!TypeOK, Job
<1>5. /\ jobs' \in [Visitors -> Job'] /\ jobs'[w] = r
      /\ \A v \in Visitors \ {w} : jobs'[v] = jobs[v]
  <2> HIDE DEF r, Job
  <2> QED
    BY <1>1, <1>3, <1>4
<1>6. \A v \in Visitors : jobs'[v].phase = "upsert" => jobs'[v].computed \in 0..bets'
  BY <1>2, <1>3, <1>5 DEF Display!TypeOK
<1>7. snapshot' \in [Snapshots -> [rows : 0..bets', stale : BOOLEAN] \union {None}]
  <2>1. [rows : 0..bets, stale : BOOLEAN] \subseteq [rows : 0..bets', stale : BOOLEAN]
    BY <1>2
  <2> QED
    BY <2>1 DEF Display!TradeCommit, Display!TypeOK
<1>8. Display!TypeOK'
  BY <1>2, <1>5, <1>6, <1>7 DEF Display!TypeOK, Display!TradeCommit, Job
<1>9. Display!BehindOnlyIfExcused'
  BY <1>3, <1>5 DEF Display!BehindOnlyIfExcused
<1> QED
  BY <1>8, <1>9

LEMMA DisplayMarks ==
    ASSUME Display!ConstantsOK, Display!TypeOK, Display!BehindOnlyIfExcused,
           NEW w \in Visitors, NEW s \in Snapshots, Display!Mark(w, s)
    PROVE  Display!TypeOK' /\ Display!BehindOnlyIfExcused'
<1> DEFINE r == IF jobs[w].of = {s} THEN Display!Idle ELSE [jobs[w] EXCEPT !.of = @ \ {s}]
<1>1. jobs[w] \in Job /\ jobs[w].phase = "mark" /\ bets' = bets /\ Display!Moves(w, r)
  BY DEF Display!Mark, Display!TypeOK, Job
<1>2. r \in Job /\ r.phase # "upsert"
  BY <1>1 DEF Job, Display!Idle
<1>3. \A t \in Snapshots \ {s} : t \in jobs[w].of => r.phase = "mark" /\ t \in r.of
  BY <1>1 DEF Job
<1>4. /\ jobs' \in [Visitors -> Job]'
      /\ \A v \in Visitors : jobs'[v].phase = "upsert" => jobs'[v].computed \in 0..bets'
      /\ jobs'[w] = r /\ \A v \in Visitors \ {w} : jobs'[v] = jobs[v]
  <2> HIDE DEF r
  <2> QED
    BY <1>1, <1>2, DisplayMoves
<1>5. /\ snapshot' \in [Snapshots -> [rows : 0..bets, stale : BOOLEAN] \union {None}]
      /\ excuse' \in [Snapshots -> {"unmarked", "overtaken", None}]
      /\ \A t \in Snapshots \ {s} : snapshot'[t] = snapshot[t] /\ excuse'[t] = excuse[t]
      /\ snapshot'[s] = None \/ snapshot'[s].stale
  <2>1. CASE snapshot[s] = None
    BY <2>1 DEF Display!Mark, Display!TypeOK
  <2>2. CASE snapshot[s] # None
    <3>1. snapshot[s] \in [rows : 0..bets, stale : BOOLEAN]
      BY <2>2 DEF Display!TypeOK
    <3>2. [snapshot[s] EXCEPT !.stale = TRUE] \in [rows : 0..bets, stale : BOOLEAN]
      BY <3>1
    <3>3. snapshot' = [snapshot EXCEPT ![s] = [snapshot[s] EXCEPT !.stale = TRUE]]
          /\ excuse' = [excuse EXCEPT ![s] = None]
      BY <2>2 DEF Display!Mark
    <3>4. snapshot'[s].stale
      BY <3>1, <3>3 DEF Display!TypeOK
    <3> QED
      BY <3>2, <3>3, <3>4 DEF Display!TypeOK
  <2> QED
    BY <2>1, <2>2
<1> HIDE DEF r
<1>6. Display!TypeOK'
  BY <1>1, <1>4, <1>5 DEF Display!TypeOK, Display!Mark, Job
<1>7. Display!BehindOnlyIfExcused'
  <2>1. ASSUME NEW t \in Snapshots, t # s, NEW v \in Visitors,
               jobs[v].phase = "mark", t \in jobs[v].of
        PROVE  jobs'[v].phase = "mark" /\ t \in jobs'[v].of
    BY <1>3, <1>4, <2>1
  <2> QED
    BY <1>1, <1>5, <2>1 DEF Display!BehindOnlyIfExcused
<1> QED
  BY <1>6, <1>7

LEMMA DisplayLoses ==
    ASSUME Display!ConstantsOK, Display!TypeOK, Display!BehindOnlyIfExcused,
           NEW w \in Visitors, Display!MarksLost(w)
    PROVE  Display!TypeOK' /\ Display!BehindOnlyIfExcused'
<1>1. Display!Idle \in Job /\ Display!Idle.phase = "idle"
  BY DEF Display!Idle, Job
<1>2. /\ jobs' \in [Visitors -> Job]'
      /\ \A v \in Visitors : jobs'[v].phase = "upsert" => jobs'[v].computed \in 0..bets'
      /\ jobs'[w] = Display!Idle /\ \A v \in Visitors \ {w} : jobs'[v] = jobs[v]
  BY <1>1, DisplayMoves DEF Display!MarksLost
<1>3. Display!TypeOK'
  BY <1>2 DEF Display!TypeOK, Display!MarksLost, Job
<1>4. Display!BehindOnlyIfExcused'
  <2>1. \A s \in Snapshots : /\ excuse[s] # None => excuse'[s] # None
                             /\ s \in jobs[w].of => excuse'[s] # None
    BY DEF Display!MarksLost, Display!ConstantsOK
  <2>2. snapshot' = snapshot /\ bets' = bets
    BY DEF Display!MarksLost
  <2> QED
    BY <1>2, <2>1, <2>2 DEF Display!BehindOnlyIfExcused
<1> QED
  BY <1>3, <1>4

LEMMA DisplayComputes ==
    ASSUME Display!ConstantsOK, Display!TypeOK, Display!BehindOnlyIfExcused,
           NEW w \in Visitors, NEW s \in Snapshots, Display!Compute(w, s)
    PROVE  Display!TypeOK' /\ Display!BehindOnlyIfExcused'
<1> DEFINE r == [phase |-> "upsert", of |-> {s}, computed |-> bets]
<1>1. r \in Job /\ r.computed \in 0..bets /\ bets' = bets /\ Display!Moves(w, r)
  BY DEF Display!Compute, Display!TypeOK, Job
<1>2. /\ jobs' \in [Visitors -> Job]'
      /\ \A v \in Visitors : jobs'[v].phase = "upsert" => jobs'[v].computed \in 0..bets'
      /\ \A v \in Visitors \ {w} : jobs'[v] = jobs[v]
  <2> HIDE DEF r
  <2> QED
    BY <1>1, DisplayMoves
<1>3. jobs[w].phase = "idle" /\ reads' \in 0..MaxReads
  BY DEF Display!Compute, Display!Idle, Display!TypeOK, Display!ConstantsOK
<1>4. Display!TypeOK'
  BY <1>1, <1>2, <1>3 DEF Display!TypeOK, Display!Compute, Job
<1>5. Display!BehindOnlyIfExcused'
  BY <1>1, <1>2, <1>3 DEF Display!BehindOnlyIfExcused, Display!Compute
<1> QED
  BY <1>4, <1>5

LEMMA DisplayUpserts ==
    ASSUME Display!ConstantsOK, Display!TypeOK, Display!BehindOnlyIfExcused,
           NEW w \in Visitors, NEW s \in Snapshots, Display!Upsert(w, s)
    PROVE  Display!TypeOK' /\ Display!BehindOnlyIfExcused'
<1> DEFINE e == IF jobs[w].computed = bets THEN None ELSE "overtaken"
           n == [rows |-> jobs[w].computed, stale |-> FALSE]
<1>1. Display!Idle \in Job /\ Display!Idle.phase = "idle"
  BY DEF Display!Idle, Job
<1>2. /\ jobs' \in [Visitors -> Job]'
      /\ \A v \in Visitors : jobs'[v].phase = "upsert" => jobs'[v].computed \in 0..bets'
      /\ jobs'[w] = Display!Idle /\ \A v \in Visitors \ {w} : jobs'[v] = jobs[v]
  BY <1>1, DisplayMoves DEF Display!Upsert
<1>3. n \in [rows : 0..bets, stale : BOOLEAN]
  BY DEF Display!Upsert, Display!TypeOK
<1>4. /\ snapshot' = [snapshot EXCEPT ![s] = n] /\ excuse' = [excuse EXCEPT ![s] = e]
      /\ bets' = bets /\ jobs[w].phase = "upsert"
      /\ e \in {None, "overtaken"} /\ (n.rows # bets => e # None)
  BY DEF Display!Upsert, Display!ConstantsOK
<1> HIDE DEF n, e
<1>5. Display!TypeOK'
  BY <1>2, <1>3, <1>4 DEF Display!TypeOK, Display!Upsert, Job
<1>6. Display!BehindOnlyIfExcused'
  BY <1>2, <1>4 DEF Display!BehindOnlyIfExcused, Display!TypeOK
<1> QED
  BY <1>5, <1>6

LEMMA DisplayStep ==
    ASSUME Display!ConstantsOK, Display!TypeOK, Display!BehindOnlyIfExcused,
           [Display!Next]_models
    PROVE  Display!TypeOK' /\ Display!BehindOnlyIfExcused'
<1>1. CASE UNCHANGED models
  BY <1>1 DEF models, Display!TypeOK, Display!BehindOnlyIfExcused
<1>2. CASE Display!Next
  BY <1>2, DisplayCommits, DisplayMarks, DisplayLoses, DisplayComputes, DisplayUpserts
     DEF Display!Next
<1> QED
  BY <1>1, <1>2

-----------------------------------------------------------------------------
(* The four together. *)
LEMMA ServiceSteps ==
    ASSUME [ServiceNext]_serviceVars
    PROVE  /\ service' = service /\ [Next]_vars
           /\ service = "accounts" => [Account!Next]_accounts
           /\ service = "models" => [Display!Next]_models
           /\ service = "stewards" => [Office!Next]_stewards
  BY DEF ServiceNext, serviceVars

AccountsOK ==
    service = "accounts" =>
        /\ Account!TypeOK /\ Account!Creating /\ Account!Existing /\ Account!Refunds
        /\ Account!BalanceExplained /\ Account!Afford /\ Account!DebtOnlyByOverlap
        /\ Account!RoleKept /\ Account!RoleIsAudited

StewardsOK ==
    service = "stewards" =>
        Office!TypeOK /\ Trusted /\ Office!TrailIsLinked /\ Office!StewardOnlyByOverlap

ModelsOK == service = "models" => Display!TypeOK /\ Display!BehindOnlyIfExcused

ServiceInv == TypeOK /\ AccountsOK /\ StewardsOK /\ ModelsOK

LEMMA ServiceInvInit == ServiceInit => ServiceInv
<1> SUFFICES ASSUME ServiceInit
             PROVE  ServiceInv
  OBVIOUS
<1>0. ConstantsOK /\ Account!ConstantsOK /\ Display!ConstantsOK /\ Office!ConstantsOK
  BY ServiceAssumption
<1>1. TypeOK
  BY <1>0, InitType DEF ServiceInit
<1>2. AccountsOK
  <2>1. service = "accounts" => Account!Init
    BY DEF ServiceInit
  <2> QED
    BY <1>0, <2>1, AccountInitType, ExistingInit, AffordInit, RoleInit DEF AccountsOK
<1>3. StewardsOK
  <2>1. service = "stewards" => Office!Init
    BY DEF ServiceInit
  <2> QED
    BY <1>0, <2>1, OfficeInitType, OfficeInit DEF StewardsOK
<1>4. ModelsOK
  <2>1. service = "models" => Display!Init
    BY DEF ServiceInit
  <2>2. Display!Init => Display!BehindOnlyIfExcused
    BY DEF Display!Init, Display!BehindOnlyIfExcused
  <2> QED
    BY <1>0, <2>1, <2>2, DisplayInitType DEF ModelsOK
<1> QED
  BY <1>1, <1>2, <1>3, <1>4 DEF ServiceInv

LEMMA ServiceInvStep == ServiceInv /\ [ServiceNext]_serviceVars => ServiceInv'
<1> SUFFICES ASSUME ServiceInv, [ServiceNext]_serviceVars
             PROVE  ServiceInv'
  OBVIOUS
<1>0. ConstantsOK /\ Account!ConstantsOK /\ Display!ConstantsOK /\ Office!ConstantsOK
  BY ServiceAssumption
<1>1. /\ service' = service /\ [Next]_vars
      /\ service = "accounts" => [Account!Next]_accounts
      /\ service = "models" => [Display!Next]_models
      /\ service = "stewards" => [Office!Next]_stewards
  BY ServiceSteps
<1>2. TypeOK'
  BY <1>0, <1>1, StepType DEF ServiceInv
<1>3. AccountsOK'
  BY <1>0, <1>1, AccountStepType, CreatingStep, ExistingStep, RefundsStep, ExplainedStep,
     AffordStep, RoleStep DEF ServiceInv, AccountsOK
<1>4. StewardsOK'
  BY <1>1, OfficeStepType, OfficeStep DEF ServiceInv, StewardsOK
<1>5. ModelsOK'
  BY <1>0, <1>1, DisplayStep DEF ServiceInv, ModelsOK
<1> QED
  BY <1>2, <1>3, <1>4, <1>5 DEF ServiceInv

(* Whatever runs, its fields stay in their sets: no request writes a row it has not read, no  *)
(* row is held by a closed transaction, and no snapshot is ahead of the committed rows.       *)
THEOREM ServiceTypeCorrect == ServiceSpec => []ServiceTypeOK
<1>1. ServiceInv => ServiceTypeOK
  BY DEF ServiceInv, AccountsOK, StewardsOK, ModelsOK, ServiceTypeOK
<1> QED
  BY <1>1, ServiceInvInit, ServiceInvStep, PTL DEF ServiceSpec

(* CreateMarket, ApproveProposedMarket and RejectProposedMarket: a proposal is paid for before *)
(* it exists and refunded at most once, for any number of overlapping requests; the debt       *)
(* limit and the balance give way only to the overlaps that the history names.                 *)
THEOREM ProposalsPaidOnce == ServiceSpec => []ProposalPaidOnce
<1>1. ServiceInv => ProposalPaidOnce
  BY ServiceAssumption, PaidOnceHolds DEF ServiceInv, AccountsOK, ProposalPaidOnce
<1> QED
  BY <1>1, ServiceInvInit, ServiceInvStep, PTL DEF ServiceSpec

(* updateUserProfile and the stewardship audit: the role is what its audit tells, the audits   *)
(* form a chain, and a resolved market changes hands only by requests that overlapped.        *)
THEOREM AuditsStayTrue == ServiceSpec => []AuditsAreTrue
<1>1. ServiceInv => AuditsAreTrue
  BY DEF ServiceInv, AccountsOK, StewardsOK, AuditsAreTrue
<1> QED
  BY <1>1, ServiceInvInit, ServiceInvStep, PTL DEF ServiceSpec

(* The invalidation of the display snapshots: one that counts as fresh misses a row only if a  *)
(* mark is due, was lost, or the snapshot was overtaken.                                       *)
THEOREM AlwaysExcused == ServiceSpec => []BehindOnlyIfExcused
<1>1. ServiceInv => BehindOnlyIfExcused
  BY DEF ServiceInv, ModelsOK, BehindOnlyIfExcused
<1> QED
  BY <1>1, ServiceInvInit, ServiceInvStep, PTL DEF ServiceSpec

(* Whatever else the service does, its resolutions are those of Resolution: what is proved of *)
(* them alone holds in the service.                                                          *)
THEOREM ServiceRunsResolution == ServiceSpec => Spec
<1>1. ServiceInit => Init
  BY DEF ServiceInit
<1>2. [ServiceNext]_serviceVars => [Next]_vars
  BY ServiceSteps
<1> QED
  BY <1>1, <1>2, PTL DEF ServiceSpec, Spec

(* In the service too a market is settled twice only by requests that overlap, a balance is    *)
(* explained, and a resolved group leaves no answer open but one approved meanwhile.          *)
THEOREM ResolutionsInService ==
    ServiceSpec => [](TwiceOnlyByOverlap /\ BalanceExplained /\ GroupIsWhole)
<1>1. ConstantsOK
  BY ServiceAssumption
<1>2. Spec => []TwiceOnlyByOverlap
  BY <1>1, TwiceOnlyByOverlapAlways
<1>3. Spec => []BalanceExplained
  BY <1>1, BalanceAlwaysExplained
<1>4. Spec => []GroupIsWhole
  BY <1>1, GroupAlwaysWhole
<1> QED
  BY <1>2, <1>3, <1>4, ServiceRunsResolution, PTL
=============================================================================
