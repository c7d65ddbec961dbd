------------------------------ MODULE Accounts ------------------------------
(***************************************************************************)
(* The account of a moderator outside of betting: what proposals cost and get *)
(* back, and the role, which is kept in the same row                          *)
(* (backend/internal/domain/users, backend/internal/domain/markets).          *)
(*                                                                         *)
(* None of these requests is a transaction.  Each reads what it needs, and     *)
(* writes a balance, or the whole row of the user, as it computed it; it may   *)
(* fail between any two statements.  Betting locks the row (Trade).           *)
(***************************************************************************)
EXTENDS Integers

CONSTANTS Workers, None, Proposals,
          Cost, MaxDebt, InitialBalance,
          Swings, MaxTrades     \* bound: what trading does to the balance, and how often

VARIABLES user,       \* the row: account_balance, moderator_status and the profile
          market,     \* [Proposals -> lifecycle_status, None before it is created]
          audit,      \* the status the latest moderator audit tells of
          work,       \* [Workers -> the request and where it is]
          trades,
          story       \* history, see Init

vars == <<user, market, audit, work, trades, story>>

Lifecycle == {"proposed", "published", "rejected", "resolved"}
Idle == [phase |-> "idle", kind |-> None, market |-> None, row |-> None]

Init ==
    /\ user = [balance |-> InitialBalance, status |-> "active", profile |-> "old"]
    /\ market \in [Proposals -> {None, "proposed"}]
    /\ audit = "active"
    /\ work = [w \in Workers |-> Idle]
    /\ trades = 0
    /\ story = [ledger |-> InitialBalance,   \* what the balance should be
                raced |-> FALSE,             \* a balance was written over a newer one
                crowded |-> FALSE,           \* a creation overlapped a creation or a trade
                mixed |-> FALSE,             \* a change of the role, and another save
                unaudited |-> FALSE,         \* a change failed before its audit
                charged |-> {p \in Proposals : market[p] # None}, approved |-> {},
                refunds |-> [p \in Proposals |-> 0]]
-----------------------------------------------------------------------------
Roles == {"suspend", "unsuspend", "promote"}
Saves == Roles \union {"profile"}
Busy(kinds) == {w \in Workers : work[w].phase \notin {"idle", "done"} /\ work[w].kind \in kinds}

In(w, kind, phase) == work[w].kind = kind /\ work[w].phase = phase
Moves(w, record)   == work' = [work EXCEPT ![w] = record]
Ends(w)            == Moves(w, [work[w] EXCEPT !.phase = "done", !.row = None])

Begin(w, kind, phase, p) ==
    /\ work[w].phase = "idle"
    /\ Moves(w, [phase |-> phase, kind |-> kind, market |-> p, row |-> None])
    /\ story' = [story EXCEPT
           !.crowded = @ \/ (kind = "create" /\ Busy({"create"}) # {}),
           !.mixed = @ \/ (kind \in Saves /\ Busy(Saves) # {}
                             /\ (kind \in Roles \/ Busy(Roles) # {}))]
    /\ UNCHANGED <<user, market, audit, trades>>

(* An error or a crash: what was written stays. *)
Fail(w) ==
    /\ work[w].phase \notin {"idle", "done"}
    /\ Ends(w)
    /\ story' = [story EXCEPT !.unaudited = @ \/ work[w].phase = "audit"]
    /\ UNCHANGED <<user, market, audit, trades>>

(* The balance a request read and changed is written back. *)
WriteBalance(w, amount, s) ==
    /\ user' = [user EXCEPT !.balance = work[w].row.balance + amount]
    /\ story' = [s EXCEPT !.ledger = @ + amount,
                          !.raced = @ \/ work[w].row.balance # user.balance]

ReadRow(w, phase) ==
    /\ Moves(w, [work[w] EXCEPT !.phase = phase, !.row = user])
    /\ UNCHANGED <<user, market, audit, trades, story>>
-----------------------------------------------------------------------------
(* CreateMarket (p stands for one such request): the role is checked, then the balance, then it is charged,   *)
(* then the market inserted, each on its own.                                *)
CreateBegin(w, p) ==
    /\ market[p] = None /\ user.status = "active"
    /\ \A v \in Workers : work[v].market # p
    /\ Begin(w, "create", "validate", p)

CreateValidate(w) ==
    /\ In(w, "create", "validate") /\ user.balance - Cost >= -MaxDebt
    /\ Moves(w, [work[w] EXCEPT !.phase = "read"])
    /\ UNCHANGED <<user, market, audit, trades, story>>

CreateRead(w) == In(w, "create", "read") /\ ReadRow(w, "charge")

CreateCharge(w) ==
    /\ In(w, "create", "charge")
    /\ WriteBalance(w, -Cost, [story EXCEPT !.charged = @ \union {work[w].market}])
    /\ Moves(w, [work[w] EXCEPT !.phase = "insert"])
    /\ UNCHANGED <<market, audit, trades>>

(* Published at once where no approval is required or proposals are approved automatically. *)
CreateInsert(w) ==
    /\ In(w, "create", "insert")
    /\ \E l \in {"proposed", "published"} : market' = [market EXCEPT ![work[w].market] = l]
    /\ Ends(w)
    /\ UNCHANGED <<user, audit, trades, story>>
-----------------------------------------------------------------------------
(* ApproveProposedMarket and RejectProposedMarket: the update is of a proposed *)
(* market or the request fails, the refund follows on its own.                *)
ReviewBegin(w, kind, p) ==
    /\ market[p] = "proposed"
    /\ Begin(w, kind, "update", p)

Approve(w) ==
    LET p == work[w].market IN
    /\ In(w, "approve", "update") /\ market[p] = "proposed"
    /\ market' = [market EXCEPT ![p] = "published"]
    /\ story' = [story EXCEPT !.approved = @ \union {p}]
    /\ Ends(w)
    /\ UNCHANGED <<user, audit, trades>>

(* Mutant of Reject: the update has no condition. *)
RejectAlways(w) ==
    /\ In(w, "reject", "update")
    /\ market' = [market EXCEPT ![work[w].market] = "rejected"]
    /\ Moves(w, [work[w] EXCEPT !.phase = "read"])
    /\ UNCHANGED <<user, audit, trades, story>>

Reject(w) ==
    /\ In(w, "reject", "update") /\ market[work[w].market] = "proposed"
    /\ market' = [market EXCEPT ![work[w].market] = "rejected"]
    /\ Moves(w, [work[w] EXCEPT !.phase = "read"])
    /\ UNCHANGED <<user, audit, trades, story>>

RefundRead(w) == In(w, "reject", "read") /\ ReadRow(w, "refund")

RefundWrite(w) ==
    /\ In(w, "reject", "refund")
    /\ WriteBalance(w, Cost, [story EXCEPT !.refunds[work[w].market] = @ + 1])
    /\ Ends(w)
    /\ UNCHANGED <<market, audit, trades>>

(* ResolveMarket of a market without bets: any state but resolved will do. *)
ResolveBegin(w, p) ==
    /\ market[p] \in {"proposed", "published", "rejected"}
    /\ Begin(w, "resolve", "update", p)

Resolve(w) ==
    /\ In(w, "resolve", "update")
    /\ market' = [market EXCEPT ![work[w].market] = "resolved"]
    /\ Ends(w)
    /\ UNCHANGED <<user, audit, trades, story>>
-----------------------------------------------------------------------------
(* updateUserProfile: the whole row is read, changed in memory and saved.     *)
SaveBegin(w, kind) == Begin(w, kind, "read", None)

SaveRead(w) ==
    /\ \E kind \in Saves : In(w, kind, "read")
    /\ ReadRow(w, "save")

(* Mutant of Saved: an unsuspended moderator keeps the suspension. *)
SavedSuspended(w) ==
    CASE work[w].kind = "profile" -> [work[w].row EXCEPT !.profile = "new"]
      [] OTHER                    -> [work[w].row EXCEPT !.status = "suspended"]

Saved(w) ==
    CASE work[w].kind = "profile" -> [work[w].row EXCEPT !.profile = "new"]
      [] work[w].kind = "suspend" -> [work[w].row EXCEPT !.status = "suspended"]
      [] OTHER                    -> [work[w].row EXCEPT !.status = "active"]

(* What the audit of a change will tell. *)
Told(w) == IF work[w].kind = "suspend" THEN "suspended" ELSE "active"

Save(w) ==
    /\ \E kind \in Saves : In(w, kind, "save")
    /\ user' = Saved(w)
    /\ story' = [story EXCEPT !.raced = @ \/ work[w].row.balance # user.balance]
    /\ IF work[w].kind = "profile" THEN Ends(w)
       ELSE Moves(w, [work[w] EXCEPT !.phase = "audit"])
    /\ UNCHANGED <<market, audit, trades>>

WriteAudit(w) ==
    /\ work[w].phase = "audit"
    /\ audit' = Told(w)
    /\ Ends(w)
    /\ UNCHANGED <<user, market, trades, story>>

(* A bet or a sale, in its transaction. *)
Trade(swing) ==
    /\ trades < MaxTrades /\ user.balance + swing >= -MaxDebt
    /\ trades' = trades + 1
    /\ user' = [user EXCEPT !.balance = @ + swing]
    /\ story' = [story EXCEPT !.ledger = @ + swing, !.crowded = @ \/ Busy({"create"}) # {}]
    /\ UNCHANGED <<market, audit, work>>

Step(w) ==
    \/ \E p \in Proposals : CreateBegin(w, p) \/ ResolveBegin(w, p)
    \/ \E p \in Proposals, kind \in {"approve", "reject"} : ReviewBegin(w, kind, p)
    \/ \E kind \in Saves : SaveBegin(w, kind)
    \/ CreateValidate(w) \/ CreateRead(w) \/ CreateCharge(w) \/ CreateInsert(w)
    \/ Approve(w) \/ Reject(w) \/ RefundRead(w) \/ RefundWrite(w) \/ Resolve(w)
    \/ SaveRead(w) \/ Save(w) \/ WriteAudit(w) \/ Fail(w)

Next == (\E w \in Workers : Step(w)) \/ \E s \in Swings : Trade(s)

Spec == Init /\ [][Next]_vars
-----------------------------------------------------------------------------
Kinds  == {"create", "approve", "reject", "resolve"} \union Saves
Phases == {"idle", "validate", "read", "charge", "insert", "update", "refund", "save", "audit", "done"}
Row    == [balance : Int, status : {"active", "suspended"}, profile : {"old", "new"}]
Request == [phase : Phases, kind : Kinds \union {None}, market : Proposals \union {None},
            row : Row \union {None}]

(* What a request holds when it has chosen its kind: its proposal, and a row it has read.     *)
Holds(request) ==
    /\ request.kind \in {"create", "approve", "reject", "resolve"} => request.market \in Proposals
    /\ request.kind \in Saves => request.market = None
    /\ request.phase \in {"charge", "refund", "save"} => request.row \in Row

ConstantsOK ==
    /\ None \notin Proposals /\ None \notin Lifecycle
    /\ Cost \in Nat /\ MaxDebt \in Nat /\ Swings \subseteq Int
    /\ InitialBalance \in Int /\ InitialBalance >= -MaxDebt

(* The fields stay in their sets, and a request that writes a row has read one. *)
TypeOK ==
    /\ user \in Row
    /\ market \in [Proposals -> Lifecycle \union {None}]
    /\ audit \in {"active", "suspended"}
    /\ work \in [Workers -> Request]
    /\ \A w \in Workers : work[w].phase # "idle" => Holds(work[w])
    /\ trades \in Nat
    /\ story \in [ledger : Int, raced : BOOLEAN, crowded : BOOLEAN, mixed : BOOLEAN,
                  unaudited : BOOLEAN, charged : SUBSET Proposals, approved : SUBSET Proposals,
                  refunds : [Proposals -> Nat]]

(* A proposal exists only if it was paid for, is refunded at most once, and never when it   *)
(* was approved, although the refund and the review are separate statements and reviews      *)
(* overlap each other and a resolution, which takes a proposal too.                        *)
ProposalPaidOnce ==
    \A p \in Proposals :
        /\ market[p] # None => p \in story.charged
        /\ story.refunds[p] <= (IF p \in story.approved \/ market[p] = "published" THEN 0 ELSE 1)

(* The debt limit is kept unless a creation overlapped a creation or a trade, which it does   *)
(* not lock out between its check and its charge, or a balance was written over a newer one.  *)
DebtOnlyByOverlap == user.balance < -MaxDebt => story.crowded \/ story.raced

(* A balance is what was charged, refunded and traded, unless it was written over a newer    *)
(* one, by a charge, a refund or a save of the whole row that had read the older.            *)
BalanceExplained == story.raced \/ user.balance = story.ledger

(* The role is the one the latest audit tells of, unless that audit is due or was never       *)
(* written, or a change of the role overlapped another save of the row: a save of the profile *)
(* puts back the role it has read, and no audit tells.                                       *)
RoleIsAudited ==
    \/ user.status = audit
    \/ story.mixed \/ story.unaudited
    \/ \E w \in Workers : work[w].phase = "audit"
-----------------------------------------------------------------------------
(* The inductive invariants behind these properties.                         *)

(* Who creates a proposal is the only one to know it, and inserts it after the charge. *)
Creating ==
    \A w \in Busy({"create"}) :
        /\ market[work[w].market] = None
        /\ \A v \in Workers \ {w} : work[v].phase # "idle" => work[v].market # work[w].market
        /\ work[w].phase = "insert" => work[w].market \in story.charged

(* What exists was paid for, and what is resolved exists. *)
Existing ==
    /\ \A p \in Proposals : market[p] # None => p \in story.charged
    /\ \A w \in Busy({"resolve"}) : market[work[w].market] # None

Refunding(p) == {w \in Workers : /\ work[w].kind = "reject" /\ work[w].market = p
                                 /\ work[w].phase \in {"read", "refund"}}

(* A rejection leaves the state it needs for ever, so only one refunds a proposal. *)
Refunds ==
    \A p \in Proposals :
        /\ p \in story.approved => market[p] \in {"published", "resolved"}
        /\ Refunding(p) # {} \/ story.refunds[p] # 0 =>
               market[p] \in {"rejected", "resolved"} /\ p \notin story.approved
        /\ Refunding(p) # {} => story.refunds[p] = 0
        /\ \A v, w \in Refunding(p) : v = w
        /\ story.refunds[p] <= 1

(* A creation that has passed its check still passes it, unless others came between. *)
Afford ==
    \/ story.crowded \/ story.raced
    \/ /\ \A v, w \in Busy({"create"}) : v = w
       /\ \A w \in Busy({"create"}) :
             work[w].phase \in {"read", "charge"} => user.balance - Cost >= -MaxDebt

(* Only changes of the role are audited; one that overlaps no other save is alone in writing it. *)
RoleKept ==
    /\ \A w \in Workers : work[w].phase = "audit" => work[w].kind \in Roles
    /\ \/ story.mixed
       \/ /\ \A w \in Busy(Roles) : Busy(Saves) = {w}
          /\ \A w \in Busy({"profile"}) : work[w].phase = "save" => work[w].row.status = user.status
          /\ \A w \in Busy(Roles) : work[w].phase = "audit" => user.status = Told(w)

=============================================================================
