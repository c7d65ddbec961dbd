---------------------------- MODULE StewardChange ----------------------------
(***************************************************************************)
(* A market changes its steward while it may be resolved                      *)
(* (backend/internal/domain/markets/market_stewardship.go).                   *)
(*                                                                         *)
(* A request reads the market, then checks a moderator, then writes.  The      *)
(* update of the steward and its audit are one transaction, without a          *)
(* condition on what was read.                                              *)
(***************************************************************************)
EXTENDS Integers, Sequences

CONSTANTS Workers, None, Moderators, Admin, Creator,
          MaxSuspensions     \* bound

VARIABLES market,      \* the steward, and the requests that resolved it
          active,      \* the moderators who are not suspended
          trail,       \* the audits of the market, and by which request
          work,        \* [Workers -> the request, what it read and where it is]
          suspensions,
          profits,     \* history: who got the work profit
          before,      \* history: [worker -> the requests that ended before it began]
          caught       \* history: [worker -> who was suspended while it was under way]

vars == <<market, active, trail, work, suspensions, profits, before, caught>>

Idle == [phase |-> "idle", kind |-> None, who |-> None, steward |-> None]

Init ==
    /\ market = [steward |-> Creator, resolvers |-> {}]
    /\ active = Moderators
    /\ trail = <<>> /\ profits = {} /\ suspensions = 0
    /\ work = [w \in Workers |-> Idle]
    /\ before = [w \in Workers |-> {}] /\ caught = [w \in Workers |-> {}]
-----------------------------------------------------------------------------
In(w, kind, phase) == work[w].kind = kind /\ work[w].phase = phase
Moves(w, phase)    == work' = [work EXCEPT ![w].phase = phase]
UnderWay           == {w \in Workers : work[w].phase \notin {"idle", "done"}}

(* The market is read: whom the request is about and the steward it found. *)
Read(w, kind, who) ==
    /\ work[w].phase = "idle"
    /\ work' = [work EXCEPT ![w] = [phase |-> "check", kind |-> kind, who |-> who,
                                    steward |-> market.steward]]
    /\ before' = [before EXCEPT ![w] = {v \in Workers : work[v].phase = "done"}]
    /\ UNCHANGED <<market, active, trail, suspensions, profits, caught>>

(* Mutant of ReassignRead: a resolved market changes its steward too. *)
ReassignReadAlways(w, m) == Read(w, "reassign", m)

ReassignRead(w, m) == market.resolvers = {} /\ Read(w, "reassign", m)

(* validateAssignableSteward; who is the steward already needs no change. *)
ReassignCheck(w) ==
    /\ In(w, "reassign", "check")
    /\ work[w].who \in active /\ work[w].who # work[w].steward
    /\ Moves(w, "update")
    /\ UNCHANGED <<market, active, trail, suspensions, profits, before, caught>>

Reassign(w) ==
    /\ In(w, "reassign", "update")
    /\ market' = [market EXCEPT !.steward = work[w].who]
    /\ trail' = Append(trail, [from |-> work[w].steward, to |-> work[w].who, by |-> w,
                               late |-> market.resolvers, suspended |-> work[w].who \notin active])
    /\ Moves(w, "done")
    /\ UNCHANGED <<active, suspensions, profits, before, caught>>

ResolveRead(w, who) == market.resolvers = {} /\ Read(w, "resolve", who)

(* ensureMarketGovernanceActor: an administrator, or the steward, if active. *)
ResolveCheck(w) ==
    /\ In(w, "resolve", "check")
    /\ work[w].who = Admin \/ (work[w].who = work[w].steward /\ work[w].who \in active)
    /\ Moves(w, "update")
    /\ UNCHANGED <<market, active, trail, suspensions, profits, before, caught>>

Resolve(w) ==
    /\ In(w, "resolve", "update")
    /\ market' = [market EXCEPT !.resolvers = @ \union {w}]
    /\ Moves(w, "profit")
    /\ UNCHANGED <<active, trail, suspensions, profits, before, caught>>

(* The steward that was read gets the work profit. *)
PayProfit(w) ==
    /\ In(w, "resolve", "profit")
    /\ profits' = profits \union {[to |-> work[w].steward, by |-> w, steward |-> market.steward]}
    /\ Moves(w, "done")
    /\ UNCHANGED <<market, active, trail, suspensions, before, caught>>

Fail(w) ==
    /\ w \in UnderWay
    /\ Moves(w, "done")
    /\ UNCHANGED <<market, active, trail, suspensions, profits, before, caught>>

(* SuspendModerator and UnsuspendModerator (Accounts). *)
Suspend(m) ==
    /\ suspensions < MaxSuspensions /\ m \in active
    /\ suspensions' = suspensions + 1 /\ active' = active \ {m}
    /\ caught' = [w \in Workers |-> IF w \in UnderWay THEN caught[w] \union {m} ELSE caught[w]]
    /\ UNCHANGED <<market, trail, work, profits, before>>

Unsuspend(m) ==
    /\ m \in Moderators \ active /\ active' = active \union {m}
    /\ UNCHANGED <<market, trail, work, suspensions, profits, before, caught>>

Next ==
    \/ \E w \in Workers :
           \/ \E m \in Moderators : ReassignRead(w, m)
           \/ \E who \in Moderators \union {Admin} : ResolveRead(w, who)
           \/ ReassignCheck(w) \/ Reassign(w)
           \/ ResolveCheck(w) \/ Resolve(w) \/ PayProfit(w) \/ Fail(w)
    \/ \E m \in Moderators : Suspend(m) \/ Unsuspend(m)

Spec == Init /\ [][Next]_vars
-----------------------------------------------------------------------------
Phases  == {"idle", "check", "update", "profit", "done"}
Actors  == Moderators \union {Admin}
Request == [phase : Phases, kind : {"reassign", "resolve"}, who : Actors, steward : Moderators]
Audit   == [from : Moderators, to : Moderators, by : Workers, late : SUBSET Workers,
            suspended : BOOLEAN]

ConstantsOK == Creator \in Moderators

(* The fields stay in their sets; a market is reassigned to a moderator. *)
TypeOK ==
    /\ market \in [steward : Moderators, resolvers : SUBSET Workers]
    /\ active \subseteq Moderators /\ suspensions \in Nat
    /\ trail \in Seq(Audit)
    /\ work \in [Workers -> Request \union {Idle}]
    /\ \A w \in UnderWay : work[w].kind = "reassign" => work[w].who \in Moderators
    /\ profits \subseteq [to : Moderators, by : Workers, steward : Moderators]
    /\ before \in [Workers -> SUBSET Workers]
    /\ caught \in [Workers -> SUBSET Moderators]

Overlapped(v, w) == v \notin before[w] /\ w \notin before[v]

(* The trail of audits ends at the steward of the market, and each audit starts where the    *)
(* one before it ended unless the two requests overlapped: the audit tells what was read.   *)
TrailIsLinked ==
    /\ market.steward = IF trail = <<>> THEN Creator ELSE trail[Len(trail)].to
    /\ \A i \in 2..Len(trail) :
           trail[i].from # trail[i - 1].to => Overlapped(trail[i].by, trail[i - 1].by)

(* A resolved market changes its steward, the work profit goes to one who is not the steward  *)
(* any more, and a suspended moderator becomes the steward, only if the requests overlapped.  *)
StewardOnlyByOverlap ==
    /\ \A i \in 1..Len(trail) :
           /\ \A w \in trail[i].late : Overlapped(w, trail[i].by)
           /\ trail[i].suspended => trail[i].to \in caught[trail[i].by]
    /\ \A p \in profits :
           p.to # p.steward => \E i \in 1..Len(trail) : Overlapped(p.by, trail[i].by)
-----------------------------------------------------------------------------
(* The inductive invariants behind these properties.                         *)

(* Who counts as ended has ended, and what a request reads as open was resolved by none of those. *)
EndedBefore ==
    \A w \in Workers : /\ \A v \in before[w] : work[v].phase = "done"
                       /\ market.resolvers \intersect before[w] = {}

(* Whoever resolved the market, changed its steward or was paid for it has begun. *)
Named == market.resolvers \union {trail[i].by : i \in 1..Len(trail)} \union {p.by : p \in profits}

Acted ==
    /\ \A w \in Named : work[w].phase # "idle"
    /\ \A i \in 1..Len(trail) : trail[i].late \subseteq market.resolvers

(* The trail ends at the steward; a steward that has changed since it was read was changed *)
(* by a request that had not ended then.                                                     *)
Last == trail[Len(trail)]

ReadIsRecent ==
    /\ market.steward = IF trail = <<>> THEN Creator ELSE Last.to
    /\ \A w \in UnderWay :
           work[w].steward # market.steward => trail # <<>> /\ Last.by \notin before[w]

(* Who was found active may be suspended while the request is under way, and not before. *)
FoundActive ==
    \A w \in Workers : In(w, "reassign", "update") => work[w].who \in active \union caught[w]
=============================================================================
