----------------------------- MODULE ReadModels -----------------------------
(***************************************************************************)
(* The display snapshots of a market: its accounting, positions and           *)
(* leaderboard (backend/internal/domain/markets, .../repository/markets,       *)
(* backend/internal/app/readmodelinvalidation).                              *)
(*                                                                         *)
(* A snapshot is computed when it is read and is missing or stale.  A trade    *)
(* commits, is answered, and only then marks the snapshots, one statement      *)
(* each; an error, or a reader who hangs up, ends that and is only logged.     *)
(***************************************************************************)
EXTENDS Naturals

CONSTANTS Workers, None,
          Snapshots,    \* the kinds of snapshot
          MaxTrades, MaxReads     \* bounds

VARIABLES bets,       \* how many bet rows of the market are committed
          snapshot,   \* [Snapshots -> None, or the rows it was computed from and is_stale]
          work,       \* [Workers -> the request and where it is]
          reads,
          excuse      \* history: [Snapshots -> why a fresh snapshot may be behind, or None]

vars == <<bets, snapshot, work, reads, excuse>>

Idle == [phase |-> "idle", of |-> {}, computed |-> None]

Init ==
    /\ bets = 0
    /\ snapshot = [s \in Snapshots |-> None]
    /\ work = [w \in Workers |-> Idle]
    /\ reads = 0
    /\ excuse = [s \in Snapshots |-> None]

Moves(w, record) == work' = [work EXCEPT ![w] = record]
-----------------------------------------------------------------------------
(* Mutant of TradeCommit: the handler does not invalidate. *)
TradeCommitSilently(w) ==
    /\ work[w] = Idle /\ bets < MaxTrades
    /\ bets' = bets + 1
    /\ UNCHANGED <<snapshot, work, reads, excuse>>

(* A bet, a sale or a resolution is committed and answered. *)
TradeCommit(w) ==
    /\ work[w] = Idle /\ bets < MaxTrades
    /\ bets' = bets + 1
    /\ Moves(w, [Idle EXCEPT !.phase = "mark", !.of = Snapshots])
    /\ UNCHANGED <<snapshot, reads, excuse>>

(* A missing snapshot is left missing; a row is marked whatever it holds. *)
Mark(w, s) ==
    /\ work[w].phase = "mark" /\ s \in work[w].of
    /\ IF snapshot[s] = None THEN UNCHANGED <<snapshot, excuse>>
       ELSE /\ snapshot' = [snapshot EXCEPT ![s].stale = TRUE]
            /\ excuse' = [excuse EXCEPT ![s] = None]
    /\ Moves(w, IF work[w].of = {s} THEN Idle ELSE [work[w] EXCEPT !.of = @ \ {s}])
    /\ UNCHANGED <<bets, reads>>

MarksLost(w) ==
    /\ work[w].phase = "mark"
    /\ excuse' = [s \in Snapshots |-> IF s \in work[w].of THEN "unmarked" ELSE excuse[s]]
    /\ Moves(w, Idle)
    /\ UNCHANGED <<bets, snapshot, reads>>
-----------------------------------------------------------------------------
(* A reader finds the snapshot missing or stale, and lists the rows. *)
Compute(w, s) ==
    /\ work[w] = Idle /\ reads < MaxReads
    /\ snapshot[s] # None => snapshot[s].stale
    /\ reads' = reads + 1
    /\ Moves(w, [phase |-> "upsert", of |-> {s}, computed |-> bets])
    /\ UNCHANGED <<bets, snapshot, excuse>>

(* What it computed is written, and the mark cleared, unconditionally. *)
Upsert(w, s) ==
    /\ work[w].phase = "upsert" /\ s \in work[w].of
    /\ snapshot' = [snapshot EXCEPT ![s] = [rows |-> work[w].computed, stale |-> FALSE]]
    /\ excuse' = [excuse EXCEPT ![s] = IF work[w].computed = bets THEN None ELSE "overtaken"]
    /\ Moves(w, Idle)
    /\ UNCHANGED <<bets, reads>>

Next ==
    \E w \in Workers :
        \/ TradeCommit(w) \/ MarksLost(w)
        \/ \E s \in Snapshots : Mark(w, s) \/ Compute(w, s) \/ Upsert(w, s)

Spec == Init /\ [][Next]_vars
-----------------------------------------------------------------------------
ConstantsOK ==
    /\ None \notin {"unmarked", "overtaken"} /\ None \notin [rows : Nat, stale : BOOLEAN]
    /\ MaxTrades \in Nat /\ MaxReads \in Nat

(* The fields stay in their sets; no snapshot is ahead of the rows, nor is one about to be. *)
TypeOK ==
    /\ bets \in 0..MaxTrades /\ reads \in 0..MaxReads
    /\ snapshot \in [Snapshots -> [rows : 0..bets, stale : BOOLEAN] \union {None}]
    /\ work \in [Workers -> [phase : {"idle", "mark", "upsert"}, of : SUBSET Snapshots,
                             computed : 0..bets \union {None}]]
    /\ \A w \in Workers : work[w].phase = "upsert" => work[w].computed \in 0..bets
    /\ excuse \in [Snapshots -> {"unmarked", "overtaken", None}]

(* A snapshot that counts as fresh and misses rows has one of three excuses: the mark of a   *)
(* committed trade is still to come, it was lost, or the snapshot was computed before the    *)
(* trade and written after it, over the mark or over none.                                  *)
BehindOnlyIfExcused ==
    \A s \in Snapshots :
        (snapshot[s] # None /\ ~snapshot[s].stale /\ snapshot[s].rows # bets) =>
            \/ excuse[s] # None
            \/ \E w \in Workers : work[w].phase = "mark" /\ s \in work[w].of
=============================================================================
