------------------------------ MODULE Service ------------------------------
(***************************************************************************)
(* What the service does outside of betting: it resolves markets and groups,  *)
(* keeps accounts, roles and stewards, and refreshes what is displayed.  They   *)
(* meet only in balances and roles, which each sees changed by the others, so   *)
(* one of them runs at a time.  The variables of the others are None; those of   *)
(* Resolution, which is extended, stay as they begin.                           *)
(***************************************************************************)
EXTENDS Resolution

CONSTANTS Clerks, Proposals, Price, Limit, StartBalance, Gains, MaxGains,    \* Accounts
          Visitors, Snapshots, MaxRows, MaxReads,                            \* ReadModels
          Officers, Moderators, Admin, Creator, MaxSuspensions               \* StewardChange

VARIABLES service,          \* which of them runs
          user, market, audit, tasks, swings, story,
          bets, snapshot, jobs, reads, excuse,
          stewarded, active, trail, duties, suspensions, profits, earlier, caught

accounts    == <<user, market, audit, tasks, swings, story>>
models      == <<bets, snapshot, jobs, reads, excuse>>
stewards    == <<stewarded, active, trail, duties, suspensions, profits, earlier, caught>>
serviceVars == <<service, vars, accounts, models, stewards>>

Account == INSTANCE Accounts WITH
    work <- tasks, trades <- swings, Workers <- Clerks, Cost <- Price, MaxDebt <- Limit,
    InitialBalance <- StartBalance, Swings <- Gains, MaxTrades <- MaxGains
Display == INSTANCE ReadModels WITH
    work <- jobs, Workers <- Visitors, MaxTrades <- MaxRows
Office == INSTANCE StewardChange WITH
    market <- stewarded, work <- duties, before <- earlier, Workers <- Officers

ASSUME ServiceAssumption ==
    ConstantsOK /\ Account!ConstantsOK /\ Display!ConstantsOK /\ Office!ConstantsOK
-----------------------------------------------------------------------------
NoAccounts ==
    /\ user = None /\ market = None /\ audit = None /\ tasks = None /\ swings = None
    /\ story = None

NoModels == bets = None /\ snapshot = None /\ jobs = None /\ reads = None /\ excuse = None

NoStewards ==
    /\ stewarded = None /\ active = None /\ trail = None /\ duties = None
    /\ suspensions = None /\ profits = None /\ earlier = None /\ caught = None

ServiceInit ==
    /\ Init
    /\ \/ service = "resolution" /\ NoAccounts /\ NoModels /\ NoStewards
       \/ service = "accounts" /\ Account!Init /\ NoModels /\ NoStewards
       \/ service = "models" /\ NoAccounts /\ Display!Init /\ NoStewards
       \/ service = "stewards" /\ NoAccounts /\ NoModels /\ Office!Init

ServiceNext ==
    /\ \/ service = "resolution" /\ Next /\ UNCHANGED <<accounts, models, stewards>>
       \/ service = "accounts" /\ Account!Next /\ UNCHANGED <<vars, models, stewards>>
       \/ service = "models" /\ Display!Next /\ UNCHANGED <<vars, accounts, stewards>>
       \/ service = "stewards" /\ Office!Next /\ UNCHANGED <<vars, accounts, models>>
    /\ UNCHANGED service

ServiceSpec == ServiceInit /\ [][ServiceNext]_serviceVars
-----------------------------------------------------------------------------
(* The types of the four, each stated in its module. *)
ServiceTypeOK ==
    /\ TypeOK
    /\ service = "accounts" => Account!TypeOK
    /\ service = "models" => Display!TypeOK
    /\ service = "stewards" => Office!TypeOK

(* A proposal exists only if it was paid for and is refunded at most once, never if it was    *)
(* approved; the debt limit gives way only to charges and trades that overlap, and a balance  *)
(* is what was charged, refunded and traded, unless it was written over a newer one.          *)
ProposalPaidOnce ==
    service = "accounts" =>
        Account!ProposalPaidOnce /\ Account!DebtOnlyByOverlap /\ Account!BalanceExplained

(* A role is the one its latest audit tells of, but for overlapping saves and failed audits;  *)
(* the audits of stewards form a chain, and a market that was resolved, or a moderator who     *)
(* was suspended, is given a steward or the office only by requests that overlap.             *)
AuditsAreTrue ==
    /\ service = "accounts" => Account!RoleIsAudited
    /\ service = "stewards" => Office!TrailIsLinked /\ Office!StewardOnlyByOverlap

(* A snapshot that counts as fresh is behind only if a mark is due, was lost or overtaken.     *)
BehindOnlyIfExcused == service = "models" => Display!BehindOnlyIfExcused
=============================================================================
