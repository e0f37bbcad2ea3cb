----------------------------- MODULE ApiServer ------------------------------
(***************************************************************************)
(* The API process as its operators see it: boot, the health monitor's     *)
(* light and full checks, the indexer's passes by their outcome, the one   *)
(* scheduler whose quota cooldown they share, the persisted sync status,   *)
(* and what /ready answers.  What a pass writes is ChainIndexer's subject, *)
(* how a call is scheduled RpcScheduler's, what is answered ReadPath's.    *)
(*                                                                         *)
(* Times are kept as ages, capped one beyond the largest limit they are    *)
(* compared with: the capped value also stands for "never".                *)
(***************************************************************************)
EXTENDS Integers, FiniteSets, FiniteSetsExt

CONSTANTS
    LightInterval,   \* RPC_HEALTH_LIGHT_INTERVAL_MS
    FullInterval,    \* RPC_HEALTH_FULL_INTERVAL_MS
    MaxAge,          \* RPC_HEALTH_MAX_AGE_MS
    ContractMaxAge,  \* RPC_CONTRACT_MAX_AGE_MS
    IndexInterval,   \* INDEXER_INTERVAL_MS
    Cooldown,        \* RPC_HARD_QUOTA_COOLDOWN_MS
    MaxWork,         \* bound: how long a check or a pass may take
    MaxTroubles      \* bound: changes of the provider, the database, and crashes

\* loadConfig: every interval has a least value, and none is compared with another.
Configured ==
    {LightInterval, FullInterval, MaxAge, ContractMaxAge, IndexInterval, Cooldown}
        \subseteq Nat \ {0}

ASSUME ServerAssumption ==
    Configured /\ MaxWork \in Nat \ {0} /\ MaxTroubles \in Nat

VARIABLES
    rpc,          \* the provider: "good", "failing", or its quota is "exhausted"
    wrong,        \* the Relationships that are not as frozen
    database,     \* PostgreSQL answers
    up,           \* the process runs
    enabled,      \* INDEXER_ENABLED
    cooldown,     \* what is left of the scheduler's hard-quota cooldown
    health,       \* the monitor's snapshot
    check,        \* its check in progress, reads left, and the time to its next tick
    index,        \* the indexer's status
    passing,      \* its pass in progress and the time to its next tick
    sync,         \* sync_state: status and age of last_attempt_at
    troubles,     \* bounded by MaxTroubles
    outage,       \* history: how long the provider has not answered
    strayed,      \* history: how long each relationship has not been as frozen
    refuted,      \* history: the last full check of this process failed
    quotaAge      \* history: time since the quota was last met

server == <<up, enabled, cooldown, health, check, index, passing, sync>>
world == <<rpc, wrong, database, troubles>>
history == <<outage, strayed, refuted, quotaAge>>
vars == <<world, server, history>>

-----------------------------------------------------------------------------
(* Ages and limits. *)

Older(age, limit) == Min({age + 1, limit + 1})
Left(time) == IF time = 0 THEN 0 ELSE time - 1

ContractLimit == Max({ContractMaxAge, FullInterval})
CoolingDown == cooldown > 0

Unknown == [state |-> "unknown", rpcAge |-> MaxAge + 1, contractAge |-> ContractLimit + 1]
NotChecking == [kind |-> "none", left |-> {}, runs |-> 0, next |-> 0]
NotIndexed == [successAge |-> MaxAge + 1, error |-> "none"]
NotPassing == [on |-> FALSE, runs |-> 0, next |-> 0]

\* What verifyDeployment compares and can change after the deployment: the chain
\* the provider is on and the registry's default resolver.
Relationships == {"chain", "default_resolver"}

\* The ages the histories are compared with.
Tolerated(r) == MaxWork + IF r = "chain" THEN MaxAge ELSE ContractMaxAge

Init ==
    /\ rpc = "good" /\ wrong = {} /\ database = TRUE /\ troubles = 0
    /\ up = FALSE /\ enabled \in BOOLEAN /\ cooldown = 0
    /\ health = Unknown /\ check = NotChecking
    /\ index = NotIndexed /\ passing = NotPassing
    /\ sync = [status |-> "unknown", attemptAge |-> Cooldown + 1]
    /\ outage = 0 /\ strayed = [r \in Relationships |-> 0] /\ refuted = FALSE /\ quotaAge = Cooldown + 1

-----------------------------------------------------------------------------
(* The process. *)

\* Mutant: the whole cooldown starts again.
RestoredInFull == IF sync.status = "rate_limited" THEN Cooldown ELSE 0
\* server.ts: last_attempt_at plus the cooldown, if the last pass met the quota.
Restored ==
    IF sync.status = "rate_limited" /\ sync.attemptAge <= Cooldown
    THEN Cooldown - sync.attemptAge ELSE 0

\* Migration and the checkpoint need the database; both loops start at once.
Boot ==
    /\ ~up /\ database
    /\ up' = TRUE
    /\ cooldown' = Restored
    /\ UNCHANGED <<world, enabled, health, check, index, passing, sync, history>>

Trouble == troubles < MaxTroubles /\ troubles' = troubles + 1

Crash ==
    /\ up /\ Trouble
    /\ up' = FALSE
    /\ cooldown' = 0 /\ health' = Unknown /\ check' = NotChecking
    /\ index' = NotIndexed /\ passing' = NotPassing
    /\ refuted' = FALSE
    /\ UNCHANGED <<rpc, wrong, database, enabled, sync, outage, strayed, quotaAge>>

-----------------------------------------------------------------------------
(* The health monitor. *)

\* Mutant: full checks follow the age of any success.
DueByAnySuccess == health.rpcAge >= FullInterval
FullDue == health.contractAge >= FullInterval

Failed(limited) == [health EXCEPT !.state = IF limited THEN "rate_limited" ELSE "degraded"]

\* verifyDeployment awaits five reads one after the other: the chain id, the read
\* mode, the registry's config, the resolver's registry, the consumer's. A light
\* check asks for the chain id and a version at once.
ReadsOf(kind) == CASE kind = "full" -> 1 .. 5 [] kind = "light" -> {1, 2} [] OTHER -> {}

\* The reads under way.
Asked == {n \in check.left : check.kind = "full" => \A m \in check.left : n <= m}

\* The reads that would find a relationship that is not as frozen.
Refuted == (IF "chain" \in wrong THEN {1} ELSE {})
             \cup (IF "default_resolver" \in wrong THEN {3} ELSE {})

\* tick(), or start() with its full check: nothing while a check still runs.
CheckTick ==
    /\ up /\ check.next = 0
    /\ LET kind == IF check.kind # "none" THEN check.kind
                   ELSE IF CoolingDown THEN "none"
                   ELSE IF FullDue THEN "full" ELSE "light"
       IN check' = [check EXCEPT !.next = LightInterval, !.kind = kind,
                                 !.left = IF check.kind # "none" THEN @ ELSE ReadsOf(kind)]
    /\ health' = IF check.kind = "none" /\ FullDue /\ CoolingDown THEN Failed(TRUE) ELSE health
    /\ UNCHANGED <<world, up, enabled, cooldown, index, passing, sync, history>>

\* The provider answers a read as it should. A read that has to be asked next
\* would be refused in a cooldown.
CheckReads(n) ==
    /\ n \in Asked
    /\ rpc = "good" /\ n \notin Refuted
    /\ CoolingDown => check.left \subseteq Asked
    /\ check' = [check EXCEPT !.left = @ \ {n}]
    /\ UNCHANGED <<world, up, enabled, cooldown, health, index, passing, sync, history>>

FullSuccess == [state |-> "healthy", rpcAge |-> 0, contractAge |-> 0]
LightSuccess == [health EXCEPT !.state = "healthy", !.rpcAge = 0]

CheckEnds == check' = [check EXCEPT !.kind = "none", !.left = {}, !.runs = 0]

\* The check is stamped with the time at which it ends, not with its reads'.
CheckSucceeds ==
    /\ check.kind # "none" /\ check.left = {}
    /\ health' = IF check.kind = "full" THEN FullSuccess ELSE LightSuccess
    /\ CheckEnds
    /\ refuted' = (refuted /\ check.kind # "full")
    /\ UNCHANGED <<world, up, enabled, cooldown, index, passing, sync, outage, strayed, quotaAge>>

\* The scheduler's part of a call: an exhausted provider starts the cooldown.
MeetQuota ==
    /\ cooldown' = IF rpc = "exhausted" /\ ~CoolingDown THEN Cooldown ELSE cooldown
    /\ quotaAge' = IF rpc = "exhausted" /\ ~CoolingDown THEN 0 ELSE quotaAge

\* Mutant: a full check counts as done, whatever came of it.
FailedButStamped(limited) == [Failed(limited) EXCEPT !.contractAge = 0]
RecordFailure(limited) == Failed(limited)

\* A read fails or is refused, or shows a relationship that is not as frozen; on
\* another chain any contract may be missing.
CheckFails ==
    /\ check.left # {}
    /\ rpc # "good" \/ CoolingDown \/ Asked \cap Refuted # {} \/ "chain" \in wrong
    /\ MeetQuota
    /\ health' = RecordFailure(cooldown' > 0)
    /\ CheckEnds
    /\ refuted' = (refuted \/ check.kind = "full")
    /\ UNCHANGED <<world, up, enabled, index, passing, sync, outage, strayed>>

-----------------------------------------------------------------------------
(* The indexer, by its outcomes. *)

\* syncOnce up to its first read.
SyncTick ==
    /\ up /\ enabled /\ passing.next = 0
    /\ LET starts == ~passing.on /\ ~CoolingDown
       IN  /\ passing' = [passing EXCEPT !.next = IndexInterval, !.on = @ \/ starts]
           /\ index' = IF passing.on THEN index
                       ELSE [index EXCEPT !.error = IF starts THEN "none" ELSE "cooldown"]
           /\ sync' = IF starts /\ database THEN [status |-> "syncing", attemptAge |-> 0] ELSE sync
    /\ UNCHANGED <<world, up, enabled, cooldown, health, check, history>>

PassEnds == passing' = [passing EXCEPT !.on = FALSE, !.runs = 0]

PassSucceeds ==
    /\ passing.on /\ rpc = "good" /\ database
    /\ PassEnds
    /\ index' = [successAge |-> 0, error |-> "none"]
    /\ sync' = [sync EXCEPT !.status = "healthy"]
    /\ UNCHANGED <<world, up, enabled, cooldown, health, check, history>>

\* In memory the pass succeeds before its last statement, which may be what fails.
PassFails(late) ==
    /\ passing.on
    /\ rpc # "good" \/ ~database \/ CoolingDown
    /\ late => rpc = "good" /\ ~database
    /\ PassEnds
    /\ MeetQuota
    /\ index' = [successAge |-> IF late THEN 0 ELSE index.successAge, error |-> "failed"]
    /\ sync' = IF ~database THEN sync
               ELSE [sync EXCEPT !.status = IF cooldown' > 0 THEN "rate_limited" ELSE "degraded"]
    /\ UNCHANGED <<world, up, enabled, health, check, outage, strayed, refuted>>

-----------------------------------------------------------------------------
(* Readiness. *)

\* Mutant: the snapshot's state alone.
StateOnly == health.state = "healthy"
HealthIsReady ==
    /\ health.state = "healthy"
    /\ health.rpcAge <= MaxAge
    /\ health.contractAge <= ContractMaxAge

IndexIsReady == ~enabled \/ (index.error = "none" /\ index.successAge <= MaxAge)

\* GET /ready answers 200.
Ready == up /\ database /\ HealthIsReady /\ IndexIsReady

\* A read the API makes for a client, with source=chain.
ReadForClient ==
    /\ up /\ rpc = "exhausted" /\ ~CoolingDown
    /\ MeetQuota
    /\ UNCHANGED <<world, up, enabled, health, check, index, passing, sync,
                   outage, strayed, refuted>>

-----------------------------------------------------------------------------
(* The surroundings. *)

ProviderChanges(p) ==
    /\ Trouble /\ p # rpc
    /\ rpc' = p
    /\ outage' = IF p = "good" THEN 0 ELSE outage
    /\ UNCHANGED <<wrong, database, server, strayed, refuted, quotaAge>>

DeploymentChanges(w) ==
    /\ Trouble /\ w # wrong
    /\ wrong' = w
    /\ strayed' = [r \in Relationships |-> IF r \in w THEN strayed[r] ELSE 0]
    /\ UNCHANGED <<rpc, database, server, outage, refuted, quotaAge>>

DatabaseChanges ==
    /\ Trouble
    /\ database' = ~database
    /\ UNCHANGED <<rpc, wrong, server, history>>

\* Timers fire when they are due, and no check or pass outlasts MaxWork.
Tick ==
    /\ up => check.next > 0 /\ (enabled => passing.next > 0)
    /\ check.kind # "none" => check.runs < MaxWork
    /\ passing.on => passing.runs < MaxWork
    /\ cooldown' = Left(cooldown)
    /\ health' = [health EXCEPT !.rpcAge = Older(@, MaxAge),
                                !.contractAge = Older(@, ContractLimit)]
    /\ check' = [check EXCEPT !.next = Left(@),
                              !.runs = IF check.kind = "none" THEN 0 ELSE @ + 1]
    /\ index' = [index EXCEPT !.successAge = Older(@, MaxAge)]
    /\ passing' = [passing EXCEPT !.next = Left(@), !.runs = IF passing.on THEN @ + 1 ELSE 0]
    /\ sync' = [sync EXCEPT !.attemptAge = Older(@, Cooldown)]
    /\ outage' = IF rpc = "good" THEN 0 ELSE Older(outage, MaxAge + MaxWork)
    /\ strayed' = [r \in Relationships |->
                      IF r \in wrong THEN Older(strayed[r], Tolerated(r)) ELSE 0]
    /\ quotaAge' = Older(quotaAge, Cooldown)
    /\ UNCHANGED <<world, up, enabled, refuted>>

Providers == {"good", "failing", "exhausted"}
Wrongs == SUBSET Relationships

Next ==
    \/ Boot \/ Crash
    \/ CheckTick \/ (\E n \in 1 .. 5 : CheckReads(n)) \/ CheckSucceeds \/ CheckFails
    \/ SyncTick \/ PassSucceeds \/ (\E late \in BOOLEAN : PassFails(late))
    \/ ReadForClient
    \/ (\E p \in Providers : ProviderChanges(p))
    \/ (\E w \in Wrongs : DeploymentChanges(w)) \/ DatabaseChanges
    \/ Tick

Spec == Init /\ [][Next]_vars

\* The process is restarted, timers fire, calls come back.
FairSpec ==
    /\ Spec
    /\ WF_vars(Boot) /\ WF_vars(CheckTick) /\ WF_vars(SyncTick) /\ WF_vars(Tick)
    /\ WF_vars((\E n \in 1 .. 5 : CheckReads(n)) \/ CheckSucceeds \/ CheckFails)
    /\ WF_vars(PassSucceeds \/ \E late \in BOOLEAN : PassFails(late))
-----------------------------------------------------------------------------
(* Properties. *)

TypeOK ==
    /\ rpc \in Providers /\ wrong \in Wrongs /\ database \in BOOLEAN /\ up \in BOOLEAN
    /\ cooldown \in 0 .. Cooldown /\ quotaAge \in 0 .. Cooldown + 1
    /\ health \in [state : {"unknown", "healthy", "degraded", "rate_limited"},
                   rpcAge : 0 .. MaxAge + 1, contractAge : 0 .. ContractLimit + 1]
    /\ check \in [kind : {"none", "light", "full"}, left : SUBSET (1 .. 5),
                  runs : 0 .. MaxWork, next : 0 .. LightInterval]
    /\ index \in [successAge : 0 .. MaxAge + 1, error : {"none", "cooldown", "failed"}]
    /\ passing \in [on : BOOLEAN, runs : 0 .. MaxWork, next : 0 .. IndexInterval]
    /\ sync \in [status : {"unknown", "syncing", "healthy", "degraded", "rate_limited"},
                 attemptAge : 0 .. Cooldown + 1]

(***************************************************************************)
(* /ready makes no call of its own and still says yes only if the provider *)
(* answered, and was on the frozen chain, within MaxAge and the duration   *)
(* of a check, and the registry had the frozen resolver within             *)
(* ContractMaxAge and that duration: a check is stamped when it ends, and  *)
(* what its first reads saw may have changed since (health.ts isReady,     *)
(* runFull and runLight, client.ts verifyDeployment).                      *)
(***************************************************************************)
ReadyIsEarned ==
    Ready => /\ outage <= MaxAge + MaxWork
             /\ \A r \in Relationships : strayed[r] <= Tolerated(r)

(***************************************************************************)
(* After a full check failed, no number of light successes makes the       *)
(* server ready before a full check succeeds (health.ts tick, runLight).   *)
(***************************************************************************)
FailedVerificationHolds == refuted => ~Ready

(***************************************************************************)
(* However often the process restarts, and whoever met the quota, the      *)
(* scheduler is quiet for at most the cooldown after the provider's answer *)
(* (server.ts, restoreHardQuotaCooldown, sync_state).                      *)
(***************************************************************************)
RestartsNeverExtendCooldown == CoolingDown => cooldown + quotaAge <= Cooldown

(***************************************************************************)
(* Once provider, deployment and database are and stay as they should, the *)
(* server becomes ready, and again after every moment it is not.           *)
(***************************************************************************)
AllWell == rpc = "good" /\ wrong = {} /\ database
RecoversWhenAllIsWell == <>[]AllWell => []<>Ready

\* What docs/RELEASE_NOTES_v1.0.0.md says: 503 while the cooldown is active.
NotReadyWhileCooling == enabled /\ CoolingDown => ~Ready
=============================================================================
