---------------------------- MODULE ServerProofs -----------------------------
(***************************************************************************)
(* Safety of ApiServer for all intervals, limits, cooldowns and outages.   *)
(***************************************************************************)
EXTENDS ApiServer, TLAPS

\* The parts of TypeOK, for the steps that change one of them.
WorldTyped == rpc \in Providers /\ wrong \in Wrongs /\ database \in BOOLEAN
ClockTyped == cooldown \in 0 .. Cooldown /\ quotaAge \in 0 .. Cooldown + 1
HealthTyped ==
    health \in [state : {"unknown", "healthy", "degraded", "rate_limited"},
                rpcAge : 0 .. MaxAge + 1, contractAge : 0 .. ContractLimit + 1]
CheckTyped ==
    check \in [kind : {"none", "light", "full"}, left : SUBSET (1 .. 5),
              runs : 0 .. MaxWork, next : 0 .. LightInterval]
IndexTyped == index \in [successAge : 0 .. MaxAge + 1, error : {"none", "cooldown", "failed"}]
PassingTyped == passing \in [on : BOOLEAN, runs : 0 .. MaxWork, next : 0 .. IndexInterval]
SyncTyped ==
    sync \in [status : {"unknown", "syncing", "healthy", "degraded", "rate_limited"},
              attemptAge : 0 .. Cooldown + 1]
Parts ==
    /\ up \in BOOLEAN /\ WorldTyped /\ ClockTyped /\ HealthTyped
    /\ CheckTyped /\ IndexTyped /\ PassingTyped /\ SyncTyped

HistoryTyped ==
    /\ outage \in 0 .. MaxAge + MaxWork + 1
    /\ strayed \in [Relationships -> Nat]
    /\ \A r \in Relationships : strayed[r] <= Tolerated(r) + 1

\* A process that is down does nothing, and what is not done has no reads.
DownIsQuiet ==
    /\ ~up => check.kind = "none" /\ ~passing.on
    /\ check.left \subseteq ReadsOf(check.kind)

\* What is wrong with provider or deployment is no older than the snapshot and
\* the duration of the check it is from.
SnapshotIsOld ==
    /\ rpc = "good" => outage = 0
    /\ \A r \in Relationships : r \notin wrong => strayed[r] = 0
    /\ outage <= health.rpcAge + MaxWork
    /\ strayed["chain"] <= health.rpcAge + MaxWork
    /\ strayed["default_resolver"] <= health.contractAge + MaxWork

\* What the reads of a check have seen has changed since it began, if at all.
CheckIsRecent ==
    /\ ReadsOf(check.kind) \ check.left # {} => outage <= check.runs
    /\ 1 \in ReadsOf(check.kind) \ check.left => strayed["chain"] <= check.runs
    /\ check.kind = "full" /\ 3 \notin check.left => strayed["default_resolver"] <= check.runs

\* Until the full check that failed succeeds, every check is full.
RefutedIsDue ==
    /\ check.kind = "full" => health.contractAge >= FullInterval
    /\ refuted => /\ health.state # "healthy"
                  /\ health.contractAge >= FullInterval
                  /\ check.kind # "light"

\* A pass during which the quota is met has begun before, and a persisted
\* rate_limited is not younger than the quota.
AttemptIsOlder ==
    /\ passing.on /\ CoolingDown => quotaAge <= sync.attemptAge
    /\ sync.status = "rate_limited" => quotaAge <= sync.attemptAge

ServerInv ==
    /\ TypeOK
    /\ HistoryTyped
    /\ DownIsQuiet
    /\ SnapshotIsOld
    /\ CheckIsRecent
    /\ RefutedIsDue
    /\ AttemptIsOlder
    /\ RestartsNeverExtendCooldown

-----------------------------------------------------------------------------
\* What the capped clock and the larger of the two limits are.
LEMMA OlderIs ==
    ASSUME NEW age \in Nat, NEW limit \in Nat
    PROVE  Older(age, limit) = IF age <= limit THEN age + 1 ELSE limit + 1
<1> DEFINE m == IF age <= limit THEN age + 1 ELSE limit + 1
<1>1. m \in {age + 1, limit + 1} /\ \A y \in {age + 1, limit + 1} : m <= y
  OBVIOUS
<1>2. \A x \in {age + 1, limit + 1} : (\A y \in {age + 1, limit + 1} : x <= y) => x = m
  OBVIOUS
<1> QED
  BY <1>1, <1>2 DEF Older, Min

LEMMA LimitIs ==
    ContractLimit \in Nat /\ ContractLimit >= ContractMaxAge /\ ContractLimit >= FullInterval
<1> DEFINE S == {ContractMaxAge, FullInterval}
<1>1. ContractMaxAge \in Nat /\ FullInterval \in Nat
  BY ServerAssumption DEF Configured
<1>2. \E x \in S : \A y \in S : x >= y
  BY <1>1
<1>3. ContractLimit \in S /\ \A y \in S : ContractLimit >= y
  BY <1>2 DEF ContractLimit, Max
<1> QED
  BY <1>1, <1>3

LEMMA TypeParts == (TypeOK <=> Parts) /\ (TypeOK' <=> Parts')
BY DEF TypeOK, Parts, WorldTyped, ClockTyped, HealthTyped, CheckTyped, IndexTyped,
       PassingTyped, SyncTyped

LEMMA ConstantTypes ==
    /\ LightInterval \in Nat /\ FullInterval \in Nat /\ IndexInterval \in Nat
    /\ MaxAge \in Nat /\ ContractMaxAge \in Nat /\ ContractLimit \in Nat
    /\ Cooldown \in Nat /\ MaxWork \in Nat
BY ServerAssumption, LimitIs DEF Configured

\* The reads of each kind of check.
LEMMA ReadsAre ==
    /\ ReadsOf("none") = {} /\ ReadsOf("light") = {1, 2} /\ ReadsOf("full") = 1 .. 5
    /\ \A kind \in {"none", "light", "full"} : ReadsOf(kind) \in SUBSET (1 .. 5)
<1>1. ReadsOf("none") = {} /\ ReadsOf("light") = {1, 2} /\ ReadsOf("full") = 1 .. 5
  BY DEF ReadsOf
<1> QED
  BY <1>1

\* The ages the histories are capped beyond.
LEMMA ToleratedIs ==
    /\ Tolerated("chain") = MaxWork + MaxAge
    /\ Tolerated("default_resolver") = MaxWork + ContractMaxAge
    /\ Relationships = {"chain", "default_resolver"}
    /\ \A r \in Relationships : Tolerated(r) \in Nat
BY ConstantTypes DEF Tolerated, Relationships

-----------------------------------------------------------------------------
LEMMA InitServerInv == Init => ServerInv
<1> SUFFICES ASSUME Init PROVE ServerInv
  OBVIOUS
<1> USE DEF Init, Unknown, NotChecking, NotIndexed, NotPassing
<1>1. Parts
  <2>1. WorldTyped /\ up \in BOOLEAN
    BY DEF WorldTyped, Providers, Wrongs
  <2>2. ClockTyped /\ SyncTyped
    BY ConstantTypes DEF ClockTyped, SyncTyped
  <2>3. HealthTyped /\ CheckTyped
    BY ConstantTypes DEF HealthTyped, CheckTyped
  <2>4. IndexTyped /\ PassingTyped
    BY ConstantTypes DEF IndexTyped, PassingTyped
  <2> QED
    BY <2>1, <2>2, <2>3, <2>4 DEF Parts
<1>2. HistoryTyped /\ SnapshotIsOld /\ CheckIsRecent
  BY ConstantTypes, ReadsAre, ToleratedIs DEF HistoryTyped, SnapshotIsOld, CheckIsRecent
<1>3. DownIsQuiet
  BY ReadsAre DEF DownIsQuiet
<1>4. RefutedIsDue /\ AttemptIsOlder /\ RestartsNeverExtendCooldown
  BY ConstantTypes DEF RefutedIsDue, AttemptIsOlder, RestartsNeverExtendCooldown, CoolingDown
<1> QED
  BY <1>1, <1>2, <1>3, <1>4, TypeParts DEF ServerInv

LEMMA BootStep == ServerInv /\ Boot => ServerInv'
<1> SUFFICES ASSUME ServerInv, Boot PROVE ServerInv'
  OBVIOUS
<1> USE DEF ServerInv, Boot, world, history
<1>1. Restored \in 0 .. Cooldown
  BY ConstantTypes DEF Restored, TypeOK
<1>2. Parts'
  <2>1. ClockTyped'
    BY <1>1, TypeParts DEF Parts, ClockTyped
  <2> QED
    BY <2>1, TypeParts DEF Parts, WorldTyped, HealthTyped, CheckTyped, IndexTyped,
                           PassingTyped, SyncTyped
<1>3. HistoryTyped' /\ DownIsQuiet' /\ SnapshotIsOld' /\ CheckIsRecent' /\ RefutedIsDue'
  BY DEF HistoryTyped, DownIsQuiet, SnapshotIsOld, CheckIsRecent, RefutedIsDue
<1>4. AttemptIsOlder'
  BY DEF AttemptIsOlder, DownIsQuiet
<1>5. RestartsNeverExtendCooldown'
  BY ConstantTypes, TypeParts DEF RestartsNeverExtendCooldown, AttemptIsOlder, CoolingDown,
                                  Restored, Parts, ClockTyped, SyncTyped
<1> QED
  BY <1>2, <1>3, <1>4, <1>5, TypeParts

LEMMA CrashStep == ServerInv /\ Crash => ServerInv'
<1> SUFFICES ASSUME ServerInv, Crash PROVE ServerInv'
  OBVIOUS
<1> USE DEF ServerInv, Crash, Trouble, Unknown, NotChecking, NotIndexed, NotPassing
<1>1. Parts'
  <2>1. up' \in BOOLEAN /\ WorldTyped' /\ SyncTyped'
    BY TypeParts DEF Parts, WorldTyped, SyncTyped
  <2>2. ClockTyped'
    BY TypeParts, ConstantTypes DEF Parts, ClockTyped
  <2>3. HealthTyped' /\ CheckTyped'
    BY ConstantTypes DEF HealthTyped, CheckTyped
  <2>4. IndexTyped' /\ PassingTyped'
    BY ConstantTypes DEF IndexTyped, PassingTyped
  <2> QED
    BY <2>1, <2>2, <2>3, <2>4 DEF Parts
<1>2. HistoryTyped' /\ SnapshotIsOld'
  <2>1. HistoryTyped'
    BY DEF HistoryTyped
  <2>2. /\ outage <= MaxAge + MaxWork + 1 /\ strayed["chain"] <= MaxWork + MaxAge + 1
        /\ strayed["default_resolver"] <= MaxWork + ContractMaxAge + 1
        /\ strayed["chain"] \in Nat /\ strayed["default_resolver"] \in Nat
    BY ToleratedIs, ConstantTypes DEF HistoryTyped
  <2>3. SnapshotIsOld'
    BY <2>2, LimitIs, ConstantTypes DEF SnapshotIsOld
  <2> QED
    BY <2>1, <2>3
<1>3. DownIsQuiet' /\ CheckIsRecent'
  BY ReadsAre DEF DownIsQuiet, CheckIsRecent
<1>4. RefutedIsDue' /\ AttemptIsOlder' /\ RestartsNeverExtendCooldown'
  BY DEF RefutedIsDue, AttemptIsOlder, RestartsNeverExtendCooldown, CoolingDown
<1> QED
  BY <1>1, <1>2, <1>3, <1>4, TypeParts

\* A check that begins, goes on and ends, as the record it is.
LEMMA CheckRecord ==
    /\ \A kind \in {"none", "light", "full"}, left \in SUBSET (1 .. 5) :
          CheckTyped /\ check' = [check EXCEPT !.next = LightInterval, !.kind = kind, !.left = left]
             => /\ CheckTyped' /\ check'.kind = kind /\ check'.left = left
                /\ check'.runs = check.runs
    /\ CheckTyped /\ CheckEnds => CheckTyped' /\ check'.kind = "none" /\ check'.left = {}
    /\ \A n \in 1 .. 5 : CheckTyped /\ check' = [check EXCEPT !.left = @ \ {n}]
         => /\ CheckTyped' /\ check'.kind = check.kind /\ check'.left = check.left \ {n}
            /\ check'.runs = check.runs
<1>1. ASSUME NEW kind \in {"none", "light", "full"}, NEW left \in SUBSET (1 .. 5), CheckTyped,
             check' = [check EXCEPT !.next = LightInterval, !.kind = kind, !.left = left]
      PROVE  /\ CheckTyped' /\ check'.kind = kind /\ check'.left = left
             /\ check'.runs = check.runs
  <2>1. LightInterval \in 0 .. LightInterval
    BY ConstantTypes
  <2> QED
    BY <1>1, <2>1, Zenon DEF CheckTyped
<1>2. ASSUME CheckTyped, CheckEnds
      PROVE  CheckTyped' /\ check'.kind = "none" /\ check'.left = {}
  <2>1. 0 \in 0 .. MaxWork
    BY ConstantTypes
  <2> QED
    BY <1>2, <2>1, Zenon DEF CheckTyped, CheckEnds
<1>3. ASSUME NEW n \in 1 .. 5, CheckTyped, check' = [check EXCEPT !.left = @ \ {n}]
      PROVE  /\ CheckTyped' /\ check'.kind = check.kind /\ check'.left = check.left \ {n}
             /\ check'.runs = check.runs
  <2>1. check.left \ {n} \in SUBSET (1 .. 5)
    BY <1>3 DEF CheckTyped
  <2> QED
    BY <1>3, <2>1, Zenon DEF CheckTyped
<1> QED
  BY <1>1, <1>2, <1>3

\* The snapshot after a success, and after a failure.
LEMMA HealthRecord ==
    /\ HealthTyped /\ health' \in {FullSuccess, LightSuccess} => HealthTyped'
    /\ \A limited \in BOOLEAN : HealthTyped /\ health' = Failed(limited) => HealthTyped'
<1>0. 0 \in 0 .. MaxAge + 1 /\ 0 \in 0 .. ContractLimit + 1
  BY ConstantTypes
<1>1. ASSUME HealthTyped, health' = FullSuccess PROVE HealthTyped'
  BY <1>0, <1>1 DEF HealthTyped, FullSuccess
<1>2. ASSUME HealthTyped, health' = LightSuccess PROVE HealthTyped'
  BY <1>0, <1>2, Zenon DEF HealthTyped, LightSuccess
<1>3. ASSUME NEW limited \in BOOLEAN, HealthTyped, health' = Failed(limited) PROVE HealthTyped'
  BY <1>3, Zenon DEF HealthTyped, Failed
<1> QED
  BY <1>1, <1>2, <1>3

LEMMA CheckTickStep == ServerInv /\ CheckTick => ServerInv'
<1> SUFFICES ASSUME ServerInv, CheckTick PROVE ServerInv'
  OBVIOUS
<1>1. /\ Parts /\ HistoryTyped /\ DownIsQuiet /\ SnapshotIsOld /\ CheckIsRecent
      /\ RefutedIsDue /\ AttemptIsOlder
  BY TypeParts DEF ServerInv
<1>2. CheckTyped /\ HealthTyped
  BY <1>1 DEF Parts
<1> DEFINE kind == IF check.kind # "none" THEN check.kind
                   ELSE IF CoolingDown THEN "none"
                   ELSE IF FullDue THEN "full" ELSE "light"
           left == IF check.kind # "none" THEN check.left ELSE ReadsOf(kind)
<1>3. kind \in {"none", "light", "full"} /\ left \in SUBSET (1 .. 5)
  BY <1>2, ReadsAre DEF CheckTyped
<1>4. check' = [check EXCEPT !.next = LightInterval, !.kind = kind, !.left = left]
  BY Zenon DEF CheckTick
<1>5. /\ check.kind # "none" => kind = check.kind /\ left = check.left
      /\ check.kind = "none" => left = ReadsOf(kind)
      /\ kind = "full" => check.kind = "full" \/ FullDue
      /\ kind = "light" => check.kind = "light" \/ ~FullDue
  OBVIOUS
<1> HIDE DEF kind, left
<1>6. CheckTyped' /\ check'.kind = kind /\ check'.left = left /\ check'.runs = check.runs
  BY <1>2, <1>3, <1>4, CheckRecord
<1>7. health' = health \/ health' = [health EXCEPT !.state = "rate_limited"]
  BY DEF CheckTick, Failed
<1>8. /\ HealthTyped' /\ health'.rpcAge = health.rpcAge /\ health'.contractAge = health.contractAge
      /\ health'.state \in {health.state, "rate_limited"}
  BY <1>2, <1>7 DEF HealthTyped
<1>9. up /\ UNCHANGED <<world, up, enabled, cooldown, index, passing, sync, history>>
  BY DEF CheckTick
<1>10. Parts'
  BY <1>1, <1>6, <1>8, <1>9 DEF Parts, WorldTyped, ClockTyped, IndexTyped, PassingTyped,
                               SyncTyped, world, history
<1>11. HistoryTyped' /\ DownIsQuiet'
  BY <1>1, <1>5, <1>6, <1>9 DEF HistoryTyped, DownIsQuiet, history
<1>12. SnapshotIsOld'
  BY <1>1, <1>8, <1>9 DEF SnapshotIsOld, world, history
<1>13. CheckIsRecent'
  BY <1>1, <1>5, <1>6, <1>9, ReadsAre DEF CheckIsRecent, history
<1>14. RefutedIsDue'
  BY <1>1, <1>5, <1>6, <1>8, <1>9 DEF RefutedIsDue, FullDue, history
<1>15. AttemptIsOlder' /\ RestartsNeverExtendCooldown'
  BY <1>1, <1>9 DEF ServerInv, AttemptIsOlder, RestartsNeverExtendCooldown, CoolingDown, history
<1> QED
  BY <1>10, <1>11, <1>12, <1>13, <1>14, <1>15, TypeParts DEF ServerInv

\* What a read has just seen has not changed since the check began.
LEMMA CheckReadsStep == \A n \in 1 .. 5 : ServerInv /\ CheckReads(n) => ServerInv'
<1> SUFFICES ASSUME NEW n \in 1 .. 5, ServerInv, CheckReads(n) PROVE ServerInv'
  OBVIOUS
<1>1. /\ Parts /\ HistoryTyped /\ DownIsQuiet /\ SnapshotIsOld /\ CheckIsRecent
      /\ RefutedIsDue /\ AttemptIsOlder
  BY TypeParts DEF ServerInv
<1>2. CheckTyped
  BY <1>1 DEF Parts
<1>3. /\ CheckTyped' /\ check'.kind = check.kind /\ check'.left = check.left \ {n}
      /\ check'.runs = check.runs
  BY <1>2, CheckRecord DEF CheckReads
<1>4. UNCHANGED <<world, up, enabled, cooldown, health, index, passing, sync, history>>
  BY DEF CheckReads
<1>5. check.runs \in Nat
  BY <1>2, ConstantTypes DEF CheckTyped
<1>6. Parts'
  BY <1>1, <1>3, <1>4 DEF Parts, WorldTyped, ClockTyped, HealthTyped, IndexTyped, PassingTyped,
                          SyncTyped, world, history
<1>7. HistoryTyped' /\ DownIsQuiet' /\ SnapshotIsOld' /\ RefutedIsDue'
  BY <1>1, <1>3, <1>4 DEF HistoryTyped, DownIsQuiet, SnapshotIsOld, RefutedIsDue, world, history
<1>8. CheckIsRecent'
  <2>1. outage = 0
    BY <1>1 DEF CheckReads, SnapshotIsOld
  <2>2. n = 1 => strayed["chain"] = 0
    BY <1>1, ToleratedIs DEF CheckReads, Refuted, SnapshotIsOld
  <2>3. n = 3 => strayed["default_resolver"] = 0
    BY <1>1, ToleratedIs DEF CheckReads, Refuted, SnapshotIsOld
  <2> QED
    BY <1>1, <1>3, <1>4, <1>5, <2>1, <2>2, <2>3 DEF CheckIsRecent, history
<1>9. AttemptIsOlder' /\ RestartsNeverExtendCooldown'
  BY <1>1, <1>4 DEF ServerInv, AttemptIsOlder, RestartsNeverExtendCooldown, CoolingDown, history
<1> QED
  BY <1>6, <1>7, <1>8, <1>9, TypeParts DEF ServerInv

LEMMA CheckSucceedsStep == ServerInv /\ CheckSucceeds => ServerInv'
<1> SUFFICES ASSUME ServerInv, CheckSucceeds PROVE ServerInv'
  OBVIOUS
<1>1. /\ Parts /\ HistoryTyped /\ DownIsQuiet /\ SnapshotIsOld /\ CheckIsRecent
      /\ RefutedIsDue /\ AttemptIsOlder
  BY TypeParts DEF ServerInv
<1>2. CheckTyped /\ HealthTyped
  BY <1>1 DEF Parts
<1>3. CheckTyped' /\ check'.kind = "none" /\ check'.left = {}
  BY <1>2, CheckRecord DEF CheckSucceeds
<1>4. health' = IF check.kind = "full" THEN FullSuccess ELSE LightSuccess
  BY DEF CheckSucceeds
<1>5. HealthTyped'
  BY <1>2, <1>4, HealthRecord
<1>6. /\ health'.rpcAge = 0
      /\ health'.contractAge = IF check.kind = "full" THEN 0 ELSE health.contractAge
  BY <1>2, <1>4 DEF FullSuccess, LightSuccess, HealthTyped
<1>7. /\ check.kind \in {"light", "full"} /\ check.left = {}
      /\ refuted' = (refuted /\ check.kind # "full")
      /\ UNCHANGED <<world, up, enabled, cooldown, index, passing, sync, outage, strayed, quotaAge>>
  BY <1>2 DEF CheckSucceeds, CheckTyped
<1>8. Parts'
  BY <1>1, <1>3, <1>5, <1>7 DEF Parts, WorldTyped, ClockTyped, IndexTyped, PassingTyped,
                               SyncTyped, world
<1>9. HistoryTyped' /\ DownIsQuiet' /\ CheckIsRecent'
  BY <1>1, <1>3, <1>7, ReadsAre DEF HistoryTyped, DownIsQuiet, CheckIsRecent
<1>10. SnapshotIsOld'
  <2>1. check.runs \in Nat /\ check.runs <= MaxWork
    BY <1>2, ConstantTypes DEF CheckTyped
  <2>2. 1 \in ReadsOf(check.kind) \ check.left /\ 3 \notin check.left
    BY <1>7, ReadsAre
  <2>3. /\ outage <= check.runs /\ strayed["chain"] <= check.runs
        /\ check.kind = "full" => strayed["default_resolver"] <= check.runs
    BY <1>1, <1>7, <2>2, ReadsAre DEF CheckIsRecent
  <2>4. /\ outage \in Nat /\ strayed["chain"] \in Nat /\ strayed["default_resolver"] \in Nat
    BY <1>1, ToleratedIs, ConstantTypes DEF HistoryTyped
  <2>5. /\ outage <= health'.rpcAge + MaxWork
        /\ strayed["chain"] <= health'.rpcAge + MaxWork
        /\ strayed["default_resolver"] <= health'.contractAge + MaxWork
    BY <1>1, <1>6, <2>1, <2>3, <2>4, ConstantTypes DEF SnapshotIsOld
  <2> QED
    BY <1>1, <1>7, <2>5 DEF SnapshotIsOld, world
<1>11. RefutedIsDue'
  BY <1>1, <1>3, <1>7 DEF RefutedIsDue
<1>12. AttemptIsOlder' /\ RestartsNeverExtendCooldown'
  BY <1>1, <1>7 DEF ServerInv, AttemptIsOlder, RestartsNeverExtendCooldown, CoolingDown
<1> QED
  BY <1>8, <1>9, <1>10, <1>11, <1>12, TypeParts DEF ServerInv

\* A pass with two fields changed, as the record it is.
LEMMA PassingRecord ==
    /\ \A starts \in BOOLEAN :
          PassingTyped /\ passing' = [passing EXCEPT !.next = IndexInterval, !.on = @ \/ starts]
             => PassingTyped' /\ passing'.on = (passing.on \/ starts)
    /\ PassingTyped /\ PassEnds => PassingTyped' /\ ~passing'.on
<1>1. ASSUME NEW starts \in BOOLEAN, PassingTyped,
             passing' = [passing EXCEPT !.next = IndexInterval, !.on = @ \/ starts]
      PROVE  PassingTyped' /\ passing'.on = (passing.on \/ starts)
  <2>1. IndexInterval \in 0 .. IndexInterval
    BY ConstantTypes
  <2> QED
    BY <1>1, <2>1, Zenon DEF PassingTyped
<1>2. ASSUME PassingTyped, PassEnds PROVE PassingTyped' /\ ~passing'.on
  <2>1. 0 \in 0 .. MaxWork
    BY ConstantTypes
  <2> QED
    BY <1>2, <2>1, Zenon DEF PassingTyped, PassEnds
<1> QED
  BY <1>1, <1>2

\* Meeting the quota starts a cooldown that is as long as it may be.
LEMMA QuotaIsMet ==
    ServerInv /\ MeetQuota =>
       /\ ClockTyped' /\ RestartsNeverExtendCooldown'
       /\ \/ cooldown' = cooldown /\ quotaAge' = quotaAge
          \/ quotaAge' = 0
<1> SUFFICES ASSUME ServerInv, MeetQuota
             PROVE  /\ ClockTyped' /\ RestartsNeverExtendCooldown'
                    /\ \/ cooldown' = cooldown /\ quotaAge' = quotaAge
                       \/ quotaAge' = 0
  OBVIOUS
<1>1. ClockTyped /\ RestartsNeverExtendCooldown
  BY TypeParts DEF ServerInv, Parts
<1>2. \/ cooldown' = cooldown /\ quotaAge' = quotaAge
      \/ cooldown' = Cooldown /\ quotaAge' = 0
  BY DEF MeetQuota
<1> QED
  BY <1>1, <1>2, ConstantTypes DEF ClockTyped, RestartsNeverExtendCooldown, CoolingDown

LEMMA CheckFailsStep == ServerInv /\ CheckFails => ServerInv'
<1> SUFFICES ASSUME ServerInv, CheckFails PROVE ServerInv'
  OBVIOUS
<1>0. /\ Parts /\ HistoryTyped /\ DownIsQuiet /\ SnapshotIsOld /\ CheckIsRecent
      /\ RefutedIsDue /\ AttemptIsOlder
  BY TypeParts DEF ServerInv
<1>1. CheckTyped /\ HealthTyped /\ SyncTyped
  BY <1>0 DEF Parts
<1>2. /\ ClockTyped' /\ RestartsNeverExtendCooldown'
      /\ \/ cooldown' = cooldown /\ quotaAge' = quotaAge
         \/ quotaAge' = 0
  BY QuotaIsMet DEF CheckFails
<1>3. CheckTyped' /\ check'.kind = "none" /\ check'.left = {}
  BY <1>1, CheckRecord DEF CheckFails
<1>4. PICK limited \in BOOLEAN : health' = Failed(limited)
  <2>1. health' = Failed(TRUE) \/ health' = Failed(FALSE)
    BY Zenon DEF CheckFails, RecordFailure, Failed
  <2> QED
    BY <2>1
<1>5. /\ health'.state # "healthy"
      /\ health'.rpcAge = health.rpcAge
      /\ health'.contractAge = health.contractAge
  BY <1>1, <1>4 DEF Failed, HealthTyped
<1>6. Parts'
  <2>1. CheckTyped' /\ HealthTyped'
    BY <1>1, <1>3, <1>4, HealthRecord
  <2> QED
    BY <1>0, <1>2, <2>1 DEF CheckFails, Parts, WorldTyped, IndexTyped, PassingTyped, SyncTyped,
                            world
<1>7. HistoryTyped' /\ DownIsQuiet' /\ CheckIsRecent'
  BY <1>0, <1>3, ReadsAre DEF CheckFails, HistoryTyped, DownIsQuiet, CheckIsRecent, world
<1>8. SnapshotIsOld'
  BY <1>0, <1>5 DEF CheckFails, SnapshotIsOld, world
<1>9. RefutedIsDue'
  BY <1>0, <1>3, <1>5 DEF CheckFails, RefutedIsDue
<1>10. AttemptIsOlder'
  BY <1>0, <1>1, <1>2 DEF CheckFails, AttemptIsOlder, SyncTyped, CoolingDown
<1> QED
  BY <1>2, <1>6, <1>7, <1>8, <1>9, <1>10, TypeParts DEF ServerInv

LEMMA SyncTickStep == ServerInv /\ SyncTick => ServerInv'
<1> SUFFICES ASSUME ServerInv, SyncTick PROVE ServerInv'
  OBVIOUS
<1>0. /\ Parts /\ HistoryTyped /\ DownIsQuiet /\ SnapshotIsOld /\ CheckIsRecent
      /\ RefutedIsDue /\ AttemptIsOlder
  BY TypeParts DEF ServerInv
<1>1. IndexTyped /\ PassingTyped /\ SyncTyped
  BY <1>0 DEF Parts
<1> DEFINE starts == ~passing.on /\ ~CoolingDown
<1>2. /\ passing' = [passing EXCEPT !.next = IndexInterval, !.on = @ \/ starts]
      /\ starts \in BOOLEAN
  BY DEF SyncTick
<1>3. PassingTyped' /\ passing'.on = (passing.on \/ starts)
  BY <1>1, <1>2, PassingRecord
<1>4. \/ sync' = sync
      \/ starts /\ sync' = [status |-> "syncing", attemptAge |-> 0]
  BY DEF SyncTick
<1>5. SyncTyped'
  BY <1>1, <1>4, ConstantTypes DEF SyncTyped
<1>6. IndexTyped'
  <2>1. \/ index' = index
        \/ index' = [index EXCEPT !.error = "none"]
        \/ index' = [index EXCEPT !.error = "cooldown"]
    BY Zenon DEF SyncTick
  <2> QED
    BY <1>1, <2>1 DEF IndexTyped
<1>7. up /\ UNCHANGED <<world, up, enabled, cooldown, health, check, history>>
  BY DEF SyncTick
<1>8. Parts'
  BY <1>0, <1>3, <1>5, <1>6, <1>7
     DEF Parts, WorldTyped, ClockTyped, HealthTyped, CheckTyped, world, history
<1>9. HistoryTyped' /\ DownIsQuiet' /\ SnapshotIsOld' /\ CheckIsRecent' /\ RefutedIsDue'
  BY <1>0, <1>7 DEF HistoryTyped, DownIsQuiet, SnapshotIsOld, CheckIsRecent, RefutedIsDue,
         world, history
<1>10. AttemptIsOlder'
  <2>1. sync' = sync => AttemptIsOlder'
    BY <1>0, <1>3, <1>7 DEF AttemptIsOlder, CoolingDown, history
  <2>2. starts /\ sync'.status = "syncing" => AttemptIsOlder'
    BY <1>7 DEF AttemptIsOlder, CoolingDown
  <2> QED
    BY <1>4, <2>1, <2>2
<1>11. RestartsNeverExtendCooldown'
  BY <1>7 DEF ServerInv, RestartsNeverExtendCooldown, CoolingDown, history
<1> QED
  BY <1>8, <1>9, <1>10, <1>11, TypeParts DEF ServerInv

LEMMA PassSucceedsStep == ServerInv /\ PassSucceeds => ServerInv'
<1> SUFFICES ASSUME ServerInv, PassSucceeds PROVE ServerInv'
  OBVIOUS
<1>0. /\ Parts /\ HistoryTyped /\ DownIsQuiet /\ SnapshotIsOld /\ CheckIsRecent
      /\ RefutedIsDue
  BY TypeParts DEF ServerInv
<1>1. PassingTyped /\ SyncTyped
  BY <1>0 DEF Parts
<1>2. PassingTyped' /\ ~passing'.on
  BY <1>1, PassingRecord DEF PassSucceeds
<1>3. SyncTyped' /\ sync'.status = "healthy"
  BY <1>1 DEF PassSucceeds, SyncTyped
<1>4. IndexTyped'
  BY ConstantTypes DEF PassSucceeds, IndexTyped
<1>5. UNCHANGED <<world, up, enabled, cooldown, health, check, history>>
  BY DEF PassSucceeds
<1>6. Parts'
  BY <1>0, <1>2, <1>3, <1>4, <1>5
     DEF Parts, WorldTyped, ClockTyped, HealthTyped, CheckTyped, world, history
<1>7. HistoryTyped' /\ DownIsQuiet' /\ SnapshotIsOld' /\ CheckIsRecent' /\ RefutedIsDue'
  BY <1>0, <1>2, <1>5 DEF HistoryTyped, DownIsQuiet, SnapshotIsOld, CheckIsRecent, RefutedIsDue,
         world, history
<1>8. AttemptIsOlder' /\ RestartsNeverExtendCooldown'
  BY <1>2, <1>3, <1>5
     DEF ServerInv, AttemptIsOlder, RestartsNeverExtendCooldown, CoolingDown, history
<1> QED
  BY <1>6, <1>7, <1>8, TypeParts DEF ServerInv

LEMMA PassFailsStep == \A late \in BOOLEAN : ServerInv /\ PassFails(late) => ServerInv'
<1> SUFFICES ASSUME NEW late \in BOOLEAN, ServerInv, PassFails(late) PROVE ServerInv'
  OBVIOUS
<1>0. /\ Parts /\ HistoryTyped /\ DownIsQuiet /\ SnapshotIsOld /\ CheckIsRecent
      /\ RefutedIsDue /\ AttemptIsOlder
  BY TypeParts DEF ServerInv
<1>1. IndexTyped /\ PassingTyped /\ SyncTyped
  BY <1>0 DEF Parts
<1>2. /\ ClockTyped' /\ RestartsNeverExtendCooldown'
      /\ \/ cooldown' = cooldown /\ quotaAge' = quotaAge
         \/ quotaAge' = 0
  BY QuotaIsMet DEF PassFails
<1>3. PassingTyped' /\ ~passing'.on
  BY <1>1, PassingRecord DEF PassFails
<1>4. \/ sync' = sync
      \/ sync' = [sync EXCEPT !.status = "degraded"]
      \/ CoolingDown' /\ sync' = [sync EXCEPT !.status = "rate_limited"]
  BY Zenon DEF PassFails, CoolingDown
<1>5. SyncTyped' /\ sync'.attemptAge = sync.attemptAge
  BY <1>1, <1>4 DEF SyncTyped
<1>6. IndexTyped'
  <2>1. \E age \in {0, index.successAge} : index' = [successAge |-> age, error |-> "failed"]
    BY Zenon DEF PassFails
  <2> QED
    BY <1>1, <2>1, ConstantTypes DEF IndexTyped
<1>7. passing.on /\ UNCHANGED <<world, up, enabled, health, check, outage, strayed, refuted>>
  BY DEF PassFails
<1>8. Parts'
  BY <1>0, <1>2, <1>3, <1>5, <1>6, <1>7
     DEF Parts, WorldTyped, HealthTyped, CheckTyped, world
<1>9. HistoryTyped' /\ DownIsQuiet' /\ SnapshotIsOld' /\ CheckIsRecent' /\ RefutedIsDue'
  BY <1>0, <1>3, <1>7 DEF HistoryTyped, DownIsQuiet, SnapshotIsOld, CheckIsRecent, RefutedIsDue,
         world
<1>10. AttemptIsOlder'
  <2>1. quotaAge' = 0 => quotaAge' <= sync'.attemptAge
    BY <1>5 DEF SyncTyped
  <2>2. CoolingDown' /\ cooldown' = cooldown /\ quotaAge' = quotaAge
           => quotaAge' <= sync'.attemptAge
    BY <1>0, <1>5, <1>7 DEF AttemptIsOlder, CoolingDown
  <2>3. sync.status = "rate_limited" /\ quotaAge' = quotaAge => quotaAge' <= sync'.attemptAge
    BY <1>0, <1>5 DEF AttemptIsOlder
  <2>4. sync'.status = "rate_limited" => sync.status = "rate_limited" \/ CoolingDown'
    BY <1>1, <1>4 DEF SyncTyped
  <2> QED
    BY <1>2, <1>3, <2>1, <2>2, <2>3, <2>4 DEF AttemptIsOlder
<1> QED
  BY <1>2, <1>8, <1>9, <1>10, TypeParts DEF ServerInv

LEMMA ReadForClientStep == ServerInv /\ ReadForClient => ServerInv'
<1> SUFFICES ASSUME ServerInv, ReadForClient PROVE ServerInv'
  OBVIOUS
<1>0. /\ Parts /\ HistoryTyped /\ DownIsQuiet /\ SnapshotIsOld /\ CheckIsRecent
      /\ RefutedIsDue /\ AttemptIsOlder
  BY TypeParts DEF ServerInv
<1>1. SyncTyped
  BY <1>0 DEF Parts
<1>2. /\ ClockTyped' /\ RestartsNeverExtendCooldown'
      /\ \/ cooldown' = cooldown /\ quotaAge' = quotaAge
         \/ quotaAge' = 0
  BY QuotaIsMet DEF ReadForClient
<1>3. UNCHANGED <<world, up, enabled, health, check, index, passing, sync,
                  outage, strayed, refuted>>
  BY DEF ReadForClient
<1>4. Parts'
  BY <1>0, <1>2, <1>3
     DEF Parts, WorldTyped, HealthTyped, CheckTyped, IndexTyped, PassingTyped, SyncTyped, world
<1>5. HistoryTyped' /\ DownIsQuiet' /\ SnapshotIsOld' /\ CheckIsRecent' /\ RefutedIsDue'
  BY <1>0, <1>3 DEF HistoryTyped, DownIsQuiet, SnapshotIsOld, CheckIsRecent, RefutedIsDue,
         world
<1>6. AttemptIsOlder'
  BY <1>0, <1>1, <1>2, <1>3 DEF AttemptIsOlder, SyncTyped, CoolingDown
<1> QED
  BY <1>2, <1>4, <1>5, <1>6, TypeParts DEF ServerInv

\* What changes outside leaves the server alone.
LEMMA ServerStays ==
    ASSUME ServerInv, UNCHANGED <<server, refuted, quotaAge>>,
           WorldTyped', HistoryTyped', SnapshotIsOld',
           outage' <= outage, \A r \in Relationships : strayed'[r] <= strayed[r]
    PROVE  ServerInv'
<1>1. Parts /\ HistoryTyped /\ CheckIsRecent
  BY TypeParts DEF ServerInv
<1>2. CheckTyped
  BY <1>1 DEF Parts
<1>3. Parts'
  BY <1>1 DEF Parts, ClockTyped, HealthTyped, CheckTyped, IndexTyped, PassingTyped, SyncTyped,
              server
<1>4. CheckIsRecent'
  <2>1. check' = check /\ check.runs \in Nat /\ outage \in Nat /\ outage' \in Nat
    BY <1>1, <1>2, ConstantTypes DEF CheckTyped, HistoryTyped, server
  <2>2. /\ strayed["chain"] \in Nat /\ strayed["default_resolver"] \in Nat
        /\ strayed'["chain"] \in Nat /\ strayed'["default_resolver"] \in Nat
        /\ strayed'["chain"] <= strayed["chain"]
        /\ strayed'["default_resolver"] <= strayed["default_resolver"]
    BY <1>1, ToleratedIs DEF HistoryTyped
  <2> QED
    BY <1>1, <2>1, <2>2 DEF CheckIsRecent
<1>5. DownIsQuiet' /\ RefutedIsDue' /\ AttemptIsOlder' /\ RestartsNeverExtendCooldown'
  BY DEF ServerInv, DownIsQuiet, RefutedIsDue, AttemptIsOlder, RestartsNeverExtendCooldown,
         CoolingDown, server
<1> QED
  BY <1>3, <1>4, <1>5, TypeParts DEF ServerInv

LEMMA ProviderChangesStep == \A p \in Providers : ServerInv /\ ProviderChanges(p) => ServerInv'
<1> SUFFICES ASSUME NEW p \in Providers, ServerInv, ProviderChanges(p) PROVE ServerInv'
  OBVIOUS
<1>1. Parts /\ HistoryTyped /\ SnapshotIsOld
  BY TypeParts DEF ServerInv
<1>2. /\ rpc' = p /\ outage' = IF p = "good" THEN 0 ELSE outage
      /\ UNCHANGED <<wrong, database, strayed>>
      /\ UNCHANGED <<server, refuted, quotaAge>>
  BY DEF ProviderChanges
<1>3. WorldTyped'
  BY <1>1, <1>2, Zenon DEF Parts, WorldTyped
<1>4. /\ outage \in Nat /\ outage' \in 0 .. MaxAge + MaxWork + 1 /\ outage' <= outage
      /\ \A r \in Relationships : strayed'[r] <= strayed[r]
  BY <1>1, <1>2, ConstantTypes DEF HistoryTyped
<1>5. HistoryTyped'
  BY <1>1, <1>2, <1>4 DEF HistoryTyped
<1>6. SnapshotIsOld'
  <2>1. health' = health /\ health.rpcAge \in Nat
    BY <1>1, <1>2, ConstantTypes DEF Parts, HealthTyped, server
  <2>2. outage' <= health.rpcAge + MaxWork
    BY <1>1, <1>4, <2>1, ConstantTypes DEF SnapshotIsOld
  <2> QED
    BY <1>1, <1>2, <2>1, <2>2 DEF SnapshotIsOld
<1> QED
  BY <1>2, <1>3, <1>4, <1>5, <1>6, ServerStays

LEMMA DeploymentChangesStep == \A w \in Wrongs : ServerInv /\ DeploymentChanges(w) => ServerInv'
<1> SUFFICES ASSUME NEW w \in Wrongs, ServerInv, DeploymentChanges(w) PROVE ServerInv'
  OBVIOUS
<1>1. Parts /\ HistoryTyped /\ SnapshotIsOld
  BY TypeParts DEF ServerInv
<1>2. /\ wrong' = w /\ UNCHANGED <<rpc, database, outage>>
      /\ strayed' = [r \in Relationships |-> IF r \in w THEN strayed[r] ELSE 0]
      /\ UNCHANGED <<server, refuted, quotaAge>>
  BY DEF DeploymentChanges
<1>3. WorldTyped'
  BY <1>1, <1>2, Zenon DEF Parts, WorldTyped
<1>4. \A r \in Relationships :
         /\ strayed'[r] \in Nat /\ strayed[r] \in Nat /\ strayed'[r] <= strayed[r]
         /\ r \notin wrong' => strayed'[r] = 0
         /\ strayed'[r] <= Tolerated(r) + 1
  BY <1>1, <1>2, ToleratedIs DEF HistoryTyped
<1>5. HistoryTyped'
  <2>1. strayed' \in [Relationships -> Nat]
    BY <1>2, <1>4
  <2> QED
    BY <1>1, <1>2, <1>4, <2>1 DEF HistoryTyped
<1>6. SnapshotIsOld'
  <2>1. health' = health /\ health.rpcAge \in Nat /\ health.contractAge \in Nat
    BY <1>1, <1>2, ConstantTypes DEF Parts, HealthTyped, server
  <2>2. /\ strayed'["chain"] <= health.rpcAge + MaxWork
        /\ strayed'["default_resolver"] <= health.contractAge + MaxWork
    BY <1>1, <1>4, <2>1, ConstantTypes, ToleratedIs DEF SnapshotIsOld
  <2> QED
    BY <1>1, <1>2, <1>4, <2>1, <2>2 DEF SnapshotIsOld
<1>7. outage' <= outage
  BY <1>1, <1>2, ConstantTypes DEF HistoryTyped
<1> QED
  BY <1>2, <1>3, <1>4, <1>5, <1>6, <1>7, ServerStays

LEMMA DatabaseChangesStep == ServerInv /\ DatabaseChanges => ServerInv'
<1> SUFFICES ASSUME ServerInv, DatabaseChanges PROVE ServerInv'
  OBVIOUS
<1>1. Parts /\ HistoryTyped /\ SnapshotIsOld
  BY TypeParts DEF ServerInv
<1>2. database' = ~database /\ UNCHANGED <<rpc, wrong, server, history>>
  BY DEF DatabaseChanges
<1>3. WorldTyped' /\ HistoryTyped' /\ SnapshotIsOld'
  BY <1>1, <1>2 DEF Parts, WorldTyped, HistoryTyped, SnapshotIsOld, server, history
<1>4. outage' <= outage /\ \A r \in Relationships : strayed'[r] <= strayed[r]
  BY <1>1, <1>2, ConstantTypes DEF HistoryTyped, history
<1> QED
  BY <1>2, <1>3, <1>4, ServerStays DEF history

\* Ages grow by one up to the cap, time left shrinks to zero.
LEMMA TickAges ==
    ASSUME NEW limit \in Nat, NEW age \in 0 .. limit + 1
    PROVE  /\ Older(age, limit) \in 0 .. limit + 1
           /\ Older(age, limit) = IF age <= limit THEN age + 1 ELSE age
BY OlderIs

LEMMA TickStep == ServerInv /\ Tick => ServerInv'
<1> SUFFICES ASSUME ServerInv, Tick PROVE ServerInv'
  OBVIOUS
<1>0. /\ Parts /\ HistoryTyped /\ DownIsQuiet /\ SnapshotIsOld /\ CheckIsRecent
      /\ RefutedIsDue /\ AttemptIsOlder
  BY TypeParts DEF ServerInv
<1>1. /\ ClockTyped /\ HealthTyped /\ CheckTyped /\ IndexTyped /\ PassingTyped /\ SyncTyped
  BY <1>0 DEF Parts
<1>2. /\ UNCHANGED <<world, up, enabled, refuted>>
      /\ cooldown' = Left(cooldown)
      /\ quotaAge' = Older(quotaAge, Cooldown)
  BY DEF Tick
<1>3. /\ health'.state = health.state
      /\ health'.rpcAge = Older(health.rpcAge, MaxAge)
      /\ health'.contractAge = Older(health.contractAge, ContractLimit)
      /\ health' = [state |-> health.state, rpcAge |-> Older(health.rpcAge, MaxAge),
                    contractAge |-> Older(health.contractAge, ContractLimit)]
  BY <1>1, Zenon DEF Tick, HealthTyped
<1>4. /\ check'.kind = check.kind /\ check'.left = check.left
      /\ check'.runs = IF check.kind = "none" THEN 0 ELSE check.runs + 1
      /\ check' = [kind |-> check.kind, left |-> check.left, next |-> Left(check.next),
                   runs |-> IF check.kind = "none" THEN 0 ELSE check.runs + 1]
  BY <1>1, Zenon DEF Tick, CheckTyped
<1>5. /\ passing'.on = passing.on
      /\ passing' = [on |-> passing.on, next |-> Left(passing.next),
                     runs |-> IF passing.on THEN passing.runs + 1 ELSE 0]
  BY <1>1, Zenon DEF Tick, PassingTyped
<1>6. /\ index' = [successAge |-> Older(index.successAge, MaxAge), error |-> index.error]
      /\ sync' = [status |-> sync.status, attemptAge |-> Older(sync.attemptAge, Cooldown)]
      /\ sync'.status = sync.status
      /\ sync'.attemptAge = Older(sync.attemptAge, Cooldown)
  BY <1>1, Zenon DEF Tick, IndexTyped, SyncTyped
<1>7. /\ outage' = IF rpc = "good" THEN 0 ELSE Older(outage, MaxAge + MaxWork)
      /\ strayed' = [r \in Relationships |->
                        IF r \in wrong THEN Older(strayed[r], Tolerated(r)) ELSE 0]
  BY DEF Tick
<1>8. /\ check.kind # "none" => check.runs < MaxWork
      /\ passing.on => passing.runs < MaxWork
  BY DEF Tick
<1>9. Parts'
  <2>1. ClockTyped'
    BY <1>1, <1>2, ConstantTypes, TickAges DEF ClockTyped, Left
  <2>2. HealthTyped'
    BY <1>1, <1>3, ConstantTypes, TickAges DEF HealthTyped
  <2>3. CheckTyped'
    BY <1>1, <1>4, <1>8, ConstantTypes DEF CheckTyped, Left
  <2>4. IndexTyped'
    BY <1>1, <1>6, ConstantTypes, TickAges DEF IndexTyped
  <2>5. PassingTyped'
    <3>1. Left(passing.next) \in 0 .. IndexInterval
      BY <1>1, ConstantTypes DEF PassingTyped, Left
    <3>2. (IF passing.on THEN passing.runs + 1 ELSE 0) \in 0 .. MaxWork
      BY <1>1, <1>8, ConstantTypes DEF PassingTyped
    <3> QED
      BY <1>1, <1>5, <3>1, <3>2, Zenon DEF PassingTyped
  <2>6. SyncTyped'
    BY <1>1, <1>6, ConstantTypes, TickAges DEF SyncTyped
  <2> QED
    BY <1>0, <1>2, <2>1, <2>2, <2>3, <2>4, <2>5, <2>6 DEF Parts, WorldTyped, world
<1> DEFINE Grown(age, limit) == IF age <= limit THEN age + 1 ELSE age
<1>a. quotaAge' = Grown(quotaAge, Cooldown)
  BY <1>1, <1>2, ConstantTypes, TickAges DEF ClockTyped
<1>b. sync'.attemptAge = Grown(sync.attemptAge, Cooldown)
  BY <1>1, <1>6, ConstantTypes, TickAges DEF SyncTyped
<1>c. health'.rpcAge = Grown(health.rpcAge, MaxAge)
  BY <1>1, <1>3, ConstantTypes, TickAges DEF HealthTyped
<1>d. health'.contractAge = Grown(health.contractAge, ContractLimit)
  BY <1>1, <1>3, ConstantTypes, TickAges DEF HealthTyped
<1>e. /\ outage' = 0 \/ outage' = Grown(outage, MaxAge + MaxWork)
      /\ rpc = "good" => outage' = 0
      /\ outage' \in 0 .. MaxAge + MaxWork + 1 /\ outage \in Nat
  <2>1. Older(outage, MaxAge + MaxWork) = Grown(outage, MaxAge + MaxWork)
    BY <1>0, ConstantTypes, TickAges DEF HistoryTyped
  <2> QED
    BY <1>0, <1>7, <2>1, ConstantTypes DEF HistoryTyped
<1>f. \A r \in Relationships :
         /\ strayed'[r] = 0 \/ strayed'[r] = Grown(strayed[r], Tolerated(r))
         /\ r \notin wrong => strayed'[r] = 0
         /\ strayed'[r] \in Nat /\ strayed'[r] <= Tolerated(r) + 1
         /\ strayed[r] \in Nat /\ strayed[r] <= Tolerated(r) + 1
  <2>1. ASSUME NEW r \in Relationships
        PROVE  /\ strayed'[r] = 0 \/ strayed'[r] = Grown(strayed[r], Tolerated(r))
               /\ r \notin wrong => strayed'[r] = 0
               /\ strayed'[r] \in Nat /\ strayed'[r] <= Tolerated(r) + 1
               /\ strayed[r] \in Nat /\ strayed[r] <= Tolerated(r) + 1
    <3>1. Tolerated(r) \in Nat /\ strayed[r] \in 0 .. Tolerated(r) + 1
      BY <1>0, ToleratedIs DEF HistoryTyped
    <3>2. Older(strayed[r], Tolerated(r)) = Grown(strayed[r], Tolerated(r))
      BY <3>1, TickAges
    <3>3. strayed'[r] = IF r \in wrong THEN Grown(strayed[r], Tolerated(r)) ELSE 0
      BY <1>7, <3>2
    <3> QED
      BY <3>1, <3>3
  <2> QED
    BY <2>1
<1>10. HistoryTyped'
  <2>1. strayed' \in [Relationships -> Nat]
    BY <1>7, <1>f
  <2> QED
    BY <1>e, <1>f, <2>1 DEF HistoryTyped
<1>11. DownIsQuiet'
  BY <1>0, <1>2, <1>4, <1>5 DEF DownIsQuiet
<1>g. /\ strayed["chain"] \in Nat /\ strayed["default_resolver"] \in Nat
      /\ strayed["chain"] <= MaxWork + MaxAge + 1
      /\ strayed["default_resolver"] <= MaxWork + ContractMaxAge + 1
      /\ strayed'["chain"] \in Nat /\ strayed'["default_resolver"] \in Nat
      /\ strayed'["chain"] = 0 \/ strayed'["chain"] = Grown(strayed["chain"], MaxWork + MaxAge)
      /\ \/ strayed'["default_resolver"] = 0
         \/ strayed'["default_resolver"]
               = Grown(strayed["default_resolver"], MaxWork + ContractMaxAge)
  BY <1>f, ToleratedIs
<1>12. SnapshotIsOld'
  <2>1. outage' <= health'.rpcAge + MaxWork
    BY <1>0, <1>1, <1>c, <1>e, ConstantTypes DEF HealthTyped, SnapshotIsOld
  <2>2. strayed'["chain"] <= health'.rpcAge + MaxWork
    BY <1>0, <1>1, <1>c, <1>g, ConstantTypes DEF HealthTyped, SnapshotIsOld
  <2>3. strayed'["default_resolver"] <= health'.contractAge + MaxWork
    BY <1>0, <1>1, <1>d, <1>g, ConstantTypes, LimitIs DEF HealthTyped, SnapshotIsOld
  <2> QED
    BY <1>2, <1>e, <1>f, <2>1, <2>2, <2>3 DEF SnapshotIsOld, world
<1>16. CheckIsRecent'
  <2>1. check.runs \in Nat
    BY <1>1, ConstantTypes DEF CheckTyped
  <2>2. check.kind # "none" /\ outage <= check.runs => outage' <= check'.runs
    BY <1>4, <1>e, <2>1, ConstantTypes
  <2>3. check.kind # "none" /\ strayed["chain"] <= check.runs
          => strayed'["chain"] <= check'.runs
    BY <1>4, <1>g, <2>1, ConstantTypes
  <2>4. check.kind # "none" /\ strayed["default_resolver"] <= check.runs
          => strayed'["default_resolver"] <= check'.runs
    BY <1>4, <1>g, <2>1, ConstantTypes
  <2> HIDE DEF Grown
  <2> QED
    BY <1>0, <1>4, <2>2, <2>3, <2>4, ReadsAre DEF CheckIsRecent
<1>13. RefutedIsDue'
  <2>1. health.contractAge >= FullInterval => health'.contractAge >= FullInterval
    BY <1>1, <1>d, ConstantTypes, LimitIs DEF HealthTyped
  <2> QED
    BY <1>0, <1>2, <1>3, <1>4, <2>1 DEF RefutedIsDue
<1>14. AttemptIsOlder'
  <2>1. quotaAge <= sync.attemptAge => quotaAge' <= sync'.attemptAge
    BY <1>1, <1>a, <1>b, ConstantTypes DEF ClockTyped, SyncTyped
  <2>2. CoolingDown' => CoolingDown
    BY <1>1, <1>2, ConstantTypes DEF CoolingDown, Left, ClockTyped
  <2> QED
    BY <1>0, <1>5, <1>6, <2>1, <2>2 DEF AttemptIsOlder
<1>15. RestartsNeverExtendCooldown'
  BY <1>1, <1>2, <1>a, ConstantTypes
     DEF ServerInv, ClockTyped, RestartsNeverExtendCooldown, CoolingDown, Left
<1> QED
  BY <1>9, <1>10, <1>11, <1>12, <1>13, <1>14, <1>15, <1>16, TypeParts DEF ServerInv

-----------------------------------------------------------------------------
LEMMA StepServerInv == ServerInv /\ [Next]_vars => ServerInv'
<1> SUFFICES ASSUME ServerInv, [Next]_vars PROVE ServerInv'
  OBVIOUS
<1>1. CASE UNCHANGED vars
  <2>1. Parts'
    BY <1>1, TypeParts DEF ServerInv, vars, server, world, history, Parts, WorldTyped, ClockTyped,
         HealthTyped, CheckTyped, IndexTyped, PassingTyped, SyncTyped
  <2> QED
    BY <1>1, <2>1, TypeParts
       DEF ServerInv, vars, server, world, history, HistoryTyped, DownIsQuiet, SnapshotIsOld,
           CheckIsRecent, RefutedIsDue, AttemptIsOlder, RestartsNeverExtendCooldown, CoolingDown
<1>2. CASE Boot
  BY <1>2, BootStep
<1>3. CASE Crash
  BY <1>3, CrashStep
<1>4. CASE CheckTick
  BY <1>4, CheckTickStep
<1>5. CASE CheckSucceeds
  BY <1>5, CheckSucceedsStep
<1>6. CASE CheckFails
  BY <1>6, CheckFailsStep
<1>7. CASE SyncTick
  BY <1>7, SyncTickStep
<1>8. CASE PassSucceeds
  BY <1>8, PassSucceedsStep
<1>9. CASE \E late \in BOOLEAN : PassFails(late)
  BY <1>9, PassFailsStep
<1>10. CASE ReadForClient
  BY <1>10, ReadForClientStep
<1>11. CASE \E p \in Providers : ProviderChanges(p)
  BY <1>11, ProviderChangesStep
<1>13. CASE \E w \in Wrongs : DeploymentChanges(w)
  BY <1>13, DeploymentChangesStep
<1>14. CASE DatabaseChanges
  BY <1>14, DatabaseChangesStep
<1>15. CASE \E n \in 1 .. 5 : CheckReads(n)
  BY <1>15, CheckReadsStep
<1>12. CASE Tick
  BY <1>12, TickStep
<1> QED
  BY <1>1, <1>2, <1>3, <1>4, <1>5, <1>6, <1>7, <1>8, <1>9, <1>10, <1>11, <1>12, <1>13, <1>14,
     <1>15 DEF Next

(***************************************************************************)
(* The strengthening holds in every reachable state.                       *)
(***************************************************************************)
THEOREM ServerInvHolds == Spec => []ServerInv
<1>1. Init => ServerInv
  BY InitServerInv
<1>2. ServerInv /\ [Next]_vars => ServerInv'
  BY StepServerInv
<1> QED
  BY <1>1, <1>2, PTL DEF Spec

(***************************************************************************)
(* Every variable of the server keeps its type.                            *)
(***************************************************************************)
THEOREM ServerTyped == Spec => []TypeOK
<1>1. ServerInv => TypeOK
  BY DEF ServerInv
<1> QED
  BY <1>1, ServerInvHolds, PTL

(***************************************************************************)
(* /ready says yes only if the provider answered, on the frozen chain,     *)
(* within MaxAge and a check's duration, and the default resolver was the  *)
(* frozen one within ContractMaxAge and that duration (health.ts, client.ts). *)
(***************************************************************************)
THEOREM ReadyEarned == Spec => []ReadyIsEarned
<1>1. ServerInv => ReadyIsEarned
  <2> SUFFICES ASSUME ServerInv, Ready
               PROVE  /\ outage <= MaxAge + MaxWork
                      /\ \A r \in Relationships : strayed[r] <= Tolerated(r)
    BY DEF ReadyIsEarned
  <2>1. Parts /\ HistoryTyped /\ SnapshotIsOld
    BY TypeParts DEF ServerInv
  <2>2. /\ health.rpcAge <= MaxAge /\ health.contractAge <= ContractMaxAge
        /\ health.rpcAge \in Nat /\ health.contractAge \in Nat
    BY <2>1, ConstantTypes DEF Ready, HealthIsReady, Parts, HealthTyped
  <2>3. outage \in Nat /\ strayed["chain"] \in Nat /\ strayed["default_resolver"] \in Nat
    BY <2>1, ToleratedIs, ConstantTypes DEF HistoryTyped
  <2>4. /\ outage <= MaxAge + MaxWork
        /\ strayed["chain"] <= Tolerated("chain")
        /\ strayed["default_resolver"] <= Tolerated("default_resolver")
    BY <2>1, <2>2, <2>3, ToleratedIs, ConstantTypes DEF SnapshotIsOld
  <2> QED
    BY <2>4, ToleratedIs
<1> QED
  BY <1>1, ServerInvHolds, PTL

(***************************************************************************)
(* After a full check failed the server is not ready before one succeeds.  *)
(***************************************************************************)
THEOREM VerificationHolds == Spec => []FailedVerificationHolds
<1>1. ServerInv => FailedVerificationHolds
  BY DEF ServerInv, RefutedIsDue, FailedVerificationHolds, Ready, HealthIsReady
<1> QED
  BY <1>1, ServerInvHolds, PTL

(***************************************************************************)
(* A cooldown ends at most Cooldown after the quota was met, however often *)
(* the process restarts in between.                                        *)
(***************************************************************************)
THEOREM CooldownBounded == Spec => []RestartsNeverExtendCooldown
<1>1. ServerInv => RestartsNeverExtendCooldown
  BY DEF ServerInv
<1> QED
  BY <1>1, ServerInvHolds, PTL
=============================================================================
