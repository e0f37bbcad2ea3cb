--------------------------- MODULE EvidraRegistry ---------------------------
(***************************************************************************)
(* The EvidraRegistry contract: the request lifecycle, the canonical fact  *)
(* and its history, fees and refundable credits, consumer callbacks and    *)
(* administration.  The module is open: any account may call any entry     *)
(* point, and a resolver may submit any commit at any time, whether or not *)
(* it was asked to.  A call that reverts changes nothing and is no step.   *)
(*                                                                         *)
(* A member of FactKeys stands for the hash of (claim, policy hash, schema *)
(* version, template hash), so two requests name the same key exactly when *)
(* all four agree; the claim includes the mutability.  Texts, URLs, the    *)
(* event log and the statistics counter are left out.                      *)
(***************************************************************************)
EXTENDS Integers, Sequences, FiniteSetsExt, Functions

CONSTANTS
    Accounts,       \* externally owned callers: requesters, owner, guardian
    Deployer,       \* the account that ran the constructor
    Resolvers,      \* resolver contracts
    Consumers,      \* callback targets
    ZERO,           \* the zero address
    FactKeys,
    MutableKeys,    \* keys whose claim is MUTABLE_WITH_TTL; the others are IMMUTABLE
    TemplateKeys,   \* keys with a non-empty template hash
    Ttls,           \* ttl_seconds a caller may ask for
    Untils,         \* valid_until a resolver may submit
    Values,         \* value a payable call may carry
    FeeConfigs,     \* arguments the owner may give set_fee_config
    InitialFees,    \* the constructor's fee and timing defaults
    MaxRequests,    \* bound: requests created
    MaxTime         \* bound: the clock stops here

FeeConfig == [base : Nat, perAttempt : Nat, reuse : Nat, retryDelay : Nat,
              staleAfter : Nat \ {0}, maxAttempts : 1..32]

ASSUME RegistryConstants ==
    /\ Deployer \in Accounts
    /\ ZERO \notin Accounts \cup Resolvers \cup Consumers
    /\ MutableKeys \subseteq FactKeys
    /\ TemplateKeys \subseteq FactKeys
    /\ Ttls \subseteq Nat /\ Untils \subseteq Nat /\ Values \subseteq Nat
    /\ FeeConfigs \subseteq FeeConfig
    /\ InitialFees \in FeeConfig
    /\ MaxRequests \in Nat /\ MaxTime \in Nat

\* An address has 160 bits: there are finitely many accounts.
ASSUME AccountsAreFinite == IsFiniteSet(Accounts)

VARIABLES
    owner, pendingOwner, guardian, paused, fees, resolvers, defaultResolver,
    activePolicies,   \* keys whose source policy EvidraPolicyRegistry reports active
    activeTemplates,  \* template keys whose template it reports active
    requests,         \* requests[i]: RequestRecord of request id i
    resolutions,      \* resolutions[i]: ResolutionRecord of resolution id i
    facts,            \* facts[k]: FactRecord
    history,          \* history[k]: resolution ids committed for k, oldest first
    credits,          \* withdrawable balance of each account
    balance,          \* value the contract holds on chain
    transfers,        \* value of each account's transfers emitted, not yet finalized
    jobs,             \* resolve_request messages emitted to resolvers
    callbacks,        \* on_evidra_result messages emitted to consumers
    now

adminVars == <<owner, pendingOwner, guardian, paused, fees, resolvers, defaultResolver>>
policyVars == <<activePolicies, activeTemplates>>
factVars == <<resolutions, facts, history>>
moneyVars == <<credits, balance, transfers>>
messageVars == <<jobs, callbacks>>
vars == <<adminVars, policyVars, requests, factVars, moneyVars, messageVars, now>>

-----------------------------------------------------------------------------
(* The values the contract works with. *)

BooleanOutcomes == {"TRUE", "FALSE"}
Outcomes == BooleanOutcomes \cup {"UNRESOLVED"}
Diagnostics == {"NONE", "REASON"}       \* REASON: any of the six other codes
ReuseModes == {"REUSE_IF_FRESH", "FORCE_FRESH_RESOLUTION"}
Open == {"PENDING", "DISPATCHED"}
Terminal == {"RESOLVED", "REUSED", "CANCELLED"}
Statuses == Open \cup Terminal
CallbackStatuses == {"NOT_REQUESTED", "DISPATCHED", "ACKNOWLEDGED", "FAILED_REPORTED"}
Targets == Consumers \cup {ZERO}

Request == [requester : Accounts, key : FactKeys, ttl : Nat, resolver : Resolvers,
            createdAt : Nat, status : Statuses, attempt : Nat, attempts : Nat,
            maxAttempts : Nat, lastAttemptAt : Nat, retryAfter : Nat,
            target : Targets, callback : CallbackStatuses, fee : Nat, resolution : Nat]

Resolution == [request : Nat, key : FactKeys, attempt : Nat, outcome : Outcomes,
               policyOk : BOOLEAN, committedAt : Nat, validUntil : Nat,
               version : Nat, supersedes : Nat]

Fact == [exists : BOOLEAN, current : Nat, latest : Nat, request : Nat,
         outcome : Outcomes \cup {""}, resolvedAt : Nat, validUntil : Nat, version : Nat]

EmptyFact == [exists |-> FALSE, current |-> 0, latest |-> 0, request |-> 0,
              outcome |-> "", resolvedAt |-> 0, validUntil |-> 0, version |-> 0]

Job == [request : Nat, attempt : Nat, resolver : Resolvers]
Callback == [target : Consumers, request : Nat, key : FactKeys, resolution : Nat,
             outcome : Outcomes, resolvedAt : Nat, validUntil : Nat]

\* What a resolver submits: the bindings collapse to the fact key they bind to.
Commit == [attempt : Nat, key : FactKeys, outcome : Outcomes, diagnostic : Diagnostics,
           policyOk : BOOLEAN, until : Nat]

TypeOK ==
    /\ owner \in Accounts /\ pendingOwner \in Accounts \cup {ZERO} /\ guardian \in Accounts
    /\ paused \in BOOLEAN
    /\ fees \in FeeConfig
    /\ resolvers \in [Resolvers -> {"unknown", "enabled", "disabled"}]
    /\ defaultResolver \in Resolvers \cup {ZERO}
    /\ activePolicies \subseteq FactKeys /\ activeTemplates \subseteq TemplateKeys
    /\ requests \in Seq(Request)
    /\ resolutions \in Seq(Resolution)
    /\ facts \in [FactKeys -> Fact]
    /\ history \in [FactKeys -> Seq(Nat)]
    /\ credits \in [Accounts -> Nat]
    /\ balance \in Int
    /\ transfers \in [Accounts -> Nat]
    /\ jobs \subseteq Job /\ callbacks \subseteq Callback
    /\ now \in Nat

Init ==
    /\ owner = Deployer /\ pendingOwner = ZERO /\ guardian = Deployer
    /\ paused = FALSE
    /\ fees = InitialFees
    /\ resolvers = [r \in Resolvers |-> "unknown"]
    /\ defaultResolver = ZERO
    /\ activePolicies = FactKeys /\ activeTemplates = TemplateKeys
    /\ requests = <<>> /\ resolutions = <<>>
    /\ facts = [k \in FactKeys |-> EmptyFact]
    /\ history = [k \in FactKeys |-> <<>>]
    /\ credits = [a \in Accounts |-> 0]
    /\ balance = 0
    /\ transfers = [a \in Accounts |-> 0]
    /\ jobs = {} /\ callbacks = {}
    /\ now = 1

-----------------------------------------------------------------------------
(* Helpers shared by the entry points. *)

\* Mutant: the enabled flag is not looked at.
KnownResolver(r) == r \in Resolvers /\ resolvers[r] # "unknown"
Enabled(r) == r \in Resolvers /\ resolvers[r] = "enabled"

\* Mutant: the requested ttl is not compared with the answer's age.
ExpiryAllowsReuse(k, outcome, resolvedAt, validUntil, ttl) ==
    outcome \in BooleanOutcomes /\ (k \in MutableKeys => now <= validUntil)
FreshnessAllowsReuse(k, outcome, resolvedAt, validUntil, ttl) ==
    /\ outcome \in BooleanOutcomes
    /\ k \in MutableKeys => /\ now <= validUntil
                            /\ ttl > 0
                            /\ now - resolvedAt <= ttl

CanReuse(k, mode, ttl) ==
    LET f == facts[k]
    IN  /\ mode = "REUSE_IF_FRESH"
        /\ f.exists
        /\ FreshnessAllowsReuse(k, f.outcome, f.resolvedAt, f.validUntil, ttl)

Quote(reuseHit) == IF reuseHit THEN fees.reuse ELSE fees.base + fees.perAttempt

\* The call carries value; what exceeds the price becomes the payer's credit.
TakePayment(payer, required, value) ==
    /\ value >= required
    /\ balance' = balance + value
    /\ credits' = [credits EXCEPT ![payer] = @ + (value - required)]
    /\ UNCHANGED transfers

\* A request as it stands after _dispatch, and the job message that goes out.
Dispatched(q) == [q EXCEPT !.status = "DISPATCHED",
                           !.lastAttemptAt = now,
                           !.retryAfter = now + fees.retryDelay]
JobOf(rid, q) == [request |-> rid, attempt |-> q.attempt, resolver |-> q.resolver]

\* The callback a result owes its target, as message and as callback status.
\* Mutants: nothing is sent to a target that has already reported; the message is
\* stamped with the time it is sent.
CallbackUnlessReported(rid, q, resid, outcome, resolvedAt, validUntil) ==
    IF q.target = ZERO \/ q.callback # "NOT_REQUESTED" THEN {}
    ELSE {[target |-> q.target, request |-> rid, key |-> q.key, resolution |-> resid,
           outcome |-> outcome, resolvedAt |-> resolvedAt, validUntil |-> validUntil]}
CallbackStamped(rid, q, resid, outcome, resolvedAt, validUntil) ==
    IF q.target = ZERO THEN {}
    ELSE {[target |-> q.target, request |-> rid, key |-> q.key, resolution |-> resid,
           outcome |-> outcome, resolvedAt |-> now, validUntil |-> validUntil]}
CallbackMessages(rid, q, resid, outcome, resolvedAt, validUntil) ==
    IF q.target = ZERO THEN {}
    ELSE {[target |-> q.target, request |-> rid, key |-> q.key, resolution |-> resid,
           outcome |-> outcome, resolvedAt |-> resolvedAt, validUntil |-> validUntil]}
CallbackStatus(q) == IF q.target = ZERO THEN "NOT_REQUESTED" ELSE "DISPATCHED"

NewRequest(sender, k, ttl, target, paid) ==
    [requester |-> sender, key |-> k, ttl |-> ttl, resolver |-> defaultResolver,
     createdAt |-> now, status |-> "PENDING", attempt |-> 1, attempts |-> 0,
     maxAttempts |-> fees.maxAttempts, lastAttemptAt |-> 0, retryAfter |-> 0,
     target |-> target, callback |-> "NOT_REQUESTED", fee |-> paid, resolution |-> 0]

\* A request answered with a resolution, fresh or reused, its callback on the way.
Answered(q, status, resid) == [q EXCEPT !.status = status,
                                        !.resolution = resid,
                                        !.callback = CallbackStatus(q)]

AnswerFromFact(q) ==
    LET f == facts[q.key]
        rid == Len(requests) + 1
    IN  /\ requests' = Append(requests, Answered(q, "REUSED", f.current))
        /\ callbacks' = callbacks \cup
               CallbackMessages(rid, q, f.current, f.outcome, f.resolvedAt, f.validUntil)
        /\ UNCHANGED jobs

DispatchNew(q) ==
    LET rid == Len(requests) + 1
    IN  /\ requests' = Append(requests, Dispatched([q EXCEPT !.attempts = 1]))
        /\ jobs' = jobs \cup {JobOf(rid, q)}
        /\ UNCHANGED callbacks

CreateRequest(sender, k, ttl, mode, target, value) ==
    LET hit == CanReuse(k, mode, ttl)
        q == NewRequest(sender, k, ttl, target, Quote(hit))
    IN  /\ Len(requests) < MaxRequests
        /\ ~paused
        /\ k \in MutableKeys => ttl > 0
        /\ k \in activePolicies
        /\ Enabled(defaultResolver)
        /\ TakePayment(sender, Quote(hit), value)
        /\ IF hit THEN AnswerFromFact(q) ELSE DispatchNew(q)
        /\ UNCHANGED <<adminVars, policyVars, factVars, now>>

-----------------------------------------------------------------------------
(* Entry points that create a request. *)

RequestFact(sender, k, ttl, mode, target, value) ==
    /\ k \notin TemplateKeys
    /\ CreateRequest(sender, k, ttl, mode, target, value)

RequestFactByTemplate(sender, k, ttl, mode, target, value) ==
    /\ k \in activeTemplates
    /\ CreateRequest(sender, k, ttl, mode, target, value)

\* A refresh asks again what the request behind the canonical head asked.
RefreshFact(sender, k, target, value) ==
    LET previous == requests[facts[k].request]
    IN  /\ facts[k].exists
        /\ k \in MutableKeys
        /\ CreateRequest(sender, previous.key, previous.ttl,
                         "FORCE_FRESH_RESOLUTION", target, value)

RequestReassessment(sender, k, target, value) ==
    LET previous == requests[facts[k].request]
    IN  /\ facts[k].exists
        /\ CreateRequest(sender, previous.key, previous.ttl,
                         "FORCE_FRESH_RESOLUTION", target, value)

-----------------------------------------------------------------------------
(* Entry points that drive an open request. *)

\* Mutant: a retry does not count against max_attempts.
UncountedAttempt(q) == [q EXCEPT !.fee = @ + fees.perAttempt, !.attempt = @ + 1]
NextAttempt(q) == [q EXCEPT !.fee = @ + fees.perAttempt,
                            !.attempt = @ + 1,
                            !.attempts = @ + 1]

RetryResolution(sender, rid, value) ==
    LET q == requests[rid]
    IN  /\ sender \in {q.requester, owner}
        /\ q.status \in Open
        /\ q.attempts < q.maxAttempts
        /\ now >= q.retryAfter
        /\ Enabled(q.resolver)
        /\ TakePayment(sender, fees.perAttempt, value)
        /\ requests' = [requests EXCEPT ![rid] = Dispatched(NextAttempt(q))]
        /\ jobs' = jobs \cup {JobOf(rid, NextAttempt(q))}
        /\ UNCHANGED <<adminVars, policyVars, factVars, callbacks, now>>

StaleSince(q) == IF q.lastAttemptAt = 0 THEN q.createdAt ELSE q.lastAttemptAt

\* Mutant: the refunded fee stays on the request.
CancelledKeepingFee(q) == [q EXCEPT !.status = "CANCELLED"]
Cancelled(q) == [q EXCEPT !.status = "CANCELLED", !.fee = 0]

CancelStaleRequest(sender, rid) ==
    LET q == requests[rid]
    IN  /\ sender \in {q.requester, owner, guardian}
        /\ q.status \in Open
        /\ now >= StaleSince(q) + fees.staleAfter
        /\ requests' = [requests EXCEPT ![rid] = Cancelled(q)]
        /\ credits' = [credits EXCEPT ![q.requester] = @ + q.fee]
        /\ UNCHANGED <<adminVars, policyVars, factVars, balance, transfers, messageVars, now>>

\* Mutants: any answer advances; whatever is newest advances.
AnswerAdvances(f, outcome, policyOk) ==
    outcome \in BooleanOutcomes \/ ~f.exists \/ f.outcome \notin BooleanOutcomes
NewestAdvances(f, outcome, policyOk) == TRUE
\* Whether a committed attempt becomes the canonical head.
ShouldAdvanceCanonical(f, outcome, policyOk) ==
    \/ outcome \in BooleanOutcomes /\ policyOk
    \/ ~f.exists
    \/ f.outcome \notin BooleanOutcomes

\* Mutant: the chain hangs on the canonical head.
PreviousCanonical(f) == f.current
\* The newest attempt at the fact, 0 when there is none.
PreviousAttempt(f) == IF f.latest = 0 THEN f.current ELSE f.latest

ValidUntil(q, until) ==
    CASE q.key \notin MutableKeys -> 0
      [] q.key \in MutableKeys /\ until = 0 -> now + q.ttl
      [] OTHER -> until

CommittedResolution(rid, q, c) ==
    LET previous == PreviousAttempt(facts[q.key])
    IN  [request |-> rid, key |-> q.key, attempt |-> c.attempt,
         outcome |-> c.outcome, policyOk |-> c.policyOk,
         committedAt |-> now, validUntil |-> ValidUntil(q, c.until),
         version |-> IF previous = 0 THEN 1 ELSE resolutions[previous].version + 1,
         supersedes |-> previous]

\* Mutant: an attempt that does not advance still renews the expiry.
FactRenewed(f, resid, r) ==
    IF ShouldAdvanceCanonical(f, r.outcome, r.policyOk)
    THEN [exists |-> TRUE, current |-> resid, latest |-> resid, request |-> r.request,
          outcome |-> r.outcome, resolvedAt |-> r.committedAt,
          validUntil |-> r.validUntil, version |-> r.version]
    ELSE [f EXCEPT !.latest = resid, !.validUntil = r.validUntil]
FactAfter(f, resid, r) ==
    IF ShouldAdvanceCanonical(f, r.outcome, r.policyOk)
    THEN [exists |-> TRUE, current |-> resid, latest |-> resid, request |-> r.request,
          outcome |-> r.outcome, resolvedAt |-> r.committedAt,
          validUntil |-> r.validUntil, version |-> r.version]
    ELSE [f EXCEPT !.latest = resid]

\* Mutants: a late commit is taken whatever became of the request; an attempt that
\* was superseded by a retry is taken.
CommitAnyStatus(sender, q, c) ==
    /\ sender = q.resolver
    /\ c.attempt = q.attempt
    /\ c.key = q.key
    /\ c.outcome \in BooleanOutcomes => c.diagnostic = "NONE"
CommitAnyAttempt(sender, q, c) ==
    /\ sender = q.resolver
    /\ q.status \in Open
    /\ c.key = q.key
    /\ c.outcome \in BooleanOutcomes => c.diagnostic = "NONE"
\* Whether a commit is for the request's open, active attempt and well formed.
CommitAccepted(sender, q, c) ==
    /\ sender = q.resolver
    /\ q.status \in Open
    /\ c.attempt = q.attempt
    /\ c.key = q.key
    /\ c.outcome \in BooleanOutcomes => c.diagnostic = "NONE"

CommitResolution(sender, rid, c) ==
    LET q == requests[rid]
        resid == Len(resolutions) + 1
        r == CommittedResolution(rid, q, c)
    IN  /\ CommitAccepted(sender, q, c)
        /\ resolutions' = Append(resolutions, r)
        /\ history' = [history EXCEPT ![q.key] = Append(@, resid)]
        /\ facts' = [facts EXCEPT ![q.key] = FactAfter(@, resid, r)]
        /\ requests' = [requests EXCEPT ![rid] = Answered(q, "RESOLVED", resid)]
        /\ callbacks' = callbacks \cup
               CallbackMessages(rid, q, resid, r.outcome, r.committedAt, r.validUntil)
        /\ UNCHANGED <<adminVars, policyVars, moneyVars, jobs, now>>

-----------------------------------------------------------------------------
(* Callbacks and credits. *)

RequestCallbackRetry(sender, rid) ==
    LET q == requests[rid]
        r == resolutions[q.resolution]
    IN  /\ sender \in {q.requester, owner}
        /\ q.target # ZERO
        /\ q.status \in {"RESOLVED", "REUSED"}
        /\ q.callback \in {"DISPATCHED", "FAILED_REPORTED"}
        /\ callbacks' = callbacks \cup CallbackMessages(rid, q, q.resolution, r.outcome,
                                                        r.committedAt, r.validUntil)
        /\ requests' = [requests EXCEPT ![rid] = [q EXCEPT !.callback = CallbackStatus(q)]]
        /\ UNCHANGED <<adminVars, policyVars, factVars, moneyVars, jobs, now>>

Reported(q, succeeded) ==
    [q EXCEPT !.callback = IF succeeded THEN "ACKNOWLEDGED" ELSE "FAILED_REPORTED"]

MarkCallbackResult(sender, rid, succeeded) ==
    /\ requests[rid].target # ZERO
    /\ sender = requests[rid].target
    /\ requests' = [requests EXCEPT ![rid] = Reported(requests[rid], succeeded)]
    /\ UNCHANGED <<adminVars, policyVars, factVars, moneyVars, messageVars, now>>

WithdrawCredit(who) ==
    /\ credits[who] > 0
    /\ credits' = [credits EXCEPT ![who] = 0]
    /\ transfers' = [transfers EXCEPT ![who] = @ + credits[who]]
    /\ UNCHANGED <<adminVars, policyVars, requests, factVars, balance, messageVars, now>>

-----------------------------------------------------------------------------
(* Administration. *)

SetResolverEnabled(sender, r, enabled) ==
    /\ sender = owner
    /\ resolvers' = [resolvers EXCEPT ![r] = IF enabled THEN "enabled" ELSE "disabled"]
    /\ UNCHANGED <<owner, pendingOwner, guardian, paused, fees, defaultResolver>>

SetDefaultResolver(sender, r) ==
    /\ sender = owner
    /\ Enabled(r)
    /\ defaultResolver' = r
    /\ UNCHANGED <<owner, pendingOwner, guardian, paused, fees, resolvers>>

SetFeeConfig(sender, config) ==
    /\ sender = owner
    /\ fees' = config
    /\ UNCHANGED <<owner, pendingOwner, guardian, paused, resolvers, defaultResolver>>

SetGuardian(sender, account) ==
    /\ sender = owner
    /\ guardian' = account
    /\ UNCHANGED <<owner, pendingOwner, paused, fees, resolvers, defaultResolver>>

PauseNewRequests(sender) ==
    /\ sender \in {guardian, owner}
    /\ paused' = TRUE
    /\ UNCHANGED <<owner, pendingOwner, guardian, fees, resolvers, defaultResolver>>

UnpauseNewRequests(sender) ==
    /\ sender = owner
    /\ paused' = FALSE
    /\ UNCHANGED <<owner, pendingOwner, guardian, fees, resolvers, defaultResolver>>

ProposeOwner(sender, account) ==
    /\ sender = owner
    /\ pendingOwner' = account
    /\ UNCHANGED <<owner, guardian, paused, fees, resolvers, defaultResolver>>

AcceptOwner(sender) ==
    /\ sender = pendingOwner
    /\ owner' = pendingOwner
    /\ pendingOwner' = ZERO
    /\ UNCHANGED <<guardian, paused, fees, resolvers, defaultResolver>>

Administer(sender) ==
    /\ \/ \E r \in Resolvers, e \in BOOLEAN : SetResolverEnabled(sender, r, e)
       \/ \E r \in Resolvers : SetDefaultResolver(sender, r)
       \/ \E c \in FeeConfigs : SetFeeConfig(sender, c)
       \/ \E a \in Accounts : SetGuardian(sender, a)
       \/ PauseNewRequests(sender)
       \/ UnpauseNewRequests(sender)
       \/ \E a \in Accounts : ProposeOwner(sender, a)
       \/ AcceptOwner(sender)
    /\ UNCHANGED <<policyVars, requests, factVars, moneyVars, messageVars, now>>

-----------------------------------------------------------------------------
(* What happens around the contract: the policy registry's owner deprecates *)
(* a policy or template, the chain finalizes a transfer, time passes.       *)

DeprecatePolicy(k) ==
    /\ activePolicies' = activePolicies \ {k}
    /\ UNCHANGED <<adminVars, activeTemplates, requests, factVars, moneyVars, messageVars, now>>

DeprecateTemplate(k) ==
    /\ activeTemplates' = activeTemplates \ {k}
    /\ UNCHANGED <<adminVars, activePolicies, requests, factVars, moneyVars, messageVars, now>>

FinalizeTransfer(who) ==
    /\ transfers[who] > 0
    /\ balance' = balance - transfers[who]
    /\ transfers' = [transfers EXCEPT ![who] = 0]
    /\ UNCHANGED <<adminVars, policyVars, requests, factVars, credits, messageVars, now>>

Tick ==
    /\ now < MaxTime
    /\ now' = now + 1
    /\ UNCHANGED <<adminVars, policyVars, requests, factVars, moneyVars, messageVars>>

-----------------------------------------------------------------------------

CreateNext ==
    \E sender \in Accounts, k \in FactKeys, target \in Targets, value \in Values :
        \/ \E ttl \in Ttls, mode \in ReuseModes :
              \/ RequestFact(sender, k, ttl, mode, target, value)
              \/ RequestFactByTemplate(sender, k, ttl, mode, target, value)
        \/ RefreshFact(sender, k, target, value)
        \/ RequestReassessment(sender, k, target, value)

DriveNext ==
    \E rid \in DOMAIN requests :
        \/ \E sender \in Accounts, value \in Values : RetryResolution(sender, rid, value)
        \/ \E sender \in Accounts : CancelStaleRequest(sender, rid)
        \/ \E sender \in Accounts : RequestCallbackRetry(sender, rid)
        \/ \E sender \in Consumers, succeeded \in BOOLEAN :
              MarkCallbackResult(sender, rid, succeeded)

Commits == [attempt : {q.attempt : q \in Range(requests)}, key : FactKeys,
            outcome : Outcomes, diagnostic : Diagnostics, policyOk : BOOLEAN, until : Untils]

CommitNext ==
    \E sender \in Resolvers, rid \in DOMAIN requests, c \in Commits :
        CommitResolution(sender, rid, c)

SurroundingsNext ==
    \/ \E k \in FactKeys : DeprecatePolicy(k)
    \/ \E k \in TemplateKeys : DeprecateTemplate(k)
    \/ \E who \in Accounts : FinalizeTransfer(who)
    \/ Tick

Next ==
    \/ CreateNext
    \/ DriveNext
    \/ CommitNext
    \/ \E who \in Accounts : WithdrawCredit(who)
    \/ \E sender \in Accounts : Administer(sender)
    \/ SurroundingsNext

Spec == Init /\ [][Next]_vars
=============================================================================
