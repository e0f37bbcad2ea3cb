# Evidra Protocol: formal specification

TLA+ modules, TLC configurations and TLAPS proofs for the Evidra protocol:
the GenLayer contracts that turn a claim into a resolved fact, and the
TypeScript services that read and show it.

Run a model with `tlc -config MCRegistryFacts.cfg MCRegistry` and check a proof
with `tlapm RegistryProofs.tla`.

## 1. The system

| Component | State it keeps | Operations | What makes it hard | What makes it correct |
|---|---|---|---|---|
| `evidra_registry.py` | requests, resolutions, facts, per-fact history, resolvers, credits, roles, fees | five ways to create a request; retry, cancel, commit; callback retry and report; withdraw; administration | resolvers answer asynchronously: commits arrive late, twice, out of order, after a cancel or a retry; facts are a denormalised copy; money moves in four places | one resolution per request, canonical head rule, fresh reuse, callbacks that agree with the record, conservation of funds |
| `evidra_resolver.py` | registry and policy-registry address | `resolve_request`: read a job snapshot, check policy and template, fetch sources, evaluate under consensus, emit a commit | the snapshot is read from another contract and may be stale when the commit arrives; leader output is untrusted | commits only what the policy evaluation allows; never a TRUE/FALSE whose policy is unsatisfied |
| `evidra_policy_registry.py` | policies and templates by id and version, latest versions, owner | publish, deprecate, two-step ownership | a policy may be deprecated between request and resolution | versions are immutable, latest is the newest published |
| `evidra_consumer_probe.py` | last result, processed callback ids, counters | `on_evidra_result` | duplicated callbacks | each callback counted once |
| `packages/protocol` scheduler and client | queue, active count, cooldown, in-flight reads | schedule, pump timer, execute with retries, hard-quota cooldown, single-flight | timers and promises interleave; two jobs may run at once | spacing, at most `concurrency` calls, silence during a cooldown, every job settled |
| `apps/api` indexer and `packages/db` repository | projection tables, checkpoints, sync status | `syncOnce` and its passes | the chain moves between reads; errors, crashes and restarts in the middle of a pass; rows written one by one | what a checkpoint counts is in the database, the projection never goes back, a finished pass is consistent, it catches up |
| the path of one record | wire form, client record, row, freshness, answer | read, upsert, refresh freshness, serve from row or chain | numbers wider than JavaScript's or the column's, expiry between passes, outages that look like absence | an answer is one version of the record, stale is marked, failure is not absence |
| `apps/api` health monitor and process | health snapshot, timers, cooldown, persisted status | boot, light and full checks, passes, `/ready` | several clocks and timers, quota met by anybody, restarts | ready means verified within the limits and a check's duration; a failed verification holds; it recovers |
| `apps/web` write flow | pending pointer in local storage, each page's button and running calls | click, quote, approve, follow, reconcile after reload | refusal, reload, navigation, lost identifier, two pages, two clicks on one page | an open write is not forgotten unless writes overlap, and what an overlap may cost is known |
| configuration, migrations, scripts, other pages | none of the protocol's | | | the configured intervals are at least a second, and nothing relates one to another |

The registry emits `resolve_request(request, attempt)` to the assigned resolver
and `on_evidra_result(...)` to the request's target, both on finalization; the
resolver emits `commit_resolution(...)` back. All three are messages: they are
delivered later, possibly after other calls, and a message whose execution
fails is not repeated. The registry reads the policy registry synchronously.
The services only read the chain; the browser wallet writes to it.

## 2. Modules

| Module | Models | Extends or instantiates |
|---|---|---|
| `FactLedger` | what the registry promises about facts: append-only attempts and a canonical head defined over the whole list | |
| `ChainRecords` | what the registry promises to somebody who polls its records: how requests, resolutions and facts may change between two reads | |
| `EvidraRegistry` | the registry contract, every state-changing entry point | community modules |
| `RegistryProperties` | its invariants, action properties and the refinement mappings to `FactLedger` and `ChainRecords` | `EvidraRegistry`, `FactLedger`, `ChainRecords` |
| `MCRegistry` | small instances for TLC | `RegistryProperties` |
| `RegistryProofs` | type correctness, facts and histories, the refinement of `FactLedger`, sums and the conservation of funds, for all constants | `RegistryProperties` |
| `RequestProofs` | request-lifecycle safety, jobs and callbacks, the refinement of `ChainRecords`, for all constants | `RegistryProofs` |
| `SourcePolicy` | the resolver's pure functions: merging URLs, classifying and grouping sources, policy evaluation, normalisation | community modules |
| `ResolverConsensus` | the executions of leader and validator and the verdict they commit, with its properties | `SourcePolicy` |
| `MCResolver` | small instances for TLC | `ResolverConsensus` |
| `ResolverProofs` | verdict safety, what the folds over lists of pages compute, for all constants | `ResolverConsensus` |
| `RpcScheduler` | `RpcScheduler` and the single-flight reads of `ProtocolClient`, with its properties | community modules |
| `MCScheduler` | small instances for TLC | `RpcScheduler` |
| `SchedulerProofs` | scheduler safety, for all constants | `RpcScheduler` |
| `ChainIndexer` | `syncOnce` and the projection it writes, with its properties | `ChainRecords` |
| `MCIndexer` | small instances for TLC | `ChainIndexer` |
| `IndexerProofs` | the indexer's safety, for all constants | `ChainIndexer` |
| `WireRecords` | the record types, the forms and widths of their numbers, rows and columns, upserts | |
| `ReadPath` | one record from the contract to the API's client, with its properties | `WireRecords` |
| `MCReadPath` | small instances for TLC | `ReadPath` |
| `ReadPathProofs` | the read path's safety, for all constants | `ReadPath` |
| `ApiServer` | the API process: boot, health checks, passes by outcome, cooldown, `/ready`, with its properties | community modules |
| `MCApiServer` | small instances for TLC | `ApiServer` |
| `ServerProofs` | the server's safety, for all constants | `ApiServer` |
| `WriteFlow` | protocol writes from the pages of one browser, several on a page, with its properties | |
| `MCWriteFlow` | small instances for TLC | `WriteFlow` |
| `WriteProofs` | the write flow's safety, for all constants | `WriteFlow` |

The parts are composed by refinement and not in one state space: `ChainIndexer`
polls `ChainRecords`, the registry's behaviour as its readers see it, and the
requests run checks and `ImplementsChain` proves that `EvidraRegistry` implements
it, with the same `ChainSpec` the indexer is checked and proved against. `ApiServer` knows a pass by its
outcome, `ChainIndexer` by its steps, and `ReadPath` follows one record through
one read and one write of a pass.

### How `EvidraRegistry` corresponds to the code

* Each `@gl.public.write` method is one action, its parameters quantified from
  constants; a method that raises is no step, since a reverted call changes
  nothing. Every guard is a `_require` of the method in the same place.
* `requests` and `resolutions` are sequences because ids are consecutive from 1
  and records are never deleted; `history[k]` is the JSON list in
  `fact_history`.
* A fact key is a model value. The code hashes claim, policy hash, schema
  version and template hash, so equal keys mean that all four agree, and the
  comparisons of `_can_reuse` on those fields always hold for the fact found
  under the key. `MutableKeys` are those with mutability `MUTABLE_WITH_TTL`,
  `TemplateKeys` those with a template hash; only `request_fact_by_template`
  (and a refresh or reassessment of such a fact) reaches the latter.
* A commit carries the key instead of claim key, fact key, spec hash and
  policy hash; a mismatch of any of them is a different key. Diagnostics are
  `NONE` or `REASON`, all the guard distinguishes.
* `jobs` and `callbacks` are the sets of messages ever emitted. The registry
  is modelled open: a resolver may commit at any time, whether or not a job was
  delivered, so loss, delay, duplication and reordering of jobs are all
  included. Only an account's address is trusted.
* `balance` grows with each payable call and shrinks when a transfer emitted by
  `withdraw_credit` finalizes (`FinalizeTransfer`).
* `now` is the block time; several calls may share a time.
* Left out: texts, URLs and their validation, evidence manifests, the event
  log, the `reused_count` statistic, `max_seed_urls`, read-only views, and u256
  overflow.

### How `RpcScheduler` corresponds to the code

* A read key (client, contract, function, arguments) has at most one read in
  flight, so its promise and its job are one entry of `status`: "idle" keys are
  not in `inflightReads`; a "queued" job is in the queue; a "calling" one awaits
  the transport; a "waiting" one sleeps in its backoff; a "settled" promise has
  been resolved or rejected and not been forgotten yet (`Cleanup`).
* `schedule` is `Read`, the timer callback of `pump` is `TimerFires`, the paths
  through `execute` are `Settle`, `HardQuota`, `Backoff` and `Retry`, and the
  `finally` handler, which runs after the promise has settled, is `Finish`.
  Each runs without interruption, as code between two awaits does.
* `Pumped` is `pump()` as a function of the queue, the count and the timer,
  since its callers have changed some of them before they call it.
* Time is counted down. `Tick` may pass a timer that is due: callbacks are
  late, never early. `cooldown` may be positive at the start, as `server.ts`
  restores it before any client exists.
* An error is what the scheduler makes of it: hard quota, retryable, or
  neither. A success and a rejection are both `Settle`.
* When a timer has started a job with another still queued and a slot free, the
  code sets no new timer: the second slot is filled by the next `schedule` or
  finish. The model does the same; no property claims more.

### How `SourcePolicy` and `ResolverConsensus` correspond to the code

* A page is a canonical URL (`_canonical_url`), so two URLs that differ in query
  or port are one page, as for the resolver. Its registrable domain, the kind of
  its host and whether it is the subject's are constants. The
  subject's pages may be of several domains: `_is_subject_owned` takes every host
  below the subject's, and below a compound suffix such as `gov.uk` each has its
  own (`_registrable_domain`).
* A content is a model value. `Alike` stands for equal fingerprints or token sets
  similar beyond the threshold; it need not be transitive. `Cites` says that a
  text contains a page's host or URL: the markers of `_attribution_target` make
  no difference, since the canonical URL is never empty.
* `ClusterSources`, `ApplySourcePolicy`, `PolicyOk` and `Normalized` are
  `_cluster_sources`, `_apply_source_policy`, `_policy_eval` and
  `_normalize_leader_result`, with the loops written as folds. A model answers
  any outcome and diagnostic, known or not; a prompt that fails, or an answer
  without the fields, is one of these.
* `Lead` and `Validate` are `leader_fn` and `validator_fn`, each with contents
  of its own. One validator stands for each of them: the platform's voting and
  rotation of leaders are not in the repository. The leader runs this code, so the
  validator's checks of a payload's shape and hashes always pass and are left out.
* `ResolveRequest` takes a job that passes the checks of `resolve_request`; the
  checks themselves, against a registry that moves on, are not modelled.

### How `ChainRecords` and `ChainIndexer` correspond to the code

* `requests`, `resolutions` and `facts` are the fields of the registry's records
  that decide what the projection holds. Times, fees, callers and messages are
  left out, so every change is allowed whenever the record allows it; the
  refinement shows that the contract does nothing else.
* A phase of `pass` is the await that comes next in `syncOnce`. A read of a
  record and the write of its row are one step; reads and writes of different
  records are not. Fact keys are taken in any order, as they depend on claims.
* `ReadEvents` takes up to `MaxRecords` events beyond the checkpoint. The last
  page may hold events younger than the counter, so any end from the counter on
  is possible.
* Tables are functions from ids; a row has the columns that change. `evidenceRows`
  is the set of resolutions whose evidence was replaced, a transaction.
* `sync` holds the checkpoints, written only by `Finish`. `Fail` is a throw at any
  await, `Restart` the end of the process; neither moves a checkpoint.
* `Announce` is a publication or deprecation in the policy registry. A version's
  row is read when its event is met, and may be younger than the event.

### How `WireRecords` and `ReadPath` correspond to the code

* `Fields` lists every field of every record type of `types.ts` by kind. A
  version of a record is an amount for its u256 fields, a count for its u32
  fields and a tag for its texts, so mixed versions show.
* The library may deliver a number as bigint, digits, double or something else;
  `ToBigInt` and `ToNumber` are `toBigInt` and `toNumber`, and `Double` loses
  the last bit beyond `SafeMax`. The four widths are constants in their order.
* `Upserted` keeps the key columns and updates those of the statement's
  `ON CONFLICT` clause; `RowToRecord` is the `rowTo...` function or the raw JSON,
  by table. A number above `Int4Max` makes the statement fail (`Storable`).
* `ReadRecord` and `WriteRow` are the indexer's, `RefreshFactFreshness` its
  freshness pass, `ServeCached`, `ServeListed`, `ReadDirectly` with
  `ReadFreshness`, `ReadFails` and `Refuse` the API's routes and error handler,
  `Told` the web client's `friendlyApiMessage`. That function names the codes
  `fact_not_found` and `request_not_found`; the model has one code for both.
* `behind` is history: for how long the row has not been the contract's record.

### How `ApiServer` corresponds to the code

* Times are ages, capped one beyond the largest limit they are compared with,
  which also stands for "never"; timers count down. A tick passes only when no
  timer is overdue and no check or pass has run for `MaxWork`.
* `CheckTick` is the monitor's `tick`, which chooses a light or full check by the
  age of the last full one. A full check awaits the five reads of
  `verifyDeployment` one after the other, a light check its two at once
  (`ReadsOf`, `Asked`); each is answered at a moment of its own (`CheckReads`),
  with the world changing and time passing in between, and only the end of the
  check is stamped (`CheckSucceeds`). A read that fails, is refused or shows a
  relationship that is not as frozen ends it too (`CheckFails`). Of what
  `verifyDeployment` compares, the chain and the default resolver can change;
  the other addresses are set once by constructors.
* `SyncTick` starts a pass; `PassSucceeds` and `PassFails(late)` end it, where
  `late` is a failure after the in-memory success was recorded.
* `MeetQuota` is the scheduler's hard-quota path, shared by checks, passes and
  clients' direct reads (`ReadForClient`). `Restored` is what `server.ts` makes
  of the persisted status at boot.
* `ProviderChanges`, `DeploymentChanges` and `DatabaseChanges` change the
  provider, the relationships and PostgreSQL, `Crash` ends the process; together
  they are bounded by `MaxTroubles`.
* `outage`, `strayed`, `refuted` and `quotaAge` are history.

### How `WriteFlow` corresponds to the code

* A call is one execution of `submitUserWrite` or `reconcilePendingWrite`, and
  each of its awaits ends a step: `Quote`, `Check`, `Prepare`, `Approve` or
  `Reject`, `Receive`, `Decide`, `Finalize`. `Check` looks at the network's answer
  and the pointer in one step, as the code does between two awaits. A transaction
  is named by the call that made it; `Approve` puts it on the chain before the
  page has its identifier.
* A page runs any number of calls. Its button is off while its panel's progress
  is a pending stage (`busy`), and that begins with `preparing`: during the quote
  and the network check the button is still on, so a second `Click` on the same
  page is possible. All calls of a panel report to one progress (`Reports`), so the
  failure of one turns the button on while another waits in the wallet.
* `Navigate` mounts another panel and `Return` the whole app (`PendingWriteNotice`
  included) in the same page: what ran runs on, unseen (`attached`). `Load` opens or
  reloads the page: what ran in it is gone.
* `stored` is the pointer all pages share. `Storage` says whether the browser lets
  it be written; without it there is no pointer, and the properties claim nothing.
* Whether the wallet is connected, and to which network, only enables the button
  and may change at any moment: `Click` may happen, and `Check` find a wrong
  network, whenever the other conditions allow it. That the create page keeps its
  button off after a finalization is left out; it only removes behaviours.
* Failures end a call whatever their text. `friendlyWriteMessage`, which matches
  patterns in order over texts of the wallet and the libraries, decides only what
  the user reads, and no property is about it.
* A prompt that the wallet keeps after its page was reloaded, like an identifier
  that does not arrive, makes a transaction that no page knows: it is not `known`,
  and nothing is claimed of it.
* History: `known` (identifiers received), `rivals` (which writes were between check
  and pointer when one passed its check), `shared` (transactions two calls waited
  for at once), `displaced` (transactions whose pointer another's took or cleared).

Definitions marked "Mutant" in a module are broken variants of the operator
that follows them (a dropped guard, the wrong field). The specification does not
use them; they show for each property which bug it would catch.

## 3. Runs

| Run | Configuration | Shows |
|---|---|---|
| facts | one account, one mutable fact, 3 requests, 1 attempt, clock to 4 | `FactMatchesRecords`, `HistoryIsChain`, `AnswersAreNotRetracted`, refinement of `FactLedger` (`LedgerSpec`) |
| requests | one account, one consumer, one mutable fact of a template, 2 requests, 2 attempts, ttl 1 or 2, clock to 4 | `OneResolutionPerRequest`, `JobsMatchAttempts`, `ReusedAnswersWereFresh`, `CallbacksAgree`, `ResultsAreCalledBack`, `TerminalIsFinal`, refinement of `ChainRecords` (`ChainSpec`) |
| owners | two accounts, one resolver, one fact of a template, 2 requests, payments of 0, 1 or 3, two price lists, clock to 3 | `FundsConserved`, `NewWorkIsAdmitted` |
| scheduler | four reads, two jobs at a time, interval 2, 2 retries, backoff to 3, cooldown 3; fair | `ActiveIsBounded`, `DrainedWhileCooling`, `StartsAreSpaced`, `EveryReadSettles` |
| resolver | seven pages, three of them the subject's in two domains, every list of up to two seeds and two supplemental pages cut to three, four contents or none, four policies for the leader; four jobs with a validator and six answers | `BooleanIsCommittable`, `BooleanIsAgreed`, `PolicyIsMet`, `IndependentSourcesAreSeparate`, `SubjectCountsOncePerDomain`, `UnavailableIsNeutral`, `UrlsFillTheBudget` |
| indexer | one fact, one policy, two requests or events, one record a pass, one open request read again, one failure or restart; fair | `TypeOK`, `CheckpointsCover`, `ServedAnswerIsCurrent`, `FinishedPassAgrees`, `ProjectionAdvances`, `MirrorCatchesUp` |
| read_path | eleven kinds of record, four versions, four forms, stale after 1, a pass of up to 1, clock to 4 | `AnswersAreOneVersion`, `FreshIsAtLeastUnexpired`, `StaleIsConfessed`, `FailuresAreNotAbsence` |
| api_server | intervals 1 (light, index) and 2 (full), ages 2 and 3, cooldown 2, work 1, two troubles; fair | `ReadyIsEarned`, `FailedVerificationHolds`, `RestartsNeverExtendCooldown`, `RecoversWhenAllIsWell` |
| writes | two pages, three calls, one failed await | `OpenWriteIsRecorded`, `LossHasACause` |
| failed_pass | as indexer | violates `LastGoodProjectionIntact` |
| freshness | facts, as read_path | violates `FreshnessIsContracts` |
| ready_cooling | as api_server, one trouble | violates `NotReadyWhileCooling` |

Three runs show where the code does less than its documentation says.

* failed_pass: `docs/INDEXER.md` (line 28) says that a failed cycle leaves the
  last good projection intact. The flags of a fact's resolutions and the fact's
  row are separate statements (`indexer.ts` 275 and 277): a pass that fails in
  between leaves the two naming different answers.
* freshness: `docs/API.md` (line 24) calls `freshness.is_fresh` the contract's
  result. For a cached fact (`app.ts` 62) it leaves out the condition that the
  answer is boolean, and counts the second of expiry as expired.
* ready_cooling: `docs/RELEASE_NOTES_v1.0.0.md` (line 30) says that `/ready`
  answers 503 while the provider's cooldown is active. `isReady` (`health.ts`
  76) does not ask for the cooldown, so after a client's read met the quota it
  stays ready until the next check or pass.

Other divergences met while modelling, which the models reproduce and no run is
spent on:

* `docs/INDEXER.md` line 26: with `INDEXER_CONCURRENCY=2` a job that sleeps in
  its backoff while the other meets the quota calls the RPC during the cooldown;
  and a retry does not ask for the minimum interval. With one job at a time, the
  default, the silence is proved (`SilentAtConcurrencyOne`).
* `docs/PROTOCOL_TYPES.md` line 42 reserves `NONE` for boolean outcomes; a model's
  UNRESOLVED with `NONE` is committed as it is. Line 85 makes a detected
  attribution non-independent; a reprint listed before the page it names is
  never compared with it. `SubjectCountsOncePerDomain` shows a consequence of
  grouping by domain: a policy with `min_primary_sources` above one can be
  published, and is never satisfied for a subject whose pages share a domain, as
  those of nearly all do. A page of the subject listed after one with the same text is
  `DERIVED` too: the exemption of `OFFICIAL` sources (line 618 of the resolver)
  tests a class that has not been assigned yet.
* A u32 field above 2^31 - 1 does not fit its `integer` column. The pass fails,
  and every later one too, as the record is the next one each time.
* `docs/TRANSACTION_UX.md` line 28 says "The pending pointer is removed only after
  finalization. While it exists, a new write is rejected", and line 29 that this
  protects from a second submission. Two clicks that both find no pointer, on two
  pages or on ONE whose button is still on during the quote or the `eth_chainId`
  request (`fact-actions.tsx` 12, 25, 35; `create/page.tsx` 136), both submit. The
  second pointer overwrites the first, and the first finalization then clears the
  second: an open transaction is forgotten. The same happens without any overlap
  when a page that was left and opened again waits twice for one transaction: the
  second `clearPendingWrite` removes the pointer of a write made in between.
  `LossHasACause` states that nothing else loses a pointer;
  without any one of its clauses, or of the premises of `OpenWriteIsRecorded`, the
  instance has a counterexample on a single page. `docs/PHASE3_FINAL_REPORT.md`
  line 32 ("disables duplicate submission from the `preparing` stage onward") is
  about the panel's last report: a second call that fails turns the button on.
* A refused or canceled transaction keeps its pointer for ever.
* `friendlyWriteMessage` (`writes.ts` 24-37) says "No transaction was submitted" of
  any error whose text matches its pattern, one raised after the approval included.
* The start of a pass clears the indexer's last error, so `/ready` may say yes
  during a pass that follows a failed one.
* An undecodable record is answered with 500, which nothing retries.
* The credit panel's buttons name `withdraw` and `wallet.connect` without calling
  them (`credit-panel.tsx` 40).

Bounds. `MaxRequests` bounds the requests and `MaxTime` the clock; attempts are
bounded by the contract's own `max_attempts`, scaled to 1 or 2, and resolutions
by requests, as `OneResolutionPerRequest` shows. Three requests of one fact are
enough for every case of the canonical rule: an answer, one that displaces it, and one that must
not, in any order of commits. Two requests are enough for reuse and for a
cancel or retry racing a commit, since requests of different facts share only
fees and roles. Times: retry delay 1, stale after 1 or 2, so retry, stale and
expiry fall on, before and after each other. Two running and two queued reads
show every race of a quota error with a running, sleeping or queued job; times
of 2 and 3 let a backoff end before, with and after the interval and the
cooldown. Lists of up to three pages show
each relation of a page with one listed before and with two: same domain, copy,
citation, failure, and a seed that falls out of the budget; four policies are
the two deployed ones, an unrestricted one with a disallowed class, and one that
asks for two primary sources.

The indexer's instance is the smallest in which each kind of step can meet the
others: two requests of one fact give a canonical answer and one that displaces
it, `MaxRecords` of one makes every pass stop short of the counters, `MaxMutable`
of one makes open requests compete, and one failure may fall on every step of
every pass. The widths 2, 3, 5 and 9 of read_path stand for 2^31 - 1, 2^32 - 1,
2^53 - 1 and 2^256 - 1: only their order, and that a double beyond `SafeMax` is
even, matter; the versions have an amount beyond a double and a count beyond the
column, and its clock lets a fact expire before, with and after a write and the
stale limit. In api_server a tick is one light interval; the other intervals and
limits keep the defaults' order, scaled to two or three ticks; two troubles are an
outage that ends, or a crash during one. A check may take a tick, so that every
change can fall between two of its reads; the ages that `ReadyIsEarned` allows
are then reached, and without the check's duration it is violated.
Two pages and three calls show each way a pointer is lost: two overlapping writes,
the finalization of a displaced one, and a write made between the two clears of a
transaction waited for twice. Pages and calls are interchangeable, and the run uses
that symmetry; it checks safety only.

Deadlock is checked in the scheduler, indexer, failed_pass and the two server
runs. In the others, once the bounds are reached and everything has been
answered, finalized or served, nothing is left to do.

Subsets. Some runs use subsets of `Next`. facts and requests start from the
deployed configuration with administrators standing still (`QuietSpec`). owners
(`OwnersSpec`) starts either in the constructor's state, with every action up to
time 2 free of charge, or in a priced deployed one, with price changes,
requests, retries, cancels, commits, withdrawals and transfers. resolver
(`MixedSpec`) runs the leader alone for every list of pages, and leader,
validator and call after call for four jobs.

Fairness. The registry's properties need none: the registry alone promises no
progress, since every step is somebody's call. `EveryReadSettles` assumes weak
fairness of the clock, of timers that are due and of promise callbacks, which
Node.js runs in turn, and of the transport's answer to each call: the scheduler
sets no deadline of its own, so a transport that never answers holds its slot
for ever. `MirrorCatchesUp` assumes that the interval timer starts passes and
that a started pass goes on (`Begin`, `SyncStep`); failures may cut it short, but
a bounded number of times, so in the end passes succeed. Requests catch up only
if in the end no more of them are open than a pass reads again: the newest are
read, and older ones may wait for ever. `RecoversWhenAllIsWell` assumes that the
process is restarted, that timers fire, and that checks and passes end, one way
or the other. Its premise is that provider, deployment and database stay well and
that every record can be stored: one whose number exceeds its column's range
(`Storable`) would fail every pass.

## 4. Proofs

Every safety invariant, action property and refinement that a passing run checks
is also a theorem of its specification, for every value of the constants. The
assumptions are those the modules name: values, times and limits are naturals and
the zero address is nobody's (`RegistryConstants`), there are finitely many
addresses (`AccountsAreFinite`, an address has 160 bits), the counters'
widths have their order (`WidthAssumption`), a job lists no more supplemental pages than the registry
admits (`ConsensusConstants`), and the like. The bounds of the runs are constants
as well, and any natural will do for them. Few of the invariants are inductive as
they are checked; each proof names the strengthening.

### The registry

`RegistryProofs` starts from `TypeCorrect`. `TypeOK` alone is not inductive: a
callback retry reads `resolutions[q.resolution]` and a refresh reads
`requests[facts[k].request]`, whose values have a type only if the reference is
in the domain. `TypeInv` adds `References`: a fact's resolution and request
exist, and a resolved or reused request's resolution exists. One lemma per action
shows that it preserves `TypeInv`. On it rest

* `FactsMatchTheirRecords`, `HistoriesAreChains` and `AnswersStay`, from
  `FactInv`: a commit numbers and links the new resolution by the fact record,
  and that what it links to is the tail of the history is what the fact record
  says, so `FactMatchesRecords` and `HistoryIsChain` need each other; and
  `CommittedByNow`, as commit times grow along a history only if none is in the
  future;
* `ImplementsLedger`, the refinement of `FactLedger`, from `LedgerInv`, which adds
  `HeadsAreDue`: the head the fact record has is the one the ledger chooses from the
  whole list of attempts. Each call that commits is a ledger step, every other
  one a stutter;
* `FundsAreConserved`, by itself inductive over `TypeInv`. The balance, credits,
  transfers and fees are related by sums of functions over finite sets. `SumMoves`
  and `SumGrows` say what changing one value and adding one element does to a
  sum; then each of the four kinds of payment moves one amount between two of them.

`RequestProofs` goes on with the life of a request:

* `AtMostOneResolution` and `EndedRequestsStay`: every step but a commit leaves the
  answer of each request alone (`SameAnswer`), and a commit finds its request
  open, so no resolution refers to it yet;
* `JobsAreTheAttempts` (`JobInv`) and `WorkIsAdmitted`, about what is sent to
  resolvers and when;
* `ReuseIsFresh`, `ResultsReachTheirTargets` and `CallbacksCarryTheAnswer`, from
  `EndInv`. A commit and a callback retry read the resolution a request names, so
  the answers are needed to agree with it: `OneResolutionPerRequest` for a
  resolved request, `ReusedAnswersWereFresh` for a reused one; and a reused answer
  is judged by the fact record, so that its resolution was fresh needs `FactInv`;
* `ImplementsChain`, the refinement of `ChainRecords`, which the indexer is proved
  against. `SeenInv` adds `NonePending` to `FactInv`: whether a fact has an answer
  the contract tells by a flag and its readers by the id 0.

### The resolver

`ResolverProofs`, for any pages, contents, policies, jobs and answers.
`ResolverInv` says that every execution is one of the current job's and that an
emitted verdict is the verdict of both. `NormalizedIsBounded` then gives
`VerdictsAreTyped`, `BooleansAreCommittable` and `BooleansAreAgreed`.

The other five theorems are about what the folds of `SourcePolicy` compute, for
lists of any length. A fold is the choice of a function on sets of positions;
`FoldsExist` shows that there is one, and `FoldChain` turns it into a run: what
is folded of the first 0, 1, ... elements (`DistinctSteps`, `ClusterSteps`,
`JudgeSteps`, `ContentSteps`). Facts are carried along the run by `CountUp`.

* `UrlsAreWithinBudget`, from `DistinctFacts`: first occurrences are kept, so the
  supplemental pages come first and a second look among the seeds removes none;
* `IndependenceIsReal`, `SubjectsCountOncePerDomain` and `ReportedPoliciesAreMet`,
  from `EvidenceFacts`: an eligible source is usable, of the class its page has,
  and shares domain and text with no earlier usable one. So the positions inject
  into domains, and those of the primary ones into the subject's;
* `FailedPagesChangeNothing`: a list and the same list without what could not be
  fetched are clustered and judged alike element by element (`ClusterNeutral`,
  `JudgeNeutral`). The positions differ, so that the first origin a page derives
  from is the same source in both needs the order to be kept (`Selects`), and the
  pages need to be different ones, which `UrlsFacts` proves of what is fetched.

### The services

`SchedulerProofs`, for any set of reads, limit, interval, retries and cooldown.
`SchedulerInv` strengthens the invariants with `TimerHolds` (while the pump's
timer is set a slot is free, and the time left plus the age covers the
interval), which is why a job may start when the timer fires without asking
again, and `AttemptLeft`. The theorems are `ConcurrencyIsLimited`,
`NoJobLostOrDoubled`, `QueueIsPumped`, `QueueDrained`, `SpacedStarts`,
`SchedulerTyped` and `SilentAtConcurrencyOne`, which adds that nothing runs
during a cooldown when the limit is one. `QueuedOnce`, `NeverStranded` and
`SilentWhileCooling` are proved and in no run.

`IndexerProofs`, for any facts, policies, limits and failures, over any chain that
`ChainRecords` allows: `ProjectionIsWellFormed`, `CheckpointsHoldTheirWord`,
`ServedAnswersAreCurrent`, `FinishedPassesAgree` and `ProjectionNeverGoesBack`.
`IndexerInv` has five parts. `ChainInv` is what holds of the records read;
`ControlInv` orders the checkpoints, the ends of a pass and the chain;
`RequestInv`, `PolicyInv` and `AnswerInv` say, for each phase of a pass, which rows
it has already written and what is still to do, and what a value that was read
some steps ago is worth by now: the view of a fact is an earlier state of it
(`EarlierOf`), so what is written with it is not older than what is replaced.

`ReadPathProofs`, for any tables, versions, forms and widths of numbers, limits
and clock: `AnswersOfOneVersion`, `FreshIsUnexpired`, `StaleIsMarked` and
`FailuresStayFailures`. `PathInv` follows the record: what is pending, in the row
and in the answer is a record the contract had (`PendingIsReal`, `RowIsReal`,
`AnswerIsReal`), and a row has been behind for no longer than it has been
unsynced and one pass more, which is what makes the stale mark sufficient.

`ServerProofs` proves `ServerTyped`, `ReadyEarned`, `VerificationHolds` and
`CooldownBounded`, for any intervals, limits, cooldown and number of troubles,
from `ServerAssumption`: the intervals are positive, as `Configured` says the
configuration requires, and are not related to one another. `ServerInv` adds
`CheckIsRecent` (what a read of the running check saw has not been otherwise for
longer than the check runs), `SnapshotIsOld` (what is wrong has lasted for no
longer than the monitor's ages and the duration of a check, which is what
`CheckIsRecent` leaves when a check is stamped), `RefutedIsDue` (until a failed full check is made good, every check is
full and the state is not healthy), `AttemptIsOlder` (a persisted `rate_limited`
is at least as old as the quota it reports, so what a restart restores ends no
later) and `DownIsQuiet`.

`WriteProofs` proves `WritesTyped`, `OpenWriteRecorded` and `LossesHaveCauses`, for
any sets of pages and calls and any number of failures; `WriteAssumption` only says
that `None` is neither a page nor a call. `WriteInv` adds `Ordered` (nobody is known
before it is received, and what is waited for or pointed to is known), `Racing`
(writes between check and pointer overlap with one another and with the pointer
that appeared meanwhile: this is where the pending check is used), `Waiting` and
`WaitingTwice` (a call waits for the pointer's transaction, for a displaced one, or
for a shared one), `Recorded` and `Caused` (a first displacement needs an overlap or
a shared wait, later ones may follow from the first).

Type correctness is proved for every component; only the indexer's is also in a run.

### What is only model-checked

Liveness under fairness is out of the prover's reach: `EveryReadSettles`,
`MirrorCatchesUp` and `RecoversWhenAllIsWell`. The library's induction theorems,
which take a predicate as a parameter, cannot be instantiated by the provers at
hand; where a proof needs induction over the length of a list or the size of a
set, the predicate is a set of naturals, and one that lacked a number would lack
a least one (`LeastNatural`, from `WFMin`). The three disagreements with the
documentation are counterexamples, which a run shows.

## 5. Plan

Done: the registry, the resolver's evaluation and consensus, the scheduler, the
indexer over the registry's abstraction, the path of a record, the API process
and the write flow, each checked, and the safety of each proved. Next, in this
order:

1. The composition of registry and resolver with delayed and reordered messages:
   the checks `resolve_request` makes of its snapshot, and progress of a request
   under weak fairness of delivery.
2. An abstract specification of the resolver, a decision from a set of separate
   pages, and the refinement that the folds implement it.
3. Policy registry (latest versions, ownership) and consumer probe (duplicate
   callbacks).

## 6. Not modelled

* Claim text normalisation and hashing, URL validation, text similarity and
  prompts, web fetching, evidence manifests and the event log's payloads: text
  processing and input/output; a fact key, page or content is a model value.
* The voting of GenLayer validators and message delivery's own rules: the
  platform's, not in the repository. One validator stands for each.
* In the resolver, the checks of a job's snapshot and its ownership; in the policy
  registry, the validation of fields, latest versions and ownership; the consumer
  probe, a test contract with one handler.
* In the indexer, the row of protocol statistics and configuration with its
  cache, and the text and paging of list queries.
* In the API, routes that only reshape records, the redirect of claims to fact
  keys, rate limiting, CORS and metrics.
* In the web application, rendering, form validation, the wallet's connection, the
  wording of write failures, and everything else but the write flow and the reading
  of the API's errors.
* Environment parsing beyond the intervals' ranges, SQL migrations, deployment and
  certification scripts: sequential input/output without protocol state.
* u256 overflow in the registry (`now + ttl_seconds` for a ttl near 2^256 makes
  the commit fail) and the loss of a `resolve_request` whose execution fails: the
  registry has a retry for it, made by whoever calls it.
