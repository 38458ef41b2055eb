# EnterpriseGlue in TLA+

Formal models of the coordination core of EnterpriseGlue: the parts in which several backend
replicas, external sidecars, timers, plugin managers and administrators meet in one database. Each
module is translated from the TypeScript sources under `src/packages`; `PROJECT.json` maps every
definition to the lines it stands for, lists the runs, the theorems and the hazards of the code.

Paths below are relative to `src/packages` unless they start with `src/`.

1. [Inventory](#1-inventory)
2. [Modules and how they correspond to the code](#2-modules-and-how-they-correspond-to-the-code)
3. [Runs](#3-runs)
4. [Theorems](#4-theorems)
5. [Disagreements found](#5-disagreements-found)
6. [Abstractions, bounds and fairness](#6-abstractions-bounds-and-fairness)
7. [Not modelled](#7-not-modelled)

To run a check: `tlc -config EventStore.cfg MCPluginEventStore.tla`; to check the proofs:
`tlapm PluginEventStoreProofs.tla`.

## 1. Inventory

EnterpriseGlue is a TypeScript monorepo: `backend-host` (HTTP host, pollers, plugin platform),
`shared` (services, entities, authorization), `plugin-sdk`, `plugin-runtime`, `plugin-manager` and
`plugin-installer` (the plugin platform outside the host), and `frontend-host` (the React UI).
Several replicas of the backend share one relational database (PostgreSQL, Oracle or Spanner). They
never talk to each other: nearly all coordination is by row locks, leases with deadlines, and
compare-and-set revisions in shared rows. That is where the program is hard, and what is modelled.

| Component | State | Operations | Interacts with | Hard behaviour | What makes it correct |
|---|---|---|---|---|---|
| **Event delivery store** `backend-host/src/plugins/pluginEventDeliveryStore.ts` | a row per delivery; a row per subscription with pause flag and circuit breaker; a row per plugin for its quota | `enqueue`, `claimDue`, `complete`, `requeueDeadLetter`, `setPaused` | every replica's dispatcher; publishers; administrators | leases expire on skewed clocks; late completions move the circuit of a later period; quotas under concurrent enqueues | a lease exactly while delivering; a half-open circuit always has a live probe; delivered is final; quotas hold |
| **Event dispatcher and coordinator** `pluginEventDispatcher.ts` | the batch of a cycle, the calls in flight | `runOnce`, `deliver` | store, control plane (`isExecutionAllowed`), sidecars | `Promise.all` settles at the first failure and leaves calls running; answers are lost; processes die | delivered means handled, whatever calls overlap; the receipt of an awaited cycle decides its own attempt |
| **Schedule store** `pluginScheduleStore.ts` | a row per job, a row per executed command | `execute` (upsert, cancel), `claimDue`, `complete`, `setPaused` | dispatchers, plugins, administrators | a command takes a job away in the middle of a delivery | a suspended job stays suspended; attempts within the policy |
| **Schedule dispatcher and coordinator** `pluginScheduleDispatcher.ts` | the calls in flight | `runOnce`, `deliver` | store, sidecars | calls may outlast their lease; the deliveryId changes with a retry | one owner per deliveryId; receipts match attempts |
| **Plugin manager intents** `pluginManagerStore.ts`, `pluginManagerBrowserRoutes.ts` | an intent, a review and an approval per installation; one admission row | `createIntent`, `approve`, `cancel`, `retry`, `claim`, `renew`, `publishReview`, `readApproval`, `publishObservation` | administrators through stale pages; managers over HTTP | the lease is kept in two rows written by five calls; approvals race new reviews; lost leases, late results | what is executed is what was approved; one lease in the deployment; results are final |
| **Native plugin manager** `plugin-manager/src/manager.ts`, `service.ts` | what `runOnce` has read | `runOnce`: claim, plan, publish, poll, execute, observe | the intents | dies at any step with the lease taken | requests answered, approvals carried out |
| **Lifecycle execution** `plugin-installer/src/execution.ts`, `executionRunner.ts`, `executionStore.ts`, `kubernetesExecutionStore.ts` | a plan file; an execution with its phase, lease and revision; receipts of phases | `initialize`, `claim`, `renew`, `complete`, `fail`, `recover`, and the runner and heartbeats between them | the installer that writes plans; the deployment | a crash between an effect and its record; workers that outlive their lease; answers lost after the write | phases in order and each recorded once; one worker inside a phase; no rollback after an irreversible migration |
| **Gateway admission** `pluginGatewayAdmissionStore.ts` | counts per window of a plugin and of a subject; concurrency leases | `acquire` with its retries, `release` | every replica's requests | `now` is read before the row is locked; a commit whose answer is lost is repeated | the limit of concurrent requests over all replicas |
| **Gateway circuit breaker** `plugin-runtime/src/gateway.ts` | circuits in the memory of a replica | `acquire`, `succeed`, `fail`, eviction | the requests of the replica | answers of requests let through before the circuit opened | a waiting circuit has its probe; open circuits are not forgotten to make room |
| **Configuration bundle tasks** `shared/src/services/platform-admin/ConfigBundle{IdentityReplay,RuntimeReconciliation}TaskService.ts`, `ConfigBundleApplyService.ts` | the apply run with its result; a leased task per kind with its cursor; the synchronisation run | the apply after its commit (replay, preview or neither), `enqueue`, `runNext`, `runNextPage`, `drainApplyRun` | applies; pollers; the bootstrap; the mappings of a provider | applies cancel each other's tasks; rows recorded as they were found; results read and written back without a condition | every identity ends with the newest mappings when their replay was asked for; settled tasks stay settled; a completed task was carried out |
| Git lock manager `shared/src/services/git/LockManager.ts` | a row per lock | acquire, force, heartbeat, touch, release, cleanup | editors of project files | check-then-act without transactions | one holder per file |
| Engine backstop tasks `shared/src/services/platform-admin/EngineBackstopSyncTaskService.ts` | a row per task with a lease id | `enqueue`, `retryNow`, `runNext` with heartbeat | engine synchronisation | lease lost during the work | one active task per engine; only the holder completes |
| Contribution availability `pluginContributionAvailability{Store,Dispatcher}.ts` | a row per contribution with a lease and a revision | `claimDue`, `complete`, snapshot replacement | control plane, sidecars | replicas with an older snapshot overwrite a newer one | availability follows the newest snapshot |
| Plugin control plane `pluginControlStore.ts`, `pluginControlPlane.ts` | desired and effective state of plugins and tenants, eligibility projections, activation requests | `reconcile`, `setTenantEnabled`, `applyTenantEligibility`, emergency disable | all dispatchers | projections arrive late or twice | projections are monotonic; a disabled plugin stays disabled |

Names in bold are modelled. The remaining components (resolver and supply chain, engine event poller, engine
tenancy, authorization and SCIM, sign-in, Git and Starbase, Mission Control, invitations, the web frontend) are listed in
`PROJECT.json`; [section 7](#7-not-modelled) says why they and the last four of the table are left out.

How the modelled parts meet:

```
publishers ──enqueue──▶ event store ◀──claimDue/complete── dispatcher (one per replica) ──POST──▶ sidecar
plugins ─────execute──▶ schedule store ◀─claimDue/complete─ dispatcher (one per replica) ─POST──▶ sidecar
administrators ──create/approve/cancel/retry──▶ intents ◀──claim … publishObservation── managers ──plan──▶ lifecycle execution
eg-plugin install ──writes plan──▶ plan file ◀──initialize/claim/renew/complete── workers ──phases──▶ deployment
requests ──acquire/release──▶ gateway admission (database) ──▶ circuit breaker (replica) ──call──▶ sidecar
applies ──enqueue──▶ bundle tasks ◀──claim/record── pollers, drains ──pages──▶ memberships;  both ──▶ result of the apply run
```

## 2. Modules and how they correspond to the code

| Module | Models | Extends |
|---|---|---|
| `PluginEventStore` | the event store: every operation one action | – |
| `EventDelivery` | the abstract specification of what a publisher is promised | – |
| `PluginEventDispatcher` | coordinator, dispatcher and sidecar, composed with the store | `PluginEventStore`; implements `EventDelivery` |
| `PluginScheduleStore` | the schedule store | – |
| `FixedSchedule` | the abstract specification of what the owner of a schedule is promised | – |
| `PluginScheduleDispatcher` | coordinator, dispatcher and sidecar, composed with the store | `PluginScheduleStore`; implements `FixedSchedule` |
| `InstallationApproval` | the abstract specification of what an administrator is promised | – |
| `PluginManagerIntents` | intents, routes and `runOnce` of every manager | implements `InstallationApproval` |
| `LifecyclePlan` | the abstract specification of a plan's execution | – |
| `LifecycleExecution` | plan file, stored execution, runner, adapters' envelope, installer | implements `LifecyclePlan` |
| `PluginGateway` | admission, circuit breakers, requests | – |
| `ConfigBundleTasks` | applies from their run to their result, both kinds of tasks, pollers | – |
| `PluginEventStoreProofs`, `PluginEventDispatcherProofs`, `PluginScheduleProofs`, `PluginManagerIntentsProofs`, `LifecycleExecutionProofs`, `PluginGatewayProofs`, `ConfigBundleTasksProofs` | theorems | the module they are about |
| `MC…` | the instances TLC checks | |

"Implements" means by `INSTANCE` with a refinement mapping: the abstract specification is a PROPERTY of the run and the
conclusion of a theorem. None of the four knows a replica, a lease or a clock.

A definition that begins with "Faulty variant" in its comment is a version of the one below it with
a plausible bug; no specification uses it. `PROJECT.json` (`mutants`) says which property notices it.

### PluginEventStore

`delivery[d]` is the row of a delivery (`"absent"` before it is enqueued), `subscription[s]` the
subscription's row; the outstanding counts the quota needs are computed from the rows, as
`enqueue` does. A transaction is one action: `enqueue` and `claimDue` lock what they read, and the
updates of `complete` are guarded by the lease. `claimDue` is modelled whole: first the expiry
of *all* leases that have run out, then a window of at most `ClaimLimit` due rows in the order
`next_attempt_at, created_at`, from which the rows of paused or open subscriptions are dropped, a
circuit past its deadline makes its first row the probe, and the rest is leased. `ClaimAborted`
is the transaction that throws while it parses a delivery.

Abstract specification: `Spec` says what the store does for *any* client in any order; nothing
in it refers to cycles, calls or sidecars.

### PluginEventDispatcher

`calls` has a record per claimed attempt: which replica sends it, how far it is (`claimed`,
`authorized`, `returned`) and whether the replica's cycle still waits for it. `RunOnce` needs every
*current* call of the replica to have ended. `RecordFails` is the failing `complete` that rejects `Promise.all`:
the other calls of its cycle run on, no longer current. `Handle`, `Refuse` and
`Unavailable` are the sidecar's and network's behaviours; a handled event may have its answer lost.
`allowed` is the answer of `isExecutionAllowed`, read in `Authorize` and free to change between
any two steps. Nothing bounds a call: authorization, capability fetch and POST may take up to 5 s plus `timeoutMs`, which
may be 120 s, and the lease is 30 s whatever that is, so in the model time passes below every call (`Time`). A lease runs out under a call
as it may, another replica or the same one claims the row again, two calls of one event run side by side, and both
receipts arrive.

`EventDelivery` says what all of it is for. An accepted event is owed until it is delivered or given up; it is delivered only if
the plugin has handled it, and given up only if a try under way knows it to be refused or the tries allowed since it was accepted
or revived have begun. The mapping (`DeliveryPromise`): the fate is the status up to `Outstanding`, the tries are `attempt`, and an event counts as refused
while a call that was answered `permanent_rejected` has yet to record it.

`complete` compares the `workerRef` only. What this leaves of "a receipt decides its own attempt" is
`AwaitedReceiptMatches`: while a cycle is awaited its replica claims nothing more, so its calls record for the attempts they were claimed
for. A call that a failed cycle left behind may decide a later attempt of its replica; `DeliveryPromise` says that not even then an event
counts as delivered without having been handled.

### PluginScheduleStore and PluginScheduleDispatcher

As above, for jobs. The `deliveryId` is the hash of `jobRef` and `nextRunAt`, so `nextRunAt` stands
for it and `complete` compares it (`HoldsLease`), unlike its counterpart for events. Every command and
every settlement moves `revision`. No timeout bounds a call in this model.

`FixedSchedule` is the promise: a job stands at one tick, with the tries made of it. It goes on, at least an interval later, only
when that tick was answered as done; it puts the tick off to a later time, which names it anew, while tries are left; it is
paused when they are not, or when the plugin refuses; and nothing but a decision starts it again. The mapping (`SchedulePromise`): phase, `nextRunAt` and `attempt` of the row; the ticks sent and the answers
not yet recorded are those of the calls. `ReceiptAssumption` says that a call without an answer can be told from one with it.

### PluginManagerIntents

The rows are functions of the installation (`state`, `revision`, `lease`, `review`, `approval`) and the admission
row; `hand[m]` holds the local variables of one execution of `runOnce`. A member of `Managers` is one attempt:
its lease token is unique, so a manager process that restarts goes on as another member, and the
calls of the attempt it left behind may still arrive. Time is not counted: `Lapse` and `ReviewExpires` may occur at
any time, and a renewal is `Lapse` not occurring. There is one clock, in that a lease has run out for everybody at once: hosts with skewed clocks are not modelled. A review is named by the
revision at which it was published.

`createIntent` and `retry` are two steps each, with the row locks they hold in between (`AdmissionFree`,
`IntentFree`): they check for another active intent before they write, and the database
runs them as READ COMMITTED. All other operations are one transaction under the locks of everything they
read, hence one action. Two reads are made outside of such locks. `claim` reads its list of candidates before it takes a row,
so `Offered` asks nothing of the order in which intents stand: any may be the one tried. `readApproval` reads the intent and the approval side by side, so
`ReadApproval` pairs the approval with any revision since the attempt last heard of the intent. Its rejection branch is never
taken: a rejected intent is cancelled and not claimed again, and its review's digest is not published anew. The administrator acts on a page that may show any older revision and review
(`Pages`).

`InstallationApproval` is the promise, without managers, leases and pages. A decision is about the review on the table, which is not expired; an execution begins
only for the review that was approved, while it is valid, and only when no other execution or result still counts; what gets ready, or is handed
over to the operator, is the result of such an execution; a decided installation is withdrawn by nobody while it may be carried out; ready
and cancelled are final. The mapping (`ApprovalPromise`): state, revision and review of the row, the review the approval names,
and as executions under way and results exactly those of attempts whose calls the host would still accept (`Underway`, `Results`).
An execution that has lost its lease may go on in the deployment (it is `LifecycleExecution` that keeps two of them apart), but it no longer counts here.

`Refuse` stands for the two reasons to refuse that lie outside the module (the platform's
revision moved, the manager lacks a capability).

### LifecyclePlan and LifecycleExecution

`LifecyclePlan` is what an operator is promised: a plan advances phase by phase, and the next one begins once this one
has succeeded, failed or been handed over. It knows no workers, leases or revisions. `LifecycleExecution` is the code:
`planFile` is the plan on disk, `execution` the stored record, `worker[w]` where a worker is and what it
remembers. Each call of the store is one compare-and-swap on `revision` (`Accepts`), carried out by the file store under its lock and by the
Kubernetes store with `resourceVersion`, and is one action; everything between two calls of a worker interleaves with
the other workers. A call carries a time its worker read after its previous answer (`Stamps`). `Enter` to `WriteReceipt`
are `executePhase`: receipt, material check, work, the renewal that confirms it, receipt. `Beat` is a heartbeat during
the work, which may be answered, be refused, not reach the store, or be carried out without an answer, whereupon the worker goes on with an old revision; `LateBeat` is one that lands after the work has failed. `Crash` also stands for a call whose answer is lost:
the runner ends on it. `Approve` and `WritePlan` are the installer's check and its write, with the resolution and the downloads in
between; a manager writes its own plan in `Start`.

Three things are left out. `WritePlan` succeeds or fails before it touches the plan file: when a later file fails, `writeOutputs` puts the previous snapshot back at once,
or the next command does so from the journal (`cli.ts:862-865, 945-966`), and a worker may have taken up the plan in between. The lock of the file store can be taken over from
a process that holds it for longer than `staleLockMs` (`executionStore.ts:463-487`), so that two mutations overlap. And all workers read one clock.

The refinement mapping (`PlanPromise`) takes plan and progress from the stored execution, and counts `queued` and `running` as open.

### PluginGateway

`window`, `bucket` and `lease` are the three tables of one plugin, `circuit[h]` the breakers in the memory of a replica, `request[r]` a slot
that serves one request after another. `Arrive` reads the time, and `Acquire` may come any time later: the
transaction holds the plugin's row, so it is one action, but it computes with the time read before it waited.
`AcquireUnanswered` is the commit whose answer is lost; the retry uses the same time and leaves a lease nobody will
release. The circuit that makes room for a new one is any that is closed and without a probe.

### ConfigBundleTasks

`apply[a]` is where the request of an apply stands. The transaction of a bundle is one action (`Commit`), which changes the mappings of
the provider (`version`). What follows is up to the mode of identity reconciliation (`Modes`): `apply` replays, `preview` computes a page and
writes nothing (`Preview`), `none` does nothing; after the last two nobody computes the memberships anew (those of changed mappings are cleaned up in the transaction itself), which is what was asked for. Each statement after it is a step of its own, since nothing holds them together: queue the runtime task, replay
the first page, start the synchronisation run, cancel the active tasks of the provider, insert the new one, write the
result. Any of them may fail, and an insert or a cancellation also when it was carried out and its answer is lost. `worker[w]` is a poller or a drain: `Requeue` (lapsed leases), `Find` (the rows as they are *then*), `Claim`, which compares the status only, the work, and the record, which is fenced by the lease and computed
from the row as it was *found*. `updateApplyRunReceipt` is two steps (`ReadReceipt`, `WriteReceipt`). `stamp[p]` says under
which mappings the identities of page `p` were last replayed. A page claims each mapping row as it read it (`Replayed`); where
some rows changed and others did not, the code applies the others (`IdentityEntitlementMappingService.ts:368-395`), while the model, which takes the rows of one
change together, writes nothing.

## 3. Runs

"pass" runs check safety, refinement and liveness exhaustively on the instance; "violation" runs show a disagreement
(section 5).

| Run | Instance | What it shows |
|---|---|---|
| `event_store` | 2 replicas, one clock ahead by a unit; 2 deliveries of a subscription; quota 1; circuit opens at the first failure, for less than a lease lasts; clock to 4, 1 pause command | 7 properties of the store for every client, skewed clocks included |
| `event_dispatcher` | 2 replicas with one clock, 2 deliveries of a subscription, lease 2, calls of any length, circuit opens at the second failure, clock to 2 | types; store and dispatcher implement `EventDelivery`; receipts of awaited cycles match their attempts |
| `schedule_dispatcher` | 2 jobs, 2 commands, 2 replicas with skewed clocks, calls of any length, claim limit 1, clock to 4, revision to 2 | types; one owner per deliveryId; receipts match attempts; store and dispatcher implement `FixedSchedule` |
| `manager_intents` | 2 installations, 2 attempts, retries from revision 1, reviews expiring at revision 1 | 5 safety properties, while two intents are under way; intents and managers implement `InstallationApproval` |
| `manager_liveness` | 2 installations, 1 attempt, reviews expiring at revisions 1 and 2, fairness | requests are answered, approvals carried out |
| `lifecycle_execution` | 2 workers, one a manager; a plan of 2 phases whose first migrates and cannot be undone, and a plan of 1 phase; lease 1, clock to 2, grants up to revision 8 | types; one worker inside a phase; the deployment tracks the record; the execution implements `LifecyclePlan` |
| `plugin_gateway` | 3 slots on 2 replicas, 2 operations, 3 leases; limits 3, 2 and 2; room for 1 bucket and 1 circuit; circuit opens at the first failure; lease and window 2, clock to 2 | types; the concurrency limit; counts, tables and maps within the policy; a probe for every waiting circuit; open circuits kept |
| `config_bundle_tasks` | 2 applies that both change the mappings, the second of which replays, previews or does neither, or 1 with both kinds of work; 3 pages; 2 pollers, or 1 and a drain of the first run; 1 fault | 5 safety properties while applies overlap |
| `config_bundle_liveness` | 1 apply with both kinds of work, 2 pages, 2 pollers, 2 faults, fairness | every task is completed or cancelled |
| `event_dispatcher_poison`, `lifecycle_plan_kept`, `config_bundle_receipt` | the smallest instance that shows it | one disagreement each |

**Why these bounds.** Two replicas, workers or pollers suffice for each race the code has between a holder and one other; the
third party is an abandoned call of either, which the dispatcher modules keep apart from current ones. The clocks are
long enough for a lease to be taken, to run out, to be taken again by the other and to be settled, with the
circuit opening and closing in between; one unit of skew makes one replica see a lease as expired which the other still
holds. In `event_dispatcher` the clock ends when the first lease does: that is enough for a second claim below a running call, and what either call then does needs no time. `MaxAttempts` is 2 (1 for the second job), so that both outcomes of a retry, another
attempt and the end of the attempts, occur; the quota of 1 with 2 deliveries makes enqueue meet the quota. `MaxRevision` bounds pause and resume,
and in `LifecycleExecution` the grants of a lease: 8 are enough for two workers to take turns within the 2 phases, a heartbeat in each.
`LastRetried` and `LastExpiry` bound the two things in the manager that could repeat for ever, and two installations are the least that compete for
the admission row. `LastExpiry` is 1 in `manager_intents` to keep it at a million
states: there a review can expire only before its approval; expiry *after* approval is in
`manager_liveness` (where it is 2) and, without any bound, in the theorems. In the gateway three leases and two admitted at a time leave one
for a commit whose answer was lost. Three pages let a task be requeued between its first page, which the apply replays, and its
last; the one fault of `config_bundle_tasks` is a death, an error or a lease that lapses under a busy worker, or a statement that throws, carried out or not, and a
worker that lost its lease that way goes on without any further fault. The theorems depend on none of these values.
The counters are bounded by guards in `Tick`, `SetPaused`, `Administrable`, `BeginRetry`,
`ReviewExpires`, `Claim`, `Renew`, `Beat`, `LateBeat`, `Confirm` and `Fault`.

**Symmetry** is used for deliveries in the event runs, for attempts in `manager_intents` and for leases in `plugin_gateway`, all
safety runs whose constants treat the permuted values alike; replicas are not permuted where clocks are skewed, and no liveness run uses symmetry.

**Deadlock** is checked in the event, schedule, lifecycle and gateway runs. In the manager runs it is not: when every installation is ready or
cancelled and no attempt runs, the system has nothing to do. In the configuration bundle runs neither: `Requeue` is always possible there, so the check
would say nothing.

## 4. Theorems

All proofs are checked by TLAPS, for every value of the constants that satisfies the named assumptions: any number of replicas,
deliveries, jobs, installations, workers, requests, applies and pages, any clock skew, any bound.

**`PluginEventStoreProofs`** (from `StoreAssumption`). `StoreInvariant`: `Spec => []StoreInv`, where `StoreInv` is
`TypeOK`, `LeaseIffDelivering`, `PayloadKept`, `HalfOpenHasLiveProbe` and `CircuitMatchesFailures` together.
They are inductive only together. `complete` moves the circuit of its subscription whichever delivery it was for: that it never leaves
a half-open circuit without a probe needs that half-open and "has a probe" coincide; that the
probe survives the expiry of its lease needs `LeaseIffDelivering`; that a requeue cannot take the probe away needs the probe's status.
The corollaries are `TypeCorrect`, `LeasesConsistent`, `HalfOpenNeverOrphaned`, `CircuitConsistent`, `EventsKept`, and the action
properties `DeliveredFinal`, `CircuitAdmitsItsProbe` and `QuotasHold`, each from the invariant and one step per action. The last
is about cardinalities of sets of rows and assumes that there are finitely many deliveries.

**`PluginEventDispatcherProofs`** (from `StoreAssumption`). None of its theorems bounds a call or the skew of a clock.
`DispatcherInvariant` carries the types of the calls and `ReceiptsHonest` (only a handled event is ever answered `accepted` or
`duplicate`), from which `DispatcherTypesHold` and `DeliveredMeansProcessed` follow.
`DispatcherKeepsPromise`: `DispatcherSpec => DeliveryPromise`, one lemma per step; what it needs beyond the
invariants above is `TriedInvariant` (calls are of stored events, and a leased row has a try). `AwaitedReceiptsAreTheirOwn`:
`DispatcherSpec => AwaitedReceiptMatches`. Its invariant is `AwaitedCallsHold`: what the replica of an awaited call holds of the call's row, it holds
for that attempt. It survives the lapse of the lease and a claim by another replica because both change the owner, and a claim by the replica itself because
that waits for the cycle. The lemma `DispatcherImplementsStore`, that every step is one of the store or leaves it alone, only carries the
invariants of the store over; it holds by the way the module is written.

**`PluginScheduleProofs`** (from the assumptions of both modules). `StoreInvariant` (a lease exactly while delivering, an attempt left while waiting, a leased tick due, older than its lease and tried) gives
`StoreTypesHold`, `LeasesMatchStatus`, `PolicyHolds` and `SuspensionsHold`; a lemma carries them to the dispatcher
(`DispatcherTypesHold`). `AttemptsHaveOneOwner` and `ReceiptsMatchAttempts` assume `SkewBelowInterval`: no clock
runs ahead of another by an interval of a job. Nothing bounds the length of a call here. The invariant (`CallsInvariant`): a call's tick lies
before its replica's present time and never beyond `nextRunAt` of a job that is not cancelled, strictly before it
when the job waits; if the two are equal while the job is being delivered, so are the attempts.
`DispatcherKeepsSchedule`: `DispatcherSpec => SchedulePromise`, with no bound on calls or skew. Each step is reduced to what it makes of each job's plan: `claimDue`
tries, puts off or gives up each row it meets (`CycleRows`), `complete` settles the job its tick belongs to because `HoldsLease` compares the tick.

**`PluginManagerIntentsProofs`** (from `InstallationsAssumption`, `NoneAssumption`, `BoundsAssumption`).
`IntentsHoldInvariant`: `Spec => []IntentInv`. Its parts: `TypeOK`; `HandsKnown` (an attempt past its
claim has an intent); `LeaseHoldsDeployment` (intent and admission row agree while a lease lives); `LiveIsUnderWay` (only an
intent that is under way, or was rejected while a manager held it, has a live lease); `AcceptedIsClaimable` (an attempt whose calls would be accepted stands before a claimable intent);
`FreshHasNoReview` and `PendingWrites` (what a request or retry about to commit will find);
`ApprovalPinsReview` (also of what was installed or handed over); `HeldApproval` (an attempt that polls, executes or reports a result under its lease has the review that was approved and the present revision). The safety properties of the runs follow:
`IntentTypes`, `OneLeaseAtATime`, `ApprovedIsReviewed`, `ExecutesWhatWasApproved`, `FinishedStaysFinished`, `LeasesEndInTurn`. The argument for
`ExecutesWhatWasApproved` is that a live lease excludes every step that replaces a review or moves a revision except its holder's, and the holder reads the approval *after* its review is stored;
each intermediate fact is about calls whose lease and revision `assertLease` would accept, and calls it would not accept change nothing.
`InstallsWhatWasApproved`: `Spec => ApprovalPromise`. A step that moves no attempt to an execution or a result and gives none a lease can only take standing away
(`NothingBegun`, for which revisions must never go back); the one step that begins (`BeginPromised`) finds nothing else that counts, because `LeaseHoldsDeployment` lets one attempt at a time be accepted.

**`LifecycleExecutionProofs`** (from `ExecutionAssumption`). `ExecutionKeepsPromise`: `Spec => PlanPromise`, every
step of every worker and of the installer is a step of `LifecyclePlan` or a stutter; the invariant it needs (`FileInvariant`) is that the
stored execution is never ahead of the plan file. `TypesHold` is its type part. `OneWorkerAtATime` and `DeploymentFollowsRecord` assume
`OwnersDiffer`: no two workers present the same lease owner. `eg-plugin` makes up an owner for each process unless `--owner` fixes it, and two
workers with one owner may indeed take a lease from each other. The invariant (`Kept`) says
that a worker in a phase whose lease is not over is the one the execution stores, under that lease or a later one whose answer it did not get; that a worker in a phase, also one that has long lost its lease, has the plan under way
or an earlier one and no phase ahead of the next; that the stored owner knows which phase is next; and that receipts
are of work done.

**`PluginGatewayProofs`** (from `GatewayAssumption` and `RowAssumption`). `GatewayInvariant` gives `TypesHold`, `LimitHolds`, `ProbesHold`,
and with it `OpenCircuitsKept`. `LimitHolds` counts: every request whose lease no replica takes for expired has a row of its own, and a commit leaves at most `maxConcurrentPerOperation` rows of
an operation that its own time does not call expired. It holds for any skew because `Holds` asks every clock. `RoomHolds` (`WithinPolicy`) needs no clock at all: a transaction counts what it leaves and adds one of each, and a breaker makes an entry in a free place or in that of an entry that goes.

**`ConfigBundleTasksProofs`** (from `SettingAssumption`). `BundleInvariant` relates rows, requests and workers: a task is leased exactly while it runs; the pages behind its cursor were
replayed under the mappings of its run, and so were those behind the cursor of every row a worker found and may still record, which is why a late record does no harm; a page under way was
begun under the mappings of its run or later ones. From it follow `TypesHold`, `CursorsCover`, `CompletedIsCarriedOut` and `SettledStay`. `NothingForgotten` needs a second invariant, `Settling`,
which says why nothing is forgotten before the end: a request was lost; or the newest change of the mappings did not ask for its replay (`ReplayAsked`); or the apply with the newest mappings has yet to cancel the older
tasks; or every page is fresh; or the first page is fresh, every active replay task works on from fresh pages, and
something is still in hand, a task or an apply about to insert one. The delicate case is an older apply that cancels the newer one's task: it inserts its own afterwards, which will replay the pages under
the newest mappings, since pages read them when they begin.

**Only model-checked.** The three liveness properties, and of course the violations. Liveness under fairness and ENABLED are outside what the
prover does, as are recursive definitions (the models have none).

## 5. Disagreements found

Three have a run whose one property states what a document, a comment or a test of the repository says, and a behaviour of the code that contradicts it. `PROJECT.json` quotes the lines.

| Run | What happens |
|---|---|
| `event_dispatcher_poison` | `claimDue` counts a new attempt at every claim and never compares it with `maxAttempts` when a lease expires. At attempt 101 the delivery schema rejects the row inside the claim transaction, and every later cycle of every replica fails, for all plugins. The run has two subscriptions: a delivery of the one has used up its attempts in expired leases, and the due delivery of the other, which has nothing wrong with it and a try left, is claimed by nobody. |
| `lifecycle_plan_kept` | The installer checks that no execution is live, resolves and downloads, and writes the next plan without looking again. A worker that claimed the failed execution in between runs under a live lease without its plan: its calls are refused with `plan_mismatch`, the new plan with `execution_active`. |
| `config_bundle_receipt` | A worker that completes the runtime task while its apply is still replaying reads the result before the apply has written it and writes it back afterwards. The run has succeeded, but a repeat under its idempotency key is answered with 409 instead of the receipt. |

Others were met while modelling. They follow from the lines themselves and the models contain them, so that the
properties of section 3 are those that survive them:

- A call for an event may last up to 5 s plus 120 s, its lease 30 s: two replicas, or one whose cycle failed, can then send one event at the same time, and neither "one call per delivery" nor "a receipt decides its own attempt" is true of the code. The sidecar recognizes the repetition by the deliveryId. A late receipt may decide a later attempt of its replica, but only that of a call whose cycle had failed (`AwaitedReceiptsAreTheirOwn`), and never falsely as delivered (`DispatcherKeepsPromise`).
- Between the authorization of an event and its POST there are several awaits; a tenant disabled in between still gets the event (`SetAllowed` between `Authorize` and `Handle`).
- The claim window is cut before rows of paused or open subscriptions are skipped: enough such rows hide every other plugin's due events (`ClaimOutcomes`).
- A retried tick has another `deliveryId`, so a sidecar that recognizes repetitions handles one tick twice when an answer is lost.
- A review that expires after its approval leaves the intent approved: each reclaim generates a review that `publishReview` refuses, and neither cancel, retry nor a new intent is possible. Only a change of the platform's revision ends it. `ApprovalsAreCarriedOut` therefore speaks of valid reviews.
- `retry` does not lock the admission row: together with a concurrent `createIntent` it makes two installations active. The other safety properties survive this (`manager_intents` includes it), because `claim` locks the row again.
- A request to the gateway that waited for the plugin's row past the end of its window sets the window back, and the counts of the current window are lost. The rate limits hold for one window only if no request waits that long; `ConcurrencyLimit` does not depend on it.
- An apply that dies after its commit stays pending for ever, and one whose enqueuing fails after it cancelled the older tasks leaves the later pages to nobody; `QuietIsReplayed` excludes both (`Lost`).
- A bundle applied with `preview` or `none` changes the mappings and has no identity replayed, as documented (`src/docs/how-to/deploy-authorization-config.md:451, 473`); an older task still active then may or may not replay the rest under the new mappings. `QuietIsReplayed` therefore speaks of states whose newest change asked for its replay (`ReplayAsked`).
- A worker whose write of the receipt throws after it completed the runtime task writes `failed` into the receipt of a run whose task is completed, and nothing corrects it (`WorkFails` while writing).
- A review that is not approvable, whose manager dies before it reports it, is published again by the next attempt as the stored review, which gives up the lease; the report is then refused, until the review expires after 15 minutes.

## 6. Abstractions, bounds and fairness

- **Transactions.** A transaction that locks what it reads is one action. A `Date.now()` read before a transaction starts is modelled as such in the gateway and the lifecycle execution; elsewhere it behaves like a slower clock of that replica, which `Skew` covers.
- **Ties** in an ORDER BY are broken either way.
- **Data.** Payloads, digests, hashes and error texts are left out or named by a model value; a payload is its presence, a review its approvability and expiry, a page of identities its number, a plan the number of its phases and what its migration allows.
- **Databases.** PostgreSQL's READ COMMITTED with row locks is modelled. Oracle's `SKIP LOCKED` path is not; on Spanner, whose transactions are serializable, the race of `retry` and `createIntent` would not occur.
- **Row-lock deadlock.** Manager calls lock the admission row and the intent in different orders; the database aborts one of two such calls, which appears here as a failed call (`Abandon`).
- **Sidecars, deployments and operations** are external: every answer they can give is a choice of the action.
- **Administration of the manager's capability** (`advertiseCapability`) and the platform's revision decide `Refuse`, which is free.
- **Fenced completions** that fail because the database fails are the same step as those that fail because the lease is lost (`RecordFails`).
- **Lifecycle execution.** The two stores are one: both are a compare-and-swap on the revision. All workers read one clock, wherever they run. In `PluginManagerIntents` the execution is one step with any outcome; `LifecycleExecution` takes the manager as a worker that writes its plan. The two are not composed.
- **Gateway.** One plugin; failures beyond the threshold of a circuit are not told apart; which of several evictable circuits goes is free (the code takes the oldest).
- **Configuration bundle tasks.** One provider: tasks of different providers do not touch each other. There is no clock: a lease may lapse and a retry fall due at any time. Candidates are tried in any order. A drain is the steps of a poller restricted to one run (`Serves`). A synchronisation run that cannot be started is not modelled, nor the branch of enqueue for a run that already has a task, which no caller reaches.

**Fairness of `PluginManagerIntents`.** Weak fairness of `Create` and `Retry`: a transaction that has taken its locks
commits. Weak fairness of `Lapse`: a lease has a deadline. Weak fairness of each attempt's `Step`: a running `runOnce`
goes on. Strong fairness of `Claim` and of the steps an attempt makes *in time*, while its lease is live and its
revision current: the manager polls every five seconds and is restarted when it dies, a lease lasts thirty seconds and is renewed every
ten, so of infinitely many attempts not every one is cut off at the same step. Weak fairness would not do: each crash disables the step.
Nothing is assumed of the administrator, of the expiry of reviews, of `Refuse`, or of the outcome of a plan or an
execution. `ApprovalsAreCarriedOut` therefore promises a result, not success, and only while the review is valid.

**Fairness of `ConfigBundleTasks`.** Weak fairness of what a poller does once it is looking: a call that was begun goes on unless the process ends. Strong
fairness of `Requeue` for each poller and kind: the timers of both services fire again and again, however often a poller is busy when they do. (They do where the pollers are enabled: both are off unless their interval is set.) Weak fairness of
`LeaseLapses` and `RetryDue`: deadlines pass. Nothing is assumed of the requests: a task settles although its apply died. Faults are bounded, so
`TasksSettle` says that tasks settle once faults cease, not that they do so under errors that never end (the code retries without a limit).

## 7. Not modelled

- **Git lock manager.** Its acquire, heartbeat and cleanup are checks and writes without a transaction; that two editors may hold one file, and a late heartbeat revive a lock that was lost, is plain from the lines (`PROJECT.json`, hazards), and a model would only repeat it.
- **Engine backstop synchronisation.** Its tasks have the lease of `ConfigBundleTasks` with a heartbeat that renews it; what they do is I/O to process engines.
- **Contribution availability.** Its claim and fenced completion are those of the schedule store without attempts, ticks or commands.
- **Plugin control plane.** Updates under a revision, one transaction each; the dispatchers see it only as the answer of `isExecutionAllowed`, which is free in `PluginEventDispatcher`.
- **Phase adapters, installer, interactive requests, bundle apply, identity replay** are modelled as far as they take part in the protocols above (status "partly"): the work of a phase is an effect that happens or not, the checks of a request an outcome, the transaction of an apply one step, a page of identities one number.
- **Resolver and supply chain, authorization and SCIM, sign-in.** Pure functions over documents, cryptography, and single transactions with version checks.
- **Engine event poller, Mission Control, Git integration.** Clients of other services; what the poller publishes is deduplicated by the modelled event store.
- **Engine tenancy, Starbase, invitations, web frontend.** Single requests of one operator or user, and presentation.

By far most lines of the repository belong to these: screens, routes, schemas, permission tables, entities and their tests. They keep no protocol state, so the map covers a small share of the
repository and most of the code in which replicas, workers and administrators meet.
