# grass-worker in TLA+

A TLA+ development of the concurrent core of grass-worker, a self-hosted
platform that builds web projects on build nodes and serves them from Serve
nodes. It holds the models, the small instances TLC checks, and the theorems
TLAPS proves of them. All paths below are relative to the repository; `control-api`
stands for `apps/control-api/src` and `node` for `apps/node/src`.

## 1. The system

One control API (exactly one process, `self-hosting.md:581`) over PostgreSQL and
a cache (in memory, or Redis), and nodes that poll it over HTTP. A node has no state the
control API depends on: everything it learns or says is a request. So the
concurrency is that of request handlers, plus the sweeps the control API runs
on timers.

| Component | State | Operations | Interacts with |
|---|---|---|---|
| **Delivery and release** (`control-api/domain/{deployments,delivery,deployment_activation,deployment_placement}.rs`) | `deployments` rows (build, Serve and release status, `serve_node_id`, `pending_release_*`), `deployment_reviews`, the team's review policy | create/retry, finalize ready, unsuccessful build, Serve report, promote, rollback, approve, reject, unpublish, withdraw, republish; each ends in `reconcile_environment` | scheduler lock, build reports, Serve reports |
| **Claims, slots and cancellation** (`claim.rs`, `stage.rs`, `deployment_cancellation.rs`, `infra/quota`) | the team's slot counter, slot-release markers and cancel flags in the cache; `build_status`, `build_node_id` | claim, stage report, cancel, expiry of the counter | build node, Delivery |
| **Build node** (`node/build`, `node/runtime`) | the job in progress | poll for work, pipeline of stage reports, cancel poll every 5 s | stage handler |
| **Serve synchronization** (`node/serve/sync.rs`) | staged artifacts on disk | poll assignments, report syncing/ready/failed | Serve report handler |
| **Routing** (`node/serve/{routing,routes,proxy}.rs`, `resolve_host.rs`) | route cache of the node | resolve a host, invalidate | Delivery |
| **Scheduler** (`scheduler.rs`) | placement advisory lock, node loads | place a deployment | Delivery, node registry |
| **SSR process leases** (`ssr_leases.rs`) | lease rows, usage events | acquire, renew, release, sweep of the expired | SSR services, quota ledger |
| **SSR services** (`node/serve/ssr.rs`) | registry of services, start locks, containers | proxied request, invalidate, reaper, route refresh, shutdown | SSR leases, routing |
| **Quota ledger** (`quotas.rs`, `infra/quota`, `crates/cache`) | counters in the cache, durable counters and events | seed, reserve, commit, roll back, release | project lifecycle, builds |
| **Node deletion and migration** (`node_deletions.rs`) | deletion jobs, shadow assignments | enqueue, sweep, Serve reports on the shadow | Delivery, scheduler, node registry |
| **Storage migration** (`storage_migrations.rs`, `infra/storage/manager.rs`) | job and manifest rows; backend in use and maintenance gate in memory | request, sweep (list, copy, switch), every write of an object | retention, artifacts, start-up |
| Node registry and health | node rows | register, heartbeat, health sweep | scheduler, deletion |
| Project lifecycle | project rows | create, delete, restore, transfer | quota ledger |
| Retention and cleanup | objects | sweeps | storage |
| Hosts, certificates, ingress | bindings, ACME orders | onboarding, issuance | external DNS and ACME |
| Accounts, teams, settings, credentials, screenshots, console, libraries | single rows, formats | request and response | |

What is hard here, and why tests hardly reach it:

- *A row read before the transaction that uses it.* The stage handler, promote,
  rollback and cancel all decide from a row they read without a lock.
- *A cache and a database changed by one handler with nothing spanning both.*
  Slots and quotas are counted in the cache; rows are changed in PostgreSQL; a
  handler may be dropped in between because its client disconnected.
- *Three status machines in one row*, driven by build nodes, Serve nodes,
  members, administrators and reconciliation, in any order.
- *Events written after the transaction they belong to.* SSR leases and project
  deletions owe usage events that a dropped handler never writes.
- *Sweeps that resume.* A node deletion and a storage migration go through many
  transactions, and a crash, a stale report or a second request may fall
  between any two.
- *Nothing pushes.* A cancellation, a queued release and a retired assignment
  take effect only when a node next polls.

What makes each modelled part correct:

- Delivery: one active deployment; one queued release, and it ends; a
  Serve node exactly while the deployment is not retired; failed and canceled builds keep
  no reservation; the version that serves is only taken down by its removal or
  by a served replacement; superseded versions do not linger.
- Slots: a build is handed out once; a slot is given back at most once and only
  for a claimed build; the counter covers the builds that have a slot, and no slot
  stays behind, but for named steps; a cancel flag stops the job; a crash blocks
  no one for ever.
- SSR leases: one per process; the limit is passed by a known margin only; the
  ledger hears of every process, hour and end.
- SSR services: no container without someone to stop it; starts exclude each
  other; a node that is no longer routed to is rid of the service.
- Project quota: the cached counter misses no project; a grant keeps the limit.
- Node deletion: a deleted node serves nothing; routes switch together and lead
  to nodes that have the artifact; the job ends.
- Storage migration: nothing stored is lost; maintenance is on only for a migration.

`PROJECT.json` lists every component with its status, and every hazard at the
line where it bites with the properties that watch it.

## 2. Modules

| Module | What it is |
|---|---|
| `Delivery` | one environment of one project: the deployments table, and every handler that changes it |
| `Release` | what that promises of a production environment: the version published, the one that waits, the ones served |
| `BuildSlots` | the build slots of one team, call by call |
| `SsrLeases` | the leases of a team's SSR processes and their usage events |
| `SsrServices` | one SSR service on one node |
| `ProjectQuota` | the project counters of the teams and the requests that charge them |
| `NodeDeletion` | deletion jobs and shadow migrations, with what is placed and reported meanwhile |
| `Evacuation` | what that promises of the places deployments are served from while nodes are deleted |
| `StorageMigration` | the migration of the object storage, its gate and the writes it holds up |
| `MC…` | the small instances of each for TLC |
| `…_proofs` | the safety of each for every value of the constants; `Release_proofs` extends `Delivery_proofs` |

`Delivery` instantiates `Release`, and `NodeDeletion` instantiates `Evacuation`:
each is shown to implement what it promises. The other modules meet at their boundaries:
what one leaves to another is a free choice of its actions (a placement, a
retirement, a refusal by a quota), so each is checked against more than its
neighbours do.

An operator named `X_Y`, placed before `X`, is not part of the system: it is
`X` with one plausible bug. For every property of a passing run there is one
that makes TLC find that property violated, which shows that the property is
able to fail. `Next` never uses them.

### 2.1 Delivery

`rows[d]` is the row of deployment `d`; ids are numbered in the order
`(created_at, id)` that `desired_delivery_ids` sorts by, so "newest" is the
largest. `was_serve_ready` stands for the logged Serve event that republication
looks for, `artifact` for the artifact row, `pending_reviews` and
`approved_review` for the review rows.

*Grain.* Every transaction that takes the placement lock or locks the row it
changes is one action, with everything it does up to the commit: in particular
`Reconcile` is part of the action wherever the handler calls
`reconcile_environment`, and only there. Where a handler decides from something
it read before its transaction, it is two actions with the snapshot in between:

| Code | Actions |
|---|---|
| `POST deployments`, `retry.rs` | `CreateDeployment` |
| `claim.rs` | `ClaimBuild` |
| `stage.rs`, Queued/Building | `StageRead`, `StageWrite` (row read unlocked) |
| artifact upload | `UploadStaticSite` |
| `stage.rs`, Ready | `FinalizeReady` |
| `stage.rs`, Failed; cancellation | `FailBuild`, `CancelBuild` (both `transition_unsuccessful_build`) |
| `serve/.../status.rs`, `report_status`, `complete_serve_ready` | `ReportServeStatus`, `CompleteServeReady` |
| `promote.rs`, `rollback.rs` | `LoadForActivation`, `ApplyActivation`, `AbandonActivation` |
| `approve.rs`, `reject.rs` | `ApproveReview`, `RejectReview` |
| `unpublish.rs`, `withdraw.rs` | `Unpublish`, `Withdraw` (both `remove_publication`) |
| `republish.rs` | `Republish` |
| review policy | `SetReviewMode` |

A handler that answers with an error rolls its transaction back, so an error
path is a disabled action. So is a deadlock between the row lock and the
placement lock, which handlers take in both orders: PostgreSQL aborts one of
the two transactions.

*Assumptions of the model.* The scheduler may choose any node. The cancel flag
of the cache, whose write is best effort, never arrives: that is the case in
which a stale report gets the furthest. A node's pipeline awaits each report
before it goes on, so an upload or a terminal report does not overlap an older
stage report of the same build (`BuildNodeFree`); a report given up by the client's timeout
while the handler still runs is outside the model. Shadow migrations are in
`NodeDeletion`; project deletion, which also touches the table, is not modelled.
That a Ready report of the build needs the artifact is the node's order of
calls, not a check of the handler.

*Refinement.* `ReleaseSpec` is `Release` with the active deployment for
`active`, the one with `pending_release` for `waiting` and the ready, assigned
ones for `served`. A release publishes at once when its target is served and
otherwise waits; publishing replaces what was active in the same step; what is
active is never among the superseded versions that stop being served.

### 2.2 BuildSlots

The cache and the database change separately, so a handler is one action per
call another handler can come between:

| Code | Actions |
|---|---|
| `claim.rs` | `ClaimBegin` (list candidates), `ClaimAcquire` (slot, oldest first), `ClaimUpdate` (conditional UPDATE), `ClaimFail` (slot back, next candidate or error) |
| `stage.rs` | `StageRead` (row, flag, counter), `StageRefresh` (write the counter back), `StageCommit`, `StageRelease` |
| `deployment_cancellation.rs` | `CancelRead` (row, unlocked), `CancelCommit` (row re-read under its lock), `CancelFlag`, `CancelRelease` |
| client disconnects | `ClaimDropped`, `StageDropped`, `CancelDropped` at every point |
| `node/build/mod.rs` | `jobs`: pipeline reports and cancel polls as `StageRead`; `JobLost` |
| time to live | `Expire` |

Two tasks of a job report concurrently (`Requestors`): the pipeline and the
cancel poll. A Queued or Building report is validated against the row read at
first, a terminal one against the row re-read, as in the code. `releases` and
`forgotten` are history: the decrements made for each build, and the builds that
had a node when the counter expired, which the new counter knows nothing of.

*Assumptions of the model.* Cache calls succeed (the code logs or ignores most
failures). A stage report reads the row, the flag and the counter one after
the other without a lock; the model reads them at once, so what comes between
two of these reads is not explored. The counter lives 30 minutes and a running build refreshes it every
5 seconds, so it expires only when nothing runs that refreshes it. The team's
limit is constant. `MaxInFlight` bounds how many handlers run at once.

### 2.3 SsrLeases

A lease is named by deployment, node and a generation. The ninety seconds are
the states `live` and `expired`; the hour blocks charged are `block`.

| Code | Actions |
|---|---|
| `acquire` | `AcquireCheck` (locks the deployment's row and the expired lease, counts the team's other leases without a lock), `AcquireCommit`, `AcquireAbort` |
| `renew` | `RenewBegin` (the clock read on arrival), `RenewCommit`, `RenewRefused` |
| `release` | `Release` |
| `release_expired` | `SweepList`, `SweepRelease` |
| usage events after the commit | `RecordEvent`, one by one and idempotent; `DropHandler` loses the rest |
| the clock | `Expire` |

`lost` and `late` are history: leases with an event never written, and held
leases whose renewal read the clock before their expiry and committed after it.

### 2.4 SsrServices

One deployment on one node: `entry` is its slot in the registry, `container`
its container, `start_lock` the mutex the map of start locks holds now, `held`
the mutexes somebody has. Each task keeps the lock and the lease it took.

| Code | Actions |
|---|---|
| `upstream_for` | `RequestStart`, `RequestLock`, `RequestAcquire`, `RequestRun`, `RequestReady`, `RequestUndo` |
| `invalidate` after a failed connection | `RequestConnectFailed`, `RequestInvalidate` |
| client disconnects | `RequestDropped`, at every await |
| reaper | `ReaperRead`, `ReaperRenew`, `ReaperIdle`, `ReaperStop` |
| `reconcile_routes` | `RefreshBegin`, `RefreshLock`, `RefreshRelease`, `RefreshStop` |
| shutdown, crash and restart | `Shutdown`, `Crash` |
| a stop the container runtime refuses | `StopFails`: the refresh gives up until its next tick, the others ignore it |
| outside | `RouteChange`, `ContainerExits`, `Expire` |

`RequestRun` is one step for the awaits of `run_service`: what a start waits for
before its container runs touches nothing another task reads. `orphaned` is history: a task ended before its time and left the container
running, or its stop was refused. It becomes false again when somebody adopts or stops the container.

### 2.5 ProjectQuota

`counter[t]` is the key of the team in the cache; one counter stands for the
projects counter and that of the runtime, which move together. `op[r]` is a
request with the step it is at.

| Code | Actions |
|---|---|
| create, restore, transfer: `reserve` | `Create`, `Restore`, `Transfer`, then `SeedGet`, `SeedSet`, `Consume` or `Refuse` |
| the business transaction | `Tx`, `TxFails` |
| rollback or commit of the reservation | `Rollback`, `Confirm` |
| the source team of a transfer | `Adjust`, `ReleaseSource` |
| deletion and its release | `Delete`, then `RecordEventOnce`, `ReadUsage`, `SetCounter` |
| a disconnect or a crash; expiry of a key | `Drop`, `Expire` |

`disturbed` is history: the teams whose counter one of three named steps has
made too low. A usage is read, rows or reservations are added, and the old
value is written; a counter that is not there is changed by one and so begins
from zero; a row is moved after its request last read it. `CounterCovers` says
that there is no fourth.

### 2.6 NodeDeletion

Placement, the Serve reports, enqueue and the sweep hold the placement lock, so
each is one action; a heartbeat writes a status derived from the row that
authenticated it, so it is two (`Authenticate`, `Heartbeat`).

| Code | Actions |
|---|---|
| `enqueue` | `Enqueue` |
| `process_job` and what it calls | `Process`: `ProcessFailure`, `ProcessMigrating`, `ProcessDraining`, `ProcessDeleting`, `ProcessCompleted`; errors as `ProcessError` |
| Serve reports | `ShadowReport`, `AssignedReport` |
| heartbeats and the health sweep | `Authenticate`, `Heartbeat`, `GoStale` |
| what `Delivery` and the builds do meanwhile | `Create`, `Claim`, `FinishBuild`, `EndBuild`, `Retire`, `PlaceAgain` |

Of an artifact it has staged a node reports `syncing` where the row is pending
or failed, then `ready` (`Reported`); both rows read the same here before and
after that `syncing`.

`staged` (what each node itself reported ready) and `revived` (nodes a stale
heartbeat took out of draining) are history.

*Refinement.* `EvacuationSpec` is `Evacuation` with the assigned node of a
deployment, if it still counts for serving, as its `home`, `staged` as the
`copies` and `revived` as what makes the promise void. Everything leaves a node
in one step and only to where all of it is staged, nothing but a retirement or a
build that ended takes a route down, and only an empty node is removed.

### 2.7 StorageMigration

| Code | Actions |
|---|---|
| any write of an object | `BeginWrite` (gate shared, flag checked), `EndWrite` |
| `POST admin/storage/migrations` | `Load` (settings), `Insert` or `InsertRefused`, `Mark` (the maintenance flag) |
| the sweep | `SweepStart`, `ProcessStart`, `ListObjects`, `CopyStart`, `CopyEnd`, `CopyFails`, `CommitSwitch`, `Replace`, `Leave`, `Record` |
| errors | `ProcessFails`, `RecordFails`, `CommitUnacknowledged` |
| the process stops and starts | `Crash` |

`stored` is history: what the last write of each key left. `exposed` records
which of four ways past the gate were taken: `stale_source` (the request read
the settings before another migration switched them), `late_mark` (the flag is
set after the job is over), `unacknowledged` (the switch was committed and its
answer lost), `unrecorded` (a failure was not written down, though the gate
had been left). `ProcessFails` also stands for an error before the job is marked
running.

A migration goes between two distinct backends: the same physical storage under
other credentials or another name (`storage_migrations.rs:43`) is not represented.

## 3. Runs

### 3.1 Properties that hold

| Run | Instance | Properties |
|---|---|---|
| `delivery_production` | 2 production deployments, 1 Serve node, 1 promote/rollback request, both review modes and changes between them, at most 2 open reviews per deployment, fair synchronization (135 804 states) | `TypeOK`, `OneActive`, `OnePendingRelease`, `AssignmentMatchesServe`, `PendingOnAssignment`, `PendingReviewDecidable`, `ProductionNeverDrops`, `ReleaseSpec`, `RefusalsAreStale`, `PendingReleaseDrains` |
| `delivery_preview` | 3 previews, both review modes and changes between them, no promote or rollback (1 105 262 states) | `ServedIsWanted`, `RollingOverlap` |
| `build_slots_races` | 2 builds, 2 nodes, limit 1, any 2 handlers interleaved (647 888 states) | `TypeOK` (with the counter within 0..Limit), `ReleasedAtMostOnce`, `OneBuildNode`, `SlotsStayCovered`, `SlotsGivenBack` |
| `build_slots_recovery` | 2 builds, 1 node, limit 1, any 2 handlers, fairness (142 157 states) | `FlagStopsJob`, `PendingNotBlocked` |
| `ssr_leases` | 2 deployments, 2 nodes, limit 1, 2 leases of two hours each at most, 1 renewal and 1 handler with events at a time (453 623 states) | `TypeOK`, `OneLeasePerProcess`, `OvercommitBounded`, `RefundIsLastHour`, `LeasesAccounted` |
| `ssr_services` | 2 requests, 2 start locks, 2 leases, 1 fault: a crash, a shutdown, a dropped request, an exit or a refused stop (950 678 states) | `TypeOK`, `ContainerOwned`, `StartsExclude`, `UnroutedStops` |
| `project_quota` | 2 teams of limit 1, 2 projects deleted up to twice, 2 requests, 1 fault (2 350 506 states) | `TypeOK`, `CounterCovers`, `LedgerTracksRows`, `GrantedWithinLimit` |
| `node_deletion` | 2 nodes, 2 deployments, 1 job, 1 heartbeat in flight (298 403 states) | `TypeOK`, `NothingLeftBehind`, `RoutedIsStaged`, `EvacuationSpec` |
| `node_deletion_ends` | 2 nodes, 1 deployment, 2 jobs (of a node and of its target), fairness (441 424 states) | `DeletionEnds` |
| `storage_migration` | 2 backends, 2 objects of 2 contents, 1 request at a time, 1 fault (3 249 932 states) | `TypeOK`, `NothingLost`, `MaintenanceMeansMigration` |

*Why the bounds are enough.* Two deployments give every pair: the one that
serves and its replacement, the queued release and its rival, the active one and
the one it demotes. Three previews are the smallest number in which the newest,
the previous that still serves and one superseded by both coexist, which is
where `desired_delivery_ids` makes its choice. A Serve report,
an approval or a republication between the two steps of the request does what a
second request would; with two requests and two Serve nodes the same safety
properties were seen to hold (1 900 882 states). One slot for two builds makes the counter
contested at its limit and at zero; two handlers at once give every pair of
steps that can race. Two leases are enough for the pairs that matter: a lease
and the one that replaces it, or two acquisitions that pass the limit together.
Two requests for an SSR service give a start and a second one that waits for
it, adopts its container or drops it; two start locks, one that was forgotten and
its successor. Two projects of two teams have a transfer in each
direction, and a project deleted twice tells the two releases apart. One
deployment ready and one still copied is the case in which routes must wait
for each other. Two objects, one copied and one not, are what an interrupted
manifest is about, and the faults of one migration are followed by another
migration in the same behaviour. What the bounds leave open, the theorems of
section 4 settle for all the safety properties.

*Symmetry* is used in `ssr_leases`, `project_quota`, `node_deletion` and
`storage_migration`, whose runs have no liveness property,
and only over sets whose members the model does not tell apart. (In
`storage_migration` backends are told apart: one is set up first.)

*Deadlock.* The deployments, leases, generations and jobs are finite: when all
are used up, nothing happens any more. So no run checks for deadlock; the
liveness properties say what must not get stuck.

*Fairness of Delivery* (`SyncFairness`). The sync loop of the assigned node
polls every few seconds and reports `syncing` for what it is assigned: weak
fairness. A synchronization may fail, and is retried at the next poll; that it
succeeds once if it is tried for ever is strong fairness of the `ready` report.
Builds, members and administrators are not fair. Under this
`PendingReleaseDrains` says that a queued release is activated or removed, with
one exception in the formula: its activation is `Refused`, because the target is
no longer in `draft` or `approved`. `RefusalsAreStale` says which two steps may
lead there, and `RefusedForGood` (section 4) that there is no way back for a
target that is not active.

*Fairness of BuildSlots*. Nodes poll for work every 5 seconds; a claim that is
tried for ever is completed once (clients do not disconnect for ever); handlers
that run finish (weak fairness of their steps, though they may be dropped);
live jobs poll; time passes. Arrivals are strongly fair only because
`MaxInFlight`, which the code does not have, makes them wait for each other.
A build may run for ever.

*Fairness of SsrServices*. A request that runs goes on; the reaper and the
refresh tick on their intervals; a lease that no entry or task can renew any
more expires. No client, no route change and no fault is obliged. The route
refresh may wait for a start in progress, which is itself fair.

*Fairness of NodeDeletion*. The sweep runs every two seconds, and a node asks
for its assignments every five seconds and says how staging each went: weak
fairness of `Process` and of a final `ShadowReport`. Builds are not fair;
`DeletionEnds` excepts a job that waits for one, and the two cases named in 3.2.

### 3.2 Known divergences

Two runs check one statement of the repository each, and TLC finds it violated
by what the code does. `findings` in `PROJECT.json` quotes the lines.

| Run | Statement | What happens |
|---|---|---|
| `delivery_cancel` | `CanceledIsFinal`: a cancel wins over any progress report | a Queued or Building report that read its row before the cancellation is validated against what it read, and puts the row back to work |
| `project_quota_cold` | `ColdCacheConverges`: a counter that was lost comes back with the value of the database (`infra/quota/mod.rs:6-8`) | with one request at a time and no fault, a transfer decrements the source team's counter, which is not in the cache and so begins at zero; the next requests take it for the usage |

Seven more statements are definitions of the modules that no run checks. Each
is violated when it is put in place of the properties of the configuration named:

| Statement | Configuration | What happens |
|---|---|---|
| `ManualActivationReviewed`: manual mode activates only what a review approved (`deployments.rs:821`) | `Delivery_production`, with `ReviewModes = {"manual"}` | a team's unpublish moves `pending_review` to `approved` (`delivery.rs:58-63`); promoting then needs no review |
| `ActiveNeverQueued`: a release request for an active target is refused (`delivery/tests.rs:817`) | `Delivery_production` | refused only on the branch that activates at once; a promotion that loaded its target earlier queues a release of the active deployment, which no Ready report can complete, and which closes the environment to other releases until the deployment is removed (`PendingReleaseDrains` excepts it) |
| `RoutedPreviewResolves`: the previous Ready preview keeps serving during a replacement (`self-hosting.md:552`) | `Delivery_preview` | it keeps its assignment, but preview hosts resolve to the newest build only (`delivery.rs:195-215`), and to nothing until that is ready |
| `ClaimedWithinLimit`: a team never runs more than its limit (`claim.rs:110`) | `BuildSlots_races`, with three deployments and `Limit = 2` | the refresh of the counter writes back a value read before another claim (`infra/quota/mod.rs:412-416`) |
| `CanceledSlotReleased`: a canceled build's slot was released by the cancel (`stage.rs:113`) | `BuildSlots_races` | a cancel that read the row before the claim cancels the claimed build and releases nothing; the slot waits for the counter to expire |
| `IdleServiceStops`: services stop after 30 idle minutes (`self-hosting.md:594`) | `SsrServices` | after a restart of the node the container has no entry in the registry, and the reaper looks at entries only (`ssr.rs:378-443`); it runs until a request adopts it or the routes change |
| `DrainNeverCanceled`: node activity never cancels a drain (the test at `nodes.rs:655`) | `NodeDeletion` | a heartbeat that authenticated before the deletion was requested writes `active` over `draining` |

One sentence of the documentation is at odds with a single assignment of the
code, which the models follow: after a team unpublishes it, a deployment under
manual review "returns to Draft" (`self-hosting.md:548`), and `delivery.rs:58-63`
makes it `approved` for a team and `draft` for the platform only. An unpublished
deployment can therefore be promoted again without a review.

What else the models showed, and how the properties allow for it:

- *Queued releases.* One can become impossible to complete, and nothing but the
  removal of a target that was active already takes it back. Either a promote or
  rollback is applied to a target that moved since it was loaded (it became
  active and is queued all the same, or is sent to review while queued), or
  a release is queued, the policy turns manual and another Ready report of the
  build sends the target, still a draft, to review (`stage.rs:406`). From then on
  every Serve-ready report rolls back (`complete_pending_release`), decisions and
  removals are refused because the target is not Serve-ready, and the
  environment takes no other release (`ReleaseAlreadyPending`).
- *Leases.* The limit may be passed by one process for each other deployment
  that acquires at once, and by renewals that outlive their expiry
  (`OvercommitBounded` says by how much). An acquisition that replaces an
  expired lease does not give its hour back, while the sweep and the release do. A
  dropped handler leaves usage unwritten (`lost`).
- *Slots.* The counter stops covering the builds that have a slot by two kinds
  of step only: a refresh over a claim, and the release of a build that the
  expired counter had forgotten. Without them a team stays within its limit
  (`SlotsStayCovered`, and `ClaimedWithinLimitBarring` in section 4). What leaves
  a slot behind is a refresh over a release, a claim dropped before its update,
  a report or a cancellation dropped before its release, and a cancellation that
  read the row before the claim (`SlotsGivenBack`).
- *Start locks.* The map forgets the lock of a deployment that lost its routes;
  one that gets them back has a new lock beside starts that hold the old
  one. `StartsExclude` says that overlapping starts have different locks.
- *Quota.* The three steps of `disturbed`. A counter that is too low admits
  projects above the limit until it is set from the rows again (a deletion, an
  expiry).
- *Node deletion.* A deployment retired and placed again on another node before
  a sweep saw it retired keeps a copy that is never settled (`PlacedAgain`); its
  job does not end. A revived node is not drained.
- *Storage migration.* `NothingLost` holds but after `stale_source`,
  `unrecorded` and `unacknowledged`; after `late_mark` maintenance stays on with
  no job, until the next migration or restart.

## 4. Proofs

The proof modules hold for any sets of deployments, nodes, requests and so on,
any limits and any bounds; the assumptions used are the named `ASSUME`s of the
modules (ids are naturals, null values are none of the values, sets that are
counted are finite, limits and bounds are numbers). In each of them `Invariance`
proves `Spec => []IInv` by one lemma per action; the properties follow.

*Delivery.*

    IInv == TypeOK /\ TableInv(rows) /\ Settled(rows) /\ HandlersInv

`TableInv` and `Settled` are predicates of a *table*, not of the variable: a
handler builds a table (activate, demote, queue, retire) and passes it to
`Reconcile`, so the argument for each action is that the table it builds
satisfies `TableInv`, and one lemma says that `Reconcile` keeps `TableInv` and
restores `Settled`. `RowInv` says what the status machines promise together: a
row leaves `draft` only when it is built, it has a node exactly when it is not retired, a
queued release is built and not Serve-ready, and the active production
deployment is not retired because `desired_delivery_ids` keeps it.
`HandlersInv` is what the stale snapshots need: a running stage request saw a
build that was not over, so its write can revive a canceled row but never
disturbs a built one, and a promotion in flight has a built target. Proved:
`TypeOK`, `OneActive`, `OnePendingRelease`, `AssignmentMatchesServe`,
`PendingOnAssignment`, `PendingReviewDecidable`, and `ActiveProductionServed`, the
fact about states behind `ProductionNeverDrops`.

`StepMayChange` lists what a step may do to one deployment (be taken, built,
approved, activated, applied, removed, yield to another), so that a claim about
steps is read off a dozen cases and not off all handlers. With it and with
`SnapshotInv` (what a running request read is still so, unless a cancellation
came in between) `BuildFollowsMachine` says that each change of a build status is
a transition of the machine, though it is validated against an old row; the one
exception is the late report that revives a canceled build. The same cases give
`RefusalsAreStale`, and `RefusedForGood`: once the target of a queued release waits
for review or was rejected, no step activates it or takes it out of the queue.

*What the divergences depend on.* A statement of section 3.2 is false of the
code; the theorems named `...Barring` say which steps are to blame, that
is, the statement holds of every run without them:

| Statement | holds of every run in which |
|---|---|
| `CanceledIsFinal` | a report is written over the build status it was validated against |
| `ActiveNeverQueued` | no promotion is applied to a target that became active after it was loaded |
| `ManualActivationReviewed` | no team unpublishes a deployment that is not active (and manual review has always been the policy) |
| `ClaimedWithinLimit` | no refresh overwrites a claim, and no build gives back a slot the expired counter had forgotten |
| `CanceledSlotReleased` | no handler that owes a release is dropped, and no cancellation commits on a row it read before the claim |
| `DrainNeverCanceled` | a heartbeat writes a status the row still stands for; then nothing is ever revived, and the properties of section 3.1 that except revived nodes hold of all nodes |

The first three are in `Delivery_proofs`, the next two in `BuildSlots_proofs`, the
last in `NodeDeletion_proofs`. `CanceledSlotReleased` needs an invariant of its
own, `GivesBack`: whoever has canceled a claimed build is on the way to release its
slot.

*Release* (`Release_proofs`). What a handler does is said of three sets of a
table, the active, the queued and the served ones, and then read as a step of
`Release` (`ImplementsRelease`); `ProductionNeverDrops` is one more reading of
the same steps. The module also proves what the two refer to in both kinds of
environment: `ServedIsWanted` and `RollingOverlap`. Their invariant is

    IInv /\ Ordered(rows) /\ Wanted(rows)

`Ordered` says that every non-empty set of existing deployments has a newest
one: each new deployment is newer than those there are. (The library's theorem on
least elements takes an operator as a parameter.) Every step is calm (nothing is
newly served, retired or superseded), or ends in a reconciliation, or creates a
deployment; a newer deployment that is not ready never takes the place of the
one that serves.

*BuildSlots.*

    IInv == TypeOK /\ ClaimedInv /\ MarkerInv

`ClaimedInv` ties the row to everything that may act for it: a build without a
node is pending or canceled, has no job, no report in progress, no cancellation
that believes it running, and no marker; the stale `was_running` of a
cancellation is thus always of a build that was claimed. `MarkerInv` says that
the marker stands for exactly one decrement. `TypeOK` includes the range of the
counter, which is not obvious: a refresh writes back an old value. It is
inductive because the values read are themselves within the range. Proved:
`TypeOK`, `ReleasedAtMostOnce`, `ReleasedWasClaimed`, `OneBuildNode`.

The account of the counter compares it with the number of builds that have a
slot (`InUse`) and of claims that hold one for a build they do not have yet
(`Holding`), and needs

    SlotInv == IInv /\ JobInv /\ ForgottenInv

`ForgottenInv`: a build the counter has forgotten is over on its node and has no
report in progress, so only a cancellation can still give its slot back; it
rests on `JobInv`, that a build with a node has had a job, and on the counter
not expiring while a job refreshes it. A step changes at most one member of each
set, and the lemma of each handler says how (`UseStep`, `SameUse`). Proved:
`SlotsStayCovered`, `SlotsGivenBack`, and `ClaimedWithinLimitBarring`: the limit
that 3.2 says is passed is kept in every run without a refresh that loses a
claim and without such a late release.

*SsrLeases.*

    IInv == TypeOK /\ OwedInv /\ BlockInv /\ LockInv /\ OneLeasePerProcess
            /\ CountInv /\ RefundIsLastHour /\ LeasesAccounted

`LockInv` is why the check of an acquisition is still true at its commit: the
leases it is to replace are exactly the unreleased ones of its process, because
only an acquisition makes leases and the row is locked. `CountInv` reserves a
place for each acquisition that passed its check, which gives the margin of
`OvercommitBounded`. All five properties of the run are proved.

*SsrServices.*

    IInv == Types /\ RequestsInv /\ LocksInv /\ OwnedInv

`LocksInv`: a task that starts the service holds the lock it asked for, no
other start and no refresh has the same one. `OwnedInv` is `ContainerOwned`
with the tasks taken one by one. Proved: `TypeOK`, `ContainerOwned`,
`StartsExclude`.

*ProjectQuota.*

    IInv == TypeOK /\ TombstoneInv /\ CounterCovers

`CounterCovers` compares a number with the sizes of three sets. A step changes
at most one member of each, so the proof compares what it does to the sets with
what it does to the counter, by one lemma on the cardinality of sets that differ
in a member. `TombstoneInv`: a deleted project has a generation. Proved:
`TypeOK`, `CounterCovers`, `GrantedWithinLimit`.

`LedgerTracksRows` equates a number with four such sizes, so it is kept by the
same lemma on each of them, with

    LedgerInv == IInv /\ CreateInv /\ KeysInv /\ LedgerTracksRows

`CreateInv`: a request that creates a project has its id to itself, so that its
event belongs to one row. `KeysInv`: a release is recorded, or about to be, only
for a deletion that took place; a later deletion of the same project has a key
of its own and is released in its turn.

*NodeDeletion.*

    IInv == TypeOK /\ JobsInv /\ DrainInv /\ StagedInv
            /\ NothingLeftBehind /\ RoutedIsStaged

`DrainInv`: while a deletion is under way and no heartbeat has undone it,
nothing is placed on the node, so what it still serves has a row in the job,
and nothing is left once all rows are done. `JobsInv`: a node has one job.
`StagedInv`: a copy that is ready was reported by the target. Proved: `TypeOK`,
`NothingLeftBehind`, `RoutedIsStaged`, and that a step which moves one deployment
off a node leaves it nothing to serve (`RoutesSwitchTogether`).

`ImplementsEvacuation` reads every action as a step of `Evacuation`. While
nothing was revived, the homes of the deployments are their assignments, none is
on a deleted node, and a job that reaches its switch has every row ready, so the
target has a copy of all that the source serves.

*StorageMigration.*

    IInv == TypeOK /\ GateInv /\ JobInv /\ MovesInv /\ SettingInv
            /\ ManifestInv /\ NothingLost /\ MaintenanceMeansMigration

`ManifestInv` is the point: from the first row of the manifest on nobody
writes, whatever attempts fail and however often the process restarts, so the
manifest has every object there is and the target has those that succeeded.
`GateInv` says who may write while the sweep works, `SettingInv` that the
backend in use is the one a restart would choose. Proved: all three properties
of the run.

*Only model-checked.* The liveness properties `PendingReleaseDrains`,
`FlagStopsJob`, `PendingNotBlocked`, `UnroutedStops` and `DeletionEnds`, which rest
on fairness. Of section 3.2, `ColdCacheConverges`, `RoutedPreviewResolves` and
`IdleServiceStops` are false and have no theorem: no single step is to blame for the
first two, and the third is about liveness.

## 5. Not modelled

- *Route cache of the nodes and its invalidation*: only which preview a host
  resolves to is modelled; a node refreshes its routes every five seconds.
- *Several teams in `BuildSlots`*: the claim handler looks at the ten oldest
  pending builds of the platform, so builds of a team at its limit can hide
  those of others. Showing it takes more than ten builds.
- *The other quota dimensions* (members, hosts, storage, the monthly ones): durable
  counters read without a lock and written back, and a charge without a check
  that begins a cold key from zero. The month's boundary between a reservation
  and its commit.
- *What the deletion of a project does* to its deployments, domains and objects;
  *team deletion*.
- *Capacity in the scheduler*: weights and overcommitment only narrow the
  choice of a node, which is free in the models.
- *Retention, cleanup, screenshots*: sweeps, each step decided from one query.
- *Certificates, domains, ingress*: protocols with external services, mostly
  validation on this side.
- *Accounts, sessions, teams, settings, credentials*: operations on single rows.
- *Checkout, container runtime, archives, log shipping, the console, formats
  and cryptography*: I/O and data. They are most of the repository's lines.

## 6. Plan

Done: the modules, runs and theorems above. What the modules still leave to
prove is small: that `Evacuation` and `Release` themselves imply the properties
a reader wants of them, so that the implementations need not repeat them. Left
to model, in this order:

1. The durable usage counters (`apply_counter_delta`, `charge_unchecked`) as a
   module of their own beside `ProjectQuota`: how far an aggregate can fall
   behind its events, and for how long.
2. `BuildSlots` for several teams, with the window of candidates as a constant.
3. The route cache: for how long after a switch of routes or a removal a node
   may answer from an old route; composed with `NodeDeletion`.
4. Project deletion in `Delivery`, racing a release and a build.

## 7. Running

    tlc -config Delivery_production.cfg MCDelivery
    tlc -config StorageMigration.cfg MCStorageMigration
    tlapm Release_proofs.tla

The other configurations run in the same way: `Delivery_*` with `MCDelivery`,
`BuildSlots_*` with `MCBuildSlots`, `ProjectQuota*` with `MCProjectQuota`,
`NodeDeletion*` with `MCNodeDeletion`, `SsrLeases` and `SsrServices` with theirs.
The longest takes about a minute and a half.
