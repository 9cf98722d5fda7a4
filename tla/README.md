# A TLA+ model of the Shopify mirror and its console

This directory models the repository's core: how the catalogue of a Shopify
store is mirrored into PostgreSQL (the API and the webhook endpoint that ask for
a synchronisation run, the transactional outbox, the RabbitMQ queues, the worker
processes with their leases, the transaction that replaces the mirror), how the
store's credentials are authorized, rotated and cleared, and who may use the
console (logins, sessions, roles and the policy in force). TLC checks small
instances; TLAPS proves the safety properties for all of them.

`PROJECT.json` maps every definition to the lines it stands for. Paths below are
relative to `src/backend/`.

## The system

| Component | State it keeps | Operations | Model |
|---|---|---|---|
| Sync runs and mirror (`internal/platform/postgres/shopify_mirror.go`, migrations 3 and 4) | `shopify_sync_runs` (status, lease owner and expiry), `shopify_stores.resync_requested`, the mirror tables | `CreateSyncRun`, `StartSyncRun`, `HeartbeatSyncRun`, `ReplaceMirror`, `FailSyncRun`, `enqueueSyncRunTx` | `SyncRuns` |
| Sync service (`internal/shopifysync/service.go`) | the locals of `Service.Sync`: run, lease, batch | the stages of `Sync`, the lease ticker, the deferred `FailSyncRun` | `SyncRuns`, `SyncPipeline` |
| Webhook intake (`postgres/shopify_webhook.go`, `httpapi/shopify_webhook.go`) | `webhook_events` | `RecordShopifyEventAndOutbox`, `enqueueWebhookSync` | `SyncRuns`, `SyncPipeline` |
| Outbox (`postgres/outbox.go`, `cmd/api/main.go` `publishOutbox`) | `outbox_messages` | claim, publish, complete, retry | `Outbox` |
| Broker and deliveries (`internal/platform/queue`) | main, retry and dead queue | publish with confirm, `Retry`, `DeadLetter`, `Ack` | `JobQueue` |
| Job handler (`internal/shopifysync/handler.go`) | none | `Handle`, `classifyHandlerError` | `JobQueue`, `SyncPipeline` |
| Worker process (`cmd/worker/main.go`) | the delivery it holds | `runConsumer`, `processDelivery` | `JobQueue`, `SyncPipeline` |
| Processed jobs (`postgres/jobs.go`) | `processed_jobs` | `IsJobProcessed`, `MarkJobProcessed` | `JobQueue`, `SyncPipeline` |
| Sync API (`httpapi/shopify_sync_handlers.go`) | none | request a full run | `CreateSyncRun`, `RequestSync` |
| Token manager, credential rotation (`shopifysync/token_manager.go`, `postgres/shopify_credentials.go`) | `integration_accounts`, the store's status | `AccessToken`, `WithLockedConnection` | `StoreConnection` |
| Store administration, OAuth (`postgres/admin.go`, `httpapi/integration_handlers.go`) | `shopify_stores`, `integration_accounts`, `integration_configs` | configure, install, callback, update, disconnect | `StoreConnection` |
| RBAC authorizer (`internal/rbac`, `postgres/rbac.go`) | the Casbin engine of the API process | `Reload`, `Allowed` | `AccessPolicy` |
| Roles and users (`httpapi/admin_handlers.go`, `postgres/admin.go`) | `users`, `roles`, `user_roles`, `role_permissions` | create and update users, replace roles and permissions, delete roles | `AccessPolicy` |
| Sessions, OAuth state (`internal/auth`, `platform/redis`) | Redis keys with a TTL | open, read, end a session; create and consume a state | `Console` |
| DingTalk identity (`integrations/dingtalk`, `dingTalkCallback`, `UpsertDingTalkIdentity`) | `user_identities` | find, bind or create the user of an identity | `Console` |
| Migrations runner (`migrations/migrations.go`) | `schema_migrations` | apply what is missing | no |
| Shopify clients, decoder | none | requests, decoding | outcomes are nondeterministic |
| Router, middleware, configuration, encryption, object store, job envelope, web front end | none that a protocol depends on | routing, rendering | the permission a request needs; the rest is left out |

How they meet. An administrator or a webhook inserts a *run* and, in the same
transaction, an *outbox row*. An API instance claims the row and publishes the
job. A worker receives the job, takes a *lease* on the run (`StartSyncRun`),
renews it every 30 seconds, fetches the catalogue through bulk operations and
commits the mirror, the end of the run and, if a webhook asked for one since, a
follow-up run with its own outbox row, all in one transaction (`ReplaceMirror`).
A partial unique index allows one active run per store. What fails for now goes
through the retry queue, what fails for good to the dead queue.

A worker asks the token manager for an access token. It locks the account and the
store, and if the token is due asks Shopify to rotate the pair while it holds
both locks. The administrator's installation, its OAuth callback, the disconnect
and the `app/uninstalled` webhook write the same two rows. In the console a
DingTalk login consumes an OAuth state, finds or creates the user of the identity
and opens a session; requests with a session are admitted by the policy that the
process holds in memory, which every change of roles reloads from the tables.

### What is hard in it

- **Leases outlive their workers.** A worker that was too slow, or lost its
  broker connection, goes on with a run another worker takes over. All that
  protects the mirror is the `lease_owner` in the `WHERE` clauses.
- **A webhook transaction spans several statements.** It locks the store row,
  looks for an active run, and acts on the answer later, while runs may start,
  fail or expire: only transactions that touch the store row wait for it.
- **Starting a run takes two statements.** The second only explains why the
  first matched nothing, but decides what becomes of the job.
- **A run and its job live in different systems.** A run without a job blocks
  the store; a job without a startable run must go away without harm.
- **Messages are copied, not moved.** `Retry` and `DeadLetter` publish a copy and
  then acknowledge the original; in between is every duplicate.
- **A job is several messages.** A republished outbox row, a `Nack` after a confirm that
  was lost, a connection that broke under a worker: two workers may have deliveries
  of one job at once, both of them good, and one run to do.
- **An outbox claim is not a lock.** After five minutes another instance may
  claim, and publish, the same row.
- **A rotated refresh token exists twice.** Shopify has spent the old one before
  the database has the new one. Anything between them, a crash, a deadlock, a
  second refresh, leaves a token nobody can use.
- **Two rows are locked in two orders.** Disconnecting takes the store first,
  authorizing and refreshing take the account first.
- **The policy in force is a cache.** `Reload` drops it, reads the tables and
  installs what it has read, and nothing orders these steps among requests.
- **A login is a chain of systems.** Redis, DingTalk, PostgreSQL and the authorizer
  each take one step; the look-up of an identity is not in the transaction that
  inserts it.

The full list, with lines and the properties that watch over each, is under
"hazards" in `PROJECT.json`.

## Modules

```
AtLeastOnce <--implements-- Outbox
                                     JobQueue <--implements--+
FreshMirror <--implements-- SyncRuns <--implements-- SyncPipeline
AtomicConnection <--implements-- StoreConnection
AccessPolicy <--implements-- Console

M_proofs extends M, for M in SyncRuns, Outbox, JobQueue, SyncPipeline,
StoreConnection, AccessPolicy, Console; SyncPipeline_proofs also extends
SyncRuns_proofs and instantiates JobQueue_proofs, and Console_proofs extends
AccessPolicy_proofs
```

**SyncRuns** is the core: the rows of `shopify_sync_runs` for one store (every
table is keyed by organisation and store, so stores do not interact), workers
inside `Service.Sync`, and webhooks. Each database transaction is one step,
except the webhook's, which is split where it could be overtaken. A worker's
`stage` follows `Sync`: `started` (lease granted), `resolved` (store found
connected), `fetched` (batch in memory), `renewed` (last heartbeat before the
commit), `committed`. The catalogue is a revision number: the mirror at revision
*n* shows every change up to *n*. The broker is unconstrained: any worker may be
given any run at any time, which covers every loss, delay, duplication and
reordering of jobs. `expired` is a flag per run, raised at any time by
`LeaseExpires`, lowered by heartbeats; no clock is needed. `owed` is a history
variable: the recorded changes that are neither mirrored nor given up by a run
that was marked failed. It implements **FreshMirror**, the promise made to whoever reads the
mirror: `asked` there is an active run or the follow-up flag, `announced` is `owed`.

**Outbox** has the rows and the API instances; `row`, `due` (backoff over) and
`stale` (claim older than five minutes) are the three things `claimOutbox` looks
at. Publishing is a step of its own between the claim and its result. It
implements **AtLeastOnce**, the promise made to whoever writes an outbox row.

**JobQueue** has the three queues as a set of message copies, and workers going
through `processDelivery` step by step: look up, handle, mark processed, hand
over, acknowledge. The handler's outcome is one of the four classes
`classifyHandlerError` tells apart; any answer may come at any time. `worker[w].copy`
is `NoCopy` when the broker has taken the delivery back and the worker does not know.

**SyncPipeline** is the composition: it extends `SyncRuns`, has an instance of
`JobQueue` in which jobs are named by their runs, and adds what ties them together.
`outbox` are the runs that have a row, and the queue publishes what is in it. A step
is a step of the queue beside the runs (`Deliver`, `Record`, `HandOver`, ...), a
step of a run inside the handler (`Work`, `Commit`), or both at once: the answer of
`Sync` is the handler's (`Return`, `FailForNow`, `ReadStatus`, ...), a crash ends both.
Nothing of the queue is simplified: second copies of a job, hand-overs whose confirm is
lost and failing look-ups in `processed_jobs` happen here as they do there. `probing`
are the workers between the two statements of `StartSyncRun`. `adrift` and `awaited` are
history variables. A run is `adrift` when the database failed at a statement that
should have recorded its end or used up the attempts of its job, or when a worker
started it whose delivery the broker had taken back: while that worker lives the run
has its lease, but nothing in the broker answers for it. It is no longer adrift when
a worker with a delivery starts it.

**StoreConnection** is one store: `store` (status), `account` (whether the store is
linked to one, which refresh token it keeps, whether its expiry is near, the
granted scopes) and `config` (enabled, has a secret). The check in the configuration
handler trims the secret of the request and the write does not, so a secret of blanks
(`Secrets`) is stored, over a good one too; it is a secret all the same, with which
Shopify's answer is a failure. The handler reads the row in one statement and writes it in
another. `Configure` is one step, and that is exact: the only thing it has read is that a
secret is stored, and a stored secret never goes away, because
`UpsertIntegrationConfig` keeps it when it brings none (lemma `StoredSecretStays`). A process `p` is one request
or job and `pc[p]` the statement it has reached; `lock` says which transaction holds
which of the two rows. `UPDATE`s become visible with the step that commits, which
is the step that takes the last lock wherever nothing outside happens in between;
only a rotation stays open across two calls (`refreshing`, `rotated`). `tokens` is
Shopify's view of every refresh token: live, spent by a rotation, revoked by an
uninstall, or lost, which is what a token becomes whose rotation Shopify carried
out and the database did not record. `early` are the requests that read the clock
before the token fell due, because `AccessToken` reads it before it waits for the
locks. `overridden` is a history variable: an administrator set the status by hand.
Deadlocks are found and one of the two transactions is aborted
(`DeadlockAborts`); `Fails` is every other way a request ends without a commit. An
uninstall event is recorded by the commit of its disconnect, also when the store has no
account (`Recorded`).

It implements **AtomicConnection**, in which every request is one step and there are no
locks. The mapping hides a rotation until it is committed (`TokensSeen`): the new token
counts as unissued and the stored one has the state of the new one, so that an uninstall
in the middle revokes it there too. A rotation whose commit fails is one step as
well, `LoseRotation`, and the only failure an operator of `AtomicConnection` can see.

**AccessPolicy** has the tables as one set of pairs, user to role and role to
permission, and the authorizer as `engine` and `loaded`. A request replaces the
rows of one user or role in two steps (`Replaces`, what its `DELETE` sees;
`Replaced`, its `INSERT`s and the commit), as READ COMMITTED allows, and then goes
through `Clears`, `Loads` and `Installs`. A first login gives the role that is called
Viewer, which may be any one role or none: `UpdateRole` renames every role, and names
are unique. `unsettled` is a history variable: two
requests were between write and install at once, or a `COMMIT` went unanswered. It
is cleared by a request that reloads alone.

**Console** extends it with Redis and the DingTalk callback. `SignIn` and
`FirstSignIn` of `AccessPolicy` are the steps of the callback that reload; `Console`
says when a login may take them. `uses` and `made` are history variables.

## Runs

| Run | Instance | What it shows |
|---|---|---|
| `sync_runs` | 3 runs, 2 workers, 2 changes, 4 leases (429,000 states) | `SingleWriter`: two workers never both pass the lease check. `NoLostChange`: a recorded change is covered by the follow-up flag or an active run. `MirrorNeverRegresses`: a late commit never brings an older catalogue back. `CompletedIsFinal`. `KeepsMirrorFresh`: the refinement of `FreshMirror`. |
| `outbox` | 2 jobs, 2 instances, 2 faults (7,200 states) | `PublishedIsDelivered`, `PublishedIsFinal` and `KeepsPromise`, the refinement of `AtLeastOnce` with its liveness. |
| `job_queue` | 1 job, 2 workers, 4 copies, 2 attempts, 1 fault (80,000 states) | `NoJobLost`, `HeldByOneWorker`, `AttemptsBounded`, `BusyIsNotBuried`, and `JobsSettle`: every job is processed, in the dead queue, or told that its run is busy. `DuplicatesAreFaults`: a job is on its way once, and once more per fault. |
| `pipeline` | 2 runs, 2 workers, 2 changes, 3 leases, 4 copies, 2 attempts, 2 faults or errors (245,000 states) | `SlotIsFreed`: an active run that is not adrift has a job that will end it. `ProcessedIsCompleted`: only the job of a completed run is recorded as processed, so skipping a delivery never leaves a run without its last job. |
| `pipeline_live` | the same with 1 change and 1 fault or error (105,000 states) | `EventsAreMirrored`: what a webhook announced is mirrored, unless the store is disconnected. `JobsComeToRest`: no job goes round for ever. |
| `pipeline_stuck` | as `pipeline`, 1 change, 3 copies, no permanent errors | violates `ActiveRunHasJob` (below) |
| `pipeline_follow_up` | the same, no database errors | violates `FollowUpHasRun` (below) |
| `pipeline_transient` | the same, neither | violates `TransientErrorsAreRetried` (below) |
| `store_connection` | 2 processes, 3 tokens, 2 scopes of which 1 is required, 1 uninstall, 1 open OAuth state (1.4 million states) | `SpentIsNotStored`, `RotationHoldsBoth`: no committed rotation leaves a spent token in the row, and none is a deadlock's victim. `StatusTellsCredentials`, `ActionRequiredHasReason`, `OnlyAuthorizationReconnects`: the status agrees with the credentials whatever overlaps. `ActsAtomically`: the refinement of `AtomicConnection`. |
| `store_uninstalled` | the same | violates `UninstallClears` (below) |
| `console` | 2 requests, 3 users, 2 roles, 1 person, 2 OAuth states, 2 changes (1.2 million states) | `PolicyInForce`: unless reloads crossed, the policy in force is that of the tables, or none is. `StateUsedOnce`, `SessionsMatchIdentity`, `FirstLoginsHaveIdentity`. |
| `console_stale` | the same, 1 change, no failing loads or unanswered commits | violates `ReloadTakesEffect` (below) |

All runs switch deadlock checking off: changes, leases, faults, tokens and
identifiers are bounded, so every instance may come to rest.

### Bounds

In `sync_runs`, three runs make room for one that holds the lease, one that failed and
is restarted, and the follow-up one of them creates. The pipeline has two, one that
fails and one that is active meanwhile, each with its job and that job's copies; what
takes three is proved. Two workers are the old and the
new holder of a lease; a third would be one more old holder, and the proofs cover
it. Two changes are needed for a batch that has the first and lacks the second.
Leases (4, and 3 in the pipeline) are more than the runs, so that runs are taken over
and restarted. Two attempts distinguish the first, the last and one too many.
`Spare` keeps hand-made requests from using up the identifiers that webhooks to
come will need: in the database there is always one more row.

`Copies` bounds the messages of the broker. In `job_queue` three copies are what a job
with two workers and one duplicate needs; the fourth is the copy of a hand-over under
way. In `pipeline` four are a message per run, one duplicate of either and a copy under
way. A dead message keeps its copy for good, which at the bound stops other hand-overs;
for safety that is no more than a pause. `pipeline_live` has as many copies as one fault
can make use of, because there it would be a stall that the broker does not know.

`MaxFaults` bounds faults and errors together: crashes, lost connections and confirms,
second publications; failing statements and syncs, slow leases, aborted webhooks and
disconnections. Two in `pipeline` are enough for a duplicate and an error of either
of its workers, or for a worker that loses its delivery and fails; the proof is for any
number. `pipeline_live` allows one, fewer than `MaxAttempts`. With as many faults as attempts a job is legitimately buried, or is
buried too early (finding 3), and the event then has no run left; the promise is about
what the attempts absorb. There `DatabaseFails` and `PermanentErrors` are off:
`pipeline_stuck` and `pipeline_follow_up` are what happens otherwise.

`store_connection`: two processes are a rotation and what it meets; a cycle of
locks over two rows has two transactions. Three tokens are the one that is stored,
the one a rotation or a second authorization brings, and one more after that. Of
the two scopes one is required, so that the merchant grants too little, exactly
enough or too much. One uninstall separates the tokens before from those after.

`console`: two requests are enough for two reloads to cross, for two first logins
of one person to meet, and for a state to be presented twice. Three users are the
founder, who can do everything, one that a first login makes and one that another
makes at the same time; of the two roles one is not a system role and can be
deleted. `MaxValues` limits what one request inserts. The only permission of a
table is the wildcard: with it a role allows everything, without it nothing, and
`PolicyInForce` compares whole policies.

Symmetry (permutations of runs, workers, processes, users other than the
founder, OAuth states) is used only where invariants or action properties are
checked, never with liveness.

### Fairness

- *Outbox*: each instance claims, publishes and records (weak fairness):
  `publishOutbox` is a ticker loop that bounds every call with a context. Faults
  are not fair and finitely many. Backoff and the five minutes elapse.
- *JobQueue*: workers keep working, and every handler call ends, because it runs under
  a deadline (weak). A waiting message is delivered in the end (strong, a queue is
  first in first out and other messages come and go in between). Nothing is assumed of
  the answers. A run may be busy for ever: after finding 1 it stays queued with no lease
  that could run out, and the job of another, failed run of the store then meets the
  unique index at every attempt, which does not count. `JobsSettle` therefore leaves
  out the jobs that find their run busy, and `pipeline_live` asks about them where the
  runs are part of the model: `JobsComeToRest` holds while the database works, and no
  such run is left behind.
- *SyncPipeline*: the outbox publishes its rows, workers go on with their
  deliveries, the retry TTL, the lease of a dead worker and an open webhook transaction
  end (all weak), and waiting messages are delivered (strong, as above). Nothing is
  assumed of the shop, of administrators or of faults.
- *StoreConnection*, *AccessPolicy*, *Console*: none. Their properties are about
  safety; nobody retries a login or an installation but the person at the browser.

## Findings

1. **A database error in `StartSyncRun` buries the job** (`pipeline_stuck`,
   `handler.go:73`). It is neither a provider error nor a deadline, so it is
   classified as final at the first attempt; the run stays `queued` or `running`
   and the unique index keeps the store from getting another one. A failing
   `IsJobProcessed` or `MarkJobProcessed` is retried, but uses up the attempts of the
   job and ends in the same state (`cmd/worker/main.go:127`). Other jobs of the store
   whose runs have failed then go round for ever. The plan in
   `docs/superpowers/plans/2026-08-13-shopify-mirror-runtime.md:19` asks for bounded
   retries of transient errors.
2. **A follow-up can be left without a run** (`pipeline_follow_up`,
   `shopify_mirror.go:376`). A webhook that finds a run active only sets
   `resync_requested`; when that run fails for good nothing reads the flag until
   the next event or request. `README.md:73` of the repository promises a reliable
   task for resource events.
3. **A race between the statements of `StartSyncRun` buries a job at attempt one**
   (`pipeline_transient`, `shopify_mirror.go:135`). The first statement finds the
   run leased, its holder then fails, the second reads `failed` and the error is
   final, although a failed run may be started.
4. **An uninstall may leave the credentials** (`store_uninstalled`,
   `postgres/shopify_webhook.go:19`). The webhook endpoint only knows connected
   stores of an enabled configuration. While the store waits for authorization
   or the integration is disabled it answers 404 to `app/uninstalled` until Shopify
   gives up. `README.md:73` of the repository says that the event clears the
   credentials; they are revoked by then, but stay.
5. **A reload may install an older policy** (`console_stale`, `rbac.go:86`). A
   request reads the tables, another one commits, reads and installs, then the first
   installs. Both report success, and the newer assignment is not in force until
   somebody reloads again. The plan (`2026-08-13-shopify-mirror-runtime.md:626`)
   says that new permissions take effect at once after a reload.

## Proofs

Every theorem holds for every set of runs, workers, jobs and instances and every
bound; the only assumptions are the named `ASSUME`s of the modules (identifiers for
"none" are not in the sets, bounds are numbers, attempts at least one, and in `JobQueue`
workers and copies are finitely many, because they are counted: a deployment has as many
workers as it starts, and `Copies` bounds the messages).

**SyncRuns_proofs.** `OneWriter`, `ChangesAreKept`, `MirrorAdvances` and
`CompletionIsFinal` rest on the inductive invariant `IInv`:

- `OneActiveRun` is what the unique index enforces. `SingleWriter` alone is not
  inductive: a state in which two runs are active with one holder each could be
  one lease away from two writers.
- `LeasesDistinct`: no two workers were ever given the same lease. Together with
  `OneActiveRun` it gives `SingleWriter` (lemma `OneHolder`): two holders share
  the run, so the owner column, so the lease.
- `BatchIsFresh`: the holder has fetched nothing older than the mirror. A step
  that commits has the newest batch, hence `MirrorAdvances`.
- `HookIsFresh`: while a webhook that saw no active run is about to act, any run
  started since covers everything recorded before, and the webhook's own event. It
  is what lets `WebhookEnqueue` clear the flag without losing anything, although
  it decided on an old answer.
- `NoLostChange` itself.

`MirrorIsKeptFresh` is the refinement of `FreshMirror`: a commit is a `Show` of the batch's
revision, which `BatchIsFresh` places between the mirror and the shop, and by
`NoLostChange` something stays asked for while something is announced.

**Outbox_proofs.** `PublishedWasDelivered` and `PublicationIsFinal` need that an
instance with a positive confirm in hand implies that the broker has the job
(`HandIsSound`). `OutboxRefines`: `Safe` implies the safety part of `AtLeastOnce`
under the mapping in `Outbox`.

**SyncPipeline_proofs.** `RunsAreRefined` maps every step to a step of `SyncRuns`
or a stutter, so `IInv` and all of the above carry over (`PipelineHasOneWriter`,
`PipelineKeepsChanges`, `PipelineKeepsMirrorFresh`). `QueueIsRefined` does the same for
`JobQueue`, whose invariant comes with an instance of its proofs. On top of both, `JInv`
is inductive:

- `TasksMatch`: a worker that syncs, or reads the status of a run, is at the handler of
  a delivery of that run's job. Without it nothing would tie a lease to a message.
- `JobsFollowRuns`: there is a job only where there is an outbox row, and a row only for
  a run that exists.
- `DoneIsCompleted`: the run of a delivery that was handled with success, and of every
  job in `processed_jobs`, is completed. `ProcessedRunsAreCompleted` is a part of it, and
  needs that completed runs stay so.
- `ActiveIsInCare` is `SlotsAreFreed` made inductive. For an active run that is not adrift
  not any copy of its job will do: one that a worker is about to acknowledge is as good as
  gone. There is an unpublished row, a message that waits, or a worker that minds
  (`Minds`): it has yet to start the run, holds its lease, or is going to send the job
  again. A worker stops minding when the run has ended, when the job is found processed,
  which by `DoneIsCompleted` is the same, or when another copy has been published.
  So it does not matter how many copies there are and how many workers have one.

**JobQueue_proofs.** All six invariants rest on one `IInv`. `HoldsWhatItReceived`,
`HoldApart` and `HeldHasWorker` pair held copies and workers. `JobStays` is `NoJobLost`
made inductive: a job that is not processed has a copy that no worker is about to
acknowledge, so it still has one when an acknowledged copy goes. `AttemptsCounted`
and `BusyRetries` extend the bound, and the rule for busy runs, to what a worker has
in hand. `OnlyFaultsDuplicate` counts: `Accounted` adds to the bound that a job
which is not published yet has neither messages nor workers. A hand-over adds a copy
exactly when it makes the original one that does not stay; a broken connection gives the
message back and leaves a worker without one, at the price of a fault.

**StoreConnection_proofs.** `IInv` says who is at which step owns which row (`Locked`);
that the token sent to Shopify is the stored one (`CredentialsHeld`); that a new token
is unspent, not yet stored, and with one request only (`TokensHeld`,
`TokensDistinct`); that what is stored was issued (`StoredIssued`); that what a request
has checked still holds when it acts on it, the scopes of a callback, the reason of a
refresh, the store of a disconnect (`Justified`); and that an event under way was not
handled yet (`EventsOpen`). `StoredSecretStays` is the fact about the configuration that makes
`Configure` one step. The properties are then kept step by step. In
`SpentTokensAreReplaced` a token is spent by a request that owns both rows, so the row
keeps it until that request commits the next one or fails.
`OnlyAuthorizationReconnectsAStore` is an action property: a rotation needs
stored credentials, and they cannot go away under its locks.

`ConnectionActsAtomically` is the refinement of `AtomicConnection`. A commit is the atomic
step (`AuthorizationIsAtomic`, `RotationIsAtomic`, `DisconnectIsAtomic`, ...), everything
before it a stutter (`UnseenSteps`, `RotationUnseen`). By `Locked` at most one rotation is
under way, and none while another request commits, so what is seen of the tokens then
is what they are; what is seen during a rotation is in `HiddenFacts`. `Justified` is what
makes the atomic step possible at the commit: a check made before a lock was
taken, or before Shopify was asked, is as good as one made now.

**AccessPolicy_proofs**, **Console_proofs.** `PolicyIsInForce` rests on
`Undisturbed`: while nothing is unsettled at most one request reloads, there is no
engine between its drop and its install, and what it has read is what the tables
have.
`ConsoleRefinesPolicy` maps every step of `Console` to one of `AccessPolicy` or a stutter,
so the property is the console's as well (`ConsolePolicyIsInForce`). `StatesAreUsedOnce`
needs that a state is open only before its first use; `SessionsAreOfTheIdentity` that the
user of a login past the look-up has the identity of its person, and that identities
never move; `NobodyIsLeftOver` that a user of a first login is new, so that no other
identity is overwritten.

Only model-checked: everything under fairness (`KeepsPromise` with its liveness,
`JobsSettle`, `EventsAreMirrored`, `JobsComeToRest`), because TLAPS has no proof of liveness or
`ENABLED` here. Every invariant, action property and safety refinement that a passing
run checks is also a theorem. Also out of the prover's reach are induction over data and
`RECURSIVE` operators; the modules with theorems use neither.

## Not modelled

- Partial runs and single resources: the API and the webhooks only ask for full runs.
- The contents of a batch. `ReplaceMirror` deletes what a full batch lacks and
  upserts the rest; `normalizeMirrorBatch` and the GID helpers are functions of the
  batch.
- Clocks. Leases, backoff, claims and the retry TTL elapse at any time after they
  start, which allows more than real durations do.
- Token refresh inside the pipeline, except that the store may become disconnected
  or connected at any moment. `StoreConnection` has the refresh, and the job only as
  the caller of `AccessToken`.
- The claims of the outbox inside `SyncPipeline`: a row is published once, and again after
  a fault, which is what `Outbox` shows of the instances (`KeepsPromise`).
- A second API process. Its authorizer would not hear of the changes the first one
  makes until it restarts; nothing in the code or its docs claims otherwise.
- Several organisations and several stores: every statement names the organisation
  and the store, and the OAuth state carries its own.
- The two providers' OAuth states are separate sets in `StoreConnection` and `Console`;
  `Consume` refuses, and uses up, a state of the other provider.
- That Shopify returns an expiring access token without a refresh token, which
  `AccessToken` answers with `action_required` (`token_manager.go:63`): the request asks
  for an expiring offline token, and those come with one. The branch would act as
  `ScopesRefused` does, with no call to Shopify. Also the errors of `Refresh` other than
  the refusal of the token, which end the request (`Fails`).
- The DingTalk configuration, its corporation check and the codes: a callback that
  does not get through them fails (`LoginFails`).
- Creating a role, menus, role menus and settings: single statements or transactions whose
  rows no modelled part reads. Of the names of roles one is read, Viewer, by a first
  login; `FirstSignIn` gives whichever role has it.
- `syncStore`, the route of an API without a sync service, which publishes a job
  without a run; `cmd/api` always configures the service.
- `DevAuthenticator`, which takes the principal from request headers.
- The migrations runner. Two of them started at once may both see a migration as
  not applied; the second transaction then fails on the tables of the first or at
  the primary key of `schema_migrations`, and is rolled back.
- HTTP requests and responses, HMAC verification, encryption, configuration, the
  object store, the web front end.

## Plan

Done: the seven component modules above, each with its proofs, and the abstract modules
four of them implement. What could be added, most useful first:

1. `StoreConnection` under `SyncRuns`: its `store = "connected"` implements the flag that
   `Connect` and `Disconnect` toggle there, so a run that fails for want of a token
   could be followed into the status the administrator sees.
2. Liveness of `StoreConnection`: a request that holds row locks ends, so every other
   gets them, under the timeouts of the HTTP client.
3. `MirrorBatch`: `normalizeMirrorBatch`, `outboxBackoff` and `headerAttempt` against
   reference definitions over bounded inputs.
4. `Migrations`: two runners started at once.
5. Several API processes, each with an authorizer of its own.
