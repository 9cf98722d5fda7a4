------------------------------ MODULE SyncRuns ------------------------------
(***************************************************************************)
(* The synchronisation runs of one Shopify store: the rows of             *)
(* shopify_sync_runs, the lease a worker holds on a run while it mirrors  *)
(* the catalogue, the store's resync_requested flag and the webhooks that *)
(* set it.                                                                *)
(*                                                                         *)
(* Every table is keyed by (organization, store), so one store is the     *)
(* whole system as far as runs are concerned.  A database transaction is  *)
(* one step, except the webhook transaction: it reads whether a run is    *)
(* active in one statement and acts on the answer in a later one, and     *)
(* only the store row is locked in between.                                *)
(*                                                                         *)
(* The broker is left unconstrained here: any worker may be handed the    *)
(* job of any run at any time, which covers lost, late, duplicated and    *)
(* reordered deliveries.  SyncPipeline constrains it.                      *)
(*                                                                         *)
(* The catalogue is abstracted to a revision number: the mirror at        *)
(* revision n shows every change the shop made up to n, deletions too:     *)
(* the API only creates full runs (createShopifySyncRun refuses any other  *)
(* mode, webhooks and follow-ups ask for a full one), and a full run       *)
(* removes the rows missing from its batch.                                *)
(***************************************************************************)
EXTENDS Naturals, FiniteSets

CONSTANTS
  Runs,         \* identifiers of sync runs
  Workers,      \* worker processes, each handling one delivery at a time
  NoRun,        \* the run of an idle worker
  MaxRevision,  \* bound: changes the shop makes
  MaxLeases     \* bound: leases ever granted by StartSyncRun

ASSUME SyncRunsAssumption ==
  /\ NoRun \notin Runs
  /\ MaxRevision \in Nat
  /\ MaxLeases \in Nat

VARIABLES
  status,     \* shopify_sync_runs.status; "none" while the row does not exist
  owner,      \* shopify_sync_runs.lease_owner; 0 stands for NULL
  expired,    \* whether lease_expires_at has passed
  leases,     \* how many lease owners were generated
  worker,     \* per worker: how far Service.Sync has got, and its locals
  connected,  \* shopify_stores.status = 'connected'
  resync,     \* shopify_stores.resync_requested
  hook,       \* the webhook transaction that holds the store row, if any
  shop,       \* current revision of the catalogue at Shopify
  mirror,     \* revision the mirror tables show
  seen,       \* webhook_events: the changes whose event was recorded
  owed        \* history: recorded changes not mirrored yet and not given up
              \* by a run that was marked failed

runVars   == <<status, owner, expired, leases>>
storeVars == <<connected, resync>>
hookVars  == <<hook, seen>>
vars == <<status, owner, expired, leases, worker, connected, resync,
          hook, shop, mirror, seen, owed>>

-----------------------------------------------------------------------------
Statuses == {"none", "queued", "running", "completed", "failed"}
Stages   == {"idle", "started", "resolved", "fetched", "renewed", "committed"}
Lease    == 0 .. MaxLeases
Revision == 0 .. MaxRevision

Idle == [stage |-> "idle", run |-> NoRun, lease |-> 0, batch |-> 0]
Free == [phase |-> "free", event |-> 0]

TypeOK ==
  /\ status \in [Runs -> Statuses]
  /\ owner \in [Runs -> Lease]
  /\ expired \in [Runs -> BOOLEAN]
  /\ leases \in Lease
  /\ worker \in [Workers -> [stage : Stages, run : Runs \cup {NoRun},
                             lease : Lease, batch : Revision]]
  /\ connected \in BOOLEAN
  /\ resync \in BOOLEAN
  /\ hook \in {Free} \cup [phase : {"active", "idle"}, event : 1 .. MaxRevision]
  /\ shop \in Revision
  /\ mirror \in Revision
  /\ seen \subseteq 1 .. MaxRevision
  /\ owed \subseteq 1 .. MaxRevision

\* The predicate of the partial unique index shopify_sync_runs_one_active_idx.
Active(r) == status[r] \in {"queued", "running"}
NoActiveRun == \A r \in Runs : ~Active(r)

\* The store row is not locked by a webhook transaction.
StoreUnlocked == hook.phase = "free"

\* Mutant: the WHERE clause forgets lease_owner.
HoldsAnyOwner(w) ==
  /\ worker[w].stage # "idle"
  /\ status[worker[w].run] = "running"

\* The WHERE clause shared by HeartbeatSyncRun, ReplaceMirror and FailSyncRun.
Holds(w) ==
  /\ worker[w].stage # "idle"
  /\ status[worker[w].run] = "running"
  /\ owner[worker[w].run] = worker[w].lease

Fetched(w) == worker[w].stage \in {"fetched", "renewed"}

Init ==
  /\ status = [r \in Runs |-> "none"]
  /\ owner = [r \in Runs |-> 0]
  /\ expired = [r \in Runs |-> FALSE]
  /\ leases = 0
  /\ worker = [w \in Workers |-> Idle]
  /\ connected = TRUE
  /\ resync = FALSE
  /\ hook = Free
  /\ shop = 0
  /\ mirror = 0
  /\ seen = {}
  /\ owed = {}

-----------------------------------------------------------------------------
(* The merchant and the administrator.                                     *)

\* A change to the catalogue, made in the Shopify admin.
ShopChange ==
  /\ shop < MaxRevision
  /\ shop' = shop + 1
  /\ UNCHANGED <<runVars, worker, storeVars, hookVars, mirror, owed>>

\* The OAuth callback connects the store again, or a token refresh that was
\* under way writes 'connected' back.
Connect ==
  /\ ~connected
  /\ StoreUnlocked
  /\ connected' = TRUE
  /\ UNCHANGED <<runVars, worker, resync, hookVars, shop, mirror, owed>>

\* The administrator disconnects or disables the store, an app/uninstalled
\* webhook arrives, or the token manager finds that it must be authorised
\* again.
Disconnect ==
  /\ connected
  /\ StoreUnlocked
  /\ connected' = FALSE
  /\ UNCHANGED <<runVars, worker, resync, hookVars, shop, mirror, owed>>

\* CreateSyncRun: INSERT of a queued run.  The foreign key of the new row
\* takes a share lock of the store row, which waits for a webhook.
CreateSyncRun(r) ==
  /\ status[r] = "none"
  /\ connected
  /\ NoActiveRun
  /\ StoreUnlocked
  /\ status' = [status EXCEPT ![r] = "queued"]
  /\ UNCHANGED <<owner, expired, leases, worker, storeVars, hookVars, shop,
                 mirror, owed>>

-----------------------------------------------------------------------------
(* The webhook transaction, RecordShopifyEventAndOutbox.                   *)

\* Insert the event, lock the store row, look for an active run.
WebhookLock(e) ==
  /\ StoreUnlocked
  /\ connected
  /\ e \in 1 .. shop
  /\ e \notin seen
  /\ hook' = [phase |-> IF NoActiveRun THEN "idle" ELSE "active", event |-> e]
  /\ UNCHANGED <<runVars, worker, storeVars, shop, mirror, seen, owed>>

\* Mutant: the flag is raised whatever the check said.
WebhookFlagAnyway ==
  /\ resync' = TRUE
  /\ seen' = seen \cup {hook.event}
  /\ owed' = owed \cup {hook.event}
  /\ hook' = Free
  /\ UNCHANGED <<runVars, worker, connected, shop, mirror>>

\* Mutant: a run is active, so that nothing is left to ask for.
WebhookTrustsActiveRun ==
  /\ hook.phase = "active"
  /\ seen' = seen \cup {hook.event}
  /\ owed' = owed \cup {hook.event}
  /\ hook' = Free
  /\ UNCHANGED <<runVars, worker, storeVars, shop, mirror>>

\* A run was active: it will see the flag when it completes.
WebhookFlag ==
  /\ hook.phase = "active"
  /\ resync' = TRUE
  /\ seen' = seen \cup {hook.event}
  /\ owed' = owed \cup {hook.event}
  /\ hook' = Free
  /\ UNCHANGED <<runVars, worker, connected, shop, mirror>>

\* No run was active: insert a full run, unless one became active since.
WebhookEnqueue ==
  /\ hook.phase = "idle"
  /\ \/ /\ NoActiveRun
        /\ \E r \in Runs :
             /\ status[r] = "none"
             /\ status' = [status EXCEPT ![r] = "queued"]
     \/ /\ ~NoActiveRun
        /\ UNCHANGED status
  /\ resync' = FALSE
  /\ seen' = seen \cup {hook.event}
  /\ owed' = owed \cup {hook.event}
  /\ hook' = Free
  /\ UNCHANGED <<owner, expired, leases, worker, connected, shop, mirror>>

\* The database refuses a statement or picks this transaction as the victim
\* of a deadlock: everything is rolled back and Shopify delivers again.
WebhookAbort ==
  /\ ~StoreUnlocked
  /\ hook' = Free
  /\ UNCHANGED <<runVars, worker, storeVars, shop, mirror, seen, owed>>

\* The store was disconnected after the handler resolved it: the event is
\* recorded and schedules nothing.
WebhookIgnored(e) ==
  /\ StoreUnlocked
  /\ ~connected
  /\ e \in 1 .. shop
  /\ e \notin seen
  /\ seen' = seen \cup {e}
  /\ UNCHANGED <<runVars, worker, storeVars, hook, shop, mirror, owed>>

-----------------------------------------------------------------------------
(* A worker inside Service.Sync.                                           *)

Advance(w, stage) == worker' = [worker EXCEPT ![w].stage = stage]

\* Mutant: the index does not cover restarts.
StartableUnindexed(r) ==
  \/ status[r] \in {"queued", "failed"}
  \/ status[r] = "running" /\ expired[r]

\* Mutant: a redelivered job may start a completed run.
StartableTwice(r) ==
  \/ status[r] \in {"queued", "completed"}
  \/ status[r] = "failed" /\ NoActiveRun
  \/ status[r] = "running" /\ expired[r]

\* Mutant: a run whose worker died is never taken over.
StartableOnce(r) == status[r] = "queued" \/ (status[r] = "failed" /\ NoActiveRun)

\* The rows the UPDATE of StartSyncRun matches.  Restarting a failed run makes
\* it active again, so the unique index refuses it while another run is active.
Startable(r) ==
  \/ status[r] = "queued"
  \/ status[r] = "failed" /\ NoActiveRun
  \/ status[r] = "running" /\ expired[r]

\* StartSyncRun grants a fresh lease on the run.
StartSyncRun(w, r) ==
  /\ worker[w].stage = "idle"
  /\ Startable(r)
  /\ leases < MaxLeases
  /\ leases' = leases + 1
  /\ status' = [status EXCEPT ![r] = "running"]
  /\ owner' = [owner EXCEPT ![r] = leases + 1]
  /\ expired' = [expired EXCEPT ![r] = FALSE]
  /\ worker' = [worker EXCEPT ![w] =
       [stage |-> "started", run |-> r, lease |-> leases + 1, batch |-> 0]]
  /\ UNCHANGED <<storeVars, hookVars, shop, mirror, owed>>

\* ResolveSyncTarget finds the store connected.
ResolveSyncTarget(w) ==
  /\ worker[w].stage = "started"
  /\ connected
  /\ Advance(w, "resolved")
  /\ UNCHANGED <<runVars, storeVars, hookVars, shop, mirror, owed>>

\* The bulk queries.  Products are read first, so every resource of the
\* batch is at least as new as the shop is now.
FetchCatalogue(w) ==
  /\ worker[w].stage = "resolved"
  /\ worker' = [worker EXCEPT ![w] = [@ EXCEPT !.stage = "fetched", !.batch = shop]]
  /\ UNCHANGED <<runVars, storeVars, hookVars, shop, mirror, owed>>

\* HeartbeatSyncRun, from the ticker of maintainLease: an owner renews even a
\* lease that has expired, as long as nobody took it over.
Heartbeat(w) ==
  /\ worker[w].stage \notin {"idle", "committed"}
  /\ Holds(w)
  /\ expired[worker[w].run]
  /\ expired' = [expired EXCEPT ![worker[w].run] = FALSE]
  /\ UNCHANGED <<status, owner, leases, worker, storeVars, hookVars,
                 shop, mirror, owed>>

\* The last HeartbeatSyncRun before the commit.  It also succeeds when another
\* worker has completed the run.
RenewBeforeCommit(w) ==
  /\ worker[w].stage = "fetched"
  /\ \/ /\ Holds(w)
        /\ expired' = [expired EXCEPT ![worker[w].run] = FALSE]
     \/ /\ status[worker[w].run] = "completed"
        /\ UNCHANGED expired
  /\ Advance(w, "renewed")
  /\ UNCHANGED <<status, owner, leases, storeVars, hookVars, shop,
                 mirror, owed>>

\* Mutant: a follow-up that cannot be enqueued is dropped, not rolled back.
CompleteRunOnly(run) == status' = [status EXCEPT ![run] = "completed"]

\* Complete the run and, if a follow-up was requested, enqueue it; a store that
\* is not connected makes enqueueSyncRunTx, and with it the commit, fail.
CompleteRun(run) ==
  \/ /\ ~resync
     /\ status' = [status EXCEPT ![run] = "completed"]
  \/ /\ resync
     /\ connected
     /\ \E next \in Runs :
          /\ status[next] = "none"
          /\ status' = [status EXCEPT ![run] = "completed", ![next] = "queued"]

\* ReplaceMirror commits: the batch replaces the mirror, the run completes and
\* a requested follow-up is enqueued, all in one transaction.  Without the
\* lease, or with a follow-up requested for a store that is not connected, the
\* transaction is rolled back and only SyncFails is left.
ReplaceMirror(w) ==
  LET run   == worker[w].run
      batch == worker[w].batch
  IN
  /\ worker[w].stage = "renewed"
  /\ Holds(w)
  /\ StoreUnlocked
  /\ CompleteRun(run)
  /\ resync' = FALSE
  /\ owner' = [owner EXCEPT ![run] = 0]
  /\ expired' = [expired EXCEPT ![run] = FALSE]
  /\ mirror' = batch
  /\ owed' = {e \in owed : batch < e}
  /\ Advance(w, "committed")
  /\ UNCHANGED <<leases, connected, hookVars, shop>>

\* Sync returns nil.
SyncReturns(w) ==
  /\ worker[w].stage = "committed"
  /\ worker' = [worker EXCEPT ![w] = Idle]
  /\ UNCHANGED <<runVars, storeVars, hookVars, shop, mirror, owed>>

\* Any error after StartSyncRun: a provider error, a deadline, a lease that
\* could not be renewed, a refused commit, or a heartbeat that fails after the
\* commit.  The deferred FailSyncRun touches the run only under the lease.
SyncFails(w) ==
  LET run == worker[w].run IN
  /\ worker[w].stage # "idle"
  /\ IF Holds(w)
       THEN /\ status' = [status EXCEPT ![run] = "failed"]
            /\ owner' = [owner EXCEPT ![run] = 0]
            /\ expired' = [expired EXCEPT ![run] = FALSE]
            /\ owed' = {}
       ELSE UNCHANGED <<status, owner, expired, owed>>
  /\ worker' = [worker EXCEPT ![w] = Idle]
  /\ UNCHANGED <<leases, storeVars, hookVars, shop, mirror>>

\* The process dies, or FailSyncRun itself fails and its error is dropped:
\* the run stays running under a lease nobody renews.
WorkerStops(w) ==
  /\ worker[w].stage # "idle"
  /\ worker' = [worker EXCEPT ![w] = Idle]
  /\ UNCHANGED <<runVars, storeVars, hookVars, shop, mirror, owed>>

\* Two minutes pass without a heartbeat.
LeaseExpires(r) ==
  /\ status[r] = "running"
  /\ ~expired[r]
  /\ expired' = [expired EXCEPT ![r] = TRUE]
  /\ UNCHANGED <<status, owner, leases, worker, storeVars, hookVars,
                 shop, mirror, owed>>

-----------------------------------------------------------------------------
WorkerStep(w) ==
  \/ \E r \in Runs : StartSyncRun(w, r)
  \/ ResolveSyncTarget(w)
  \/ FetchCatalogue(w)
  \/ Heartbeat(w)
  \/ RenewBeforeCommit(w)
  \/ ReplaceMirror(w)
  \/ SyncReturns(w)
  \/ SyncFails(w)
  \/ WorkerStops(w)

WebhookStep ==
  \/ \E e \in 1 .. MaxRevision : WebhookLock(e)
  \/ WebhookFlag
  \/ WebhookEnqueue
  \/ WebhookAbort
  \/ \E e \in 1 .. MaxRevision : WebhookIgnored(e)

Next ==
  \/ ShopChange
  \/ Connect
  \/ Disconnect
  \/ \E r \in Runs : CreateSyncRun(r)
  \/ WebhookStep
  \/ \E w \in Workers : WorkerStep(w)
  \/ \E r \in Runs : LeaseExpires(r)

Spec == Init /\ [][Next]_vars

-----------------------------------------------------------------------------
(* Properties.                                                             *)

\* At most one worker is in a position to write the mirror of the store:
\* leases are handed over (StartSyncRun takes an expired one) and runs follow
\* one another (the unique index), but two workers never both pass the lease
\* check of ReplaceMirror.
SingleWriter ==
  \A w1, w2 \in Workers : Holds(w1) /\ Holds(w2) => w1 = w2

\* The catalogue revision that a run will mirror once it completes is not
\* older than e: it is queued, or its lease holder has not fetched yet, or
\* has fetched e.
Covers(r, e) ==
  \/ status[r] = "queued"
  \/ /\ status[r] = "running"
     /\ \A w \in Workers :
          Holds(w) /\ worker[w].run = r /\ Fetched(w) => e <= worker[w].batch

\* A recorded change that is not mirrored yet is never forgotten: the store
\* still asks for a follow-up, or an active run will mirror the change.  The
\* hazard is a webhook that arrives between the fetch and the commit of a run,
\* or while a failed run is being restarted.
NoLostChange ==
  \A e \in owed : resync \/ \E r \in Runs : Covers(r, e)

\* The mirror never goes back to an older catalogue, however late a worker
\* that lost its lease tries to commit what it fetched.
MirrorNeverRegresses == [][mirror' >= mirror]_vars

\* A completed run is never restarted, failed or completed again by a
\* duplicated delivery or by a worker whose heartbeat fails after the commit.
CompletedIsFinal ==
  [][\A r \in Runs : status[r] = "completed" => status'[r] = "completed"]_vars

\* A run is active, or the store asks for one.
Asked == resync \/ ~NoActiveRun

Promise == INSTANCE FreshMirror WITH
  catalogue <- shop,
  shown     <- mirror,
  announced <- owed,
  asked     <- Asked

\* Runs, leases, follow-ups and webhooks together keep the promise made to the
\* readers of the mirror: whatever workers and webhooks overlap, the mirror only
\* moves forward, and as long as an announced change is neither mirrored nor
\* given up the store has an active run or the flag that asks for one.
KeepsMirrorFresh == Promise!Spec
=============================================================================
