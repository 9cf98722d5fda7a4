--------------------------- MODULE SyncRuns_proofs ---------------------------
(* Theorems about SyncRuns, for every set of runs and workers and every     *)
(* bound.                                                                   *)
EXTENDS SyncRuns, TLAPS

-----------------------------------------------------------------------------
(* The inductive invariant.                                                 *)

\* What the partial unique index keeps true.
OneActiveRun == \A r1, r2 \in Runs : Active(r1) /\ Active(r2) => r1 = r2

\* Every lease is younger than the counter it was drawn from, and no two
\* workers were ever given the same one.
LeasesDistinct ==
  /\ \A r \in Runs : owner[r] <= leases
  /\ \A w \in Workers :
       worker[w].stage # "idle" =>
         worker[w].run \in Runs /\ worker[w].lease \in 1 .. leases
  /\ \A w1, w2 \in Workers :
       /\ worker[w1].stage # "idle"
       /\ worker[w2].stage # "idle"
       /\ worker[w1].lease = worker[w2].lease
       => w1 = w2

\* The mirror trails the shop, and the holder of the lease has fetched nothing
\* older than the mirror.
BatchIsFresh ==
  /\ mirror <= shop
  /\ \A w \in Workers :
       /\ worker[w].batch <= shop
       /\ Holds(w) /\ Fetched(w) => mirror <= worker[w].batch

\* A webhook that saw no active run: a run that was started since fetched (or
\* will fetch) everything recorded before, and the event of the webhook.
HookIsFresh ==
  /\ owed \subseteq seen
  /\ \A e \in seen : e <= shop
  /\ hook.phase # "free" => hook.event \in 1 .. shop
  /\ hook.phase = "idle" =>
       \A w \in Workers, e \in seen \cup {hook.event} :
         Holds(w) /\ Fetched(w) => e <= worker[w].batch

IInv ==
  /\ TypeOK
  /\ OneActiveRun
  /\ LeasesDistinct
  /\ BatchIsFresh
  /\ HookIsFresh
  /\ NoLostChange
-----------------------------------------------------------------------------
(* Preservation, one conjunct at a time.                                    *)

\* Every action keeps every variable in its type.
LEMMA TypePreserved ==
  ASSUME TypeOK, [Next]_vars
  PROVE  TypeOK'
<1> USE SyncRunsAssumption DEF TypeOK, runVars, storeVars, hookVars,
           Statuses, Stages, Lease, Revision, Idle, Free
<1>1. CASE ShopChange
  BY <1>1 DEF ShopChange
<1>2. CASE Connect
  BY <1>2 DEF Connect
<1>3. CASE Disconnect
  BY <1>3 DEF Disconnect
<1>4. ASSUME NEW r \in Runs, CreateSyncRun(r)
      PROVE  TypeOK'
  BY <1>4 DEF CreateSyncRun
<1>5. ASSUME NEW e \in 1 .. MaxRevision, WebhookLock(e)
      PROVE  TypeOK'
  BY <1>5 DEF WebhookLock
<1>6. CASE WebhookFlag
  <2>1. hook.event \in 1 .. MaxRevision
    BY <1>6 DEF WebhookFlag
  <2>2. seen' \subseteq 1 .. MaxRevision /\ owed' \subseteq 1 .. MaxRevision
    BY <1>6, <2>1 DEF WebhookFlag
  <2>3. QED
    BY <1>6, <2>2 DEF WebhookFlag
<1>7. CASE WebhookEnqueue
  <2>1. hook.event \in 1 .. MaxRevision
    BY <1>7 DEF WebhookEnqueue
  <2>2. seen' \subseteq 1 .. MaxRevision /\ owed' \subseteq 1 .. MaxRevision
    BY <1>7, <2>1 DEF WebhookEnqueue
  <2>3. status' \in [Runs -> Statuses]
    BY <1>7 DEF WebhookEnqueue
  <2>4. QED
    BY <1>7, <2>2, <2>3 DEF WebhookEnqueue
<1>8. CASE WebhookAbort
  BY <1>8 DEF WebhookAbort
<1>9. ASSUME NEW e \in 1 .. MaxRevision, WebhookIgnored(e)
      PROVE  TypeOK'
  BY <1>9 DEF WebhookIgnored
<1>10. ASSUME NEW w \in Workers, NEW r \in Runs, StartSyncRun(w, r)
      PROVE  TypeOK'
  BY <1>10 DEF StartSyncRun, Startable
<1>11. ASSUME NEW w \in Workers, ResolveSyncTarget(w)
      PROVE  TypeOK'
  BY <1>11 DEF ResolveSyncTarget, Advance
<1>12. ASSUME NEW w \in Workers, FetchCatalogue(w)
      PROVE  TypeOK'
  BY <1>12 DEF FetchCatalogue
<1>13. ASSUME NEW w \in Workers, Heartbeat(w)
      PROVE  TypeOK'
  BY <1>13 DEF Heartbeat
<1>14. ASSUME NEW w \in Workers, RenewBeforeCommit(w)
      PROVE  TypeOK'
  <2>1. worker' \in [Workers -> [stage : Stages, run : Runs \cup {NoRun},
                                 lease : Lease, batch : Revision]]
    BY <1>14 DEF RenewBeforeCommit, Advance
  <2>2. expired' \in [Runs -> BOOLEAN]
    BY <1>14 DEF RenewBeforeCommit
  <2>3. QED
    BY <1>14, <2>1, <2>2 DEF RenewBeforeCommit
<1>15. ASSUME NEW w \in Workers, ReplaceMirror(w)
      PROVE  TypeOK'
  <2>1. worker' \in [Workers -> [stage : Stages, run : Runs \cup {NoRun},
                                 lease : Lease, batch : Revision]]
    BY <1>15 DEF ReplaceMirror, Advance
  <2>2. status' \in [Runs -> Statuses]
    BY <1>15 DEF ReplaceMirror, CompleteRun
  <2>3. owner' \in [Runs -> Lease]
    <3>1. \/ owner' = owner
          \/ owner' = [owner EXCEPT ![worker[w].run] = 0]
      BY <1>15 DEF ReplaceMirror
    <3>2. 0 \in Lease
      OBVIOUS
    <3>3. QED
      BY <3>1, <3>2
  <2>4. expired' \in [Runs -> BOOLEAN]
    BY <1>15 DEF ReplaceMirror
  <2>5. mirror' \in Revision /\ owed' \subseteq 1 .. MaxRevision
    BY <1>15 DEF ReplaceMirror
  <2>6. QED
    BY <1>15, <2>1, <2>2, <2>3, <2>4, <2>5 DEF ReplaceMirror
<1>16. ASSUME NEW w \in Workers, SyncReturns(w)
      PROVE  TypeOK'
  BY <1>16 DEF SyncReturns
<1>17. ASSUME NEW w \in Workers, SyncFails(w)
      PROVE  TypeOK'
  <2>1. worker' \in [Workers -> [stage : Stages, run : Runs \cup {NoRun},
                                 lease : Lease, batch : Revision]]
    BY <1>17 DEF SyncFails
  <2>2. status' \in [Runs -> Statuses]
    BY <1>17 DEF SyncFails
  <2>3. owner' \in [Runs -> Lease]
    <3>1. \/ owner' = owner
          \/ owner' = [owner EXCEPT ![worker[w].run] = 0]
      BY <1>17 DEF SyncFails
    <3>2. 0 \in Lease
      OBVIOUS
    <3>3. QED
      BY <3>1, <3>2
  <2>4. expired' \in [Runs -> BOOLEAN]
    BY <1>17 DEF SyncFails
  <2>5. owed' \subseteq 1 .. MaxRevision
    BY <1>17 DEF SyncFails
  <2>6. QED
    BY <1>17, <2>1, <2>2, <2>3, <2>4, <2>5 DEF SyncFails
<1>18. ASSUME NEW w \in Workers, WorkerStops(w)
      PROVE  TypeOK'
  BY <1>18 DEF WorkerStops
<1>19. ASSUME NEW r \in Runs, LeaseExpires(r)
      PROVE  TypeOK'
  BY <1>19 DEF LeaseExpires
<1>20. CASE UNCHANGED vars
  BY <1>20 DEF vars, storeVars, hookVars, runVars
<1>21. QED
  BY <1>1, <1>2, <1>3, <1>4, <1>5, <1>6, <1>7, <1>8, <1>9, <1>10, <1>11,
     <1>12, <1>13, <1>14, <1>15, <1>16, <1>17, <1>18, <1>19, <1>20
  DEF Next, WebhookStep, WorkerStep

\* No action makes a second run of the store active.
LEMMA OneActivePreserved ==
  ASSUME TypeOK, LeasesDistinct, OneActiveRun, [Next]_vars
  PROVE  OneActiveRun'
<1> USE SyncRunsAssumption DEF OneActiveRun, Active, NoActiveRun, TypeOK,
           runVars, storeVars, hookVars
<1>1. CASE ShopChange
  BY <1>1 DEF ShopChange
<1>2. CASE Connect
  BY <1>2 DEF Connect
<1>3. CASE Disconnect
  BY <1>3 DEF Disconnect
<1>4. ASSUME NEW r \in Runs, CreateSyncRun(r)
      PROVE  OneActiveRun'
  BY <1>4 DEF CreateSyncRun
<1>5. ASSUME NEW e \in 1 .. MaxRevision, WebhookLock(e)
      PROVE  OneActiveRun'
  BY <1>5 DEF WebhookLock
<1>6. CASE WebhookFlag
  BY <1>6 DEF WebhookFlag
<1>7. CASE WebhookEnqueue
  BY <1>7 DEF WebhookEnqueue
<1>8. CASE WebhookAbort
  BY <1>8 DEF WebhookAbort
<1>9. ASSUME NEW e \in 1 .. MaxRevision, WebhookIgnored(e)
      PROVE  OneActiveRun'
  BY <1>9 DEF WebhookIgnored
<1>10. ASSUME NEW w \in Workers, NEW r \in Runs, StartSyncRun(w, r)
      PROVE  OneActiveRun'
  BY <1>10 DEF StartSyncRun, Startable
<1>11. ASSUME NEW w \in Workers, ResolveSyncTarget(w)
      PROVE  OneActiveRun'
  BY <1>11 DEF ResolveSyncTarget, Advance
<1>12. ASSUME NEW w \in Workers, FetchCatalogue(w)
      PROVE  OneActiveRun'
  BY <1>12 DEF FetchCatalogue
<1>13. ASSUME NEW w \in Workers, Heartbeat(w)
      PROVE  OneActiveRun'
  BY <1>13 DEF Heartbeat
<1>14. ASSUME NEW w \in Workers, RenewBeforeCommit(w)
      PROVE  OneActiveRun'
  BY <1>14 DEF RenewBeforeCommit, Advance
<1>15. ASSUME NEW w \in Workers, ReplaceMirror(w)
      PROVE  OneActiveRun'
  <2>1. Active(worker[w].run) /\ worker[w].run \in Runs
    BY <1>15 DEF ReplaceMirror, Holds, LeasesDistinct
  <2>2. CASE status' = [status EXCEPT ![worker[w].run] = "completed"]
    BY <2>2
  <2>3. ASSUME NEW next \in Runs,
               status[next] = "none",
               status' = [status EXCEPT ![worker[w].run] = "completed",
                                        ![next] = "queued"]
        PROVE  OneActiveRun'
    <3>1. \A r \in Runs \ {next} : ~Active(r)'
      BY <2>1, <2>3
    <3>2. QED
      BY <3>1
  <2>4. QED
    BY <1>15, <2>2, <2>3 DEF ReplaceMirror, CompleteRun
<1>16. ASSUME NEW w \in Workers, SyncReturns(w)
      PROVE  OneActiveRun'
  BY <1>16 DEF SyncReturns
<1>17. ASSUME NEW w \in Workers, SyncFails(w)
      PROVE  OneActiveRun'
  BY <1>17 DEF SyncFails
<1>18. ASSUME NEW w \in Workers, WorkerStops(w)
      PROVE  OneActiveRun'
  BY <1>18 DEF WorkerStops
<1>19. ASSUME NEW r \in Runs, LeaseExpires(r)
      PROVE  OneActiveRun'
  BY <1>19 DEF LeaseExpires
<1>20. CASE UNCHANGED vars
  BY <1>20 DEF vars, storeVars, hookVars, runVars
<1>21. QED
  BY <1>1, <1>2, <1>3, <1>4, <1>5, <1>6, <1>7, <1>8, <1>9, <1>10, <1>11,
     <1>12, <1>13, <1>14, <1>15, <1>16, <1>17, <1>18, <1>19, <1>20
  DEF Next, WebhookStep, WorkerStep

\* Leases are never given out twice.
LEMMA LeasesPreserved ==
  ASSUME TypeOK, LeasesDistinct, [Next]_vars
  PROVE  LeasesDistinct'
<1> USE SyncRunsAssumption DEF LeasesDistinct, TypeOK, Lease, Idle, Stages,
           runVars, storeVars, hookVars
<1>1. CASE ShopChange
  BY <1>1 DEF ShopChange
<1>2. CASE Connect
  BY <1>2 DEF Connect
<1>3. CASE Disconnect
  BY <1>3 DEF Disconnect
<1>4. ASSUME NEW r \in Runs, CreateSyncRun(r)
      PROVE  LeasesDistinct'
  BY <1>4 DEF CreateSyncRun
<1>5. ASSUME NEW e \in 1 .. MaxRevision, WebhookLock(e)
      PROVE  LeasesDistinct'
  BY <1>5 DEF WebhookLock
<1>6. CASE WebhookFlag
  BY <1>6 DEF WebhookFlag
<1>7. CASE WebhookEnqueue
  BY <1>7 DEF WebhookEnqueue
<1>8. CASE WebhookAbort
  BY <1>8 DEF WebhookAbort
<1>9. ASSUME NEW e \in 1 .. MaxRevision, WebhookIgnored(e)
      PROVE  LeasesDistinct'
  BY <1>9 DEF WebhookIgnored
<1>10. ASSUME NEW w \in Workers, NEW r \in Runs, StartSyncRun(w, r)
      PROVE  LeasesDistinct'
  BY <1>10 DEF StartSyncRun, Startable
<1>11. ASSUME NEW w \in Workers, ResolveSyncTarget(w)
      PROVE  LeasesDistinct'
  BY <1>11 DEF ResolveSyncTarget, Advance
<1>12. ASSUME NEW w \in Workers, FetchCatalogue(w)
      PROVE  LeasesDistinct'
  BY <1>12 DEF FetchCatalogue
<1>13. ASSUME NEW w \in Workers, Heartbeat(w)
      PROVE  LeasesDistinct'
  BY <1>13 DEF Heartbeat
<1>14. ASSUME NEW w \in Workers, RenewBeforeCommit(w)
      PROVE  LeasesDistinct'
  BY <1>14 DEF RenewBeforeCommit, Advance
<1>15. ASSUME NEW w \in Workers, ReplaceMirror(w)
      PROVE  LeasesDistinct'
  BY <1>15 DEF ReplaceMirror, CompleteRun, Advance
<1>16. ASSUME NEW w \in Workers, SyncReturns(w)
      PROVE  LeasesDistinct'
  BY <1>16 DEF SyncReturns
<1>17. ASSUME NEW w \in Workers, SyncFails(w)
      PROVE  LeasesDistinct'
  BY <1>17 DEF SyncFails
<1>18. ASSUME NEW w \in Workers, WorkerStops(w)
      PROVE  LeasesDistinct'
  BY <1>18 DEF WorkerStops
<1>19. ASSUME NEW r \in Runs, LeaseExpires(r)
      PROVE  LeasesDistinct'
  BY <1>19 DEF LeaseExpires
<1>20. CASE UNCHANGED vars
  BY <1>20 DEF vars, storeVars, hookVars, runVars
<1>21. QED
  BY <1>1, <1>2, <1>3, <1>4, <1>5, <1>6, <1>7, <1>8, <1>9, <1>10, <1>11,
     <1>12, <1>13, <1>14, <1>15, <1>16, <1>17, <1>18, <1>19, <1>20
  DEF Next, WebhookStep, WorkerStep

-----------------------------------------------------------------------------
(* Who may write the mirror.                                                *)

\* Two holders would hold the one active run, under the one lease it has.
LEMMA OneHolder ==
  ASSUME OneActiveRun, LeasesDistinct
  PROVE  SingleWriter
<1> SUFFICES ASSUME NEW w1 \in Workers, NEW w2 \in Workers, Holds(w1), Holds(w2)
             PROVE  w1 = w2
  BY DEF SingleWriter
<1>1. worker[w1].run = worker[w2].run
  BY DEF Holds, OneActiveRun, LeasesDistinct, Active
<1>2. worker[w1].lease = worker[w2].lease
  BY <1>1 DEF Holds
<1>3. QED
  BY <1>2 DEF Holds, LeasesDistinct

\* Whoever may write a batch after a step could write the same batch before
\* it, or has just read the catalogue.
BatchKept(w) ==
  \/ /\ Holds(w) /\ Fetched(w)
     /\ worker'[w].run = worker[w].run
     /\ worker'[w].batch = worker[w].batch
  \/ FetchCatalogue(w)

LEMMA HolderKeepsBatch ==
  ASSUME TypeOK, LeasesDistinct, [Next]_vars,
         NEW w \in Workers, Holds(w)', Fetched(w)'
  PROVE  BatchKept(w)
<1> USE DEF TypeOK, Holds, Fetched, BatchKept, Idle
<1>1. CASE UNCHANGED <<status, owner, worker>>
  BY <1>1
<1>2. ASSUME NEW r \in Runs, CreateSyncRun(r)
      PROVE  BatchKept(w)
  BY <1>2 DEF CreateSyncRun
<1>3. CASE WebhookEnqueue
  <2>1. UNCHANGED <<owner, worker>>
    BY <1>3 DEF WebhookEnqueue
  <2>2. status'[worker[w].run] = "running" => status[worker[w].run] = "running"
    BY <1>3, <2>1 DEF WebhookEnqueue, LeasesDistinct
  <2>3. QED
    BY <2>1, <2>2
<1>4. ASSUME NEW v \in Workers, NEW r \in Runs, StartSyncRun(v, r)
      PROVE  BatchKept(w)
  <2>1. w # v
    BY <1>4 DEF StartSyncRun
  <2>2. worker'[w] = worker[w]
    BY <1>4, <2>1 DEF StartSyncRun
  <2>3. worker[w].lease # leases + 1
    BY <2>2 DEF LeasesDistinct, Lease
  <2>4. worker[w].run # r
    BY <1>4, <2>2, <2>3 DEF StartSyncRun
  <2>5. QED
    BY <1>4, <2>2, <2>4 DEF StartSyncRun
<1>5. ASSUME NEW v \in Workers, ResolveSyncTarget(v)
      PROVE  BatchKept(w)
  BY <1>5 DEF ResolveSyncTarget, Advance, runVars
<1>6. ASSUME NEW v \in Workers, FetchCatalogue(v)
      PROVE  BatchKept(w)
  <2>1. CASE w = v
    BY <1>6, <2>1
  <2>2. CASE w # v
    BY <1>6, <2>2 DEF FetchCatalogue, runVars
  <2>3. QED
    BY <2>1, <2>2
<1>7. ASSUME NEW v \in Workers, RenewBeforeCommit(v)
      PROVE  BatchKept(w)
  <2>1. UNCHANGED <<status, owner>> /\ worker' = [worker EXCEPT ![v].stage = "renewed"]
    BY <1>7 DEF RenewBeforeCommit, Advance
  <2>2. worker[v].stage = "fetched"
    BY <1>7 DEF RenewBeforeCommit
  <2>3. QED
    BY <2>1, <2>2
<1>8. ASSUME NEW v \in Workers, ReplaceMirror(v)
      PROVE  BatchKept(w)
  <2>1. worker' = [worker EXCEPT ![v].stage = "committed"]
    BY <1>8 DEF ReplaceMirror, Advance
  <2>2. w # v /\ worker'[w] = worker[w]
    BY <2>1
  <2>3. status'[worker[w].run] = "running" => status[worker[w].run] = "running"
    <3>1. worker[w].run \in Runs
      BY <2>2 DEF LeasesDistinct
    <3>2. QED
      BY <1>8, <3>1 DEF ReplaceMirror, CompleteRun
  <2>4. worker[w].run # worker[v].run
    BY <1>8, <2>2 DEF ReplaceMirror, CompleteRun, LeasesDistinct
  <2>5. owner'[worker[w].run] = owner[worker[w].run]
    BY <1>8, <2>4 DEF ReplaceMirror
  <2>6. QED
    BY <2>2, <2>3, <2>5
<1>9. ASSUME NEW v \in Workers, SyncReturns(v) \/ WorkerStops(v)
      PROVE  BatchKept(w)
  BY <1>9 DEF SyncReturns, WorkerStops, runVars
<1>10. ASSUME NEW v \in Workers, SyncFails(v)
       PROVE  BatchKept(w)
  BY <1>10 DEF SyncFails, LeasesDistinct
<1>11. QED
  BY <1>1, <1>2, <1>3, <1>4, <1>5, <1>6, <1>7, <1>8, <1>9, <1>10
  DEF Next, WebhookStep, WorkerStep, vars, runVars, ShopChange, Connect,
      Disconnect, WebhookLock, WebhookFlag, WebhookAbort, WebhookIgnored,
      Heartbeat, LeaseExpires

\* The catalogue only moves forward.
LEMMA ShopGrows ==
  ASSUME TypeOK, [Next]_vars
  PROVE  shop <= shop' /\ shop' \in Nat
<1> USE SyncRunsAssumption DEF TypeOK, Revision
<1>1. CASE ShopChange
  BY <1>1 DEF ShopChange
<1>2. CASE shop' = shop
  BY <1>2
<1>3. QED
  BY <1>1, <1>2
  DEF Next, WebhookStep, WorkerStep, vars, runVars, storeVars, hookVars,
      Connect, Disconnect, CreateSyncRun, WebhookLock, WebhookFlag,
      WebhookEnqueue, WebhookAbort, WebhookIgnored, StartSyncRun,
      ResolveSyncTarget, FetchCatalogue, Heartbeat, RenewBeforeCommit,
      ReplaceMirror, SyncReturns, SyncFails, WorkerStops, LeaseExpires

\* The mirror and the batches never overtake the shop, and what the lease
\* holder fetched is never older than the mirror.
LEMMA BatchPreserved ==
  ASSUME TypeOK, OneActiveRun, LeasesDistinct, BatchIsFresh, [Next]_vars
  PROVE  BatchIsFresh'
<1> USE DEF TypeOK, Revision
<1>1. shop <= shop' /\ shop' \in Nat
  BY ShopGrows
<1>2. mirror' = mirror \/ \E v \in Workers : ReplaceMirror(v)
  BY DEF Next, WebhookStep, WorkerStep, vars, runVars, storeVars, hookVars,
      ShopChange, Connect, Disconnect, CreateSyncRun, WebhookLock, WebhookFlag,
      WebhookEnqueue, WebhookAbort, WebhookIgnored, StartSyncRun,
      ResolveSyncTarget, FetchCatalogue, Heartbeat, RenewBeforeCommit,
      SyncReturns, SyncFails, WorkerStops, LeaseExpires
<1>3. ASSUME NEW w \in Workers
      PROVE  worker'[w].batch \in {worker[w].batch, 0, shop}
  <2>1. CASE worker' = worker
    BY <2>1
  <2>2. ASSUME NEW v \in Workers, NEW r \in Runs, StartSyncRun(v, r)
        PROVE  worker'[w].batch \in {worker[w].batch, 0}
    BY <2>2 DEF StartSyncRun
  <2>3. ASSUME NEW v \in Workers, FetchCatalogue(v)
        PROVE  worker'[w].batch \in {worker[w].batch, shop}
    BY <2>3 DEF FetchCatalogue
  <2>4. ASSUME NEW v \in Workers, NEW s \in Stages, Advance(v, s)
        PROVE  worker'[w].batch = worker[w].batch
    BY <2>4 DEF Advance
  <2>5. ASSUME NEW v \in Workers, worker' = [worker EXCEPT ![v] = Idle]
        PROVE  worker'[w].batch \in {worker[w].batch, 0}
    BY <2>5 DEF Idle
  <2>6. QED
    BY <2>1, <2>2, <2>3, <2>4, <2>5
    DEF Next, WebhookStep, WorkerStep, vars, Stages,
        ShopChange, Connect, Disconnect, CreateSyncRun, WebhookLock,
        WebhookFlag, WebhookEnqueue, WebhookAbort, WebhookIgnored,
        ResolveSyncTarget, Heartbeat, RenewBeforeCommit, ReplaceMirror,
        SyncReturns, SyncFails, WorkerStops, LeaseExpires
<1>4. mirror' <= shop'
  BY <1>1, <1>2, SyncRunsAssumption DEF BatchIsFresh, ReplaceMirror
<1>5. ASSUME NEW w \in Workers
      PROVE  worker'[w].batch <= shop'
  BY <1>1, <1>3, SyncRunsAssumption DEF BatchIsFresh
<1>6. ASSUME NEW w \in Workers, Holds(w)', Fetched(w)'
      PROVE  mirror' <= worker'[w].batch
  <2>1. BatchKept(w)
    BY <1>6, HolderKeepsBatch
  <2>2. CASE mirror' = mirror
    BY <2>1, <2>2 DEF BatchIsFresh, BatchKept, FetchCatalogue
  <2>3. CASE \E v \in Workers : ReplaceMirror(v)
    <3>1. PICK v \in Workers : ReplaceMirror(v)
      BY <2>3
    <3>2. worker'[v].stage = "committed" /\ worker' = [worker EXCEPT ![v].stage = "committed"]
      BY <3>1 DEF ReplaceMirror, Advance
    <3>3. w # v
      BY <1>6, <3>2 DEF Fetched
    <3>4. Holds(w) /\ Holds(v)
      BY <1>6, <2>1, <3>1, <3>2 DEF BatchKept, FetchCatalogue, ReplaceMirror, Fetched
    <3>5. QED
      BY <3>3, <3>4, OneHolder DEF SingleWriter
  <2>4. QED
    BY <1>2, <2>2, <2>3
<1>7. QED
  BY <1>4, <1>5, <1>6 DEF BatchIsFresh

\* Every recorded change is in the catalogue, and a lease granted while the
\* webhook waits is granted for a batch that contains them all.
LEMMA HookPreserved ==
  ASSUME TypeOK, OneActiveRun, LeasesDistinct, HookIsFresh, [Next]_vars
  PROVE  HookIsFresh'
<1> USE DEF TypeOK, Revision
<1>1. shop <= shop' /\ shop' \in Nat
  BY ShopGrows
<1>2. \/ UNCHANGED <<hook, seen>>
      \/ \E e \in 1 .. MaxRevision : WebhookLock(e) \/ WebhookIgnored(e)
      \/ WebhookFlag \/ WebhookEnqueue \/ WebhookAbort
  BY DEF Next, WebhookStep, WorkerStep, vars, runVars, storeVars, hookVars,
      ShopChange, Connect, Disconnect, CreateSyncRun, StartSyncRun,
      ResolveSyncTarget, FetchCatalogue, Heartbeat, RenewBeforeCommit,
      ReplaceMirror, SyncReturns, SyncFails, WorkerStops, LeaseExpires
<1>3. owed' \subseteq seen'
  BY DEF HookIsFresh, Next, WebhookStep, WorkerStep, vars, runVars, storeVars,
      hookVars, ShopChange, Connect, Disconnect, CreateSyncRun, WebhookLock,
      WebhookFlag, WebhookEnqueue, WebhookAbort, WebhookIgnored, StartSyncRun,
      ResolveSyncTarget, FetchCatalogue, Heartbeat, RenewBeforeCommit,
      ReplaceMirror, SyncReturns, SyncFails, WorkerStops, LeaseExpires
<1>4. ASSUME NEW e \in seen'
      PROVE  e <= shop'
  <2>1. \/ e \in seen
        \/ hook.phase # "free" /\ e = hook.event
        \/ e \in 1 .. shop
    BY <1>2 DEF WebhookLock, WebhookFlag, WebhookEnqueue, WebhookAbort,
       WebhookIgnored
  <2>2. e <= shop /\ e \in Nat
    <3>1. CASE e \in seen
      BY <3>1 DEF HookIsFresh
    <3>2. CASE e \in 1 .. shop
      BY <3>2
    <3>3. QED
      BY <2>1, <3>1, <3>2 DEF HookIsFresh
  <2>3. QED
    BY <1>1, <2>2
<1>5. hook'.phase # "free" => hook'.event \in 1 .. shop'
  BY <1>1, <1>2 DEF HookIsFresh, WebhookLock, WebhookFlag, WebhookEnqueue,
      WebhookAbort, WebhookIgnored, Free
<1>6. ASSUME hook'.phase = "idle", NEW w \in Workers, Holds(w)', Fetched(w)',
             NEW e \in seen' \cup {hook'.event}
      PROVE  e <= worker'[w].batch
  <2>1. BatchKept(w)
    BY <1>6, HolderKeepsBatch
  <2>2. CASE UNCHANGED <<hook, seen>>
    <3>1. CASE Holds(w) /\ Fetched(w) /\ worker'[w].batch = worker[w].batch
      BY <1>6, <2>2, <3>1 DEF HookIsFresh
    <3>2. CASE FetchCatalogue(w)
      <4>1. worker'[w].batch = shop
        BY <3>2 DEF FetchCatalogue
      <4>2. QED
        BY <1>6, <2>2, <4>1 DEF HookIsFresh
    <3>3. QED
      BY <2>1, <3>1, <3>2 DEF BatchKept
  <2>3. ASSUME NEW d \in 1 .. MaxRevision, WebhookLock(d)
        PROVE  FALSE
    <3>1. NoActiveRun /\ UNCHANGED <<status, owner, worker>>
      BY <1>6, <2>3 DEF WebhookLock, runVars
    <3>2. QED
      BY <1>6, <3>1 DEF NoActiveRun, Active, Holds, LeasesDistinct
  <2>4. QED
    BY <1>2, <1>6, <2>2, <2>3 DEF WebhookFlag, WebhookEnqueue, WebhookAbort,
       WebhookIgnored, StoreUnlocked, Free
<1>7. QED
  BY <1>3, <1>4, <1>5, <1>6 DEF HookIsFresh

\* What an active run will mirror, it still will mirror after any step that
\* leaves it active.
LEMMA CoversKept ==
  ASSUME TypeOK, LeasesDistinct, HookIsFresh, [Next]_vars,
         NEW r \in Runs, NEW e \in owed, Covers(r, e), Active(r)'
  PROVE  Covers(r, e)'
<1> SUFFICES ASSUME status'[r] = "running",
                    NEW w \in Workers, Holds(w)', Fetched(w)',
                    worker'[w].run = r
             PROVE  e <= worker'[w].batch
  BY DEF Covers, Active
<1>1. BatchKept(w)
  BY HolderKeepsBatch
<1>2. CASE Holds(w) /\ Fetched(w) /\ worker'[w].run = worker[w].run
           /\ worker'[w].batch = worker[w].batch
  BY <1>2 DEF Covers, Holds
<1>3. CASE FetchCatalogue(w)
  BY <1>3 DEF FetchCatalogue, HookIsFresh, TypeOK
<1>4. QED
  BY <1>1, <1>2, <1>3 DEF BatchKept

\* No recorded change is forgotten.
LEMMA LostPreserved ==
  ASSUME IInv, [Next]_vars
  PROVE  NoLostChange'
<1> USE DEF IInv, TypeOK
<1>1. SUFFICES ASSUME NEW e \in owed', ~resync'
               PROVE  \E r \in Runs : Covers(r, e)'
  BY DEF NoLostChange
<1>2. ASSUME e \in owed, ~resync, \A r \in Runs : Active(r) => Active(r)'
      PROVE  \E r \in Runs : Covers(r, e)'
  <2>1. PICK r \in Runs : Covers(r, e)
    BY <1>2 DEF NoLostChange
  <2>2. Active(r)
    BY <2>1 DEF Covers, Active
  <2>3. QED
    BY <1>2, <2>1, <2>2, CoversKept
<1>3. CASE /\ owed' = owed /\ resync' = resync
           /\ \A r \in Runs : Active(r) => Active(r)'
  BY <1>1, <1>2, <1>3
<1>4. CASE WebhookFlag
  BY <1>1, <1>4 DEF WebhookFlag
<1>5. CASE WebhookEnqueue
  <2>1. CASE NoActiveRun
    BY <1>5, <2>1 DEF WebhookEnqueue, Covers
  <2>2. CASE ~NoActiveRun
    <3>1. PICK r \in Runs : Active(r)
      BY <2>2 DEF NoActiveRun
    <3>2. /\ UNCHANGED <<status, owner, worker>>
          /\ e \in seen \cup {hook.event}
      BY <1>5, <2>2 DEF WebhookEnqueue, HookIsFresh
    <3>3. ASSUME NEW w \in Workers, Holds(w)', Fetched(w)'
          PROVE  e <= worker'[w].batch
      BY <1>5, <3>2, <3>3 DEF HookIsFresh, WebhookEnqueue, Holds, Fetched
    <3>4. QED
      BY <3>1, <3>2, <3>3 DEF Covers, Active
  <2>3. QED
    BY <2>1, <2>2
<1>6. ASSUME NEW w \in Workers, ReplaceMirror(w)
      PROVE  \E r \in Runs : Covers(r, e)'
  <2>1. e \in owed /\ worker[w].batch < e
    BY <1>6 DEF ReplaceMirror
  <2>2. CASE resync
    BY <1>6, <2>2 DEF ReplaceMirror, CompleteRun, Covers
  <2>3. CASE ~resync
    <3>1. PICK r \in Runs : Covers(r, e)
      BY <2>1, <2>3 DEF NoLostChange
    <3>2. r = worker[w].run
      BY <1>6, <3>1 DEF Covers, ReplaceMirror, Holds, OneActiveRun, Active,
         LeasesDistinct
    <3>3. e <= worker[w].batch
      BY <1>6, <3>1, <3>2 DEF Covers, ReplaceMirror, Holds, Fetched
    <3>4. QED
      BY <2>1, <3>3 DEF Revision
  <2>4. QED
    BY <2>2, <2>3
<1>7. ASSUME NEW w \in Workers, SyncFails(w), Holds(w)
      PROVE  FALSE
  BY <1>1, <1>7 DEF SyncFails
<1>8. ASSUME NEW w \in Workers, NEW r \in Runs, StartSyncRun(w, r)
      PROVE  \A s \in Runs : Active(s) => Active(s)'
  BY <1>8 DEF StartSyncRun, Active
<1>9. ASSUME NEW r \in Runs, CreateSyncRun(r)
      PROVE  \A s \in Runs : Active(s) => Active(s)'
  BY <1>9 DEF CreateSyncRun, Active
<1>10. QED
  BY <1>3, <1>4, <1>5, <1>6, <1>7, <1>8, <1>9
  DEF Next, WebhookStep, WorkerStep, vars, runVars, storeVars, hookVars,
      ShopChange, Connect, Disconnect, CreateSyncRun, WebhookLock,
      WebhookAbort, WebhookIgnored, StartSyncRun, ResolveSyncTarget,
      FetchCatalogue, Heartbeat, RenewBeforeCommit, SyncReturns, SyncFails,
      WorkerStops, LeaseExpires, Active

-----------------------------------------------------------------------------
(* The theorems.                                                            *)

LEMMA InitEstablishes == Init => IInv
<1> SUFFICES ASSUME Init
             PROVE  IInv
  OBVIOUS
<1>1. TypeOK
  <2>1. 0 \in Lease /\ 0 \in Revision
    BY SyncRunsAssumption DEF Lease, Revision
  <2>2. /\ status \in [Runs -> Statuses]
        /\ owner \in [Runs -> Lease]
        /\ expired \in [Runs -> BOOLEAN]
    BY <2>1 DEF Init, Statuses
  <2>3. worker \in [Workers -> [stage : Stages, run : Runs \cup {NoRun},
                                lease : Lease, batch : Revision]]
    BY <2>1 DEF Init, Stages, Idle
  <2>4. QED
    BY <2>1, <2>2, <2>3 DEF Init, TypeOK, Free
<1>2. OneActiveRun
  BY DEF Init, OneActiveRun, Active
<1>3. LeasesDistinct
  BY DEF Init, LeasesDistinct, Idle
<1>4. BatchIsFresh /\ HookIsFresh /\ NoLostChange
  BY DEF Init, BatchIsFresh, HookIsFresh, NoLostChange, Idle, Free, Holds
<1>5. QED
  BY <1>1, <1>2, <1>3, <1>4 DEF IInv

\* The strengthened invariant is inductive.
THEOREM Invariance == Spec => []IInv
<1>1. IInv /\ [Next]_vars => IInv'
  BY TypePreserved, LeasesPreserved, OneActivePreserved, BatchPreserved,
     HookPreserved, LostPreserved DEF IInv
<1>2. QED
  BY InitEstablishes, <1>1, PTL DEF Spec

\* Every variable stays in its type (all of shopify_mirror.go's run handling).
THEOREM TypeCorrect == Spec => []TypeOK
<1>1. IInv => TypeOK
  BY DEF IInv
<1>2. QED
  BY Invariance, <1>1, PTL

\* Two workers never both pass the lease check of ReplaceMirror.
THEOREM OneWriter == Spec => []SingleWriter
<1>1. IInv => SingleWriter
  BY OneHolder DEF IInv
<1>2. QED
  BY Invariance, <1>1, PTL

\* A change whose webhook was recorded is not forgotten by the mirror.
THEOREM ChangesAreKept == Spec => []NoLostChange
<1>1. IInv => NoLostChange
  BY DEF IInv
<1>2. QED
  BY Invariance, <1>1, PTL

\* ReplaceMirror never installs an older catalogue over a newer one.
THEOREM MirrorAdvances == Spec => MirrorNeverRegresses
<1>1. IInv /\ [Next]_vars => [mirror' >= mirror]_vars
  <2> SUFFICES ASSUME IInv, Next
               PROVE  mirror' >= mirror
    BY DEF vars
  <2>1. ASSUME NEW w \in Workers, ReplaceMirror(w)
        PROVE  mirror' >= mirror
    BY <2>1 DEF ReplaceMirror, IInv, BatchIsFresh, Fetched, TypeOK, Revision
  <2>2. CASE mirror' = mirror
    BY <2>2 DEF IInv, TypeOK, Revision
  <2>3. QED
    BY <2>1, <2>2
    DEF Next, WebhookStep, WorkerStep, ShopChange, Connect, Disconnect,
        CreateSyncRun, WebhookLock, WebhookFlag, WebhookEnqueue, WebhookAbort,
        WebhookIgnored, StartSyncRun, ResolveSyncTarget, FetchCatalogue,
        Heartbeat, RenewBeforeCommit, SyncReturns, SyncFails, WorkerStops,
        LeaseExpires
<1>2. QED
  BY Invariance, <1>1, PTL DEF Spec, MirrorNeverRegresses

\* A completed run stays completed: no UPDATE of shopify_mirror.go matches it.
THEOREM CompletionIsFinal == Spec => CompletedIsFinal
<1> DEFINE Kept == \A r \in Runs : status[r] = "completed" => status'[r] = "completed"
<1>1. IInv /\ [Next]_vars => [Kept]_vars
  <2> SUFFICES ASSUME IInv, Next
               PROVE  Kept
    OBVIOUS
  <2> USE DEF IInv, TypeOK
  <2>1. CASE status' = status
    BY <2>1
  <2>2. ASSUME NEW r \in Runs, CreateSyncRun(r)
        PROVE  Kept
    BY <2>2 DEF CreateSyncRun
  <2>3. CASE WebhookEnqueue
    BY <2>3 DEF WebhookEnqueue
  <2>4. ASSUME NEW w \in Workers, NEW r \in Runs, StartSyncRun(w, r)
        PROVE  Kept
    BY <2>4 DEF StartSyncRun, Startable
  <2>5. ASSUME NEW w \in Workers, ReplaceMirror(w)
        PROVE  Kept
    BY <2>5 DEF ReplaceMirror, CompleteRun
  <2>6. ASSUME NEW w \in Workers, SyncFails(w)
        PROVE  Kept
    BY <2>6 DEF SyncFails, Holds
  <2>7. QED
    BY <2>1, <2>2, <2>3, <2>4, <2>5, <2>6
    DEF Next, WebhookStep, WorkerStep, runVars, ShopChange, Connect, Disconnect,
        WebhookLock, WebhookFlag, WebhookAbort, WebhookIgnored,
        ResolveSyncTarget, FetchCatalogue, Heartbeat, RenewBeforeCommit,
        SyncReturns, WorkerStops, LeaseExpires
<1>2. QED
  BY Invariance, <1>1, PTL DEF Spec, CompletedIsFinal

-----------------------------------------------------------------------------
(* The refinement of FreshMirror.                                           *)

\* A run that becomes active, or stays so, is asked for.
LEMMA ActiveIsAsked ==
  ASSUME NEW r \in Runs, Active(r)
  PROVE  ~NoActiveRun
  BY DEF NoActiveRun

\* A step that leaves the mirror and the owed changes alone is Ask, or shows
\* nothing: it never ends the last active run without clearing what is owed.
LEMMA QuietStepAsks ==
  ASSUME UNCHANGED <<shop, mirror, owed, resync>>,
         \A r \in Runs : Active(r) => Active(r)'
  PROVE  Promise!Ask \/ UNCHANGED Promise!vars
<1>1. ~NoActiveRun => ~NoActiveRun'
  BY DEF NoActiveRun
<1>2. Asked => Asked'
  BY <1>1 DEF Asked
<1>3. Asked \in BOOLEAN /\ Asked' \in BOOLEAN
  BY DEF Asked, NoActiveRun
<1>4. QED
  BY <1>2, <1>3 DEF Promise!Ask, Promise!vars

\* What ReplaceMirror commits is Show: the batch is no older than the mirror,
\* and if no follow-up is enqueued it had everything that was owed.
LEMMA CommitShows ==
  ASSUME IInv, NEW w \in Workers, ReplaceMirror(w)
  PROVE  Promise!Show(worker[w].batch)
<1> USE DEF IInv, TypeOK, Revision
<1> DEFINE run == worker[w].run
           batch == worker[w].batch
<1>1. Holds(w) /\ Fetched(w) /\ run \in Runs /\ Active(run)
  BY DEF ReplaceMirror, Fetched, Holds, LeasesDistinct, Active
<1>2. batch \in mirror .. shop
  BY <1>1, SyncRunsAssumption DEF BatchIsFresh
<1>3. Asked
  BY <1>1, ActiveIsAsked DEF Asked
<1>4. ASSUME owed' # {}
      PROVE  ~NoActiveRun'
  <2>1. PICK e \in owed : batch < e
    BY <1>4 DEF ReplaceMirror
  <2>2. CASE resync
    BY <2>2 DEF ReplaceMirror, CompleteRun, NoActiveRun, Active
  <2>3. CASE ~resync
    <3>1. PICK r \in Runs : Covers(r, e)
      BY <2>1, <2>3 DEF NoLostChange
    <3>2. r = run
      BY <1>1, <3>1 DEF Covers, OneActiveRun, Active
    <3>3. e <= batch
      BY <1>1, <3>1, <3>2 DEF Covers, Holds
    <3>4. QED
      BY <2>1, <3>3
  <2>4. QED
    BY <2>2, <2>3
<1>5. Asked' \in BOOLEAN /\ (owed' # {} => Asked')
  BY <1>4 DEF Asked, NoActiveRun
<1>6. QED
  BY <1>2, <1>3, <1>5 DEF Promise!Show, ReplaceMirror

\* Runs, leases, webhooks and their transactions implement FreshMirror.
THEOREM MirrorIsKeptFresh == Spec => KeepsMirrorFresh
<1>1. Init => Promise!Init
  BY DEF Init, Promise!Init, Asked, NoActiveRun, Active
<1>2. IInv /\ [Next]_vars => [Promise!Next]_(Promise!vars)
  <2> SUFFICES ASSUME IInv, [Next]_vars
               PROVE  [Promise!Next]_(Promise!vars)
    OBVIOUS
  <2> USE DEF IInv, TypeOK, Revision
  <2>1. CASE ShopChange
    BY <2>1 DEF ShopChange, runVars, storeVars, Asked, NoActiveRun, Active,
       Promise!Change, Promise!Next
  <2>2. ASSUME UNCHANGED <<shop, mirror, owed, resync>>,
               \A r \in Runs : Active(r) => Active(r)'
        PROVE  [Promise!Next]_(Promise!vars)
    BY <2>2, QuietStepAsks DEF Promise!Next
  <2>3. ASSUME NEW r \in Runs, CreateSyncRun(r)
        PROVE  [Promise!Next]_(Promise!vars)
    BY <2>2, <2>3 DEF CreateSyncRun, Active, storeVars
  <2>4. CASE WebhookFlag
    <3>1. hook.event \in 1 .. shop
      BY <2>4 DEF WebhookFlag, HookIsFresh
    <3>2. Promise!Announce(hook.event)
      BY <2>4, <3>1 DEF WebhookFlag, Asked, Promise!Announce
    <3>3. QED
      BY <3>1, <3>2 DEF Promise!Next
  <2>5. CASE WebhookEnqueue
    <3>1. hook.event \in 1 .. shop
      BY <2>5 DEF WebhookEnqueue, HookIsFresh
    <3>2. Asked' = TRUE
      BY <2>5 DEF Asked, WebhookEnqueue, NoActiveRun, Active
    <3>3. Promise!Announce(hook.event)
      BY <2>5, <3>1, <3>2 DEF WebhookEnqueue, Promise!Announce
    <3>4. QED
      BY <3>1, <3>3 DEF Promise!Next
  <2>6. ASSUME NEW w \in Workers, NEW r \in Runs, StartSyncRun(w, r)
        PROVE  [Promise!Next]_(Promise!vars)
    BY <2>2, <2>6 DEF StartSyncRun, Active, storeVars
  <2>7. ASSUME NEW w \in Workers, ReplaceMirror(w)
        PROVE  [Promise!Next]_(Promise!vars)
    <3>1. Promise!Show(worker[w].batch) /\ worker[w].batch \in 0 .. shop
      BY <2>7, CommitShows, SyncRunsAssumption DEF BatchIsFresh
    <3>2. QED
      BY <3>1 DEF Promise!Next
  <2>8. ASSUME NEW w \in Workers, SyncFails(w)
        PROVE  [Promise!Next]_(Promise!vars)
    <3>1. CASE Holds(w)
      <4>1. Asked /\ Asked' \in BOOLEAN
        BY <3>1, ActiveIsAsked DEF Holds, LeasesDistinct, Active, Asked, NoActiveRun
      <4>2. Promise!GiveUp
        BY <2>8, <3>1, <4>1 DEF SyncFails, storeVars, Promise!GiveUp
      <4>3. QED
        BY <4>2 DEF Promise!Next
    <3>2. CASE ~Holds(w)
      BY <2>2, <2>8, <3>2 DEF SyncFails, storeVars, Active
    <3>3. QED
      BY <3>1, <3>2
  <2>9. CASE UNCHANGED <<status, shop, mirror, owed, resync>>
    BY <2>2, <2>9 DEF Active
  <2>10. QED
    BY <2>1, <2>3, <2>4, <2>5, <2>6, <2>7, <2>8, <2>9
    DEF Next, WebhookStep, WorkerStep, vars, runVars, storeVars, hookVars,
        Connect, Disconnect, WebhookLock, WebhookAbort, WebhookIgnored,
        ResolveSyncTarget, FetchCatalogue, Heartbeat, RenewBeforeCommit,
        SyncReturns, WorkerStops, LeaseExpires
<1>3. QED
  BY Invariance, <1>1, <1>2, PTL DEF Spec, KeepsMirrorFresh, Promise!Spec
=============================================================================
