---------------------------- MODULE SyncPipeline ----------------------------
(***************************************************************************)
(* Sync runs driven by their jobs: SyncRuns and JobQueue composed.  Every  *)
(* run is inserted together with an outbox row, the outbox publishes the   *)
(* row as a job, and a worker calls the sync of a run only while it        *)
(* handles a delivery of its job.  SyncRuns lets any worker start any run  *)
(* at any time and JobQueue lets a handler answer as it likes; here each   *)
(* constrains the other, so it can be asked whether an active run is ever  *)
(* left without a job, and whether what a webhook announced is mirrored in *)
(* the end.                                                                *)
(*                                                                         *)
(* Every step of a delivery is a step of the queue, a step of the run, or  *)
(* both at once.                                                           *)
(***************************************************************************)
EXTENDS SyncRuns

CONSTANTS
  Copies,          \* bound: copies of messages the broker holds at a time
  NoCopy,          \* the message of a worker whose connection is gone
  MaxAttempts,     \* SHOPIFY_SYNC_MAX_ATTEMPTS
  MaxFaults,       \* bound: faults, errors and disconnections together
  DatabaseFails,   \* whether a statement of a delivery may fail
  PermanentErrors  \* whether a sync may fail for good

ASSUME SyncPipelineAssumption ==
  /\ NoCopy \notin Copies
  /\ MaxAttempts \in Nat \ {0}
  /\ MaxFaults \in Nat
  /\ DatabaseFails \in BOOLEAN
  /\ PermanentErrors \in BOOLEAN

\* There are finitely many workers and messages.
ASSUME PipelineFiniteAssumption ==
  IsFiniteSet(Workers) /\ IsFiniteSet(Copies)

VARIABLES
  outbox,     \* runs that have their row in outbox_jobs
  published,  \* jobs the outbox handed to the broker
  message,    \* the messages in the broker, by copy
  delivery,   \* per worker: the delivery it works on
  processed,  \* processed_jobs
  faults,     \* crashes, lost connections and lost confirms so far
  probing,    \* workers that StartSyncRun refused the run and that have yet to
              \* read its status
  errors,     \* failed statements, failed syncs, slow leases and
              \* disconnections so far
  adrift,     \* history: runs nothing in the broker answers for, because the
              \* database failed or a worker without a delivery started them
  awaited     \* history: events recorded since the store was last connected

\* A job is named by its run: each run is inserted with one.
Queue == INSTANCE JobQueue WITH
  Jobs   <- Runs,
  NoJob  <- NoRun,
  worker <- delivery

queueVars == <<published, message, delivery, processed, faults>>
stepVars  == <<vars, queueVars, outbox, probing, errors, adrift>>
pipeVars  == <<stepVars, awaited>>

-----------------------------------------------------------------------------
PipeTypeOK ==
  /\ TypeOK
  /\ Queue!TypeOK
  /\ outbox \subseteq Runs
  /\ probing \subseteq Workers
  /\ errors \in 0 .. MaxFaults
  /\ adrift \subseteq Runs
  /\ awaited \subseteq seen

PipeInit ==
  /\ Init
  /\ Queue!Init
  /\ outbox = {}
  /\ probing = {}
  /\ errors = 0
  /\ adrift = {}
  /\ awaited = {}

Error == errors' = errors + 1

\* The run of the delivery a worker is at.
Task(w) == delivery[w].job

\* The broker considers the delivery the worker's.
Linked(w) == delivery[w].copy # NoCopy

\* The worker has called Sync, and StartSyncRun comes next.
Called(w) ==
  /\ delivery[w].phase = "handling"
  /\ worker[w].stage = "idle"
  /\ w \notin probing

\* The outbox row that is inserted with a run.
EnqueueNew ==
  outbox' = outbox \cup {r \in Runs : status[r] = "none" /\ status'[r] = "queued"}

\* Bound: a run is only requested by hand while every webhook to come can
\* still have one of its own.
Spare ==
  Cardinality({r \in Runs : status[r] = "none"}) >
    Cardinality((1 .. MaxRevision) \ seen) + (IF resync THEN 1 ELSE 0)

-----------------------------------------------------------------------------
(* Administrator, merchant and webhooks.                                   *)

Environment ==
  /\ \/ (ShopChange \/ Connect) /\ UNCHANGED errors
     \/ Disconnect /\ Error
  /\ UNCHANGED <<queueVars, outbox, probing, adrift>>

RequestSync(r) ==
  /\ Spare
  /\ CreateSyncRun(r)
  /\ EnqueueNew
  /\ UNCHANGED <<queueVars, probing, errors, adrift>>

ReceiveWebhook ==
  /\ \E e \in 1 .. MaxRevision : WebhookLock(e) \/ WebhookIgnored(e)
  /\ UNCHANGED <<queueVars, outbox, probing, errors, adrift>>

FinishWebhook ==
  /\ WebhookFlag \/ WebhookEnqueue
  /\ EnqueueNew
  /\ UNCHANGED <<queueVars, probing, errors, adrift>>

AbortWebhook ==
  /\ WebhookAbort
  /\ Error
  /\ UNCHANGED <<queueVars, outbox, probing, adrift>>

-----------------------------------------------------------------------------
(* The queue, beside the runs.                                             *)

Beside == UNCHANGED <<vars, outbox, probing, adrift>>

Publish(r) ==
  /\ r \in outbox
  /\ Queue!Publish(r)
  /\ Beside
  /\ UNCHANGED errors

Deliver(w, c) == Queue!Deliver(w, c) /\ Beside /\ UNCHANGED errors

\* IsJobProcessed and MarkJobProcessed succeed, or fail and cost an attempt.
Record(w) ==
  /\ Queue!LookUp(w) \/ Queue!MarkProcessed(w)
  /\ IF delivery'[w].phase = "retrying"
       THEN DatabaseFails /\ Error
       ELSE UNCHANGED errors
  /\ Beside

\* The hand-over of a failed message.  A job that is buried because the
\* database failed leaves its run as it is.
HandOver(w) ==
  /\ Queue!HandOver(w)
  /\ adrift' = IF delivery[w].cause = "database" /\ ~Queue!Retries(w)
                 THEN adrift \cup {Task(w)} ELSE adrift
  /\ UNCHANGED <<vars, outbox, probing, errors>>

HandOverFails(w) == Queue!HandOverFails(w) /\ Beside /\ UNCHANGED errors

Ack(w) == Queue!Ack(w) /\ Beside /\ UNCHANGED errors

ConnectionLost(w) == Queue!ConnectionLost(w) /\ Beside /\ UNCHANGED errors

RetryElapses(c) == Queue!RetryElapses(c) /\ Beside /\ UNCHANGED errors

\* The process dies, in the middle of a sync or beside it.
Crash(w) ==
  /\ Queue!WorkerCrashes(w)
  /\ IF worker[w].stage = "idle" THEN UNCHANGED vars ELSE WorkerStops(w)
  /\ probing' = probing \ {w}
  /\ UNCHANGED <<outbox, errors, adrift>>

-----------------------------------------------------------------------------
(* Sync, inside the handler.                                               *)

Start(w) ==
  /\ Called(w)
  /\ StartSyncRun(w, Task(w))
  /\ adrift' = IF Linked(w) THEN adrift \ {Task(w)} ELSE adrift \cup {Task(w)}
  /\ UNCHANGED <<queueVars, outbox, probing, errors>>

\* The UPDATE of StartSyncRun violates the unique index: the run failed and
\* another one is active.
FindOtherRun(w) ==
  /\ Called(w)
  /\ status[Task(w)] = "failed"
  /\ ~NoActiveRun
  /\ Queue!HandlerFails(w, "busy")
  /\ Beside
  /\ UNCHANGED errors

\* The UPDATE matches no row: the run is completed, or running under a lease.
\* A second statement reads which.
StartMatchesNothing(w) ==
  /\ Called(w)
  /\ status[Task(w)] \in {"running", "completed"}
  /\ ~Startable(Task(w))
  /\ probing' = probing \cup {w}
  /\ UNCHANGED <<vars, queueVars, outbox, errors, adrift>>

\* Mutant: a run at work elsewhere is nothing left to do.
BusyIsDone(w) ==
  \/ status[Task(w)] \in {"completed", "running"} /\ Queue!HandlerSucceeds(w)
  \/ status[Task(w)] = "failed" /\ Queue!HandlerFails(w, "permanent")

\* What Sync answers once the status is known: nothing is left to do, the run
\* is busy, or it cannot start from this status, which is final.
Verdict(w) ==
  \/ status[Task(w)] = "completed" /\ Queue!HandlerSucceeds(w)
  \/ status[Task(w)] = "running" /\ Queue!HandlerFails(w, "busy")
  \/ status[Task(w)] \notin {"completed", "running"}
       /\ Queue!HandlerFails(w, "permanent")

ReadStatus(w) ==
  /\ w \in probing
  /\ Verdict(w)
  /\ probing' = probing \ {w}
  /\ UNCHANGED <<vars, outbox, errors, adrift>>

\* Either statement of StartSyncRun fails on the database: sync_failed, final.
StartFails(w) ==
  /\ DatabaseFails
  /\ Error
  /\ Called(w) \/ w \in probing
  /\ Queue!HandlerFails(w, "database")
  /\ probing' = probing \ {w}
  /\ UNCHANGED <<vars, outbox, adrift>>

Work(w) ==
  /\ \/ ResolveSyncTarget(w)
     \/ FetchCatalogue(w)
     \/ RenewBeforeCommit(w)
     \/ Heartbeat(w)
  /\ UNCHANGED <<queueVars, outbox, probing, errors, adrift>>

Commit(w) ==
  /\ ReplaceMirror(w)
  /\ EnqueueNew
  /\ UNCHANGED <<queueVars, probing, errors, adrift>>

Return(w) ==
  /\ SyncReturns(w)
  /\ Queue!HandlerSucceeds(w)
  /\ UNCHANGED <<outbox, probing, errors, adrift>>

\* A retryable provider error, a timeout, or a heartbeat that fails.
FailForNow(w) ==
  /\ Error
  /\ SyncFails(w)
  /\ Queue!HandlerFails(w, "transient")
  /\ UNCHANGED <<outbox, probing, adrift>>

\* What no retry can mend: the store is not connected when the sync or its
\* follow-up needs it, or the lease is lost before the commit.
Hopeless(w) ==
  \/ worker[w].stage = "started" /\ ~connected
  \/ worker[w].stage = "renewed" /\ resync /\ ~connected
  \/ Fetched(w) /\ ~Holds(w)

\* An error that classifyHandlerError takes for final.
FailForGood(w) ==
  /\ SyncFails(w)
  /\ Queue!HandlerFails(w, "permanent")
  /\ UNCHANGED <<outbox, probing, adrift>>

GiveUp(w) == Hopeless(w) /\ FailForGood(w) /\ UNCHANGED errors

FailUnexpectedly(w) == PermanentErrors /\ Error /\ FailForGood(w)

\* FailSyncRun fails and its error is dropped; the error that made the sync
\* fail decides about the job.
FailUnrecorded(w) ==
  /\ DatabaseFails
  /\ Error
  /\ Holds(w)
  /\ WorkerStops(w)
  /\ \/ Queue!HandlerFails(w, "transient")
     \/ (PermanentErrors \/ Hopeless(w)) /\ Queue!HandlerFails(w, "permanent")
  /\ adrift' = adrift \cup {Task(w)}
  /\ UNCHANGED <<outbox, probing>>

\* A lease runs out because its worker is gone.
Expire(r) ==
  /\ \A w \in Workers : Holds(w) => worker[w].run # r
  /\ LeaseExpires(r)
  /\ UNCHANGED <<queueVars, outbox, probing, errors, adrift>>

\* Its worker is too slow to renew it.
HeartbeatIsLate(w) ==
  /\ Holds(w)
  /\ LeaseExpires(worker[w].run)
  /\ Error
  /\ UNCHANGED <<queueVars, outbox, probing, adrift>>

-----------------------------------------------------------------------------
\* What a worker at a delivery does when nothing breaks.
Proceed(w) ==
  \/ Record(w)
  \/ HandOver(w)
  \/ Ack(w)
  \/ Start(w)
  \/ FindOtherRun(w)
  \/ StartMatchesNothing(w)
  \/ ReadStatus(w)
  \/ Work(w)
  \/ Commit(w)
  \/ Return(w)
  \/ GiveUp(w)

Break(w) ==
  \/ HandOverFails(w)
  \/ ConnectionLost(w)
  \/ Crash(w)
  \/ StartFails(w)
  \/ FailForNow(w)
  \/ FailUnexpectedly(w)
  \/ FailUnrecorded(w)
  \/ HeartbeatIsLate(w)

PipeStep ==
  \/ Environment
  \/ ReceiveWebhook
  \/ FinishWebhook
  \/ AbortWebhook
  \/ \E r \in Runs : RequestSync(r) \/ Publish(r) \/ Expire(r)
  \/ \E c \in Copies : RetryElapses(c) \/ \E w \in Workers : Deliver(w, c)
  \/ \E w \in Workers : Proceed(w) \/ Break(w)

\* Disconnecting the store ends every claim to be mirrored.
PipeNext ==
  /\ PipeStep
  /\ faults' + errors' <= MaxFaults
  /\ awaited' = IF connected' THEN awaited \cup (seen' \ seen) ELSE {}

\* The outbox publishes; queues are first in, first out; workers keep working
\* and Sync runs under a deadline; database transactions end; the retry TTL and
\* the lease of a dead worker run out.
Fairness ==
  /\ WF_stepVars(FinishWebhook)
  /\ WF_stepVars(\E r \in outbox \ published : Publish(r))
  /\ WF_stepVars(\E r \in Runs : Expire(r))
  /\ \A c \in Copies :
       /\ WF_stepVars(RetryElapses(c))
       /\ SF_stepVars(\E w \in Workers : Deliver(w, c))
  /\ \A w \in Workers : WF_stepVars(Proceed(w))

PipeSafe == PipeInit /\ [][PipeNext]_pipeVars
PipeSpec == PipeSafe /\ Fairness

-----------------------------------------------------------------------------
(* Properties.                                                             *)

\* The job of a run is still to come: in the outbox, in the main or the retry
\* queue, or with a worker that will settle it.
Pending(r) ==
  \/ r \in outbox \ published
  \/ \E c \in Copies :
       /\ message[c].job = r
       /\ \/ message[c].place \in {"main", "retry"}
          \/ \E w \in Workers : delivery[w].copy = c

\* A run that occupies the store's active slot always has a job that will end
\* it, however often the job is duplicated, retried or taken back, unless the
\* database failed at a statement that had to record the end of the run or used
\* up the attempts of its job, or the run was started by a worker whose delivery
\* the broker had already taken back.  A run without a job blocks every later
\* sync of the store, because of the unique index.
SlotIsFreed ==
  \A r \in Runs : Active(r) /\ r \notin adrift => Pending(r)

\* The same without the exception: a transient error is retried, so no run is
\* left behind without a job.
ActiveRunHasJob == \A r \in Runs : Active(r) => Pending(r)

\* A job is only recorded as processed when its run is completed: a delivery
\* that processDelivery skips never takes the last job away from a run that
\* some other delivery of the same job left unfinished.
ProcessedIsCompleted == \A r \in processed : status[r] = "completed"

\* Only an error no retry can mend sends a job to the dead queue before its
\* attempts are used up.
TransientErrorsAreRetried ==
  [][\A w \in Workers :
       delivery[w].phase = "handling" /\ delivery'[w].phase = "burying" =>
         Hopeless(w)]_pipeVars

\* A requested follow-up of a connected store has a run that will enqueue it.
FollowUpHasRun == resync /\ connected => \E r \in Runs : Pending(r)

\* What a webhook announced is mirrored in the end, unless the store is
\* disconnected: events that arrive while a run is fetching, committing,
\* failing or being restarted are no exception.
EventsAreMirrored ==
  \A e \in 1 .. MaxRevision : e \in awaited ~> mirror >= e \/ ~connected

\* Every job comes to rest: as long as the database works, no job goes round
\* for ever because it keeps finding its run, or another one, busy.
JobsComeToRest == \A r \in Runs : r \in published ~> ~Pending(r)

\* The pipeline is one of the systems SyncRuns describes, and one of those
\* JobQueue describes.
RunsRefined  == Spec
QueueRefined == Queue!Safe
=============================================================================
