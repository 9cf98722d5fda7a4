------------------------ MODULE SyncPipeline_proofs ------------------------
(* Theorems about SyncPipeline, for every set of runs, workers and copies   *)
(* and every bound.  The pipeline is one of the systems JobQueue describes  *)
(* and one of those SyncRuns describes, so the invariants of both carry     *)
(* over; they are the ground on which the invariant that ties runs to their *)
(* jobs is proved.                                                          *)
EXTENDS SyncPipeline, SyncRuns_proofs

QP == INSTANCE JobQueue_proofs WITH
  Jobs   <- Runs,
  NoJob  <- NoRun,
  worker <- delivery

-----------------------------------------------------------------------------
(* The pipeline implements JobQueue.                                        *)

\* Every step of the pipeline is a step of the queue or leaves it alone.
LEMMA StepQueues ==
  ASSUME PipeStep
  PROVE  [Queue!Next]_(Queue!vars)
<1> USE DEF Queue!Next, Queue!Works, Queue!Answers, Queue!vars, queueVars
<1>1. CASE Environment \/ ReceiveWebhook \/ FinishWebhook \/ AbortWebhook
  BY <1>1 DEF Environment, ReceiveWebhook, FinishWebhook, AbortWebhook
<1>2. ASSUME NEW r \in Runs, RequestSync(r) \/ Publish(r) \/ Expire(r)
      PROVE  [Queue!Next]_(Queue!vars)
  BY <1>2 DEF RequestSync, Publish, Expire
<1>3. ASSUME NEW c \in Copies, RetryElapses(c) \/ \E w \in Workers : Deliver(w, c)
      PROVE  [Queue!Next]_(Queue!vars)
  BY <1>3 DEF RetryElapses, Deliver
<1>4. ASSUME NEW w \in Workers,
             \/ Record(w) \/ HandOver(w) \/ Ack(w) \/ HandOverFails(w)
             \/ ConnectionLost(w) \/ Crash(w)
      PROVE  [Queue!Next]_(Queue!vars)
  BY <1>4 DEF Record, HandOver, Ack, HandOverFails, ConnectionLost, Crash
<1>5. ASSUME NEW w \in Workers,
             \/ FindOtherRun(w) \/ ReadStatus(w) \/ StartFails(w) \/ Return(w)
             \/ FailForNow(w) \/ GiveUp(w) \/ FailUnexpectedly(w)
             \/ FailUnrecorded(w)
      PROVE  [Queue!Next]_(Queue!vars)
  <2>1. {"transient", "busy", "permanent", "database"} \subseteq Queue!Causes
    BY DEF Queue!Causes
  <2>2. \/ Queue!HandlerSucceeds(w)
        \/ \E cause \in Queue!Causes : Queue!HandlerFails(w, cause)
    BY <1>5, <2>1 DEF FindOtherRun, ReadStatus, Verdict, StartFails, Return,
       FailForNow, GiveUp, FailUnexpectedly, FailForGood, FailUnrecorded
  <2>3. QED
    BY <2>2
<1>6. ASSUME NEW w \in Workers,
             \/ Start(w) \/ StartMatchesNothing(w) \/ Work(w) \/ Commit(w)
             \/ HeartbeatIsLate(w)
      PROVE  [Queue!Next]_(Queue!vars)
  BY <1>6 DEF Start, StartMatchesNothing, Work, Commit, HeartbeatIsLate
<1>7. QED
  BY <1>1, <1>2, <1>3, <1>4, <1>5, <1>6 DEF PipeStep, Proceed, Break

\* What is proved of JobQueue for every answer of the handler holds of the
\* answers that Sync gives.
THEOREM QueueIsRefined == PipeSafe => QueueRefined
<1>1. PipeInit => Queue!Init
  BY DEF PipeInit
<1>2. [PipeNext]_pipeVars => [Queue!Next]_(Queue!vars)
  BY StepQueues DEF PipeNext, pipeVars, stepVars, queueVars, Queue!vars
<1>3. QED
  BY <1>1, <1>2, PTL DEF PipeSafe, QueueRefined, Queue!Safe

Messages == [place : Queue!Places, job : Runs, attempt : Nat,
             cause : Queue!Causes \cup {"none"}]
Deliveries == [phase : Queue!Phases \ {"idle"}, job : Runs, attempt : Nat,
               cause : Queue!Causes \cup {"none"}, copy : Copies \cup {NoCopy}]

\* What the invariant of the queue says that is needed here.
QInv ==
  /\ Queue!TypeOK
  /\ \A w \in Workers : delivery[w].copy \in Copies =>
       /\ message[delivery[w].copy].place = "held"
       /\ message[delivery[w].copy].job = Task(w)
  /\ \A v, w \in Workers :
       v # w /\ delivery[v].copy \in Copies => delivery[v].copy # delivery[w].copy

\* The queue of the pipeline is the queue that JobQueue_proofs is about.
LEMMA QueueInvariance == PipeSafe => []QInv
<1>1. PipeSafe => QP!Safe
  <2>1. Queue!Init => QP!Init
    BY DEF Queue!Init, QP!Init, Queue!NoMessage, QP!NoMessage, Queue!Idle, QP!Idle
  <2>2. [Queue!Next]_(Queue!vars) => [QP!Next]_(QP!vars)
    BY DEF Queue!Next, QP!Next, Queue!vars, QP!vars, Queue!Publish, QP!Publish,
       Queue!Deliver, QP!Deliver, Queue!Works, QP!Works, Queue!Answers, QP!Answers,
       Queue!LookUp, QP!LookUp, Queue!MarkProcessed, QP!MarkProcessed,
       Queue!HandOver, QP!HandOver, Queue!Ack, QP!Ack, Queue!HandlerSucceeds,
       QP!HandlerSucceeds, Queue!HandlerFails, QP!HandlerFails,
       Queue!HandOverFails, QP!HandOverFails, Queue!ConnectionLost,
       QP!ConnectionLost, Queue!WorkerCrashes, QP!WorkerCrashes,
       Queue!RetryElapses, QP!RetryElapses, Queue!Fault, QP!Fault, Queue!Free,
       QP!Free, Queue!Added, QP!Added, Queue!Advance, QP!Advance, Queue!Fail,
       QP!Fail, Queue!Retries, QP!Retries, Queue!HandedOver, QP!HandedOver,
       Queue!Requeued, QP!Requeued, Queue!Idle, QP!Idle, Queue!NoMessage,
       QP!NoMessage, Queue!Causes, QP!Causes, Queue!Retryable, QP!Retryable
  <2>3. QED
    BY <2>1, <2>2, QueueIsRefined, PTL DEF QueueRefined, Queue!Safe, QP!Safe
<1>2. QP!IInv => QInv
  BY DEF QP!IInv, QP!TypeOK, QInv, Queue!TypeOK, QP!HoldsWhatItReceived,
         QP!HoldApart, QP!Held, Task, QP!NoMessage, Queue!NoMessage, QP!Idle, Queue!Idle,
         QP!Places, QP!Phases, QP!Causes, Queue!Places, Queue!Phases, Queue!Causes
<1>3. /\ NoRun \notin Runs
      /\ NoCopy \notin Copies
      /\ MaxAttempts \in Nat \ {0}
      /\ MaxFaults \in Nat
  BY SyncRunsAssumption, SyncPipelineAssumption
<1>4. QP!IsFiniteSet(Workers) /\ QP!IsFiniteSet(Copies)
  BY PipelineFiniteAssumption DEF IsFiniteSet, QP!IsFiniteSet
<1>5. QED
  BY <1>1, <1>2, <1>3, <1>4, QP!IInvHolds, PTL

-----------------------------------------------------------------------------
(* The pipeline implements SyncRuns.                                        *)

\* Every step of the pipeline is a step of SyncRuns or leaves runs alone.
LEMMA StepRefines ==
  ASSUME Queue!TypeOK, LeasesDistinct, PipeStep
  PROVE  [Next]_vars
<1> USE DEF Next, WorkerStep, WebhookStep
<1>1. CASE Environment \/ ReceiveWebhook \/ FinishWebhook \/ AbortWebhook
  BY <1>1 DEF Environment, ReceiveWebhook, FinishWebhook, AbortWebhook
<1>2. ASSUME NEW r \in Runs, RequestSync(r) \/ Publish(r) \/ Expire(r)
      PROVE  [Next]_vars
  BY <1>2 DEF RequestSync, Publish, Expire, Beside
<1>3. ASSUME NEW c \in Copies, RetryElapses(c) \/ \E w \in Workers : Deliver(w, c)
      PROVE  [Next]_vars
  BY <1>3 DEF RetryElapses, Deliver, Beside
<1>4. ASSUME NEW w \in Workers,
             \/ Record(w) \/ HandOver(w) \/ Ack(w) \/ FindOtherRun(w)
             \/ StartMatchesNothing(w) \/ ReadStatus(w) \/ HandOverFails(w)
             \/ ConnectionLost(w) \/ StartFails(w)
      PROVE  [Next]_vars
  BY <1>4 DEF Record, HandOver, Ack, FindOtherRun, StartMatchesNothing,
     ReadStatus, HandOverFails, ConnectionLost, StartFails, Beside
<1>5. ASSUME NEW w \in Workers, Start(w)
      PROVE  [Next]_vars
  <2>1. delivery[w] \in {Queue!Idle} \cup Deliveries /\ delivery[w].phase # "idle"
    BY <1>5 DEF Start, Called, Queue!TypeOK, Deliveries
  <2>2. Task(w) \in Runs
    BY <2>1 DEF Queue!Idle, Deliveries, Task
  <2>3. QED
    BY <1>5, <2>2 DEF Start
<1>6. ASSUME NEW w \in Workers,
             \/ Work(w) \/ Commit(w) \/ Return(w) \/ GiveUp(w) \/ Crash(w)
             \/ FailForNow(w) \/ FailUnexpectedly(w) \/ FailUnrecorded(w)
      PROVE  [Next]_vars
  BY <1>6 DEF Work, Commit, Return, GiveUp, Crash, FailForNow, FailUnexpectedly,
     FailForGood, FailUnrecorded
<1>7. ASSUME NEW w \in Workers, HeartbeatIsLate(w)
      PROVE  [Next]_vars
  BY <1>7 DEF HeartbeatIsLate, Holds, LeasesDistinct
<1>8. QED
  BY <1>1, <1>2, <1>3, <1>4, <1>5, <1>6, <1>7 DEF PipeStep, Proceed, Break

LEMMA StepRefinesHere ==
  IInv /\ QInv /\ [PipeNext]_pipeVars => [Next]_vars
<1>1. QED
  BY StepRefines DEF IInv, QInv, PipeNext, pipeVars, stepVars

\* The invariant of SyncRuns, with the jobs.
LEMMA RunsInvariance == PipeSafe => []IInv
<1>1. PipeInit => IInv
  BY InitEstablishes DEF PipeInit
<1>2. IInv /\ QInv /\ [PipeNext]_pipeVars => IInv'
  BY StepRefinesHere, TypePreserved, LeasesPreserved, OneActivePreserved,
     BatchPreserved, HookPreserved, LostPreserved DEF IInv
<1>3. QED
  BY <1>1, <1>2, QueueInvariance, PTL DEF PipeSafe

\* The pipeline only restricts SyncRuns: whatever holds of runs that are
\* started in any order holds of runs driven by their jobs.
THEOREM RunsAreRefined == PipeSafe => RunsRefined
<1>1. PipeInit => Init
  BY DEF PipeInit
<1>2. QED
  BY <1>1, StepRefinesHere, RunsInvariance, QueueInvariance, PTL
     DEF PipeSafe, RunsRefined, Spec

\* One worker at a time may write the mirror, with jobs that are delivered
\* twice, late or by a broker that gave up on a worker.
THEOREM PipelineHasOneWriter == PipeSafe => []SingleWriter
<1>1. QED
  BY RunsAreRefined, OneWriter, PTL DEF RunsRefined

\* The promise to the readers of the mirror, with jobs.
THEOREM PipelineKeepsMirrorFresh == PipeSafe => KeepsMirrorFresh
<1>1. QED
  BY RunsAreRefined, MirrorIsKeptFresh, PTL DEF RunsRefined

\* A recorded change is always covered, with jobs.
THEOREM PipelineKeepsChanges == PipeSafe => []NoLostChange
<1>1. QED
  BY RunsAreRefined, ChangesAreKept, PTL DEF RunsRefined

-----------------------------------------------------------------------------
(* The invariant that ties runs to their jobs.                              *)

\* A worker inside Sync is at the run of the delivery it handles, and one that
\* was refused its run is not inside Sync.
TasksMatch ==
  /\ \A w \in Workers : worker[w].stage # "idle" =>
       /\ delivery[w].phase = "handling"
       /\ worker[w].run = Task(w)
       /\ w \notin probing
  /\ \A w \in probing : w \in Workers /\ delivery[w].phase = "handling"

\* There is a row in outbox_jobs, and a job in the broker, only for a run that
\* exists; a run whose start was refused has been started before.
JobsFollowRuns ==
  /\ \A r \in outbox : r \in Runs /\ status[r] # "none"
  /\ published \subseteq outbox
  /\ \A w \in probing : status[Task(w)] \notin {"none", "queued"}

\* Nothing is called done that is not.
DoneIsCompleted ==
  /\ ProcessedIsCompleted
  /\ \A w \in Workers :
       /\ worker[w].stage = "committed" => status[worker[w].run] = "completed"
       /\ delivery[w].phase = "handled" => status[Task(w)] = "completed"

\* The worker's delivery cannot come to its end as things are and leave its run
\* active, unless the database fails: the worker has yet to start the run, or
\* holds its lease, or is going to send the job again.
Minds(w) ==
  \/ delivery[w].phase = "received"
  \/ delivery[w].phase = "handling" /\ (worker[w].stage = "idle" \/ Holds(w))
  \/ Queue!Retries(w)
  \/ delivery[w].phase \in {"retrying", "burying"} /\ delivery[w].cause = "database"

\* A copy of the job of a run that takes care of it.
CaresFor(c, r) ==
  /\ message[c].job = r
  /\ \/ message[c].place \in {"main", "retry"}
     \/ \E w \in Workers : delivery[w].copy = c /\ Minds(w)

InCare(r) == r \in outbox \ published \/ \E c \in Copies : CaresFor(c, r)

\* SlotIsFreed, strengthened: not any copy of the job will do.
ActiveIsInCare == \A r \in Runs : Active(r) /\ r \notin adrift => InCare(r)

\* What PipeTypeOK says of the variables neither SyncRuns nor JobQueue has.
OwnTypeOK ==
  /\ outbox \subseteq Runs
  /\ probing \subseteq Workers
  /\ errors \in 0 .. MaxFaults
  /\ adrift \subseteq Runs

JInv == OwnTypeOK /\ TasksMatch /\ JobsFollowRuns /\ DoneIsCompleted /\ ActiveIsInCare

-----------------------------------------------------------------------------
(* What the steps do to deliveries.                                         *)

\* The fields of a delivery, and of no delivery.
LEMMA DeliveryTypes ==
  ASSUME Queue!TypeOK
  PROVE  /\ \A w \in Workers :
              /\ delivery[w] \in {Queue!Idle} \cup Deliveries
              /\ delivery[w].phase # "idle" =>
                   delivery[w] \in Deliveries /\ Task(w) \in Runs
         /\ Queue!Idle.phase = "idle" /\ Queue!Idle.copy = NoCopy
         /\ NoCopy \notin Copies
         /\ delivery \in [Workers -> {Queue!Idle} \cup Deliveries]
<1>1. QED
  BY SyncPipelineAssumption DEF Queue!TypeOK, Deliveries, Queue!Idle, Task

\* Of the queue, a step at the worker w touches the delivery of w, the copy it
\* holds and free copies only.
Spares(w) ==
  /\ \A v \in Workers \ {w} : delivery'[v] = delivery[v]
  /\ \A c \in Copies :
       c # delivery[w].copy /\ message[c] # Queue!NoMessage => message'[c] = message[c]
  /\ published' = published

\* The worker goes on with its delivery, inside the handler or around it.
GoesOn(w, phase) ==
  /\ \A v \in Workers \ {w} : delivery'[v] = delivery[v]
  /\ delivery'[w].phase = phase
  /\ delivery'[w].copy = delivery[w].copy
  /\ delivery'[w].job = delivery[w].job
  /\ delivery'[w].attempt = delivery[w].attempt
  /\ UNCHANGED <<message, published>>

LEMMA AdvanceGoesOn ==
  ASSUME Queue!TypeOK, NEW w \in Workers, NEW phase,
         Queue!Advance(w, phase), delivery[w].phase # "idle",
         UNCHANGED <<message, published>>
  PROVE  GoesOn(w, phase) /\ delivery'[w].cause = delivery[w].cause
<1>1. delivery[w] \in Deliveries
  BY DeliveryTypes
<1>2. delivery' = [delivery EXCEPT ![w] = [delivery[w] EXCEPT !.phase = phase]]
  BY DEF Queue!Advance
<1>3. QED
  BY <1>1, <1>2, DeliveryTypes DEF GoesOn, Deliveries

LEMMA FailGoesOn ==
  ASSUME Queue!TypeOK, NEW w \in Workers, NEW phase, NEW cause,
         Queue!Fail(w, phase, cause), delivery[w].phase # "idle",
         UNCHANGED <<message, published>>
  PROVE  GoesOn(w, phase) /\ delivery'[w].cause = cause
<1>1. delivery[w] \in Deliveries
  BY DeliveryTypes
<1>2. delivery' = [delivery EXCEPT ![w] =
                     [delivery[w] EXCEPT !.phase = phase, !.cause = cause]]
  BY DEF Queue!Fail
<1>3. QED
  BY <1>1, <1>2, DeliveryTypes DEF GoesOn, Deliveries

\* IsJobProcessed, MarkJobProcessed and the answers of the handler.
LEMMA LookUpFacts ==
  ASSUME Queue!TypeOK, NEW w \in Workers, Queue!LookUp(w)
  PROVE  /\ delivery[w].phase = "received" /\ processed' = processed
         /\ \/ GoesOn(w, "acking") /\ Task(w) \in processed
            \/ GoesOn(w, "handling")
            \/ GoesOn(w, "retrying") /\ delivery'[w].cause = "database"
<1>1. QED
  BY AdvanceGoesOn, FailGoesOn DEF Queue!LookUp, Task

LEMMA MarkFacts ==
  ASSUME Queue!TypeOK, NEW w \in Workers, Queue!MarkProcessed(w)
  PROVE  /\ delivery[w].phase = "handled"
         /\ \/ GoesOn(w, "acking") /\ processed' = processed \cup {Task(w)}
            \/ GoesOn(w, "retrying") /\ processed' = processed
<1>1. QED
  BY AdvanceGoesOn, FailGoesOn DEF Queue!MarkProcessed, Task

LEMMA SucceedsFacts ==
  ASSUME Queue!TypeOK, NEW w \in Workers, Queue!HandlerSucceeds(w)
  PROVE  delivery[w].phase = "handling" /\ GoesOn(w, "handled") /\ processed' = processed
<1>1. QED
  BY AdvanceGoesOn DEF Queue!HandlerSucceeds

LEMMA FailsFacts ==
  ASSUME Queue!TypeOK, NEW w \in Workers, NEW cause, Queue!HandlerFails(w, cause)
  PROVE  /\ delivery[w].phase = "handling" /\ delivery'[w].cause = cause
         /\ IF cause \in {"transient", "busy"} THEN GoesOn(w, "retrying")
                                               ELSE GoesOn(w, "burying")
         /\ processed' = processed
<1>1. QED
  BY FailGoesOn DEF Queue!HandlerFails, Queue!Retryable

\* The broker with one more message in it.
LEMMA AddedSpares ==
  ASSUME NEW m, NEW broker \in [Copies -> {Queue!NoMessage} \cup Messages],
         \E c \in Copies : broker[c] = Queue!NoMessage,
         message' = Queue!Added(m, broker)
  PROVE  /\ \A c \in Copies : broker[c] # Queue!NoMessage => message'[c] = broker[c]
         /\ \E c \in Copies : message'[c] = m
<1>1. PICK c \in Copies : /\ broker[c] = Queue!NoMessage
                          /\ message' = [broker EXCEPT ![c] = m]
  BY DEF Queue!Added
<1>2. QED
  BY <1>1

\* The broker takes back what a worker holds.
LEMMA RequeuedSpares ==
  ASSUME QInv, NEW w \in Workers
  PROVE  /\ Queue!Requeued(w) \in [Copies -> {Queue!NoMessage} \cup Messages]
         /\ \A c \in Copies \ {delivery[w].copy} : Queue!Requeued(w)[c] = message[c]
         /\ delivery[w].copy \in Copies =>
              /\ Queue!Requeued(w)[delivery[w].copy].place = "main"
              /\ Queue!Requeued(w)[delivery[w].copy].job = Task(w)
<1>1. message \in [Copies -> {Queue!NoMessage} \cup Messages]
  BY DEF QInv, Queue!TypeOK, Messages
<1>2. CASE delivery[w].copy = NoCopy
  BY <1>1, <1>2, DeliveryTypes DEF QInv, Queue!Requeued
<1>3. CASE delivery[w].copy \in Copies
  <2>1. message[delivery[w].copy].place = "held" /\ message[delivery[w].copy].job = Task(w)
    BY <1>3 DEF QInv
  <2>2. message[delivery[w].copy] \in Messages
    BY <1>1, <1>3, <2>1 DEF Queue!NoMessage
  <2>3. QED
    BY <1>1, <1>3, <2>1, <2>2, SyncPipelineAssumption
       DEF Queue!Requeued, Messages, Queue!Places
<1>4. QED
  BY <1>2, <1>3, DeliveryTypes DEF QInv, Deliveries

LEMMA HandOverFacts ==
  ASSUME QInv, NEW w \in Workers, Queue!HandOver(w)
  PROVE  /\ Spares(w) /\ processed' = processed
         /\ delivery[w].phase \in {"retrying", "burying"}
         /\ delivery'[w].phase = "acking"
         /\ Queue!Retries(w) =>
              \E c \in Copies : message'[c].place = "retry" /\ message'[c].job = Task(w)
<1>1. /\ message \in [Copies -> {Queue!NoMessage} \cup Messages]
      /\ \E c \in Copies : message[c] = Queue!NoMessage
  BY DEF Queue!HandOver, Queue!Free, QInv, Queue!TypeOK, Messages
<1>2. /\ \A c \in Copies : message[c] # Queue!NoMessage => message'[c] = message[c]
      /\ \E c \in Copies : message'[c] = Queue!HandedOver(w)
  BY <1>1, AddedSpares DEF Queue!HandOver
<1>3. delivery[w] \in Deliveries
  BY DeliveryTypes DEF Queue!HandOver, QInv
<1>4. /\ \A v \in Workers \ {w} : delivery'[v] = delivery[v]
      /\ delivery'[w].phase = "acking"
  BY <1>3, DeliveryTypes DEF Queue!HandOver, Queue!Advance, Deliveries, QInv
<1>5. Queue!Retries(w) =>
        Queue!HandedOver(w).place = "retry" /\ Queue!HandedOver(w).job = Task(w)
  BY DEF Queue!HandedOver, Task
<1>6. QED
  BY <1>2, <1>4, <1>5 DEF Queue!HandOver, Spares

\* The worker lets go of its delivery, and the broker takes it back.
TakenBack(w) ==
  delivery[w].copy \in Copies =>
    /\ message'[delivery[w].copy].place = "main"
    /\ message'[delivery[w].copy].job = Task(w)

LEMMA HandOverFailsFacts ==
  ASSUME QInv, NEW w \in Workers, Queue!HandOverFails(w)
  PROVE  /\ Spares(w) /\ processed' = processed /\ TakenBack(w)
         /\ delivery[w].phase \in {"retrying", "burying"}
         /\ delivery'[w] = Queue!Idle
<1>1. /\ processed' = processed /\ published' = published
      /\ delivery[w].phase \in {"retrying", "burying"}
      /\ delivery' = [delivery EXCEPT ![w] = Queue!Idle]
  BY DEF Queue!HandOverFails
<1>2. /\ delivery'[w] = Queue!Idle
      /\ \A v \in Workers \ {w} : delivery'[v] = delivery[v]
  BY <1>1, DeliveryTypes DEF QInv
<1>3. CASE message' = Queue!Requeued(w)
  BY <1>1, <1>2, <1>3, RequeuedSpares DEF Spares, TakenBack
<1>4. CASE Queue!Free # {} /\ message' = Queue!Added(Queue!HandedOver(w), Queue!Requeued(w))
  <2>1. PICK d \in Copies : message[d] = Queue!NoMessage
    BY <1>4 DEF Queue!Free
  <2>2. d # delivery[w].copy
    BY <2>1 DEF QInv, Queue!NoMessage
  <2>3. \A c \in Copies : Queue!Requeued(w)[c] # Queue!NoMessage =>
          message'[c] = Queue!Requeued(w)[c]
    BY <1>4, <2>1, <2>2, RequeuedSpares, AddedSpares
  <2>4. delivery[w].copy \in Copies =>
          Queue!Requeued(w)[delivery[w].copy] # Queue!NoMessage
    BY RequeuedSpares DEF Queue!NoMessage
  <2>5. QED
    BY <1>1, <1>2, <2>3, <2>4, RequeuedSpares DEF Spares, TakenBack
<1>5. QED
  BY <1>3, <1>4 DEF Queue!HandOverFails

LEMMA CrashFacts ==
  ASSUME QInv, NEW w \in Workers, Queue!WorkerCrashes(w)
  PROVE  /\ Spares(w) /\ processed' = processed /\ TakenBack(w)
         /\ delivery'[w] = Queue!Idle
<1>1. delivery' = [delivery EXCEPT ![w] = Queue!Idle]
  BY DEF Queue!WorkerCrashes
<1>2. QED
  BY <1>1, RequeuedSpares, DeliveryTypes
     DEF Queue!WorkerCrashes, Spares, TakenBack, QInv

LEMMA ConnectionLostFacts ==
  ASSUME QInv, NEW w \in Workers, Queue!ConnectionLost(w)
  PROVE  /\ Spares(w) /\ processed' = processed /\ TakenBack(w)
         /\ delivery'[w].phase = delivery[w].phase
         /\ delivery'[w].job = delivery[w].job
<1>1. /\ delivery[w] \in Deliveries
      /\ delivery' = [delivery EXCEPT ![w] = [delivery[w] EXCEPT !.copy = NoCopy]]
  BY DeliveryTypes DEF Queue!ConnectionLost, QInv
<1>2. QED
  BY <1>1, RequeuedSpares, DeliveryTypes
     DEF Queue!ConnectionLost, Spares, TakenBack, QInv, Deliveries

LEMMA AckFacts ==
  ASSUME QInv, NEW w \in Workers, Queue!Ack(w)
  PROVE  /\ Spares(w) /\ processed' = processed
         /\ delivery[w].phase = "acking"
         /\ delivery'[w] = Queue!Idle
<1>1. delivery' = [delivery EXCEPT ![w] = Queue!Idle]
  BY DEF Queue!Ack
<1>2. message \in [Copies -> {Queue!NoMessage} \cup Messages]
  BY DEF QInv, Queue!TypeOK, Messages
<1>3. QED
  BY <1>1, <1>2, DeliveryTypes DEF Queue!Ack, Spares, QInv

-----------------------------------------------------------------------------
(* Preservation, one conjunct at a time.                                    *)

\* Only the worker w moves.
OthersStay(w) ==
  /\ \A v \in Workers \ {w} : delivery'[v] = delivery[v] /\ worker'[v] = worker[v]
  /\ probing' \subseteq probing \cup {w}

\* The worker w, alone, still is where its delivery says.
LEMMA MatchKept ==
  ASSUME TasksMatch, NEW w \in Workers, OthersStay(w),
         worker'[w].stage # "idle" =>
           /\ delivery'[w].phase = "handling"
           /\ worker'[w].run = delivery'[w].job
           /\ w \notin probing',
         w \in probing' => delivery'[w].phase = "handling"
  PROVE  TasksMatch'
<1>1. QED
  BY DEF TasksMatch, OthersStay, Task

\* Inside Sync a worker is at its stages, and the delivery stays.
LEMMA StagesMatch ==
  ASSUME TypeOK, TasksMatch, NEW w \in Workers,
         worker[w].stage # "idle", UNCHANGED <<delivery, probing>>,
         Work(w) \/ ReplaceMirror(w)
  PROVE  TasksMatch'
<1>1. worker[w] \in [stage : Stages, run : Runs \cup {NoRun}, lease : Lease, batch : Revision]
  BY DEF TypeOK
<1>2. /\ worker'[w].run = worker[w].run
      /\ \A v \in Workers \ {w} : worker'[v] = worker[v]
  <2>1. CASE ResolveSyncTarget(w) \/ RenewBeforeCommit(w) \/ ReplaceMirror(w)
    BY <1>1, <2>1 DEF ResolveSyncTarget, RenewBeforeCommit, ReplaceMirror, Advance, TypeOK
  <2>2. CASE FetchCatalogue(w)
    BY <1>1, <2>2 DEF FetchCatalogue, TypeOK
  <2>3. CASE Heartbeat(w)
    BY <2>3 DEF Heartbeat
  <2>4. QED
    BY <2>1, <2>2, <2>3 DEF Work
<1>3. QED
  BY <1>2, MatchKept DEF OthersStay, TasksMatch, Task

\* A worker that leaves Sync, or is not in it.
LEMMA LeavingMatches ==
  ASSUME TypeOK, TasksMatch, NEW w \in Workers, OthersStay(w),
         worker'[w].stage = "idle", w \notin probing'
  PROVE  TasksMatch'
<1>1. QED
  BY MatchKept

\* A worker is inside Sync, or has been refused its run, only in the handler.
LEMMA OutsideHandler ==
  ASSUME TasksMatch, NEW w \in Workers, delivery[w].phase # "handling"
  PROVE  worker[w].stage = "idle" /\ w \notin probing
<1>1. QED
  BY DEF TasksMatch

\* The steps that leave the worker Idle.
LEMMA LeavesSync ==
  ASSUME TypeOK, NEW w \in Workers, SyncReturns(w) \/ SyncFails(w) \/ WorkerStops(w)
  PROVE  /\ worker'[w].stage = "idle"
         /\ \A v \in Workers \ {w} : worker'[v] = worker[v]
<1>1. worker' = [worker EXCEPT ![w] = Idle]
  BY DEF SyncReturns, SyncFails, WorkerStops
<1>2. QED
  BY <1>1 DEF TypeOK, Idle

\* A worker stays with its delivery until it leaves Sync.
LEMMA TasksMatchPreserved ==
  ASSUME TypeOK, QInv, TasksMatch, PipeStep
  PROVE  TasksMatch'
<1> USE DEF QInv
<1>0. TypeOK /\ Queue!TypeOK
  OBVIOUS
<1>1. CASE Environment \/ ReceiveWebhook \/ FinishWebhook \/ AbortWebhook
  <2>1. UNCHANGED <<delivery, worker, probing>>
    BY <1>1 DEF Environment, ShopChange, Connect, Disconnect, ReceiveWebhook,
       WebhookLock, WebhookIgnored, FinishWebhook, WebhookFlag, WebhookEnqueue,
       AbortWebhook, WebhookAbort, queueVars
  <2>2. QED
    BY <2>1 DEF TasksMatch, Task
<1>2. ASSUME NEW r \in Runs, RequestSync(r) \/ Publish(r) \/ Expire(r)
      PROVE  TasksMatch'
  <2>1. UNCHANGED <<delivery, worker, probing>>
    BY <1>2 DEF RequestSync, CreateSyncRun, Publish, Queue!Publish, Beside, Expire,
       LeaseExpires, queueVars, vars
  <2>2. QED
    BY <2>1 DEF TasksMatch, Task
<1>3. ASSUME NEW c \in Copies, RetryElapses(c)
      PROVE  TasksMatch'
  BY <1>3 DEF RetryElapses, Queue!RetryElapses, Beside, vars, TasksMatch, Task
<1>4. ASSUME NEW w \in Workers, NEW c \in Copies, Deliver(w, c)
      PROVE  TasksMatch'
  <2>1. OthersStay(w) /\ worker' = worker /\ probing' = probing
    BY <1>4 DEF Deliver, Queue!Deliver, Beside, vars, OthersStay, Queue!TypeOK
  <2>2. worker[w].stage = "idle" /\ w \notin probing
    BY <1>4, OutsideHandler, DeliveryTypes DEF Deliver, Queue!Deliver
  <2>3. QED
    BY <2>1, <2>2, LeavingMatches
<1>5. ASSUME NEW w \in Workers, Record(w) \/ HandOver(w) \/ Ack(w) \/ HandOverFails(w)
      PROVE  TasksMatch'
  <2>1. OthersStay(w) /\ worker' = worker /\ probing' = probing
    BY <1>5, LookUpFacts, MarkFacts, HandOverFacts, AckFacts, HandOverFailsFacts
       DEF Record, HandOver, Ack, HandOverFails, Beside, vars, OthersStay, Spares, GoesOn
  <2>2. worker[w].stage = "idle" /\ w \notin probing
    BY <1>5, OutsideHandler, LookUpFacts, MarkFacts, HandOverFacts, AckFacts,
       HandOverFailsFacts DEF Record, HandOver, Ack, HandOverFails
  <2>3. QED
    BY <2>1, <2>2, LeavingMatches
<1>6. ASSUME NEW w \in Workers, ConnectionLost(w)
      PROVE  TasksMatch'
  BY <1>6, ConnectionLostFacts, MatchKept
     DEF ConnectionLost, Beside, vars, OthersStay, Spares, TasksMatch, Task
<1>7. ASSUME NEW w \in Workers, Crash(w)
      PROVE  TasksMatch'
  <2>1. /\ worker'[w].stage = "idle"
        /\ \A v \in Workers \ {w} : worker'[v] = worker[v]
    BY <1>7, LeavesSync DEF Crash, vars
  <2>2. QED
    BY <1>7, <2>1, CrashFacts, LeavingMatches DEF Crash, OthersStay, Spares
<1>8. ASSUME NEW w \in Workers, Start(w)
      PROVE  TasksMatch'
  <2>1. /\ worker'[w].run = Task(w)
        /\ \A v \in Workers \ {w} : worker'[v] = worker[v]
    BY <1>8 DEF Start, StartSyncRun, TypeOK
  <2>2. delivery[w].phase = "handling" /\ w \notin probing
    BY <1>8 DEF Start, Called
  <2>3. UNCHANGED <<delivery, probing>>
    BY <1>8 DEF Start, queueVars
  <2>4. QED
    BY <2>1, <2>2, <2>3, MatchKept DEF OthersStay, Task
<1>9. ASSUME NEW w \in Workers, FindOtherRun(w) \/ ReadStatus(w) \/ StartFails(w)
      PROVE  TasksMatch'
  <2>1. worker[w].stage = "idle" /\ worker' = worker
    BY <1>9 DEF FindOtherRun, ReadStatus, StartFails, Called, Beside, vars, TasksMatch
  <2>2. probing' \subseteq probing /\ w \notin probing'
    BY <1>9 DEF FindOtherRun, ReadStatus, StartFails, Called, Beside
  <2>3. \A v \in Workers \ {w} : delivery'[v] = delivery[v]
    BY <1>9, <1>0, SucceedsFacts, FailsFacts
       DEF FindOtherRun, ReadStatus, Verdict, StartFails, GoesOn
  <2>4. QED
    BY <2>1, <2>2, <2>3, LeavingMatches DEF OthersStay
<1>10. ASSUME NEW w \in Workers, StartMatchesNothing(w)
       PROVE  TasksMatch'
  BY <1>10, MatchKept DEF StartMatchesNothing, Called, vars, queueVars, OthersStay
<1>11. ASSUME NEW w \in Workers, Work(w) \/ Commit(w)
       PROVE  TasksMatch'
  <2>1. worker[w].stage # "idle" /\ UNCHANGED <<delivery, probing>>
    BY <1>11 DEF Work, Commit, ResolveSyncTarget, FetchCatalogue, RenewBeforeCommit,
       Heartbeat, ReplaceMirror, queueVars
  <2>2. QED
    BY <1>11, <2>1, StagesMatch DEF Commit
<1>12. ASSUME NEW w \in Workers,
              \/ Return(w) \/ FailForNow(w) \/ GiveUp(w) \/ FailUnexpectedly(w)
              \/ FailUnrecorded(w)
       PROVE  TasksMatch'
  <2>1. SyncReturns(w) \/ SyncFails(w) \/ WorkerStops(w)
    BY <1>12 DEF Return, FailForNow, GiveUp, FailUnexpectedly, FailForGood, FailUnrecorded
  <2>2. worker[w].stage # "idle" /\ probing' = probing
    BY <1>12, <2>1 DEF SyncReturns, SyncFails, WorkerStops, Return, FailForNow,
       GiveUp, FailUnexpectedly, FailForGood, FailUnrecorded
  <2>3. \A v \in Workers \ {w} : delivery'[v] = delivery[v]
    BY <1>12, <1>0, SucceedsFacts, FailsFacts
       DEF Return, FailForNow, GiveUp, FailUnexpectedly, FailForGood, FailUnrecorded, GoesOn
  <2>4. w \notin probing
    BY <2>2 DEF TasksMatch
  <2>5. QED
    BY <2>1, <2>2, <2>3, <2>4, LeavesSync, LeavingMatches DEF OthersStay
<1>13. ASSUME NEW w \in Workers, HeartbeatIsLate(w)
       PROVE  TasksMatch'
  BY <1>13 DEF HeartbeatIsLate, LeaseExpires, queueVars, TasksMatch, Task
<1>14. QED
  BY <1>1, <1>2, <1>3, <1>4, <1>5, <1>6, <1>7, <1>8, <1>9, <1>10, <1>11, <1>12,
     <1>13 DEF PipeStep, Proceed, Break

\* A run never becomes younger, and a completed one stays completed.
RunsAge ==
  \A r \in Runs :
    /\ status'[r] = "none" => status[r] = "none"
    /\ status'[r] = "queued" => status[r] \in {"none", "queued"}
    /\ status[r] = "completed" => status'[r] = "completed"

\* Every step of SyncRuns lets runs age.
LEMMA StepAgesRuns ==
  ASSUME TypeOK, [Next]_vars
  PROVE  RunsAge
<1> USE DEF TypeOK, RunsAge
<1>1. CASE status' = status
  BY <1>1
<1>2. ASSUME NEW r \in Runs, CreateSyncRun(r)
      PROVE  RunsAge
  BY <1>2 DEF CreateSyncRun
<1>3. CASE WebhookEnqueue
  BY <1>3 DEF WebhookEnqueue
<1>4. ASSUME NEW w \in Workers, NEW r \in Runs, StartSyncRun(w, r)
      PROVE  RunsAge
  BY <1>4 DEF StartSyncRun, Startable
<1>5. ASSUME NEW w \in Workers, ReplaceMirror(w)
      PROVE  RunsAge
  BY <1>5 DEF ReplaceMirror, CompleteRun
<1>6. ASSUME NEW w \in Workers, SyncFails(w)
      PROVE  RunsAge
  BY <1>6 DEF SyncFails, Holds
<1>7. QED
  BY <1>1, <1>2, <1>3, <1>4, <1>5, <1>6
  DEF Next, WorkerStep, WebhookStep, vars, runVars, storeVars, hookVars,
      ShopChange, Connect, Disconnect, WebhookLock, WebhookFlag, WebhookAbort,
      WebhookIgnored, ResolveSyncTarget, FetchCatalogue, Heartbeat,
      RenewBeforeCommit, SyncReturns, WorkerStops, LeaseExpires

\* Who may call a run done, or says that its start was refused.
Honest(w) ==
  /\ w \in probing' =>
       /\ Task(w)' = Task(w)
       /\ w \in probing \/ status[Task(w)] \in {"running", "completed"}
  /\ worker'[w].stage = "committed" =>
       /\ worker'[w].run = worker[w].run
       /\ worker[w].stage = "committed" \/ status'[worker[w].run] = "completed"
  /\ delivery'[w].phase = "handled" =>
       /\ Task(w)' = Task(w)
       /\ \/ delivery[w].phase = "handled" \/ worker[w].stage = "committed"
          \/ status[Task(w)] = "completed"

\* Rows and jobs come into being with their run or after it, and a job is
\* recorded as processed by a worker that has handled it.
Orderly ==
  /\ \A r \in outbox' \ outbox : r \in Runs /\ status'[r] = "queued"
  /\ published' \subseteq published \cup outbox
  /\ outbox \subseteq outbox'
  /\ \A r \in processed' \ processed :
       \E w \in Workers : delivery[w].phase = "handled" /\ r = Task(w)
  /\ \A w \in Workers : Honest(w)

\* A step at w is honest when w is.
LEMMA OthersHonest ==
  ASSUME NEW w \in Workers, OthersStay(w), Honest(w)
  PROVE  \A v \in Workers : Honest(v)
<1>1. QED
  BY DEF OthersStay, Honest, Task

\* A worker that is neither inside Sync nor at the end of the handler.
LEMMA IdleHonest ==
  ASSUME NEW w \in Workers, OthersStay(w), w \notin probing',
         worker'[w].stage = "idle", delivery'[w].phase # "handled"
  PROVE  \A v \in Workers : Honest(v)
<1>1. Honest(w)
  BY DEF Honest
<1>2. QED
  BY <1>1, OthersHonest

LEMMA StepIsOrderly ==
  ASSUME TypeOK, QInv, TasksMatch, PipeStep
  PROVE  Orderly
<1> USE DEF QInv
<1>0. TypeOK /\ Queue!TypeOK
  OBVIOUS
<1>1. CASE Environment \/ ReceiveWebhook \/ FinishWebhook \/ AbortWebhook
  <2>1. UNCHANGED <<queueVars, worker, probing>>
    BY <1>1 DEF Environment, ShopChange, Connect, Disconnect, ReceiveWebhook,
       WebhookLock, WebhookIgnored, FinishWebhook, WebhookFlag, WebhookEnqueue,
       AbortWebhook, WebhookAbort, queueVars
  <2>2. EnqueueNew \/ outbox' = outbox
    BY <1>1 DEF Environment, ReceiveWebhook, FinishWebhook, AbortWebhook
  <2>3. QED
    BY <2>1, <2>2 DEF queueVars, EnqueueNew, Orderly, Honest, Task
<1>2. ASSUME NEW r \in Runs, RequestSync(r) \/ Publish(r) \/ Expire(r)
      PROVE  Orderly
  <2>1. UNCHANGED <<delivery, processed, worker, probing>>
    BY <1>2 DEF RequestSync, CreateSyncRun, Publish, Queue!Publish, Beside, Expire,
       LeaseExpires, queueVars, vars
  <2>2. EnqueueNew \/ outbox' = outbox
    BY <1>2 DEF RequestSync, Publish, Expire, Beside
  <2>3. published' \subseteq published \cup outbox
    BY <1>2 DEF RequestSync, Publish, Queue!Publish, Expire, queueVars
  <2>4. QED
    BY <2>1, <2>2, <2>3 DEF EnqueueNew, Orderly, Honest, Task
<1>3. ASSUME NEW c \in Copies, RetryElapses(c)
      PROVE  Orderly
  BY <1>3 DEF RetryElapses, Queue!RetryElapses, Beside, vars, Orderly, Honest, Task
<1>4. ASSUME NEW w \in Workers, NEW c \in Copies, Deliver(w, c)
      PROVE  Orderly
  <2>1. OthersStay(w) /\ UNCHANGED <<worker, probing, published, processed, outbox>>
    BY <1>4 DEF Deliver, Queue!Deliver, Beside, vars, OthersStay, Queue!TypeOK
  <2>2. worker[w].stage = "idle" /\ w \notin probing
    BY <1>4, OutsideHandler, DeliveryTypes DEF Deliver, Queue!Deliver
  <2>3. delivery'[w].phase = "received"
    BY <1>4 DEF Deliver, Queue!Deliver, Queue!TypeOK
  <2>4. QED
    BY <2>1, <2>2, <2>3, IdleHonest DEF Orderly
<1>5. ASSUME NEW w \in Workers, Record(w) \/ HandOver(w) \/ Ack(w) \/ HandOverFails(w)
      PROVE  Orderly
  <2>1. OthersStay(w) /\ UNCHANGED <<worker, probing, published, outbox>>
    BY <1>5, LookUpFacts, MarkFacts, HandOverFacts, AckFacts, HandOverFailsFacts
       DEF Record, HandOver, Ack, HandOverFails, Beside, vars, OthersStay, Spares, GoesOn
  <2>2. worker[w].stage = "idle" /\ w \notin probing
    BY <1>5, OutsideHandler, LookUpFacts, MarkFacts, HandOverFacts, AckFacts,
       HandOverFailsFacts DEF Record, HandOver, Ack, HandOverFails
  <2>3. delivery'[w].phase # "handled"
    BY <1>5, LookUpFacts, MarkFacts, HandOverFacts, AckFacts, HandOverFailsFacts,
       DeliveryTypes DEF Record, HandOver, Ack, HandOverFails, GoesOn
  <2>4. processed' = processed \/ (Queue!MarkProcessed(w) /\ processed' = processed \cup {Task(w)})
    BY <1>5, LookUpFacts, MarkFacts, HandOverFacts, AckFacts, HandOverFailsFacts
       DEF Record, HandOver, Ack, HandOverFails
  <2>5. \A r \in processed' \ processed :
          \E v \in Workers : delivery[v].phase = "handled" /\ r = Task(v)
    BY <2>4, MarkFacts
  <2>6. QED
    BY <2>1, <2>2, <2>3, <2>5, IdleHonest DEF Orderly
<1>6. ASSUME NEW w \in Workers, ConnectionLost(w)
      PROVE  Orderly
  <2>1. OthersStay(w) /\ UNCHANGED <<worker, probing, published, processed, outbox, status>>
    BY <1>6, ConnectionLostFacts DEF ConnectionLost, Beside, vars, runVars, OthersStay, Spares
  <2>2. Honest(w)
    BY <1>6, <2>1, ConnectionLostFacts DEF ConnectionLost, Honest, Task
  <2>3. QED
    BY <2>1, <2>2, OthersHonest DEF Orderly
<1>7. ASSUME NEW w \in Workers, Crash(w)
      PROVE  Orderly
  <2>1. /\ worker'[w].stage = "idle"
        /\ \A v \in Workers \ {w} : worker'[v] = worker[v]
    BY <1>7, LeavesSync DEF Crash, vars
  <2>2. /\ OthersStay(w) /\ w \notin probing' /\ delivery'[w].phase # "handled"
        /\ UNCHANGED <<published, processed, outbox>>
    BY <1>7, <2>1, CrashFacts, DeliveryTypes DEF Crash, OthersStay, Spares
  <2>3. QED
    BY <2>1, <2>2, IdleHonest DEF Orderly
<1>8. ASSUME NEW w \in Workers, Start(w)
      PROVE  Orderly
  <2>1. /\ worker'[w].stage = "started"
        /\ \A v \in Workers \ {w} : worker'[v] = worker[v]
    BY <1>8 DEF Start, StartSyncRun, TypeOK
  <2>2. /\ delivery[w].phase = "handling" /\ w \notin probing
        /\ UNCHANGED <<queueVars, probing, outbox>>
    BY <1>8 DEF Start, Called
  <2>3. Honest(w)
    BY <2>1, <2>2 DEF Honest, queueVars
  <2>4. QED
    BY <2>1, <2>2, <2>3, OthersHonest DEF OthersStay, Orderly, queueVars
<1>9. ASSUME NEW w \in Workers, FindOtherRun(w) \/ ReadStatus(w) \/ StartFails(w)
      PROVE  Orderly
  <2>1. worker[w].stage = "idle" /\ worker' = worker
    BY <1>9 DEF FindOtherRun, ReadStatus, StartFails, Called, Beside, vars, TasksMatch
  <2>2. probing' \subseteq probing /\ w \notin probing' /\ outbox' = outbox
    BY <1>9 DEF FindOtherRun, ReadStatus, StartFails, Called, Beside
  <2>3. /\ \A v \in Workers \ {w} : delivery'[v] = delivery[v]
        /\ delivery'[w].job = delivery[w].job
        /\ UNCHANGED <<published, processed>>
    BY <1>9, <1>0, SucceedsFacts, FailsFacts
       DEF FindOtherRun, ReadStatus, Verdict, StartFails, GoesOn
  <2>4. delivery'[w].phase = "handled" => status[Task(w)] = "completed"
    BY <1>9, <1>0, SucceedsFacts, FailsFacts
       DEF FindOtherRun, ReadStatus, Verdict, StartFails, GoesOn
  <2>5. Honest(w)
    BY <2>1, <2>2, <2>3, <2>4 DEF Honest, Task
  <2>6. QED
    BY <2>1, <2>2, <2>3, <2>5, OthersHonest DEF OthersStay, Orderly
<1>10. ASSUME NEW w \in Workers, StartMatchesNothing(w)
       PROVE  Orderly
  <2>1. /\ UNCHANGED <<vars, queueVars, outbox>>
        /\ probing' = probing \cup {w}
        /\ status[Task(w)] \in {"running", "completed"}
    BY <1>10 DEF StartMatchesNothing
  <2>2. Honest(w)
    BY <2>1 DEF Honest, Task, vars, runVars, queueVars
  <2>3. QED
    BY <2>1, <2>2, OthersHonest DEF OthersStay, Orderly, vars, queueVars
<1>11. ASSUME NEW w \in Workers, Work(w)
       PROVE  Orderly
  <2>1. UNCHANGED <<queueVars, outbox, probing>>
    BY <1>11 DEF Work
  <2>2. /\ worker'[w].stage = "committed" => worker'[w] = worker[w]
        /\ \A v \in Workers \ {w} : worker'[v] = worker[v]
    BY <1>11 DEF Work, ResolveSyncTarget, FetchCatalogue, RenewBeforeCommit,
       Heartbeat, Advance, TypeOK
  <2>3. Honest(w)
    BY <1>11, <2>1, <2>2 DEF Honest, Task, queueVars, TasksMatch
  <2>4. QED
    BY <2>1, <2>2, <2>3, OthersHonest DEF OthersStay, Orderly, queueVars
<1>12. ASSUME NEW w \in Workers, Commit(w)
       PROVE  Orderly
  <2>1. UNCHANGED <<queueVars, probing>> /\ EnqueueNew
    BY <1>12 DEF Commit
  <2>2. /\ worker'[w].run = worker[w].run
        /\ \A v \in Workers \ {w} : worker'[v] = worker[v]
    BY <1>12 DEF Commit, ReplaceMirror, Advance, TypeOK
  <2>3. status'[worker[w].run] = "completed"
    <3>1. worker[w].run \in Runs /\ status[worker[w].run] = "running"
      BY <1>12, DeliveryTypes DEF Commit, ReplaceMirror, Holds, TasksMatch
    <3>2. QED
      BY <1>12, <3>1 DEF Commit, ReplaceMirror, CompleteRun, TypeOK
  <2>4. Honest(w)
    BY <2>1, <2>2, <2>3 DEF Honest, Task, queueVars
  <2>5. QED
    BY <2>1, <2>2, <2>4, OthersHonest DEF OthersStay, Orderly, queueVars, EnqueueNew
<1>13. ASSUME NEW w \in Workers,
              \/ Return(w) \/ FailForNow(w) \/ GiveUp(w) \/ FailUnexpectedly(w)
              \/ FailUnrecorded(w)
       PROVE  Orderly
  <2>1. SyncReturns(w) \/ SyncFails(w) \/ WorkerStops(w)
    BY <1>13 DEF Return, FailForNow, GiveUp, FailUnexpectedly, FailForGood, FailUnrecorded
  <2>2. worker[w].stage # "idle" /\ UNCHANGED <<probing, outbox>>
    BY <1>13, <2>1 DEF SyncReturns, SyncFails, WorkerStops, Return, FailForNow,
       GiveUp, FailUnexpectedly, FailForGood, FailUnrecorded
  <2>3. /\ \A v \in Workers \ {w} : delivery'[v] = delivery[v]
        /\ delivery'[w].job = delivery[w].job
        /\ UNCHANGED <<published, processed>>
        /\ delivery'[w].phase = "handled" => worker[w].stage = "committed"
    BY <1>13, <1>0, SucceedsFacts, FailsFacts
       DEF Return, SyncReturns, FailForNow, GiveUp, FailUnexpectedly, FailForGood,
           FailUnrecorded, GoesOn
  <2>4. w \notin probing
    BY <2>2 DEF TasksMatch
  <2>5. /\ worker'[w].stage = "idle"
        /\ \A v \in Workers \ {w} : worker'[v] = worker[v]
    BY <2>1, LeavesSync
  <2>6. Honest(w)
    BY <2>2, <2>3, <2>4, <2>5 DEF Honest, Task
  <2>7. QED
    BY <2>2, <2>3, <2>5, <2>6, OthersHonest DEF OthersStay, Orderly
<1>14. ASSUME NEW w \in Workers, HeartbeatIsLate(w)
       PROVE  Orderly
  BY <1>14 DEF HeartbeatIsLate, LeaseExpires, queueVars, Orderly, Honest, Task
<1>15. QED
  BY <1>1, <1>2, <1>3, <1>4, <1>5, <1>6, <1>7, <1>8, <1>9, <1>10, <1>11, <1>12,
     <1>13, <1>14 DEF PipeStep, Proceed, Break

\* A job is created with its run, and runs only age.
LEMMA JobsFollowRunsPreserved ==
  ASSUME QInv', TasksMatch', JobsFollowRuns, RunsAge, Orderly
  PROVE  JobsFollowRuns'
<1>1. /\ \A r \in outbox' : r \in Runs /\ status'[r] # "none"
      /\ published' \subseteq outbox'
  BY DEF JobsFollowRuns, RunsAge, Orderly
<1>2. ASSUME NEW w \in probing'
      PROVE  status'[Task(w)'] \notin {"none", "queued"}
  <2>1. w \in Workers /\ delivery'[w].phase = "handling" /\ Task(w)' = Task(w)
    BY <1>2 DEF TasksMatch, Orderly, Honest
  <2>2. delivery'[w] \in {Queue!Idle} \cup Deliveries
    BY <2>1 DEF QInv, Queue!TypeOK, Deliveries
  <2>3. Task(w) \in Runs
    BY <2>1, <2>2 DEF Queue!Idle, Deliveries, Task
  <2>4. QED
    BY <1>2, <2>1, <2>3 DEF JobsFollowRuns, RunsAge, Orderly, Honest
<1>3. QED
  BY <1>1, <1>2 DEF JobsFollowRuns

\* A run is completed before anything says so.
LEMMA DoneIsCompletedPreserved ==
  ASSUME TypeOK, QInv, QInv', TasksMatch, DoneIsCompleted, RunsAge, Orderly
  PROVE  DoneIsCompleted'
<1>1. Queue!TypeOK /\ processed \subseteq Runs
  BY DEF QInv, Queue!TypeOK
<1>2. \A w \in Workers :
        /\ delivery[w].phase \in {"handled", "handling"} => Task(w) \in Runs
        /\ worker[w].stage # "idle" =>
             worker[w].run \in Runs /\ delivery[w].phase = "handling" /\ Task(w) = worker[w].run
  BY <1>1, DeliveryTypes DEF TasksMatch
<1>3. ProcessedIsCompleted'
  BY <1>1, <1>2 DEF DoneIsCompleted, ProcessedIsCompleted, RunsAge, Orderly
<1>4. ASSUME NEW w \in Workers
      PROVE  /\ worker'[w].stage = "committed" => status'[worker'[w].run] = "completed"
             /\ delivery'[w].phase = "handled" => status'[Task(w)'] = "completed"
  <2>1. Honest(w)
    BY DEF Orderly
  <2>2. ASSUME worker'[w].stage = "committed"
        PROVE  status'[worker'[w].run] = "completed"
    BY <1>2, <2>1, <2>2 DEF DoneIsCompleted, RunsAge, Honest
  <2>3. ASSUME delivery'[w].phase = "handled"
        PROVE  status'[Task(w)'] = "completed"
    <3>1. status[Task(w)] = "completed" /\ Task(w)' = Task(w)
      BY <1>2, <2>1, <2>3 DEF DoneIsCompleted, Honest
    <3>2. Task(w) \in Runs
      <4>1. delivery'[w] \in {Queue!Idle} \cup Deliveries
        BY DEF QInv, Queue!TypeOK, Deliveries
      <4>2. QED
        BY <2>3, <3>1, <4>1 DEF Queue!Idle, Deliveries, Task
    <3>3. QED
      BY <3>1, <3>2 DEF RunsAge
  <2>4. QED
    BY <2>2, <2>3
<1>5. QED
  BY <1>3, <1>4 DEF DoneIsCompleted

-----------------------------------------------------------------------------
(* An active run stays in care.                                             *)

\* The step leaves the run as it is.
Untouched(r) == status'[r] = status[r] /\ owner'[r] = owner[r]

\* A run is active because it has just been inserted with its outbox row, or
\* has just been started, or has been active before.
LEMMA ActiveCases ==
  ASSUME TypeOK, QInv, TasksMatch, PipeStep,
         NEW r \in Runs, Active(r)', r \notin adrift'
  PROVE  \/ status[r] = "none" /\ r \in outbox'
         \/ \E w \in Workers : Start(w) /\ Linked(w) /\ Task(w) = r
         \/ Active(r) /\ r \notin adrift /\ Untouched(r)
<1> USE DEF Active, Untouched, TypeOK, vars, runVars
<1>1. CASE Environment \/ ReceiveWebhook \/ AbortWebhook
  BY <1>1 DEF Environment, ShopChange, Connect, Disconnect, ReceiveWebhook,
     WebhookLock, WebhookIgnored, AbortWebhook, WebhookAbort
<1>2. CASE FinishWebhook
  BY <1>2 DEF FinishWebhook, WebhookFlag, WebhookEnqueue, EnqueueNew
<1>3. ASSUME NEW q \in Runs, RequestSync(q)
      PROVE  \/ status[r] = "none" /\ r \in outbox'
             \/ Active(r) /\ r \notin adrift /\ Untouched(r)
  BY <1>3 DEF RequestSync, CreateSyncRun, EnqueueNew
<1>4. ASSUME NEW q \in Runs, Publish(q) \/ Expire(q)
      PROVE  Active(r) /\ r \notin adrift /\ Untouched(r)
  BY <1>4 DEF Publish, Beside, Expire, LeaseExpires
<1>5. ASSUME NEW c \in Copies, RetryElapses(c) \/ \E w \in Workers : Deliver(w, c)
      PROVE  Active(r) /\ r \notin adrift /\ Untouched(r)
  BY <1>5 DEF RetryElapses, Deliver, Beside
<1>6. ASSUME NEW w \in Workers,
             \/ Record(w) \/ HandOver(w) \/ Ack(w) \/ FindOtherRun(w)
             \/ StartMatchesNothing(w) \/ ReadStatus(w) \/ HandOverFails(w)
             \/ ConnectionLost(w) \/ StartFails(w)
      PROVE  Active(r) /\ r \notin adrift /\ Untouched(r)
  BY <1>6 DEF Record, HandOver, Ack, FindOtherRun, StartMatchesNothing,
     ReadStatus, HandOverFails, ConnectionLost, StartFails, Beside
<1>7. ASSUME NEW w \in Workers, Start(w)
      PROVE  \/ Linked(w) /\ Task(w) = r
             \/ Active(r) /\ r \notin adrift /\ Untouched(r)
  BY <1>7 DEF Start, StartSyncRun
<1>8. ASSUME NEW w \in Workers,
             Work(w) \/ Crash(w) \/ Return(w) \/ FailUnrecorded(w) \/ HeartbeatIsLate(w)
      PROVE  Active(r) /\ r \notin adrift /\ Untouched(r)
  BY <1>8 DEF Work, ResolveSyncTarget, FetchCatalogue, RenewBeforeCommit, Heartbeat,
     Crash, WorkerStops, Return, SyncReturns, FailUnrecorded, HeartbeatIsLate,
     LeaseExpires
<1>9. ASSUME NEW w \in Workers, FailForNow(w) \/ GiveUp(w) \/ FailUnexpectedly(w)
      PROVE  Active(r) /\ r \notin adrift /\ Untouched(r)
  BY <1>9 DEF FailForNow, GiveUp, FailUnexpectedly, FailForGood, SyncFails
<1>10. ASSUME NEW w \in Workers, Commit(w)
       PROVE  \/ status[r] = "none" /\ r \in outbox'
              \/ Active(r) /\ r \notin adrift /\ Untouched(r)
  BY <1>10 DEF Commit, EnqueueNew, ReplaceMirror, CompleteRun
<1>11. QED
  BY <1>1, <1>2, <1>3, <1>4, <1>5, <1>6, <1>7, <1>8, <1>9, <1>10
     DEF PipeStep, Proceed, Break

\* Nothing moves in the queue or at a worker.
LEMMA CareStays ==
  ASSUME QInv, TasksMatch, NEW r \in Runs, InCare(r), Untouched(r),
         UNCHANGED <<queueVars, worker>>, outbox \subseteq outbox'
  PROVE  InCare(r)'
<1>1. CASE r \in outbox \ published
  BY <1>1 DEF InCare, queueVars
<1>2. ASSUME NEW c \in Copies, CaresFor(c, r)
      PROVE  InCare(r)'
  <2>1. CASE message[c].place \in {"main", "retry"}
    BY <1>2, <2>1 DEF CaresFor, InCare, queueVars
  <2>2. ASSUME NEW v \in Workers, delivery[v].copy = c, Minds(v)
        PROVE  InCare(r)'
    <3>0. Task(v) = r
      BY <1>2, <2>2 DEF QInv, CaresFor
    <3>1. Minds(v)'
      BY <2>2, <3>0 DEF Minds, Holds, TasksMatch, Untouched, Queue!Retries, queueVars
    <3>2. QED
      BY <1>2, <2>2, <3>1 DEF CaresFor, InCare, queueVars
  <2>3. QED
    BY <1>2, <2>1, <2>2 DEF CaresFor
<1>3. QED
  BY <1>1, <1>2 DEF InCare

\* One worker moves; what it holds itself is for it to see to.
LEMMA CareOfOthersStays ==
  ASSUME QInv, TasksMatch, NEW r \in Runs, InCare(r), Untouched(r),
         NEW w \in Workers, Spares(w), OthersStay(w), outbox \subseteq outbox',
         Task(w) = r /\ delivery[w].copy \in Copies /\ Minds(w) => InCare(r)'
  PROVE  InCare(r)'
<1>1. CASE r \in outbox \ published
  BY <1>1 DEF InCare, Spares
<1>2. ASSUME NEW c \in Copies, CaresFor(c, r)
      PROVE  InCare(r)'
  <2>0. message[c] # Queue!NoMessage
    BY <1>2, SyncRunsAssumption DEF CaresFor, Queue!NoMessage
  <2>1. CASE message[c].place \in {"main", "retry"}
    <3>1. c # delivery[w].copy
      BY <2>1 DEF QInv
    <3>2. QED
      BY <1>2, <2>0, <2>1, <3>1 DEF CaresFor, InCare, Spares
  <2>2. ASSUME NEW v \in Workers, delivery[v].copy = c, Minds(v)
        PROVE  InCare(r)'
    <3>1. Task(v) = r
      BY <1>2, <2>2 DEF QInv, CaresFor
    <3>2. CASE v = w
      BY <2>2, <3>1, <3>2
    <3>3. CASE v # w
      <4>1. c # delivery[w].copy
        BY <2>2, <3>3 DEF QInv
      <4>2. Minds(v)'
        BY <2>2, <3>1, <3>3 DEF Minds, Holds, TasksMatch, Untouched, Queue!Retries,
           OthersStay
      <4>3. QED
        BY <1>2, <2>0, <2>2, <3>3, <4>1, <4>2 DEF CaresFor, InCare, Spares, OthersStay
    <3>4. QED
      BY <3>2, <3>3
  <2>3. QED
    BY <1>2, <2>1, <2>2 DEF CaresFor
<1>3. QED
  BY <1>1, <1>2 DEF InCare

\* A worker that keeps its delivery and minds it.
LEMMA MindingCares ==
  ASSUME QInv, NEW w \in Workers, delivery[w].copy \in Copies, NEW r, Task(w) = r,
         delivery'[w].copy = delivery[w].copy, message' = message, Minds(w)'
  PROVE  InCare(r)'
<1>1. message[delivery[w].copy].job = r
  BY DEF QInv
<1>2. QED
  BY <1>1 DEF InCare, CaresFor

\* A run that was active and is active still is in care.
LEMMA CarePreserved ==
  ASSUME TypeOK, QInv, TasksMatch, JobsFollowRuns, DoneIsCompleted, PipeStep, Orderly,
         NEW r \in Runs, Active(r), InCare(r), Untouched(r), r \notin adrift',
         ~\E w \in Workers : Start(w) /\ Task(w) = r
  PROVE  InCare(r)'
<1> USE DEF QInv
<1>0. TypeOK /\ Queue!TypeOK /\ outbox \subseteq outbox'
  BY DEF Orderly
<1>1. CASE Environment \/ ReceiveWebhook \/ FinishWebhook \/ AbortWebhook
  <2>1. UNCHANGED <<queueVars, worker>>
    BY <1>1 DEF Environment, ShopChange, Connect, Disconnect, ReceiveWebhook,
       WebhookLock, WebhookIgnored, FinishWebhook, WebhookFlag, WebhookEnqueue,
       AbortWebhook, WebhookAbort
  <2>2. QED
    BY <2>1, <1>0, CareStays
<1>2. ASSUME NEW q \in Runs, RequestSync(q) \/ Expire(q)
      PROVE  InCare(r)'
  BY <1>2, <1>0, CareStays DEF RequestSync, CreateSyncRun, Expire, LeaseExpires
<1>3. ASSUME NEW q \in Runs, Publish(q)
      PROVE  InCare(r)'
  <2>1. PICK d \in Copies :
          /\ message[d] = Queue!NoMessage
          /\ message'[d].place = "main" /\ message'[d].job = q
          /\ \A c \in Copies \ {d} : message'[c] = message[c]
    <3>1. \E d \in Copies : message[d] = Queue!NoMessage
      BY <1>3 DEF Publish, Queue!Publish, Queue!Free
    <3>2. message \in [Copies -> {Queue!NoMessage} \cup Messages]
      BY DEF Queue!TypeOK, Messages
    <3>3. QED
      BY <1>3, <3>1, <3>2 DEF Publish, Queue!Publish, Queue!Added
  <2>2. UNCHANGED <<delivery, worker, outbox>> /\ published' = published \cup {q}
    BY <1>3 DEF Publish, Queue!Publish, Beside, vars
  <2>3. CASE q = r
    BY <2>1, <2>3 DEF InCare, CaresFor
  <2>4. CASE q # r /\ r \in outbox \ published
    BY <2>2, <2>4 DEF InCare
  <2>5. ASSUME NEW c \in Copies, CaresFor(c, r)
        PROVE  InCare(r)'
    <3>1. message'[c] = message[c]
      BY <2>1, <2>5, SyncRunsAssumption DEF CaresFor, Queue!NoMessage
    <3>2. ASSUME NEW v \in Workers, delivery[v].copy = c, Minds(v)
          PROVE  Minds(v)'
      BY <2>2, <2>5, <3>2 DEF CaresFor, Minds, Holds, TasksMatch, Untouched, Queue!Retries
    <3>3. QED
      BY <2>2, <2>5, <3>1, <3>2 DEF CaresFor, InCare
  <2>6. QED
    BY <2>3, <2>4, <2>5 DEF InCare
<1>4. ASSUME NEW d \in Copies,
             \/ RetryElapses(d) \/ \E w \in Workers : Deliver(w, d)
      PROVE  InCare(r)'
  <2>1. /\ message[d].place \in {"main", "retry"}
        /\ message'[d].job = message[d].job
        /\ \/ message'[d].place = "main"
           \/ \E w \in Workers : delivery'[w].copy = d /\ delivery'[w].phase = "received"
        /\ \A c \in Copies \ {d} : message'[c] = message[c]
    <3>1. message \in [Copies -> {Queue!NoMessage} \cup Messages]
      BY DEF Queue!TypeOK, Messages
    <3>2. message[d].place \in {"main", "retry"}
      BY <1>4 DEF RetryElapses, Queue!RetryElapses, Deliver, Queue!Deliver
    <3>3. message[d] \in Messages
      BY <3>1, <3>2 DEF Queue!NoMessage
    <3>4. CASE RetryElapses(d)
      BY <3>1, <3>2, <3>3, <3>4 DEF RetryElapses, Queue!RetryElapses, Messages
    <3>5. ASSUME NEW w \in Workers, Deliver(w, d)
          PROVE  /\ message'[d].job = message[d].job
                 /\ delivery'[w].copy = d /\ delivery'[w].phase = "received"
                 /\ \A c \in Copies \ {d} : message'[c] = message[c]
      BY <3>1, <3>2, <3>3, <3>5, DeliveryTypes DEF Deliver, Queue!Deliver, Messages
    <3>6. QED
      BY <1>4, <3>2, <3>4, <3>5
  <2>2. /\ UNCHANGED <<worker, outbox, published>>
        /\ \A v \in Workers : delivery[v].copy \in Copies => delivery'[v] = delivery[v]
    BY <1>4, DeliveryTypes DEF RetryElapses, Queue!RetryElapses, Deliver, Queue!Deliver,
       Beside, vars
  <2>3. CASE r \in outbox \ published
    BY <2>2, <2>3 DEF InCare
  <2>4. ASSUME NEW c \in Copies, CaresFor(c, r)
        PROVE  InCare(r)'
    <3>1. CASE c = d
      <4>1. \A w \in Workers : delivery'[w].phase = "received" => Minds(w)'
        BY DEF Minds
      <4>2. QED
        BY <2>1, <2>4, <3>1, <4>1 DEF CaresFor, InCare
    <3>2. CASE c # d
      <4>1. ASSUME NEW v \in Workers, delivery[v].copy = c, Minds(v)
            PROVE  Minds(v)' /\ delivery'[v].copy = c
        BY <2>2, <2>4, <4>1 DEF CaresFor, Minds, Holds, TasksMatch, Untouched, Queue!Retries
      <4>2. QED
        BY <2>1, <2>4, <3>2, <4>1 DEF CaresFor, InCare
    <3>3. QED
      BY <3>1, <3>2
  <2>5. QED
    BY <2>3, <2>4 DEF InCare
<1>5. ASSUME NEW w \in Workers, Record(w)
      PROVE  InCare(r)'
  <2>1. Spares(w) /\ OthersStay(w)
    BY <1>5, LookUpFacts, MarkFacts
       DEF Record, Beside, vars, OthersStay, Spares, GoesOn
  <2>2. ASSUME Task(w) = r, delivery[w].copy \in Copies, Minds(w)
        PROVE  InCare(r)'
    <3>1. Queue!LookUp(w)
      BY <1>5, <2>2, MarkFacts DEF Record, Minds, Queue!Retries
    <3>2. Task(w) \notin processed
      BY <2>2 DEF DoneIsCompleted, ProcessedIsCompleted, Active
    <3>3. worker'[w].stage = "idle"
      BY <1>5, <3>1, LookUpFacts, OutsideHandler DEF Record, Beside, vars
    <3>4. Minds(w)' /\ delivery'[w].copy = delivery[w].copy /\ message' = message
      BY <3>1, <3>2, <3>3, LookUpFacts DEF Minds, GoesOn
    <3>5. QED
      BY <2>2, <3>4, MindingCares
  <2>3. QED
    BY <1>0, <2>1, <2>2, CareOfOthersStays
<1>6. ASSUME NEW w \in Workers, HandOver(w)
      PROVE  InCare(r)'
  <2>1. Spares(w) /\ OthersStay(w)
    BY <1>6, HandOverFacts DEF HandOver, vars, OthersStay, Spares
  <2>2. ASSUME Task(w) = r, Minds(w)
        PROVE  InCare(r)'
    <3>1. Queue!Retries(w)
      BY <1>6, <2>2, HandOverFacts DEF HandOver, Minds
    <3>2. QED
      BY <1>6, <2>2, <3>1, HandOverFacts DEF HandOver, InCare, CaresFor
  <2>3. QED
    BY <1>0, <2>1, <2>2, CareOfOthersStays
<1>7. ASSUME NEW w \in Workers, HandOverFails(w) \/ ConnectionLost(w) \/ Crash(w)
      PROVE  InCare(r)'
  <2>1. Spares(w) /\ TakenBack(w)
    BY <1>7, HandOverFailsFacts, ConnectionLostFacts, CrashFacts
       DEF HandOverFails, ConnectionLost, Crash
  <2>2. OthersStay(w)
    BY <1>7, <1>0, <2>1, LeavesSync
       DEF HandOverFails, ConnectionLost, Crash, Beside, vars, OthersStay, Spares
  <2>3. Task(w) = r /\ delivery[w].copy \in Copies => InCare(r)'
    BY <2>1 DEF TakenBack, InCare, CaresFor
  <2>4. QED
    BY <1>0, <2>1, <2>2, <2>3, CareOfOthersStays
<1>8. ASSUME NEW w \in Workers, Ack(w)
      PROVE  InCare(r)'
  <2>1. Spares(w) /\ OthersStay(w)
    BY <1>8, AckFacts DEF Ack, Beside, vars, OthersStay, Spares
  <2>2. ~Minds(w)
    BY <1>8, AckFacts DEF Ack, Minds, Queue!Retries
  <2>3. QED
    BY <1>0, <2>1, <2>2, CareOfOthersStays
<1>9. ASSUME NEW w \in Workers, Start(w)
      PROVE  InCare(r)'
  <2>1. Spares(w) /\ OthersStay(w)
    BY <1>9 DEF Start, StartSyncRun, queueVars, TypeOK, OthersStay, Spares
  <2>2. Task(w) # r
    BY <1>9
  <2>3. QED
    BY <1>0, <2>1, <2>2, CareOfOthersStays
<1>10. ASSUME NEW w \in Workers, FindOtherRun(w) \/ ReadStatus(w) \/ StartFails(w)
       PROVE  InCare(r)'
  <2>1. Spares(w) /\ OthersStay(w)
    BY <1>10, SucceedsFacts, FailsFacts
       DEF FindOtherRun, ReadStatus, Verdict, StartFails, Beside, vars, GoesOn,
           OthersStay, Spares
  <2>2. ASSUME Task(w) = r, delivery[w].copy \in Copies
        PROVE  InCare(r)'
    <3>1. ~FindOtherRun(w)
      BY <2>2 DEF FindOtherRun, Active
    <3>2. Queue!HandlerFails(w, "busy") \/ Queue!HandlerFails(w, "database")
      BY <1>10, <2>2, <3>1 DEF ReadStatus, Verdict, StartFails, Active, JobsFollowRuns
    <3>3. Minds(w)' /\ delivery'[w].copy = delivery[w].copy /\ message' = message
      BY <3>2, FailsFacts DEF Minds, Queue!Retries, GoesOn
    <3>4. QED
      BY <2>2, <3>3, MindingCares
  <2>3. QED
    BY <1>0, <2>1, <2>2, CareOfOthersStays
<1>11. ASSUME NEW w \in Workers, StartMatchesNothing(w)
       PROVE  InCare(r)'
  BY <1>11, <1>0, CareStays DEF StartMatchesNothing, vars
<1>12. ASSUME NEW w \in Workers, Work(w) \/ Commit(w)
       PROVE  InCare(r)'
  <2>1. /\ worker[w].stage # "idle" /\ delivery[w].phase = "handling"
        /\ UNCHANGED <<queueVars, probing>>
    BY <1>12 DEF Work, Commit, ResolveSyncTarget, FetchCatalogue, RenewBeforeCommit,
       Heartbeat, ReplaceMirror, TasksMatch
  <2>2. /\ Spares(w) /\ OthersStay(w)
        /\ worker'[w].run = worker[w].run /\ worker'[w].lease = worker[w].lease
        /\ worker'[w].stage # "idle"
    <3>1. worker[w] \in [stage : Stages, run : Runs \cup {NoRun}, lease : Lease, batch : Revision]
      BY DEF TypeOK
    <3>2. CASE ResolveSyncTarget(w) \/ RenewBeforeCommit(w) \/ ReplaceMirror(w)
      BY <2>1, <3>1, <3>2 DEF ResolveSyncTarget, RenewBeforeCommit, ReplaceMirror,
         Advance, TypeOK, Spares, OthersStay, queueVars
    <3>3. CASE FetchCatalogue(w)
      BY <2>1, <3>1, <3>3 DEF FetchCatalogue, TypeOK, Spares, OthersStay, queueVars
    <3>4. CASE Heartbeat(w)
      BY <2>1, <3>4 DEF Heartbeat, Spares, OthersStay, queueVars
    <3>5. QED
      BY <1>12, <3>2, <3>3, <3>4 DEF Work, Commit
  <2>3. ASSUME Task(w) = r, delivery[w].copy \in Copies, Minds(w)
        PROVE  InCare(r)'
    <3>1. Holds(w) /\ worker[w].run = r
      BY <2>1, <2>3 DEF Minds, Queue!Retries, TasksMatch
    <3>2. Minds(w)'
      BY <2>1, <2>2, <3>1 DEF Holds, Untouched, Minds, queueVars
    <3>3. QED
      BY <2>1, <2>3, <3>2, MindingCares DEF queueVars
  <2>4. QED
    BY <1>0, <2>2, <2>3, CareOfOthersStays
<1>13. ASSUME NEW w \in Workers,
              \/ Return(w) \/ FailForNow(w) \/ GiveUp(w) \/ FailUnexpectedly(w)
              \/ FailUnrecorded(w)
       PROVE  InCare(r)'
  <2>1. SyncReturns(w) \/ SyncFails(w) \/ WorkerStops(w)
    BY <1>13 DEF Return, FailForNow, GiveUp, FailUnexpectedly, FailForGood, FailUnrecorded
  <2>2. worker[w].stage # "idle" /\ delivery[w].phase = "handling" /\ probing' = probing
    BY <1>13, <2>1 DEF SyncReturns, SyncFails, WorkerStops, Return, FailForNow,
       GiveUp, FailUnexpectedly, FailForGood, FailUnrecorded, TasksMatch
  <2>3. Spares(w)
    BY <1>13, <1>0, SucceedsFacts, FailsFacts
       DEF Return, FailForNow, GiveUp, FailUnexpectedly, FailForGood, FailUnrecorded,
           GoesOn, Spares
  <2>4. OthersStay(w)
    BY <1>0, <2>1, <2>2, <2>3, LeavesSync DEF OthersStay, Spares
  <2>5. ASSUME Task(w) = r, Minds(w)
        PROVE  FALSE
    <3>1. Holds(w) /\ worker[w].run = r
      BY <2>2, <2>5 DEF Minds, Queue!Retries, TasksMatch
    <3>2. CASE SyncReturns(w)
      BY <3>1, <3>2 DEF SyncReturns, DoneIsCompleted, Active
    <3>3. CASE SyncFails(w)
      BY <3>1, <3>3 DEF SyncFails, Untouched, Active, TypeOK
    <3>4. CASE FailUnrecorded(w)
      BY <2>5, <3>4 DEF FailUnrecorded
    <3>5. QED
      BY <1>13, <3>2, <3>3, <3>4
         DEF Return, FailForNow, GiveUp, FailUnexpectedly, FailForGood
  <2>6. QED
    BY <1>0, <2>3, <2>4, <2>5, CareOfOthersStays
<1>14. ASSUME NEW w \in Workers, HeartbeatIsLate(w)
       PROVE  InCare(r)'
  BY <1>14, <1>0, CareStays DEF HeartbeatIsLate, LeaseExpires
<1>15. QED
  BY <1>1, <1>2, <1>3, <1>4, <1>5, <1>6, <1>7, <1>8, <1>9, <1>10, <1>11, <1>12,
     <1>13, <1>14 DEF PipeStep, Proceed, Break

\* A run that is inserted has its row unpublished; a run that is started on a
\* delivery is minded by that delivery; any other active run stays in care.
LEMMA ActiveIsInCarePreserved ==
  ASSUME TypeOK, QInv, TasksMatch, JobsFollowRuns, DoneIsCompleted, ActiveIsInCare,
         PipeStep, Orderly
  PROVE  ActiveIsInCare'
<1> SUFFICES ASSUME NEW r \in Runs, Active(r)', r \notin adrift'
             PROVE  InCare(r)'
  BY DEF ActiveIsInCare
<1>1. CASE status[r] = "none" /\ r \in outbox'
  <2>1. r \notin outbox /\ published' \subseteq outbox
    BY <1>1 DEF JobsFollowRuns, Orderly
  <2>2. QED
    BY <1>1, <2>1 DEF InCare
<1>2. ASSUME NEW w \in Workers, Start(w), Task(w) = r
      PROVE  InCare(r)'
  <2>1. UNCHANGED queueVars /\ delivery[w].phase = "handling"
    BY <1>2 DEF Start, Called
  <2>2. Linked(w)
    BY <1>2 DEF Start
  <2>3. delivery[w].copy \in Copies
    BY <2>1, <2>2, DeliveryTypes DEF QInv, Linked, Deliveries
  <2>4. Holds(w)'
    BY <1>2 DEF Start, StartSyncRun, Holds, TypeOK
  <2>5. Minds(w)'
    BY <2>1, <2>4 DEF Minds, queueVars
  <2>6. QED
    BY <1>2, <2>1, <2>3, <2>5, MindingCares DEF queueVars
<1>3. CASE /\ Active(r) /\ r \notin adrift /\ Untouched(r)
           /\ ~\E w \in Workers : Start(w) /\ Task(w) = r
  BY <1>3, CarePreserved DEF ActiveIsInCare
<1>4. QED
  BY <1>1, <1>2, <1>3, ActiveCases

-----------------------------------------------------------------------------
(* The theorems about runs and jobs.                                        *)

\* The variables that only the pipeline has stay in their types.
LEMMA OwnTypesPreserved ==
  ASSUME QInv, QInv', OwnTypeOK, TasksMatch', JobsFollowRuns', PipeNext
  PROVE  OwnTypeOK'
<1>1. outbox' \subseteq Runs /\ probing' \subseteq Workers
  BY DEF JobsFollowRuns, TasksMatch
<1>2. errors' \in {errors, errors + 1}
  <2>1. CASE Environment \/ ReceiveWebhook \/ FinishWebhook \/ AbortWebhook
    BY <2>1 DEF Environment, ReceiveWebhook, FinishWebhook, AbortWebhook, Error
  <2>2. ASSUME NEW r \in Runs, RequestSync(r) \/ Publish(r) \/ Expire(r)
        PROVE  errors' = errors
    BY <2>2 DEF RequestSync, Publish, Expire
  <2>3. ASSUME NEW c \in Copies, RetryElapses(c) \/ \E w \in Workers : Deliver(w, c)
        PROVE  errors' = errors
    BY <2>3 DEF RetryElapses, Deliver
  <2>4. ASSUME NEW w \in Workers, Proceed(w) \/ Break(w)
        PROVE  errors' \in {errors, errors + 1}
    BY <2>4 DEF Proceed, Break, Record, HandOver, Ack, Start, FindOtherRun,
       StartMatchesNothing, ReadStatus, Work, Commit, Return, GiveUp, HandOverFails,
       ConnectionLost, Crash, StartFails, FailForNow, FailUnexpectedly,
       FailUnrecorded, HeartbeatIsLate, FailForGood, Error
  <2>5. QED
    BY <2>1, <2>2, <2>3, <2>4 DEF PipeNext, PipeStep
<1>3. errors' \in 0 .. MaxFaults
  <2>1. \A x, y, z \in Nat : x + y <= z => y <= z
    OBVIOUS
  <2>2. faults' \in Nat /\ errors \in Nat /\ MaxFaults \in Nat
    BY SyncPipelineAssumption DEF QInv, Queue!TypeOK, OwnTypeOK
  <2>3. errors' \in Nat
    BY <1>2, <2>2
  <2>4. errors' <= MaxFaults
    BY <2>1, <2>2, <2>3 DEF PipeNext
  <2>5. QED
    BY <2>2, <2>3, <2>4
<1>4. adrift' \subseteq Runs
  <2>1. CASE Environment \/ ReceiveWebhook \/ FinishWebhook \/ AbortWebhook
    BY <2>1 DEF Environment, ReceiveWebhook, FinishWebhook, AbortWebhook, OwnTypeOK
  <2>2. ASSUME NEW r \in Runs, RequestSync(r) \/ Publish(r) \/ Expire(r)
        PROVE  adrift' \subseteq Runs
    BY <2>2 DEF RequestSync, Publish, Expire, Beside, OwnTypeOK
  <2>3. ASSUME NEW c \in Copies, RetryElapses(c) \/ \E w \in Workers : Deliver(w, c)
        PROVE  adrift' \subseteq Runs
    BY <2>3 DEF RetryElapses, Deliver, Beside, OwnTypeOK
  <2>4. ASSUME NEW w \in Workers, HandOver(w) \/ Start(w) \/ FailUnrecorded(w)
        PROVE  adrift' \subseteq Runs
    <3>1. delivery[w].phase # "idle"
      BY <2>4, HandOverFacts DEF HandOver, Start, Called, FailUnrecorded,
         Queue!HandlerFails
    <3>2. Task(w) \in Runs
      BY <3>1, DeliveryTypes DEF QInv
    <3>3. QED
      BY <2>4, <3>2 DEF HandOver, Start, FailUnrecorded, OwnTypeOK
  <2>5. ASSUME NEW w \in Workers, Proceed(w) \/ Break(w),
               ~(HandOver(w) \/ Start(w) \/ FailUnrecorded(w))
        PROVE  adrift' \subseteq Runs
    BY <2>5 DEF Proceed, Break, Record, Ack, FindOtherRun, StartMatchesNothing,
       ReadStatus, Work, Commit, Return, GiveUp, HandOverFails, ConnectionLost,
       Crash, StartFails, FailForNow, FailUnexpectedly, HeartbeatIsLate,
       FailForGood, Beside, OwnTypeOK
  <2>6. QED
    BY <2>1, <2>2, <2>3, <2>4, <2>5 DEF PipeNext, PipeStep
<1>5. QED
  BY <1>1, <1>3, <1>4 DEF OwnTypeOK

\* The invariant holds before anything happens.
LEMMA PipeInitEstablishes == PipeInit => JInv
<1> SUFFICES ASSUME PipeInit
             PROVE  JInv
  OBVIOUS
<1>1. /\ \A w \in Workers : worker[w] = Idle /\ delivery[w] = Queue!Idle
      /\ \A r \in Runs : status[r] = "none"
      /\ outbox = {} /\ published = {} /\ processed = {} /\ probing = {}
      /\ errors = 0 /\ adrift = {}
  BY DEF PipeInit, Init, Queue!Init
<1>2. OwnTypeOK /\ TasksMatch /\ JobsFollowRuns
  BY <1>1, SyncPipelineAssumption DEF OwnTypeOK, TasksMatch, JobsFollowRuns, Idle
<1>3. DoneIsCompleted /\ ActiveIsInCare
  BY <1>1 DEF DoneIsCompleted, ProcessedIsCompleted, ActiveIsInCare, Active, Idle,
     Queue!Idle
<1>4. QED
  BY <1>2, <1>3 DEF JInv

\* Every step keeps the invariant, given those of the runs and of the queue.
LEMMA JobsPreserved ==
  ASSUME IInv, QInv, QInv', JInv, PipeNext
  PROVE  JInv'
<1>1. TypeOK /\ TasksMatch /\ JobsFollowRuns /\ DoneIsCompleted /\ ActiveIsInCare /\ PipeStep
  BY DEF IInv, JInv, PipeNext
<1>2. RunsAge
  BY <1>1, StepRefines, StepAgesRuns DEF IInv, QInv
<1>3. TasksMatch' /\ Orderly
  BY <1>1, TasksMatchPreserved, StepIsOrderly
<1>4. JobsFollowRuns' /\ DoneIsCompleted'
  BY <1>1, <1>2, <1>3, JobsFollowRunsPreserved, DoneIsCompletedPreserved
<1>5. ActiveIsInCare'
  BY <1>1, <1>3, ActiveIsInCarePreserved
<1>6. OwnTypeOK'
  BY <1>3, <1>4, OwnTypesPreserved DEF JInv
<1>7. QED
  BY <1>3, <1>4, <1>5, <1>6 DEF JInv

\* A step that changes no variable changes nothing of the invariant.
LEMMA JobsStutter ==
  ASSUME JInv, UNCHANGED pipeVars
  PROVE  JInv'
<1>1. QED
  BY DEF JInv, pipeVars, stepVars, vars, runVars, queueVars, OwnTypeOK, TasksMatch,
     JobsFollowRuns, DoneIsCompleted, ProcessedIsCompleted, ActiveIsInCare, Active,
     InCare, CaresFor, Minds, Holds, Task, Queue!Retries

\* An active run is always cared for: its row is still to be published, or a copy
\* of its job is in the main or the retry queue, or a worker holds a copy and has
\* yet to start the run, or has its lease, or is going to send the job again.  That
\* some copy is somewhere would not be enough: the job may be in the broker several
\* times, and its holders may be about to drop theirs.
THEOREM JobInvariance == PipeSafe => []JInv
<1>1. IInv /\ QInv /\ QInv' /\ JInv /\ [PipeNext]_pipeVars => JInv'
  BY JobsPreserved, JobsStutter
<1>2. QED
  BY <1>1, PipeInitEstablishes, RunsInvariance, QueueInvariance, PTL DEF PipeSafe

\* The active slot of the store is never blocked by a run without a job, unless
\* the database failed to record the end of the run or used up the attempts of its
\* job, or a worker without a delivery started it.
THEOREM SlotsAreFreed == PipeSafe => []SlotIsFreed
<1>1. JInv => SlotIsFreed
  <2> SUFFICES ASSUME JInv, NEW r \in Runs, Active(r), r \notin adrift
               PROVE  Pending(r)
    BY DEF SlotIsFreed
  <2>1. QED
    BY DEF JInv, ActiveIsInCare, InCare, CaresFor, Pending
<1>2. QED
  BY <1>1, JobInvariance, PTL

\* A job recorded as processed has its run completed, however often it is sent:
\* a delivery that is skipped leaves nothing undone.
THEOREM ProcessedRunsAreCompleted == PipeSafe => []ProcessedIsCompleted
<1>1. JInv => ProcessedIsCompleted
  BY DEF JInv, DoneIsCompleted
<1>2. QED
  BY <1>1, JobInvariance, PTL

\* Recorded events stay recorded.
LEMMA SeenGrows ==
  ASSUME [Next]_vars
  PROVE  seen \subseteq seen'
<1>1. QED
  BY DEF Next, WorkerStep, WebhookStep, vars, runVars, storeVars, hookVars,
         ShopChange, Connect, Disconnect, CreateSyncRun, WebhookLock,
         WebhookFlag, WebhookEnqueue, WebhookAbort, WebhookIgnored,
         StartSyncRun, ResolveSyncTarget, FetchCatalogue, Heartbeat,
         RenewBeforeCommit, ReplaceMirror, SyncReturns, SyncFails,
         WorkerStops, LeaseExpires

\* Every variable of the pipeline keeps its type.
THEOREM PipelineTypeCorrect == PipeSafe => []PipeTypeOK
<1> DEFINE Known == awaited \subseteq seen
<1>1. PipeInit => Known
  BY DEF PipeInit
<1>2. IInv /\ QInv /\ Known /\ [PipeNext]_pipeVars => Known'
  <2>1. IInv /\ QInv /\ Known /\ PipeNext => Known'
    BY StepRefines, SeenGrows DEF PipeNext, IInv, QInv
  <2>2. Known /\ UNCHANGED pipeVars => Known'
    BY DEF pipeVars, stepVars, vars, hookVars
  <2>3. QED
    BY <2>1, <2>2
<1>3. IInv /\ QInv /\ JInv /\ Known => PipeTypeOK
  BY DEF IInv, QInv, JInv, OwnTypeOK, PipeTypeOK
<1>4. QED
  BY <1>1, <1>2, <1>3, RunsInvariance, QueueInvariance, JobInvariance, PTL DEF PipeSafe
=============================================================================
