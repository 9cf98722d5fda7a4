------------------------------ MODULE JobQueue ------------------------------
(***************************************************************************)
(* The broker's three queues (main, retry, dead) and the worker processes *)
(* that consume the main queue with a prefetch of one: processDelivery,   *)
(* the handler's classification of errors, the processed_jobs table and   *)
(* the hand-over of a failed message to the retry or the dead queue.      *)
(*                                                                         *)
(* A hand-over publishes a copy and acknowledges the original in two       *)
(* steps; a crash or a lost connection between them duplicates the         *)
(* message.  What a worker does to the run of its job is SyncRuns; here    *)
(* the handler answers as it likes.                                        *)
(***************************************************************************)
EXTENDS Naturals, FiniteSets

CONSTANTS
  Jobs,         \* job identifiers
  Workers,      \* worker processes
  Copies,       \* bound: copies of messages the broker holds at a time
  NoJob,        \* the job of an idle worker
  NoCopy,       \* the message of a worker whose connection is gone
  MaxAttempts,  \* SHOPIFY_SYNC_MAX_ATTEMPTS
  MaxFaults     \* bound: crashes, lost connections and lost confirms

ASSUME JobQueueAssumption ==
  /\ NoJob \notin Jobs
  /\ NoCopy \notin Copies
  /\ MaxAttempts \in Nat \ {0}
  /\ MaxFaults \in Nat

\* There are finitely many workers and messages, so that they can be counted.
ASSUME FiniteAssumption == IsFiniteSet(Workers) /\ IsFiniteSet(Copies)

VARIABLES
  published,  \* jobs the outbox handed to the broker
  message,    \* the messages in the broker, by copy
  worker,     \* per worker: the delivery it works on
  processed,  \* processed_jobs
  faults      \* faults so far

vars == <<published, message, worker, processed, faults>>

-----------------------------------------------------------------------------
\* Why an attempt failed: a retryable provider error, timeout or panic; the
\* run of the job belongs to another worker; a permanent error; a database
\* error or the shutdown of the worker, which Sync passes on as they are.
Causes    == {"transient", "busy", "permanent", "database"}
Retryable == {"transient", "busy"}
Places    == {"main", "held", "retry", "dead"}
Phases    == {"idle", "received", "handling", "handled", "retrying", "burying",
              "acking"}

NoMessage == [place |-> "none", job |-> NoJob, attempt |-> 0, cause |-> "none"]
Idle == [phase |-> "idle", job |-> NoJob, attempt |-> 0, cause |-> "none",
         copy |-> NoCopy]

TypeOK ==
  /\ published \subseteq Jobs
  /\ message \in [Copies -> {NoMessage} \cup
       [place : Places, job : Jobs, attempt : Nat, cause : Causes \cup {"none"}]]
  /\ worker \in [Workers -> {Idle} \cup
       [phase : Phases \ {"idle"}, job : Jobs, attempt : Nat,
        cause : Causes \cup {"none"}, copy : Copies \cup {NoCopy}]]
  /\ processed \subseteq Jobs
  /\ faults \in 0 .. MaxFaults

Init ==
  /\ published = {}
  /\ message = [c \in Copies |-> NoMessage]
  /\ worker = [w \in Workers |-> Idle]
  /\ processed = {}
  /\ faults = 0

Fault == faults < MaxFaults /\ faults' = faults + 1

Free == {c \in Copies : message[c] = NoMessage}

\* The broker with one more message in it; which copy it is does not matter.
Added(m, broker) ==
  [broker EXCEPT ![CHOOSE c \in Copies : broker[c] = NoMessage] = m]

\* The worker goes on to the given phase.
Advance(w, phase) == worker' = [worker EXCEPT ![w].phase = phase]

\* The attempt fails and the worker hands the message over.
Fail(w, phase, cause) ==
  worker' = [worker EXCEPT ![w] = [@ EXCEPT !.phase = phase, !.cause = cause]]

-----------------------------------------------------------------------------
\* The outbox publishes the job, again if it does not know that it did.
Publish(j) ==
  /\ j \in published => Fault
  /\ j \notin published => UNCHANGED faults
  /\ Free # {}
  /\ message' = Added([place |-> "main", job |-> j, attempt |-> 1,
                       cause |-> "none"], message)
  /\ published' = published \cup {j}
  /\ UNCHANGED <<worker, processed>>

\* The broker delivers a message of the main queue to a waiting worker.
Deliver(w, c) ==
  /\ worker[w] = Idle
  /\ message[c].place = "main"
  /\ message' = [message EXCEPT ![c].place = "held"]
  /\ worker' = [worker EXCEPT ![w] =
       [phase |-> "received", job |-> message[c].job,
        attempt |-> message[c].attempt, cause |-> "none", copy |-> c]]
  /\ UNCHANGED <<published, processed, faults>>

\* IsJobProcessed.
LookUp(w) ==
  /\ worker[w].phase = "received"
  /\ \/ /\ worker[w].job \in processed
        /\ Advance(w, "acking")
     \/ /\ worker[w].job \notin processed
        /\ Advance(w, "handling")
     \/ Fail(w, "retrying", "database")
  /\ UNCHANGED <<published, message, processed, faults>>

\* The handler succeeds, or finds its run completed.
HandlerSucceeds(w) ==
  /\ worker[w].phase = "handling"
  /\ Advance(w, "handled")
  /\ UNCHANGED <<published, message, processed, faults>>

\* classifyHandlerError: whatever is neither a provider error, nor an Error of
\* the service, nor a deadline is final.
HandlerFails(w, cause) ==
  /\ worker[w].phase = "handling"
  /\ Fail(w, IF cause \in Retryable THEN "retrying" ELSE "burying", cause)
  /\ UNCHANGED <<published, message, processed, faults>>

\* MarkJobProcessed; when it fails the whole job is retried.
MarkProcessed(w) ==
  /\ worker[w].phase = "handled"
  /\ \/ /\ processed' = processed \cup {worker[w].job}
        /\ Advance(w, "acking")
     \/ /\ UNCHANGED processed
        /\ Fail(w, "retrying", "database")
  /\ UNCHANGED <<published, message, faults>>

-----------------------------------------------------------------------------
(* Handing a failed message over.                                          *)

\* Mutant: one attempt too many.
RetriesOnceMore(w) ==
  /\ worker[w].phase = "retrying"
  /\ worker[w].attempt <= MaxAttempts \/ worker[w].cause = "busy"

\* Mutant: a busy run uses up the attempts.
RetriesCountBusy(w) ==
  /\ worker[w].phase = "retrying"
  /\ worker[w].attempt < MaxAttempts

\* Delivery.Retry buries a message that has no attempt left, unless the
\* attempt does not count.
Retries(w) ==
  /\ worker[w].phase = "retrying"
  /\ worker[w].attempt < MaxAttempts \/ worker[w].cause = "busy"

\* Mutant: the attempt header is copied, not incremented.
HandedOverUncounted(w) ==
  LET d == worker[w] IN
  [place |-> IF Retries(w) THEN "retry" ELSE "dead", job |-> d.job,
   cause |-> IF Retries(w) THEN "none" ELSE d.cause, attempt |-> d.attempt]

\* The copy that Retry or DeadLetter publishes.  Both write the cause into a
\* header; only that of a buried message is kept here, nothing reads it.
HandedOver(w) ==
  LET d == worker[w] IN
  IF Retries(w)
    THEN [place |-> "retry", job |-> d.job, cause |-> "none",
          attempt |-> IF d.cause = "busy" THEN d.attempt ELSE d.attempt + 1]
    ELSE [place |-> "dead", job |-> d.job, cause |-> d.cause,
          attempt |-> d.attempt]

\* The copy is published and confirmed; the original is not acknowledged yet.
HandOver(w) ==
  /\ worker[w].phase \in {"retrying", "burying"}
  /\ Free # {}
  /\ message' = Added(HandedOver(w), message)
  /\ Advance(w, "acking")
  /\ UNCHANGED <<published, processed, faults>>

\* Mutant: the Nack is forgotten.
RequeuedNever(w) == message

\* What the broker holds once it has taken back the worker's delivery.
Requeued(w) ==
  IF worker[w].copy = NoCopy THEN message
  ELSE [message EXCEPT ![worker[w].copy].place = "main"]

\* Publishing fails, or its confirm is lost: the original is requeued.
HandOverFails(w) ==
  /\ worker[w].phase \in {"retrying", "burying"}
  /\ Fault
  /\ \/ message' = Requeued(w)
     \/ Free # {} /\ message' = Added(HandedOver(w), Requeued(w))
  /\ worker' = [worker EXCEPT ![w] = Idle]
  /\ UNCHANGED <<published, processed>>

\* Mutant: the original is acknowledged before its copy is published.
AckEarly(w) ==
  /\ worker[w].phase \in {"retrying", "acking"}
  /\ IF worker[w].copy = NoCopy THEN UNCHANGED message
     ELSE message' = [message EXCEPT ![worker[w].copy] = NoMessage]
  /\ worker' = [worker EXCEPT ![w] = Idle]
  /\ UNCHANGED <<published, processed, faults>>

\* Mutant: the worker keeps the delivery it acknowledged.
AckKeepsDelivery(w) ==
  /\ worker[w].phase = "acking"
  /\ IF worker[w].copy = NoCopy THEN UNCHANGED message
     ELSE message' = [message EXCEPT ![worker[w].copy] = NoMessage]
  /\ worker' = [worker EXCEPT ![w].phase = "idle"]
  /\ UNCHANGED <<published, processed, faults>>

\* Mutant: a message that was dealt with is requeued, not acknowledged.
AckRequeues(w) ==
  /\ worker[w].phase = "acking"
  /\ message' = Requeued(w)
  /\ worker' = [worker EXCEPT ![w] = Idle]
  /\ UNCHANGED <<published, processed, faults>>

\* Ack, which does nothing for a delivery the broker has taken back.
Ack(w) ==
  /\ worker[w].phase = "acking"
  /\ IF worker[w].copy = NoCopy THEN UNCHANGED message
     ELSE message' = [message EXCEPT ![worker[w].copy] = NoMessage]
  /\ worker' = [worker EXCEPT ![w] = Idle]
  /\ UNCHANGED <<published, processed, faults>>

\* The connection or the channel breaks under a worker that goes on.
ConnectionLost(w) ==
  /\ worker[w].copy # NoCopy
  /\ Fault
  /\ message' = Requeued(w)
  /\ worker' = [worker EXCEPT ![w].copy = NoCopy]
  /\ UNCHANGED <<published, processed>>

WorkerCrashes(w) ==
  /\ worker[w] # Idle
  /\ Fault
  /\ message' = Requeued(w)
  /\ worker' = [worker EXCEPT ![w] = Idle]
  /\ UNCHANGED <<published, processed>>

\* The message's time in the retry queue ends.
RetryElapses(c) ==
  /\ message[c].place = "retry"
  /\ message' = [message EXCEPT ![c].place = "main"]
  /\ UNCHANGED <<published, worker, processed, faults>>

-----------------------------------------------------------------------------
\* The steps of a delivery that nothing outside the worker can hold up.
Works(w) == LookUp(w) \/ MarkProcessed(w) \/ HandOver(w) \/ Ack(w)

\* The handler comes back, with whatever answer.
Answers(w) == HandlerSucceeds(w) \/ \E cause \in Causes : HandlerFails(w, cause)

Next ==
  \/ \E j \in Jobs : Publish(j)
  \/ \E w \in Workers :
       \/ \E c \in Copies : Deliver(w, c)
       \/ Works(w)
       \/ Answers(w)
       \/ HandOverFails(w)
       \/ ConnectionLost(w)
       \/ WorkerCrashes(w)
  \/ \E c \in Copies : RetryElapses(c)

\* Workers keep working, every handler call ends (Sync has a deadline), and the
\* retry queue's TTL runs.  Nothing is assumed about the answers: a run may be
\* busy for as long as it likes.  The main queue is first in, first out.
Fairness ==
  /\ \A w \in Workers : WF_vars(Works(w)) /\ WF_vars(Answers(w))
  /\ \A c \in Copies : /\ WF_vars(RetryElapses(c))
                       /\ SF_vars(\E w \in Workers : Deliver(w, c))

Safe == Init /\ [][Next]_vars
Spec == Safe /\ Fairness

-----------------------------------------------------------------------------
(* Properties.                                                             *)

Held(c) == message[c].place = "held"

\* A job that was published is recorded as processed or is still somewhere in
\* the broker, however its hand-overs fail: it is never acknowledged away.
NoJobLost ==
  \A j \in published :
    j \in processed \/ \E c \in Copies : message[c].job = j

\* A delivery the broker considers taken belongs to exactly one worker, so no
\* message waits for an acknowledgement nobody will send.
HeldByOneWorker ==
  \A c \in Copies : Held(c) =>
    \E w \in Workers :
      /\ worker[w].copy = c
      /\ \A v \in Workers \ {w} : worker[v].copy # c

\* Retries are bounded: no message is ever sent for more than MaxAttempts.
AttemptsBounded == \A c \in Copies : message[c].attempt <= MaxAttempts

\* A job is not buried because its run was busy with another worker.
BusyIsNotBuried ==
  \A c \in Copies : message[c].place = "dead" => message[c].cause # "busy"

\* A message that no acknowledgement is about to remove.
Stays(c) == \A w \in Workers : worker[w].copy = c => worker[w].phase # "acking"

\* What can still lead to an attempt at a job: messages, and workers that work
\* on a delivery which the broker has taken back from them.
Carrying(j) == {c \in Copies : message[c].job = j /\ Stays(c)}
Detached(j) == {w \in Workers :
  worker[w].job = j /\ worker[w].copy = NoCopy /\ worker[w].phase # "acking"}

\* A job is on its way once, and once more for every fault: hand-overs, retries
\* and acknowledgements never multiply it by themselves.  Two workers are at
\* the same job only after something broke.
DuplicatesAreFaults ==
  \A j \in Jobs :
    Cardinality(Carrying(j)) + Cardinality(Detached(j)) <= 1 + faults

Buried(j) == \E c \in Copies : message[c].job = j /\ message[c].place = "dead"

\* A worker has just been told that the run of the job is busy.
FoundBusy(j) == \E w \in Workers : worker[w].job = j /\ worker[w].cause = "busy"

\* Every job is processed or buried in the end, unless it finds its run busy
\* again and again: counted attempts run out, no delivery is stranded and no
\* hand-over stalls.  That a job may circle for ever, because busy attempts do
\* not count, is what the code does; whether it happens depends on the runs.
JobsSettle ==
  \A j \in Jobs : j \in published ~> j \in processed \/ Buried(j) \/ FoundBusy(j)
=============================================================================
