--------------------------- MODULE JobQueue_proofs ---------------------------
(***************************************************************************)
(* Proofs about JobQueue, for any number of jobs, workers, copies,         *)
(* attempts and faults.                                                    *)
(*                                                                         *)
(* The invariant ties a worker to the copy it holds, so that a requeue or  *)
(* an acknowledgement meets that copy only, and says that a job that is    *)
(* not processed has a copy which nobody is about to acknowledge.          *)
(***************************************************************************)
EXTENDS JobQueue, FiniteSetTheorems, TLAPS

-----------------------------------------------------------------------------
(* The inductive invariant.                                                *)

\* What a worker holds is held, and is the message it received.
HoldsWhatItReceived ==
  \A w \in Workers : worker[w].copy \in Copies =>
    /\ Held(worker[w].copy)
    /\ message[worker[w].copy].job = worker[w].job

\* No two workers hold the same copy.
HoldApart ==
  \A v, w \in Workers :
    v # w /\ worker[v].copy \in Copies => worker[v].copy # worker[w].copy

HeldHasWorker == \A c \in Copies : Held(c) => \E w \in Workers : worker[w].copy = c

\* A job that is not processed has a copy that stays.
JobStays ==
  \A j \in published :
    j \in processed \/ \E c \in Copies : message[c].job = j /\ Stays(c)

\* Neither a message nor a delivery is beyond its last attempt.
AttemptsCounted ==
  /\ \A c \in Copies : message[c].attempt <= MaxAttempts
  /\ \A w \in Workers : worker[w].attempt <= MaxAttempts

\* A failure that does not count is never on its way to the dead queue.
BusyRetries ==
  /\ \A w \in Workers : worker[w].phase = "burying" => worker[w].cause # "busy"
  /\ BusyIsNotBuried

\* What is on its way for a job has been published, once and once more for
\* every fault.
Accounted ==
  \A j \in Jobs :
    IF j \in published
      THEN Cardinality(Carrying(j)) + Cardinality(Detached(j)) <= 1 + faults
      ELSE /\ \A c \in Copies : message[c].job # j
           /\ \A w \in Workers : worker[w].job # j

IInv ==
  /\ TypeOK /\ HoldsWhatItReceived /\ HoldApart /\ HeldHasWorker
  /\ JobStays /\ AttemptsCounted /\ BusyRetries /\ Accounted

Messages == [place : Places, job : Jobs, attempt : Nat, cause : Causes \cup {"none"}]
Deliveries == [phase : Phases \ {"idle"}, job : Jobs, attempt : Nat,
               cause : Causes \cup {"none"}, copy : Copies \cup {NoCopy}]

-----------------------------------------------------------------------------
(* What the steps do.                                                      *)

\* A free copy takes the added message.
LEMMA AddedFacts ==
  ASSUME NEW m, NEW broker, \E c \in Copies : broker[c] = NoMessage
  PROVE  \E c \in Copies : /\ broker[c] = NoMessage
                           /\ Added(m, broker) = [broker EXCEPT ![c] = m]
  BY DEF Added

\* The fields of an idle worker.
LEMMA IdleFacts ==
  /\ Idle.phase = "idle" /\ Idle.job = NoJob /\ Idle.attempt = 0
  /\ Idle.cause = "none" /\ Idle.copy = NoCopy /\ Idle.copy \notin Copies
  /\ NoMessage.place = "none" /\ NoMessage.job = NoJob /\ NoMessage.attempt = 0
  /\ NoMessage.cause = "none"
  BY JobQueueAssumption DEF Idle, NoMessage

\* A worker that does something has a delivery.
LEMMA BusyWorker ==
  ASSUME TypeOK, NEW w \in Workers, worker[w].phase # "idle"
  PROVE  worker[w] \in Deliveries
  BY IdleFacts DEF TypeOK, Deliveries

\* Messages in a copy that is not free.
LEMMA UsedCopy ==
  ASSUME TypeOK, NEW c \in Copies, message[c].place # "none"
  PROVE  message[c] \in Messages
  BY IdleFacts DEF TypeOK, Messages

\* The message that is handed over is a message.
LEMMA HandedOverType ==
  ASSUME TypeOK, NEW w \in Workers, worker[w].phase # "idle"
  PROVE  HandedOver(w) \in Messages
<1>1. worker[w] \in Deliveries
  BY BusyWorker
<1>2. CASE Retries(w)
  BY <1>1, <1>2 DEF HandedOver, Messages, Deliveries, Places
<1>3. CASE ~Retries(w)
  BY <1>1, <1>3 DEF HandedOver, Messages, Deliveries, Places
<1> QED
  BY <1>2, <1>3

\* A requeue changes the place of the worker's copy, and nothing else.
LEMMA RequeuedFacts ==
  ASSUME TypeOK, HoldsWhatItReceived, NEW w \in Workers
  PROVE  /\ Requeued(w) \in [Copies -> {NoMessage} \cup Messages]
         /\ \A c \in Copies \ {worker[w].copy} : Requeued(w)[c] = message[c]
         /\ \A c \in Copies : c = worker[w].copy =>
              /\ Requeued(w)[c].place = "main"
              /\ Requeued(w)[c].job = message[c].job
              /\ Requeued(w)[c].attempt = message[c].attempt
              /\ Requeued(w)[c].cause = message[c].cause
<1>1. CASE worker[w].copy = NoCopy
  BY <1>1, JobQueueAssumption DEF Requeued, TypeOK, Messages
<1>2. CASE worker[w].copy # NoCopy
  <2>1. worker[w].copy \in Copies
    BY <1>2, IdleFacts DEF TypeOK
  <2>2. message[worker[w].copy] \in Messages
    BY <2>1, UsedCopy DEF HoldsWhatItReceived, Held
  <2> QED
    BY <1>2, <2>1, <2>2 DEF Requeued, TypeOK, Messages, Places
<1> QED
  BY <1>1, <1>2

\* Advance and Fail leave the worker with the delivery it has.
LEMMA AdvanceFacts ==
  ASSUME TypeOK, NEW w \in Workers, worker[w].phase # "idle",
         NEW phase \in Phases \ {"idle"}, Advance(w, phase)
  PROVE  /\ worker' \in [Workers -> {Idle} \cup Deliveries]
         /\ worker'[w].phase = phase /\ worker'[w].cause = worker[w].cause
         /\ \A v \in Workers : /\ worker'[v].copy = worker[v].copy
                               /\ worker'[v].job = worker[v].job
                               /\ worker'[v].attempt = worker[v].attempt
         /\ \A v \in Workers \ {w} : worker'[v] = worker[v]
<1>1. worker[w] \in Deliveries
  BY BusyWorker
<1>2. worker' = [worker EXCEPT ![w] = [worker[w] EXCEPT !.phase = phase]]
  BY DEF Advance
<1> QED
  BY <1>1, <1>2 DEF TypeOK, Deliveries

LEMMA FailFacts ==
  ASSUME TypeOK, NEW w \in Workers, worker[w].phase # "idle",
         NEW phase \in Phases \ {"idle"}, NEW cause \in Causes, Fail(w, phase, cause)
  PROVE  /\ worker' \in [Workers -> {Idle} \cup Deliveries]
         /\ worker'[w].phase = phase /\ worker'[w].cause = cause
         /\ \A v \in Workers : /\ worker'[v].copy = worker[v].copy
                               /\ worker'[v].job = worker[v].job
                               /\ worker'[v].attempt = worker[v].attempt
         /\ \A v \in Workers \ {w} : worker'[v] = worker[v]
<1>1. worker[w] \in Deliveries
  BY BusyWorker
<1>2. worker' = [worker EXCEPT ![w] = [worker[w] EXCEPT !.phase = phase, !.cause = cause]]
  BY DEF Fail
<1> QED
  BY <1>1, <1>2 DEF TypeOK, Deliveries

\* Inside the handler and around it, the broker does not change and the worker
\* keeps its delivery; a job is only acknowledged once it is processed.
Onward(w) ==
  /\ worker' \in [Workers -> {Idle} \cup Deliveries]
  /\ UNCHANGED <<published, message, faults>>
  /\ processed \subseteq processed' /\ processed' \subseteq Jobs
  /\ \A v \in Workers : /\ worker'[v].copy = worker[v].copy
                        /\ worker'[v].job = worker[v].job
                        /\ worker'[v].attempt = worker[v].attempt
  /\ \A v \in Workers \ {w} : worker'[v] = worker[v]
  /\ worker'[w].phase = "acking" => worker[w].job \in processed'
  /\ worker'[w].phase = "burying" => worker'[w].cause # "busy"
  /\ worker[w].phase # "acking"

LEMMA HandlingIsOnward ==
  ASSUME TypeOK, NEW w \in Workers,
         \/ LookUp(w) \/ HandlerSucceeds(w) \/ MarkProcessed(w)
         \/ \E cause \in Causes : HandlerFails(w, cause)
  PROVE  Onward(w)
<1> USE DEF TypeOK, Phases, Causes
<1>1. CASE LookUp(w)
  <2>1. CASE worker[w].job \in processed /\ Advance(w, "acking")
    BY <1>1, <2>1, AdvanceFacts DEF LookUp, Onward
  <2>2. CASE Advance(w, "handling")
    BY <1>1, <2>2, AdvanceFacts DEF LookUp, Onward
  <2>3. CASE Fail(w, "retrying", "database")
    BY <1>1, <2>3, FailFacts DEF LookUp, Onward
  <2> QED
    BY <1>1, <2>1, <2>2, <2>3 DEF LookUp
<1>2. CASE HandlerSucceeds(w)
  BY <1>2, AdvanceFacts DEF HandlerSucceeds, Onward
<1>3. CASE MarkProcessed(w)
  <2>1. worker[w] \in Deliveries
    BY <1>3, BusyWorker DEF MarkProcessed
  <2>2. CASE processed' = processed \cup {worker[w].job} /\ Advance(w, "acking")
    BY <1>3, <2>1, <2>2, AdvanceFacts DEF MarkProcessed, Onward, Deliveries
  <2>3. CASE UNCHANGED processed /\ Fail(w, "retrying", "database")
    BY <1>3, <2>3, FailFacts DEF MarkProcessed, Onward
  <2> QED
    BY <1>3, <2>2, <2>3 DEF MarkProcessed
<1>4. ASSUME NEW cause \in Causes, HandlerFails(w, cause) PROVE Onward(w)
  <2>1. CASE cause \in Retryable /\ Fail(w, "retrying", cause)
    BY <1>4, <2>1, FailFacts DEF HandlerFails, Onward
  <2>2. CASE cause \notin Retryable /\ Fail(w, "burying", cause)
    BY <1>4, <2>2, FailFacts DEF HandlerFails, Onward, Retryable
  <2> QED
    BY <1>4, <2>1, <2>2 DEF HandlerFails
<1> QED
  BY <1>1, <1>2, <1>3, <1>4

\* The worker lets go of its delivery.
Stops(w) == worker' = [worker EXCEPT ![w] = Idle]

\* The broker gains the message that the worker hands over.
Gains(w, c, broker) ==
  /\ broker[c] = NoMessage
  /\ message' = [broker EXCEPT ![c] = HandedOver(w)]

-----------------------------------------------------------------------------
(* Every step keeps the invariant.                                         *)

LEMMA HandOverFacts ==
  ASSUME TypeOK, NEW w \in Workers, HandOver(w)
  PROVE  \E c \in Copies : Gains(w, c, message)
<1>1. \E c \in Copies : message[c] = NoMessage
  BY DEF HandOver, Free
<1> QED
  BY <1>1, AddedFacts DEF HandOver, Gains

LEMMA HandOverFailsFacts ==
  ASSUME TypeOK, HoldsWhatItReceived, NEW w \in Workers, HandOverFails(w)
  PROVE  \/ message' = Requeued(w)
         \/ \E c \in Copies \ {worker[w].copy} : Gains(w, c, Requeued(w))
<1>1. CASE Free # {} /\ message' = Added(HandedOver(w), Requeued(w))
  <2>1. PICK c \in Copies : message[c] = NoMessage
    BY <1>1 DEF Free
  <2>2. c # worker[w].copy
    BY <2>1, IdleFacts DEF HoldsWhatItReceived, Held
  <2>3. Requeued(w)[c] = NoMessage
    BY <2>1, <2>2, RequeuedFacts
  <2>4. PICK d \in Copies : Gains(w, d, Requeued(w))
    BY <1>1, <2>3, AddedFacts DEF Gains
  <2>5. d # worker[w].copy
    BY <2>4, IdleFacts, RequeuedFacts DEF Gains
  <2> QED
    BY <2>4, <2>5
<1> QED
  BY <1>1 DEF HandOverFails

\* The steps, with the ones of the handler seen as one.
LEMMA NextCases ==
  ASSUME TypeOK, [Next]_vars
  PROVE  \/ \E j \in Jobs : Publish(j)
         \/ \E w \in Workers, c \in Copies : Deliver(w, c)
         \/ \E w \in Workers : \/ Onward(w) \/ HandOver(w) \/ HandOverFails(w)
                               \/ Ack(w) \/ ConnectionLost(w) \/ WorkerCrashes(w)
         \/ \E c \in Copies : RetryElapses(c)
         \/ UNCHANGED vars
<1>1. "busy" \in Causes
  BY DEF Causes
<1> QED
  BY <1>1, HandlingIsOnward DEF Next, Works, Answers

\* Every action keeps the types.
LEMMA TypeOKKept ==
  ASSUME TypeOK, HoldsWhatItReceived, [Next]_vars
  PROVE  TypeOK'
<1> USE DEF TypeOK, Messages, Deliveries, Phases, Places
<1>1. ASSUME NEW j \in Jobs, Publish(j) PROVE TypeOK'
  <2>1. PICK c \in Copies :
          /\ message[c] = NoMessage
          /\ message' = [message EXCEPT ![c] =
               [place |-> "main", job |-> j, attempt |-> 1, cause |-> "none"]]
    BY <1>1, AddedFacts DEF Publish, Free
  <2> QED
    BY <1>1, <2>1, JobQueueAssumption DEF Publish, Fault
<1>2. ASSUME NEW w \in Workers, NEW c \in Copies, Deliver(w, c) PROVE TypeOK'
  <2>1. message[c] \in Messages
    BY <1>2, UsedCopy DEF Deliver
  <2> QED
    BY <1>2, <2>1 DEF Deliver
<1>3. ASSUME NEW w \in Workers, Onward(w) PROVE TypeOK'
  BY <1>3 DEF Onward
<1>4. ASSUME NEW w \in Workers, HandOver(w) PROVE TypeOK'
  <2>1. HandedOver(w) \in Messages
    BY <1>4, HandedOverType DEF HandOver
  <2>2. message' \in [Copies -> {NoMessage} \cup Messages]
    BY <1>4, <2>1, HandOverFacts DEF Gains
  <2>3. worker' \in [Workers -> {Idle} \cup Deliveries]
    BY <1>4, AdvanceFacts DEF HandOver
  <2> QED
    BY <1>4, <2>2, <2>3 DEF HandOver
<1>5. ASSUME NEW w \in Workers, HandOverFails(w) PROVE TypeOK'
  <2>1. HandedOver(w) \in Messages
    BY <1>5, HandedOverType DEF HandOverFails
  <2>2. message' \in [Copies -> {NoMessage} \cup Messages]
    BY <1>5, <2>1, HandOverFailsFacts, RequeuedFacts DEF Gains
  <2> QED
    BY <1>5, <2>2, JobQueueAssumption DEF HandOverFails, Fault
<1>6. ASSUME NEW w \in Workers, Ack(w) PROVE TypeOK'
  BY <1>6 DEF Ack
<1>7. ASSUME NEW w \in Workers, ConnectionLost(w) PROVE TypeOK'
  <2>1. message' \in [Copies -> {NoMessage} \cup Messages]
    BY <1>7, RequeuedFacts DEF ConnectionLost
  <2>2. worker' \in [Workers -> {Idle} \cup Deliveries]
    BY <1>7, IdleFacts DEF ConnectionLost
  <2> QED
    BY <1>7, <2>1, <2>2, JobQueueAssumption DEF ConnectionLost, Fault
<1>8. ASSUME NEW w \in Workers, WorkerCrashes(w) PROVE TypeOK'
  <2>1. message' \in [Copies -> {NoMessage} \cup Messages]
    BY <1>8, RequeuedFacts DEF WorkerCrashes
  <2> QED
    BY <1>8, <2>1, JobQueueAssumption DEF WorkerCrashes, Fault
<1>9. ASSUME NEW c \in Copies, RetryElapses(c) PROVE TypeOK'
  <2>1. message[c] \in Messages
    BY <1>9, UsedCopy DEF RetryElapses
  <2> QED
    BY <1>9, <2>1 DEF RetryElapses
<1>10. CASE UNCHANGED vars
  BY <1>10 DEF vars, TypeOK
<1> QED
  BY <1>1, <1>2, <1>3, <1>4, <1>5, <1>6, <1>7, <1>8, <1>9, <1>10, NextCases

\* Only its worker moves a copy that is held.
LEMMA HoldsWhatItReceivedKept ==
  ASSUME TypeOK, HoldsWhatItReceived, HoldApart, HeldHasWorker, [Next]_vars
  PROVE  HoldsWhatItReceived'
<1>1. ASSUME NEW j \in Jobs, Publish(j) PROVE HoldsWhatItReceived'
  <2>1. PICK c \in Copies :
          /\ message[c] = NoMessage
          /\ \A d \in Copies \ {c} : message'[d] = message[d]
          /\ message'[c].place = "main" /\ message'[c].job = j /\ message'[c].attempt = 1
    <3>1. PICK c \in Copies :
            /\ message[c] = NoMessage
            /\ message' = [message EXCEPT ![c] =
                 [place |-> "main", job |-> j, attempt |-> 1, cause |-> "none"]]
      BY <1>1, AddedFacts DEF Publish, Free
    <3> QED
      BY <3>1 DEF TypeOK
  <2>2. c \notin {worker[w].copy : w \in Workers}
    BY <2>1, IdleFacts DEF HoldsWhatItReceived, Held
  <2> QED
    BY <1>1, <2>1, <2>2 DEF Publish, HoldsWhatItReceived, Held
<1>2. ASSUME NEW w \in Workers, NEW c \in Copies, Deliver(w, c) PROVE HoldsWhatItReceived'
  <2>1. /\ message[c] \in Messages
        /\ worker'[w].copy = c /\ worker'[w].job = message[c].job
        /\ worker'[w].attempt = message[c].attempt
        /\ worker'[w].phase = "received"
        /\ \A v \in Workers \ {w} : worker'[v] = worker[v]
        /\ message'[c].place = "held" /\ message'[c].job = message[c].job
        /\ message'[c].attempt = message[c].attempt
        /\ message'[c].cause = message[c].cause
        /\ \A d \in Copies \ {c} : message'[d] = message[d]
    BY <1>2, UsedCopy DEF Deliver, TypeOK, Messages
  <2>2. \A v \in Workers : worker[v].copy # c
    BY <1>2 DEF Deliver, HoldsWhatItReceived, Held
  <2> QED
    BY <2>1, <2>2 DEF HoldsWhatItReceived, Held
<1>3. ASSUME NEW w \in Workers, Onward(w) PROVE HoldsWhatItReceived'
  BY <1>3 DEF Onward, HoldsWhatItReceived, Held
<1>4. ASSUME NEW w \in Workers, HandOver(w) PROVE HoldsWhatItReceived'
  <2>1. PICK c \in Copies : Gains(w, c, message)
    BY <1>4, HandOverFacts
  <2>2. /\ \A v \in Workers : /\ worker'[v].copy = worker[v].copy
                              /\ worker'[v].job = worker[v].job
                              /\ worker'[v].attempt = worker[v].attempt
        /\ worker'[w].phase = "acking"
        /\ \A v \in Workers \ {w} : worker'[v] = worker[v]
    BY <1>4, AdvanceFacts DEF HandOver, Phases
  <2>3. /\ message[c] = NoMessage
        /\ message'[c] = HandedOver(w)
        /\ \A d \in Copies \ {c} : message'[d] = message[d]
    BY <2>1 DEF Gains, TypeOK
  <2>4. \A v \in Workers : worker[v].copy # c
    BY <2>3, IdleFacts DEF HoldsWhatItReceived, Held
  <2> QED
    BY <2>2, <2>3, <2>4 DEF HoldsWhatItReceived, Held
<1>5. ASSUME NEW w \in Workers, HandOverFails(w) PROVE HoldsWhatItReceived'
  <2>1. /\ \A v \in Workers \ {w} : worker'[v] = worker[v]
        /\ worker'[w] = Idle /\ worker'[w].copy \notin Copies
    BY <1>5, IdleFacts DEF HandOverFails, TypeOK
  <2>2. \A d \in Copies \ {worker[w].copy} :
          message[d] # NoMessage => message'[d] = message[d]
    BY <1>5, HandOverFailsFacts, RequeuedFacts DEF Gains
  <2>3. \A v \in Workers \ {w} : worker[v].copy \in Copies =>
          /\ worker[v].copy # worker[w].copy
          /\ message[worker[v].copy] # NoMessage
    BY IdleFacts DEF HoldsWhatItReceived, HoldApart, Held
  <2> QED
    BY <2>1, <2>2, <2>3 DEF HoldsWhatItReceived, Held
<1>6. ASSUME NEW w \in Workers, Ack(w) PROVE HoldsWhatItReceived'
  <2>1. /\ \A v \in Workers \ {w} : worker'[v] = worker[v]
        /\ worker'[w] = Idle /\ worker'[w].copy \notin Copies
    BY <1>6, IdleFacts DEF Ack, TypeOK
  <2>2. /\ \A d \in Copies \ {worker[w].copy} : message'[d] = message[d]
        /\ worker[w].copy \in Copies => message'[worker[w].copy] = NoMessage
    BY <1>6, JobQueueAssumption DEF Ack, TypeOK
  <2>3. \A v \in Workers \ {w} : worker[v].copy \in Copies =>
          worker[v].copy # worker[w].copy
    BY DEF HoldApart
  <2> QED
    BY <2>1, <2>2, <2>3 DEF HoldsWhatItReceived, Held
<1>7. ASSUME NEW w \in Workers, ConnectionLost(w) PROVE HoldsWhatItReceived'
  <2>1. /\ \A v \in Workers \ {w} : worker'[v] = worker[v]
        /\ worker'[w].copy \notin Copies /\ worker'[w].copy = NoCopy
        /\ worker'[w].phase = worker[w].phase /\ worker'[w].attempt = worker[w].attempt
        /\ worker'[w].cause = worker[w].cause
    <3>1. worker[w] \in Deliveries
      BY <1>7, IdleFacts DEF ConnectionLost, TypeOK, Deliveries
    <3> QED
      BY <1>7, <3>1, JobQueueAssumption DEF ConnectionLost, TypeOK, Deliveries
  <2>2. \A d \in Copies \ {worker[w].copy} : message'[d] = message[d]
    BY <1>7, RequeuedFacts DEF ConnectionLost
  <2>3. \A v \in Workers \ {w} : worker[v].copy \in Copies =>
          worker[v].copy # worker[w].copy
    BY DEF HoldApart
  <2> QED
    BY <2>1, <2>2, <2>3 DEF HoldsWhatItReceived, Held
<1>8. ASSUME NEW w \in Workers, WorkerCrashes(w) PROVE HoldsWhatItReceived'
  <2>1. /\ \A v \in Workers \ {w} : worker'[v] = worker[v]
        /\ worker'[w] = Idle /\ worker'[w].copy \notin Copies
    BY <1>8, IdleFacts DEF WorkerCrashes, TypeOK
  <2>2. \A d \in Copies \ {worker[w].copy} : message'[d] = message[d]
    BY <1>8, RequeuedFacts DEF WorkerCrashes
  <2>3. \A v \in Workers \ {w} : worker[v].copy \in Copies =>
          worker[v].copy # worker[w].copy
    BY DEF HoldApart
  <2> QED
    BY <2>1, <2>2, <2>3 DEF HoldsWhatItReceived, Held
<1>9. ASSUME NEW c \in Copies, RetryElapses(c) PROVE HoldsWhatItReceived'
  <2>1. /\ worker' = worker
        /\ \A d \in Copies \ {c} : message'[d] = message[d]
        /\ message'[c].place = "main" /\ message'[c].job = message[c].job
        /\ message'[c].attempt = message[c].attempt
        /\ message'[c].cause = message[c].cause
        /\ message[c].place = "retry"
    BY <1>9, UsedCopy DEF RetryElapses, TypeOK, Messages
  <2> QED
    BY <2>1 DEF HoldsWhatItReceived, Held
<1>10. CASE UNCHANGED vars
  BY <1>10 DEF vars, HoldsWhatItReceived, Held
<1> QED
  BY <1>1, <1>2, <1>3, <1>4, <1>5, <1>6, <1>7, <1>8, <1>9, <1>10, NextCases

\* Only a copy that nobody holds is delivered.
LEMMA HoldApartKept ==
  ASSUME TypeOK, HoldsWhatItReceived, HoldApart, HeldHasWorker, [Next]_vars
  PROVE  HoldApart'
<1>1. ASSUME NEW j \in Jobs, Publish(j) PROVE HoldApart'
  BY <1>1 DEF Publish, HoldApart
<1>2. ASSUME NEW w \in Workers, NEW c \in Copies, Deliver(w, c) PROVE HoldApart'
  <2>1. /\ message[c] \in Messages
        /\ worker'[w].copy = c /\ worker'[w].job = message[c].job
        /\ worker'[w].attempt = message[c].attempt
        /\ worker'[w].phase = "received"
        /\ \A v \in Workers \ {w} : worker'[v] = worker[v]
        /\ message'[c].place = "held" /\ message'[c].job = message[c].job
        /\ message'[c].attempt = message[c].attempt
        /\ message'[c].cause = message[c].cause
        /\ \A d \in Copies \ {c} : message'[d] = message[d]
    BY <1>2, UsedCopy DEF Deliver, TypeOK, Messages
  <2>2. \A v \in Workers : worker[v].copy # c
    BY <1>2 DEF Deliver, HoldsWhatItReceived, Held
  <2> QED
    BY <2>1, <2>2 DEF HoldApart
<1>3. ASSUME NEW w \in Workers, Onward(w) PROVE HoldApart'
  BY <1>3 DEF Onward, HoldApart
<1>4. ASSUME NEW w \in Workers, HandOver(w) PROVE HoldApart'
  BY <1>4, AdvanceFacts DEF HandOver, Phases, HoldApart
<1>5. ASSUME NEW w \in Workers, HandOverFails(w) PROVE HoldApart'
  <2>1. /\ \A v \in Workers \ {w} : worker'[v] = worker[v]
        /\ worker'[w] = Idle /\ worker'[w].copy \notin Copies
    BY <1>5, IdleFacts DEF HandOverFails, TypeOK
  <2> QED
    BY <2>1 DEF HoldApart
<1>6. ASSUME NEW w \in Workers, Ack(w) PROVE HoldApart'
  <2>1. /\ \A v \in Workers \ {w} : worker'[v] = worker[v]
        /\ worker'[w] = Idle /\ worker'[w].copy \notin Copies
    BY <1>6, IdleFacts DEF Ack, TypeOK
  <2> QED
    BY <2>1 DEF HoldApart
<1>7. ASSUME NEW w \in Workers, ConnectionLost(w) PROVE HoldApart'
  <2>1. /\ \A v \in Workers \ {w} : worker'[v] = worker[v]
        /\ worker'[w].copy \notin Copies /\ worker'[w].copy = NoCopy
        /\ worker'[w].phase = worker[w].phase /\ worker'[w].attempt = worker[w].attempt
        /\ worker'[w].cause = worker[w].cause
    <3>1. worker[w] \in Deliveries
      BY <1>7, IdleFacts DEF ConnectionLost, TypeOK, Deliveries
    <3> QED
      BY <1>7, <3>1, JobQueueAssumption DEF ConnectionLost, TypeOK, Deliveries
  <2> QED
    BY <2>1 DEF HoldApart
<1>8. ASSUME NEW w \in Workers, WorkerCrashes(w) PROVE HoldApart'
  <2>1. /\ \A v \in Workers \ {w} : worker'[v] = worker[v]
        /\ worker'[w] = Idle /\ worker'[w].copy \notin Copies
    BY <1>8, IdleFacts DEF WorkerCrashes, TypeOK
  <2> QED
    BY <2>1 DEF HoldApart
<1>9. ASSUME NEW c \in Copies, RetryElapses(c) PROVE HoldApart'
  BY <1>9 DEF RetryElapses, HoldApart
<1>10. CASE UNCHANGED vars
  BY <1>10 DEF vars, HoldApart
<1> QED
  BY <1>1, <1>2, <1>3, <1>4, <1>5, <1>6, <1>7, <1>8, <1>9, <1>10, NextCases

\* Whoever lets go of a copy requeues or removes it.
LEMMA HeldHasWorkerKept ==
  ASSUME TypeOK, HoldsWhatItReceived, HoldApart, HeldHasWorker, [Next]_vars
  PROVE  HeldHasWorker'
<1>1. ASSUME NEW j \in Jobs, Publish(j) PROVE HeldHasWorker'
  <2>1. PICK c \in Copies :
          /\ message[c] = NoMessage
          /\ \A d \in Copies \ {c} : message'[d] = message[d]
          /\ message'[c].place = "main" /\ message'[c].job = j /\ message'[c].attempt = 1
    <3>1. PICK c \in Copies :
            /\ message[c] = NoMessage
            /\ message' = [message EXCEPT ![c] =
                 [place |-> "main", job |-> j, attempt |-> 1, cause |-> "none"]]
      BY <1>1, AddedFacts DEF Publish, Free
    <3> QED
      BY <3>1 DEF TypeOK
  <2> QED
    BY <1>1, <2>1 DEF Publish, HeldHasWorker, Held
<1>2. ASSUME NEW w \in Workers, NEW c \in Copies, Deliver(w, c) PROVE HeldHasWorker'
  <2>1. /\ message[c] \in Messages
        /\ worker'[w].copy = c /\ worker'[w].job = message[c].job
        /\ worker'[w].attempt = message[c].attempt
        /\ worker'[w].phase = "received"
        /\ \A v \in Workers \ {w} : worker'[v] = worker[v]
        /\ message'[c].place = "held" /\ message'[c].job = message[c].job
        /\ message'[c].attempt = message[c].attempt
        /\ message'[c].cause = message[c].cause
        /\ \A d \in Copies \ {c} : message'[d] = message[d]
    BY <1>2, UsedCopy DEF Deliver, TypeOK, Messages
  <2>2. worker[w].copy \notin Copies
    BY <1>2, IdleFacts DEF Deliver
  <2> QED
    BY <2>1, <2>2 DEF HeldHasWorker, Held
<1>3. ASSUME NEW w \in Workers, Onward(w) PROVE HeldHasWorker'
  BY <1>3 DEF Onward, HeldHasWorker, Held
<1>4. ASSUME NEW w \in Workers, HandOver(w) PROVE HeldHasWorker'
  <2>1. PICK c \in Copies : Gains(w, c, message)
    BY <1>4, HandOverFacts
  <2>2. /\ \A v \in Workers : /\ worker'[v].copy = worker[v].copy
                              /\ worker'[v].job = worker[v].job
                              /\ worker'[v].attempt = worker[v].attempt
        /\ worker'[w].phase = "acking"
        /\ \A v \in Workers \ {w} : worker'[v] = worker[v]
    BY <1>4, AdvanceFacts DEF HandOver, Phases
  <2>3. /\ message[c] = NoMessage
        /\ message'[c] = HandedOver(w)
        /\ \A d \in Copies \ {c} : message'[d] = message[d]
    BY <2>1 DEF Gains, TypeOK
  <2>4. message'[c].place # "held"
    BY <2>3 DEF HandedOver
  <2> QED
    BY <2>2, <2>3, <2>4 DEF HeldHasWorker, Held
<1>5. ASSUME NEW w \in Workers, HandOverFails(w) PROVE HeldHasWorker'
  <2>1. /\ \A v \in Workers \ {w} : worker'[v] = worker[v]
        /\ worker'[w] = Idle /\ worker'[w].copy \notin Copies
    BY <1>5, IdleFacts DEF HandOverFails, TypeOK
  <2>2. \A d \in Copies : Held(d)' => Held(d) /\ d # worker[w].copy
    <3>1. HandedOver(w).place # "held"
      BY DEF HandedOver
    <3>2. \A d \in Copies : Requeued(w)[d].place = "held" =>
            Held(d) /\ d # worker[w].copy
      BY RequeuedFacts DEF Held
    <3>3. CASE message' = Requeued(w)
      BY <3>2, <3>3 DEF Held
    <3>4. ASSUME NEW c \in Copies, Gains(w, c, Requeued(w))
          PROVE  \A d \in Copies : Held(d)' => Held(d) /\ d # worker[w].copy
      BY <3>1, <3>2, <3>4, RequeuedFacts DEF Held, Gains
    <3> QED
      BY <1>5, <3>3, <3>4, HandOverFailsFacts
  <2> QED
    BY <2>1, <2>2 DEF HeldHasWorker
<1>6. ASSUME NEW w \in Workers, Ack(w) PROVE HeldHasWorker'
  <2>1. /\ \A v \in Workers \ {w} : worker'[v] = worker[v]
        /\ worker'[w] = Idle /\ worker'[w].copy \notin Copies
    BY <1>6, IdleFacts DEF Ack, TypeOK
  <2>2. /\ \A d \in Copies \ {worker[w].copy} : message'[d] = message[d]
        /\ worker[w].copy \in Copies => message'[worker[w].copy] = NoMessage
    BY <1>6, JobQueueAssumption DEF Ack, TypeOK
  <2> QED
    BY <2>1, <2>2, IdleFacts DEF HeldHasWorker, Held
<1>7. ASSUME NEW w \in Workers, ConnectionLost(w) PROVE HeldHasWorker'
  <2>1. /\ \A v \in Workers \ {w} : worker'[v] = worker[v]
        /\ worker'[w].copy \notin Copies /\ worker'[w].copy = NoCopy
        /\ worker'[w].phase = worker[w].phase /\ worker'[w].attempt = worker[w].attempt
        /\ worker'[w].cause = worker[w].cause
    <3>1. worker[w] \in Deliveries
      BY <1>7, IdleFacts DEF ConnectionLost, TypeOK, Deliveries
    <3> QED
      BY <1>7, <3>1, JobQueueAssumption DEF ConnectionLost, TypeOK, Deliveries
  <2>2. \A d \in Copies \ {worker[w].copy} : message'[d] = message[d]
    BY <1>7, RequeuedFacts DEF ConnectionLost
  <2>3. worker[w].copy \in Copies => message'[worker[w].copy].place = "main"
    BY <1>7, RequeuedFacts DEF ConnectionLost
  <2> QED
    BY <2>1, <2>2, <2>3 DEF HeldHasWorker, Held
<1>8. ASSUME NEW w \in Workers, WorkerCrashes(w) PROVE HeldHasWorker'
  <2>1. /\ \A v \in Workers \ {w} : worker'[v] = worker[v]
        /\ worker'[w] = Idle /\ worker'[w].copy \notin Copies
    BY <1>8, IdleFacts DEF WorkerCrashes, TypeOK
  <2>2. \A d \in Copies \ {worker[w].copy} : message'[d] = message[d]
    BY <1>8, RequeuedFacts DEF WorkerCrashes
  <2>3. worker[w].copy \in Copies => message'[worker[w].copy].place = "main"
    BY <1>8, RequeuedFacts DEF WorkerCrashes
  <2> QED
    BY <2>1, <2>2, <2>3 DEF HeldHasWorker, Held
<1>9. ASSUME NEW c \in Copies, RetryElapses(c) PROVE HeldHasWorker'
  <2>1. /\ worker' = worker
        /\ \A d \in Copies \ {c} : message'[d] = message[d]
        /\ message'[c].place = "main" /\ message'[c].job = message[c].job
        /\ message'[c].attempt = message[c].attempt
        /\ message'[c].cause = message[c].cause
        /\ message[c].place = "retry"
    BY <1>9, UsedCopy DEF RetryElapses, TypeOK, Messages
  <2> QED
    BY <2>1 DEF HeldHasWorker, Held
<1>10. CASE UNCHANGED vars
  BY <1>10 DEF vars, HeldHasWorker, Held
<1> QED
  BY <1>1, <1>2, <1>3, <1>4, <1>5, <1>6, <1>7, <1>8, <1>9, <1>10, NextCases

\* Only an acknowledgement removes a copy, and another one has been made, or the
\* job recorded, before it.
LEMMA JobStaysKept ==
  ASSUME TypeOK, HoldsWhatItReceived, HoldApart, HeldHasWorker, JobStays, [Next]_vars
  PROVE  JobStays'
<1>1. ASSUME NEW j \in Jobs, Publish(j) PROVE JobStays'
  <2>1. PICK c \in Copies :
          /\ message[c] = NoMessage
          /\ \A d \in Copies \ {c} : message'[d] = message[d]
          /\ message'[c].place = "main" /\ message'[c].job = j /\ message'[c].attempt = 1
    <3>1. PICK c \in Copies :
            /\ message[c] = NoMessage
            /\ message' = [message EXCEPT ![c] =
                 [place |-> "main", job |-> j, attempt |-> 1, cause |-> "none"]]
      BY <1>1, AddedFacts DEF Publish, Free
    <3> QED
      BY <3>1 DEF TypeOK
  <2>2. /\ message[c].job = NoJob /\ \A w \in Workers : worker[w].copy # c
    BY <2>1, IdleFacts DEF HoldsWhatItReceived, Held
  <2>3. \A i \in published' : i \in published \/ i = j
    BY <1>1 DEF Publish
  <2>4. \A i \in published : i # NoJob
    BY JobQueueAssumption DEF TypeOK
  <2> QED
    BY <1>1, <2>1, <2>2, <2>3, <2>4 DEF Publish, JobStays, Stays
<1>2. ASSUME NEW w \in Workers, NEW c \in Copies, Deliver(w, c) PROVE JobStays'
  <2>1. /\ message[c] \in Messages
        /\ worker'[w].copy = c /\ worker'[w].job = message[c].job
        /\ worker'[w].attempt = message[c].attempt
        /\ worker'[w].phase = "received"
        /\ \A v \in Workers \ {w} : worker'[v] = worker[v]
        /\ message'[c].place = "held" /\ message'[c].job = message[c].job
        /\ message'[c].attempt = message[c].attempt
        /\ message'[c].cause = message[c].cause
        /\ \A d \in Copies \ {c} : message'[d] = message[d]
    BY <1>2, UsedCopy DEF Deliver, TypeOK, Messages
  <2> QED
    BY <1>2, <2>1 DEF Deliver, JobStays, Stays
<1>3. ASSUME NEW w \in Workers, Onward(w) PROVE JobStays'
  <2> SUFFICES ASSUME NEW j \in published, j \notin processed'
               PROVE  \E c \in Copies : message[c].job = j /\ Stays(c)'
    BY <1>3 DEF Onward, JobStays
  <2>1. PICK c \in Copies : message[c].job = j /\ Stays(c)
    BY <1>3 DEF Onward, JobStays
  <2>2. worker[w].copy = c => worker'[w].phase # "acking"
    BY <1>3, <2>1 DEF Onward, HoldsWhatItReceived
  <2> QED
    BY <1>3, <2>1, <2>2 DEF Onward, Stays
<1>4. ASSUME NEW w \in Workers, HandOver(w) PROVE JobStays'
  <2>1. PICK c \in Copies : Gains(w, c, message)
    BY <1>4, HandOverFacts
  <2>2. /\ \A v \in Workers : /\ worker'[v].copy = worker[v].copy
                              /\ worker'[v].job = worker[v].job
                              /\ worker'[v].attempt = worker[v].attempt
        /\ worker'[w].phase = "acking"
        /\ \A v \in Workers \ {w} : worker'[v] = worker[v]
    BY <1>4, AdvanceFacts DEF HandOver, Phases
  <2>3. /\ message[c] = NoMessage
        /\ message'[c] = HandedOver(w)
        /\ \A d \in Copies \ {c} : message'[d] = message[d]
    BY <2>1 DEF Gains, TypeOK
  <2>4. \A v \in Workers : worker[v].copy # c
    BY <2>3, IdleFacts DEF HoldsWhatItReceived, Held
  <2>5. HandedOver(w).job = worker[w].job
    BY DEF HandedOver
  <2>6. \A j \in published : j # NoJob
    BY JobQueueAssumption DEF TypeOK
  <2> SUFFICES ASSUME NEW j \in published, j \notin processed
               PROVE  \E d \in Copies : message'[d].job = j /\ Stays(d)'
    BY <1>4 DEF HandOver, JobStays
  <2>7. PICK d \in Copies : message[d].job = j /\ Stays(d)
    BY DEF JobStays
  <2>8. CASE d = worker[w].copy
    <3>1. worker[w].job = j
      BY <2>7, <2>8 DEF HoldsWhatItReceived
    <3> QED
      BY <2>2, <2>3, <2>4, <2>5, <3>1 DEF Stays
  <2>9. CASE d # worker[w].copy
    <3>1. d # c
      BY <2>3, <2>6, <2>7, IdleFacts
    <3> QED
      BY <2>2, <2>3, <2>7, <2>9, <3>1 DEF Stays
  <2> QED
    BY <2>8, <2>9
<1>5. ASSUME NEW w \in Workers, HandOverFails(w) PROVE JobStays'
  <2>1. /\ \A v \in Workers \ {w} : worker'[v] = worker[v]
        /\ worker'[w] = Idle /\ worker'[w].copy \notin Copies
    BY <1>5, IdleFacts DEF HandOverFails, TypeOK
  <2>2. \A d \in Copies \ {worker[w].copy} :
          message[d] # NoMessage => message'[d] = message[d]
    BY <1>5, HandOverFailsFacts, RequeuedFacts DEF Gains
  <2>3. \A d \in Copies : d = worker[w].copy =>
          message'[d].job = message[d].job
    BY <1>5, HandOverFailsFacts, RequeuedFacts DEF Gains
  <2>4. \A j \in published : j # NoJob
    BY JobQueueAssumption DEF TypeOK
  <2>5. \A d \in Copies : message[d].job # NoJob => message'[d].job = message[d].job
    BY <2>2, <2>3, IdleFacts
  <2> QED
    BY <1>5, <2>1, <2>4, <2>5 DEF HandOverFails, JobStays, Stays
<1>6. ASSUME NEW w \in Workers, Ack(w) PROVE JobStays'
  <2>1. /\ \A v \in Workers \ {w} : worker'[v] = worker[v]
        /\ worker'[w] = Idle /\ worker'[w].copy \notin Copies
    BY <1>6, IdleFacts DEF Ack, TypeOK
  <2>2. /\ \A d \in Copies \ {worker[w].copy} : message'[d] = message[d]
        /\ worker[w].copy \in Copies => message'[worker[w].copy] = NoMessage
    BY <1>6, JobQueueAssumption DEF Ack, TypeOK
  <2>3. worker[w].phase = "acking"
    BY <1>6 DEF Ack
  <2> QED
    BY <1>6, <2>1, <2>2, <2>3 DEF Ack, JobStays, Stays
<1>7. ASSUME NEW w \in Workers, ConnectionLost(w) PROVE JobStays'
  <2>1. /\ \A v \in Workers \ {w} : worker'[v] = worker[v]
        /\ worker'[w].copy \notin Copies /\ worker'[w].copy = NoCopy
        /\ worker'[w].phase = worker[w].phase /\ worker'[w].attempt = worker[w].attempt
        /\ worker'[w].cause = worker[w].cause
    <3>1. worker[w] \in Deliveries
      BY <1>7, IdleFacts DEF ConnectionLost, TypeOK, Deliveries
    <3> QED
      BY <1>7, <3>1, JobQueueAssumption DEF ConnectionLost, TypeOK, Deliveries
  <2>2. \A d \in Copies \ {worker[w].copy} : message'[d] = message[d]
    BY <1>7, RequeuedFacts DEF ConnectionLost
  <2>3. \A d \in Copies : message'[d].job = message[d].job
    BY <1>7, <2>2, RequeuedFacts DEF ConnectionLost
  <2> QED
    BY <1>7, <2>1, <2>3 DEF ConnectionLost, JobStays, Stays
<1>8. ASSUME NEW w \in Workers, WorkerCrashes(w) PROVE JobStays'
  <2>1. /\ \A v \in Workers \ {w} : worker'[v] = worker[v]
        /\ worker'[w] = Idle /\ worker'[w].copy \notin Copies
    BY <1>8, IdleFacts DEF WorkerCrashes, TypeOK
  <2>2. \A d \in Copies \ {worker[w].copy} : message'[d] = message[d]
    BY <1>8, RequeuedFacts DEF WorkerCrashes
  <2>3. \A d \in Copies : message'[d].job = message[d].job
    BY <1>8, <2>2, RequeuedFacts DEF WorkerCrashes
  <2> QED
    BY <1>8, <2>1, <2>3 DEF WorkerCrashes, JobStays, Stays
<1>9. ASSUME NEW c \in Copies, RetryElapses(c) PROVE JobStays'
  <2>1. /\ worker' = worker
        /\ \A d \in Copies \ {c} : message'[d] = message[d]
        /\ message'[c].place = "main" /\ message'[c].job = message[c].job
        /\ message'[c].attempt = message[c].attempt
        /\ message'[c].cause = message[c].cause
        /\ message[c].place = "retry"
    BY <1>9, UsedCopy DEF RetryElapses, TypeOK, Messages
  <2> QED
    BY <1>9, <2>1 DEF RetryElapses, JobStays, Stays
<1>10. CASE UNCHANGED vars
  BY <1>10 DEF vars, JobStays, Stays
<1> QED
  BY <1>1, <1>2, <1>3, <1>4, <1>5, <1>6, <1>7, <1>8, <1>9, <1>10, NextCases

\* Retries adds an attempt only while there is one left.
LEMMA AttemptsCountedKept ==
  ASSUME TypeOK, HoldsWhatItReceived, AttemptsCounted, [Next]_vars
  PROVE  AttemptsCounted'
<1>1. ASSUME NEW j \in Jobs, Publish(j) PROVE AttemptsCounted'
  <2>1. PICK c \in Copies :
          /\ message[c] = NoMessage
          /\ \A d \in Copies \ {c} : message'[d] = message[d]
          /\ message'[c].place = "main" /\ message'[c].job = j /\ message'[c].attempt = 1
    <3>1. PICK c \in Copies :
            /\ message[c] = NoMessage
            /\ message' = [message EXCEPT ![c] =
                 [place |-> "main", job |-> j, attempt |-> 1, cause |-> "none"]]
      BY <1>1, AddedFacts DEF Publish, Free
    <3> QED
      BY <3>1 DEF TypeOK
  <2> QED
    BY <1>1, <2>1, JobQueueAssumption DEF Publish, AttemptsCounted
<1>2. ASSUME NEW w \in Workers, NEW c \in Copies, Deliver(w, c) PROVE AttemptsCounted'
  <2>1. /\ message[c] \in Messages
        /\ worker'[w].copy = c /\ worker'[w].job = message[c].job
        /\ worker'[w].attempt = message[c].attempt
        /\ worker'[w].phase = "received"
        /\ \A v \in Workers \ {w} : worker'[v] = worker[v]
        /\ message'[c].place = "held" /\ message'[c].job = message[c].job
        /\ message'[c].attempt = message[c].attempt
        /\ message'[c].cause = message[c].cause
        /\ \A d \in Copies \ {c} : message'[d] = message[d]
    BY <1>2, UsedCopy DEF Deliver, TypeOK, Messages
  <2> QED
    BY <2>1 DEF AttemptsCounted
<1>3. ASSUME NEW w \in Workers, Onward(w) PROVE AttemptsCounted'
  BY <1>3 DEF Onward, AttemptsCounted
<1>4. ASSUME NEW w \in Workers, HandOver(w) PROVE AttemptsCounted'
  <2>1. PICK c \in Copies : Gains(w, c, message)
    BY <1>4, HandOverFacts
  <2>2. /\ \A v \in Workers : /\ worker'[v].copy = worker[v].copy
                              /\ worker'[v].job = worker[v].job
                              /\ worker'[v].attempt = worker[v].attempt
        /\ worker'[w].phase = "acking"
        /\ \A v \in Workers \ {w} : worker'[v] = worker[v]
    BY <1>4, AdvanceFacts DEF HandOver, Phases
  <2>3. /\ message[c] = NoMessage
        /\ message'[c] = HandedOver(w)
        /\ \A d \in Copies \ {c} : message'[d] = message[d]
    BY <2>1 DEF Gains, TypeOK
  <2>4. HandedOver(w).attempt <= MaxAttempts
    <3>1. worker[w] \in Deliveries
      BY <1>4, BusyWorker DEF HandOver
    <3> QED
      BY <3>1, JobQueueAssumption DEF HandedOver, Retries, AttemptsCounted, Deliveries
  <2> QED
    BY <2>2, <2>3, <2>4 DEF AttemptsCounted
<1>5. ASSUME NEW w \in Workers, HandOverFails(w) PROVE AttemptsCounted'
  <2>1. /\ \A v \in Workers \ {w} : worker'[v] = worker[v]
        /\ worker'[w] = Idle /\ worker'[w].copy \notin Copies
    BY <1>5, IdleFacts DEF HandOverFails, TypeOK
  <2>2. HandedOver(w).attempt <= MaxAttempts
    <3>1. worker[w] \in Deliveries
      BY <1>5, BusyWorker DEF HandOverFails
    <3> QED
      BY <3>1, JobQueueAssumption DEF HandedOver, Retries, AttemptsCounted, Deliveries
  <2>3. \A d \in Copies : Requeued(w)[d].attempt <= MaxAttempts
    BY RequeuedFacts DEF AttemptsCounted
  <2>4. \A d \in Copies : message'[d].attempt <= MaxAttempts
    BY <1>5, <2>2, <2>3, HandOverFailsFacts, RequeuedFacts DEF Gains
  <2> QED
    BY <2>1, <2>4, IdleFacts, JobQueueAssumption DEF AttemptsCounted
<1>6. ASSUME NEW w \in Workers, Ack(w) PROVE AttemptsCounted'
  <2>1. /\ \A v \in Workers \ {w} : worker'[v] = worker[v]
        /\ worker'[w] = Idle /\ worker'[w].copy \notin Copies
    BY <1>6, IdleFacts DEF Ack, TypeOK
  <2>2. /\ \A d \in Copies \ {worker[w].copy} : message'[d] = message[d]
        /\ worker[w].copy \in Copies => message'[worker[w].copy] = NoMessage
    BY <1>6, JobQueueAssumption DEF Ack, TypeOK
  <2> QED
    BY <2>1, <2>2, IdleFacts, JobQueueAssumption DEF AttemptsCounted
<1>7. ASSUME NEW w \in Workers, ConnectionLost(w) PROVE AttemptsCounted'
  <2>1. /\ \A v \in Workers \ {w} : worker'[v] = worker[v]
        /\ worker'[w].copy \notin Copies /\ worker'[w].copy = NoCopy
        /\ worker'[w].phase = worker[w].phase /\ worker'[w].attempt = worker[w].attempt
        /\ worker'[w].cause = worker[w].cause
    <3>1. worker[w] \in Deliveries
      BY <1>7, IdleFacts DEF ConnectionLost, TypeOK, Deliveries
    <3> QED
      BY <1>7, <3>1, JobQueueAssumption DEF ConnectionLost, TypeOK, Deliveries
  <2>2. \A d \in Copies \ {worker[w].copy} : message'[d] = message[d]
    BY <1>7, RequeuedFacts DEF ConnectionLost
  <2>3. \A d \in Copies : message'[d].attempt = message[d].attempt
    BY <1>7, <2>2, RequeuedFacts DEF ConnectionLost
  <2> QED
    BY <2>1, <2>3, IdleFacts, JobQueueAssumption DEF AttemptsCounted
<1>8. ASSUME NEW w \in Workers, WorkerCrashes(w) PROVE AttemptsCounted'
  <2>1. /\ \A v \in Workers \ {w} : worker'[v] = worker[v]
        /\ worker'[w] = Idle /\ worker'[w].copy \notin Copies
    BY <1>8, IdleFacts DEF WorkerCrashes, TypeOK
  <2>2. \A d \in Copies \ {worker[w].copy} : message'[d] = message[d]
    BY <1>8, RequeuedFacts DEF WorkerCrashes
  <2>3. \A d \in Copies : message'[d].attempt = message[d].attempt
    BY <1>8, <2>2, RequeuedFacts DEF WorkerCrashes
  <2> QED
    BY <2>1, <2>3, IdleFacts, JobQueueAssumption DEF AttemptsCounted
<1>9. ASSUME NEW c \in Copies, RetryElapses(c) PROVE AttemptsCounted'
  <2>1. /\ worker' = worker
        /\ \A d \in Copies \ {c} : message'[d] = message[d]
        /\ message'[c].place = "main" /\ message'[c].job = message[c].job
        /\ message'[c].attempt = message[c].attempt
        /\ message'[c].cause = message[c].cause
        /\ message[c].place = "retry"
    BY <1>9, UsedCopy DEF RetryElapses, TypeOK, Messages
  <2> QED
    BY <2>1 DEF AttemptsCounted
<1>10. CASE UNCHANGED vars
  BY <1>10 DEF vars, AttemptsCounted
<1> QED
  BY <1>1, <1>2, <1>3, <1>4, <1>5, <1>6, <1>7, <1>8, <1>9, <1>10, NextCases

\* classifyHandlerError never makes a busy run final.
LEMMA BusyRetriesKept ==
  ASSUME TypeOK, HoldsWhatItReceived, BusyRetries, [Next]_vars
  PROVE  BusyRetries'
<1>1. ASSUME NEW j \in Jobs, Publish(j) PROVE BusyRetries'
  <2>1. PICK c \in Copies :
          /\ message[c] = NoMessage
          /\ \A d \in Copies \ {c} : message'[d] = message[d]
          /\ message'[c].place = "main" /\ message'[c].job = j /\ message'[c].attempt = 1
    <3>1. PICK c \in Copies :
            /\ message[c] = NoMessage
            /\ message' = [message EXCEPT ![c] =
                 [place |-> "main", job |-> j, attempt |-> 1, cause |-> "none"]]
      BY <1>1, AddedFacts DEF Publish, Free
    <3> QED
      BY <3>1 DEF TypeOK
  <2> QED
    BY <1>1, <2>1 DEF Publish, BusyRetries, BusyIsNotBuried
<1>2. ASSUME NEW w \in Workers, NEW c \in Copies, Deliver(w, c) PROVE BusyRetries'
  <2>1. /\ message[c] \in Messages
        /\ worker'[w].copy = c /\ worker'[w].job = message[c].job
        /\ worker'[w].attempt = message[c].attempt
        /\ worker'[w].phase = "received"
        /\ \A v \in Workers \ {w} : worker'[v] = worker[v]
        /\ message'[c].place = "held" /\ message'[c].job = message[c].job
        /\ message'[c].attempt = message[c].attempt
        /\ message'[c].cause = message[c].cause
        /\ \A d \in Copies \ {c} : message'[d] = message[d]
    BY <1>2, UsedCopy DEF Deliver, TypeOK, Messages
  <2> QED
    BY <2>1 DEF BusyRetries, BusyIsNotBuried
<1>3. ASSUME NEW w \in Workers, Onward(w) PROVE BusyRetries'
  BY <1>3 DEF Onward, BusyRetries, BusyIsNotBuried
<1>4. ASSUME NEW w \in Workers, HandOver(w) PROVE BusyRetries'
  <2>1. PICK c \in Copies : Gains(w, c, message)
    BY <1>4, HandOverFacts
  <2>2. /\ \A v \in Workers : /\ worker'[v].copy = worker[v].copy
                              /\ worker'[v].job = worker[v].job
                              /\ worker'[v].attempt = worker[v].attempt
        /\ worker'[w].phase = "acking"
        /\ \A v \in Workers \ {w} : worker'[v] = worker[v]
    BY <1>4, AdvanceFacts DEF HandOver, Phases
  <2>3. /\ message[c] = NoMessage
        /\ message'[c] = HandedOver(w)
        /\ \A d \in Copies \ {c} : message'[d] = message[d]
    BY <2>1 DEF Gains, TypeOK
  <2>4. HandedOver(w).place = "dead" => HandedOver(w).cause # "busy"
    BY <1>4 DEF HandOver, HandedOver, Retries, BusyRetries
  <2> QED
    BY <2>2, <2>3, <2>4 DEF BusyRetries, BusyIsNotBuried
<1>5. ASSUME NEW w \in Workers, HandOverFails(w) PROVE BusyRetries'
  <2>1. /\ \A v \in Workers \ {w} : worker'[v] = worker[v]
        /\ worker'[w] = Idle /\ worker'[w].copy \notin Copies
    BY <1>5, IdleFacts DEF HandOverFails, TypeOK
  <2>2. HandedOver(w).place = "dead" => HandedOver(w).cause # "busy"
    BY <1>5 DEF HandOverFails, HandedOver, Retries, BusyRetries
  <2>3. \A d \in Copies : Requeued(w)[d].place = "dead" => Requeued(w)[d].cause # "busy"
    BY RequeuedFacts DEF BusyRetries, BusyIsNotBuried
  <2>4. \A d \in Copies : message'[d].place = "dead" => message'[d].cause # "busy"
    BY <1>5, <2>2, <2>3, HandOverFailsFacts, RequeuedFacts DEF Gains
  <2> QED
    BY <2>1, <2>4, IdleFacts DEF BusyRetries, BusyIsNotBuried
<1>6. ASSUME NEW w \in Workers, Ack(w) PROVE BusyRetries'
  <2>1. /\ \A v \in Workers \ {w} : worker'[v] = worker[v]
        /\ worker'[w] = Idle /\ worker'[w].copy \notin Copies
    BY <1>6, IdleFacts DEF Ack, TypeOK
  <2>2. /\ \A d \in Copies \ {worker[w].copy} : message'[d] = message[d]
        /\ worker[w].copy \in Copies => message'[worker[w].copy] = NoMessage
    BY <1>6, JobQueueAssumption DEF Ack, TypeOK
  <2> QED
    BY <2>1, <2>2, IdleFacts DEF BusyRetries, BusyIsNotBuried
<1>7. ASSUME NEW w \in Workers, ConnectionLost(w) PROVE BusyRetries'
  <2>1. /\ \A v \in Workers \ {w} : worker'[v] = worker[v]
        /\ worker'[w].copy \notin Copies /\ worker'[w].copy = NoCopy
        /\ worker'[w].phase = worker[w].phase /\ worker'[w].attempt = worker[w].attempt
        /\ worker'[w].cause = worker[w].cause
    <3>1. worker[w] \in Deliveries
      BY <1>7, IdleFacts DEF ConnectionLost, TypeOK, Deliveries
    <3> QED
      BY <1>7, <3>1, JobQueueAssumption DEF ConnectionLost, TypeOK, Deliveries
  <2>2. \A d \in Copies \ {worker[w].copy} : message'[d] = message[d]
    BY <1>7, RequeuedFacts DEF ConnectionLost
  <2>3. worker[w].copy \in Copies => message'[worker[w].copy].place = "main"
    BY <1>7, RequeuedFacts DEF ConnectionLost
  <2> QED
    BY <2>1, <2>2, <2>3, IdleFacts DEF BusyRetries, BusyIsNotBuried
<1>8. ASSUME NEW w \in Workers, WorkerCrashes(w) PROVE BusyRetries'
  <2>1. /\ \A v \in Workers \ {w} : worker'[v] = worker[v]
        /\ worker'[w] = Idle /\ worker'[w].copy \notin Copies
    BY <1>8, IdleFacts DEF WorkerCrashes, TypeOK
  <2>2. \A d \in Copies \ {worker[w].copy} : message'[d] = message[d]
    BY <1>8, RequeuedFacts DEF WorkerCrashes
  <2>3. worker[w].copy \in Copies => message'[worker[w].copy].place = "main"
    BY <1>8, RequeuedFacts DEF WorkerCrashes
  <2> QED
    BY <2>1, <2>2, <2>3, IdleFacts DEF BusyRetries, BusyIsNotBuried
<1>9. ASSUME NEW c \in Copies, RetryElapses(c) PROVE BusyRetries'
  <2>1. /\ worker' = worker
        /\ \A d \in Copies \ {c} : message'[d] = message[d]
        /\ message'[c].place = "main" /\ message'[c].job = message[c].job
        /\ message'[c].attempt = message[c].attempt
        /\ message'[c].cause = message[c].cause
        /\ message[c].place = "retry"
    BY <1>9, UsedCopy DEF RetryElapses, TypeOK, Messages
  <2> QED
    BY <2>1 DEF BusyRetries, BusyIsNotBuried
<1>10. CASE UNCHANGED vars
  BY <1>10 DEF vars, BusyRetries, BusyIsNotBuried
<1> QED
  BY <1>1, <1>2, <1>3, <1>4, <1>5, <1>6, <1>7, <1>8, <1>9, <1>10, NextCases

-----------------------------------------------------------------------------
(* Counting what is on its way for a job.                                  *)

\* What is on its way are finitely many things.
LEMMA CarriersFinite ==
  ASSUME NEW j
  PROVE  /\ IsFiniteSet(Carrying(j)) /\ IsFiniteSet(Detached(j))
         /\ Cardinality(Carrying(j)) \in Nat /\ Cardinality(Detached(j)) \in Nat
<1>1. Carrying(j) \in SUBSET Copies /\ Detached(j) \in SUBSET Workers
  BY DEF Carrying, Detached
<1>2. IsFiniteSet(Carrying(j)) /\ IsFiniteSet(Detached(j))
  BY <1>1, FiniteAssumption, FS_Subset
<1> QED
  BY <1>2, FS_CardinalityType

\* A finite set that changes by an element: it may gain one, or lose one, or
\* have one replaced.
LEMMA Gained ==
  ASSUME NEW S, IsFiniteSet(S), NEW x, NEW T, T \subseteq S \cup {x}
  PROVE  Cardinality(T) <= Cardinality(S) + 1
<1>1. /\ IsFiniteSet(S \cup {x}) /\ Cardinality(S \cup {x}) <= Cardinality(S) + 1
      /\ Cardinality(S) \in Nat /\ Cardinality(S \cup {x}) \in Nat
  BY FS_AddElement, FS_CardinalityType
<1>2. IsFiniteSet(T) /\ Cardinality(T) <= Cardinality(S \cup {x})
  BY <1>1, FS_Subset
<1>3. Cardinality(T) \in Nat
  BY <1>2, FS_CardinalityType
<1> QED
  BY <1>1, <1>2, <1>3

LEMMA Dropped ==
  ASSUME NEW S, IsFiniteSet(S), NEW y \in S, NEW T, T \subseteq S \ {y}
  PROVE  Cardinality(T) <= Cardinality(S) - 1
<1>1. /\ IsFiniteSet(S \ {y}) /\ Cardinality(S \ {y}) = Cardinality(S) - 1
  BY FS_RemoveElement
<1> QED
  BY <1>1, FS_Subset

LEMMA Replaced ==
  ASSUME NEW S, IsFiniteSet(S), NEW y \in S, NEW x, NEW T,
         T \subseteq (S \ {y}) \cup {x}
  PROVE  Cardinality(T) <= Cardinality(S)
<1>1. /\ IsFiniteSet(S \ {y}) /\ Cardinality(S \ {y}) = Cardinality(S) - 1
      /\ Cardinality(S) \in Nat
  BY FS_RemoveElement, FS_CardinalityType
<1>2. Cardinality(T) <= Cardinality(S \ {y}) + 1
  BY <1>1, Gained
<1> QED
  BY <1>1, <1>2

\* The ways in which a step may change what is on its way for a job.
Unmultiplied(j) ==
  \/ /\ Carrying(j)' \subseteq Carrying(j)
     /\ Detached(j)' \subseteq Detached(j)
  \/ /\ \E c \in Carrying(j), d \in Copies :
           Carrying(j)' \subseteq (Carrying(j) \ {c}) \cup {d}
     /\ Detached(j)' \subseteq Detached(j)
  \/ /\ \E d \in Copies : Carrying(j)' \subseteq Carrying(j) \cup {d}
     /\ \E w \in Detached(j) : Detached(j)' \subseteq Detached(j) \ {w}

Multiplied(j) ==
  /\ faults' = faults + 1
  /\ \/ /\ \E d \in Copies : Carrying(j)' \subseteq Carrying(j) \cup {d}
        /\ Detached(j)' \subseteq Detached(j)
     \/ /\ Carrying(j)' \subseteq Carrying(j)
        /\ \E w \in Workers : Detached(j)' \subseteq Detached(j) \cup {w}

\* Only the second one needs a fault, and it pays for it.
LEMMA CountsKept ==
  ASSUME NEW j, faults \in Nat, faults' \in Nat, faults' >= faults,
         Cardinality(Carrying(j)) + Cardinality(Detached(j)) <= 1 + faults,
         Unmultiplied(j) \/ Multiplied(j)
  PROVE  (Cardinality(Carrying(j)) + Cardinality(Detached(j)) <= 1 + faults)'
<1> DEFINE L == Carrying(j)   U == Detached(j)
<1>1. /\ IsFiniteSet(L) /\ IsFiniteSet(U)
      /\ Cardinality(L) \in Nat /\ Cardinality(U) \in Nat
  BY CarriersFinite
<1>2. Cardinality(L)' \in Nat /\ Cardinality(U)' \in Nat
  <2>1. Carrying(j)' \in SUBSET Copies /\ Detached(j)' \in SUBSET Workers
    BY DEF Carrying, Detached
  <2>2. IsFiniteSet(Carrying(j)') /\ IsFiniteSet(Detached(j)')
    BY <2>1, FiniteAssumption, FS_Subset
  <2> QED
    BY <2>2, FS_CardinalityType
<1>3. L' \subseteq L => Cardinality(L') <= Cardinality(L)
  BY <1>1, FS_Subset
<1>4. U' \subseteq U => Cardinality(U') <= Cardinality(U)
  BY <1>1, FS_Subset
<1>5. \A c \in L, d \in Copies : L' \subseteq (L \ {c}) \cup {d} => Cardinality(L') <= Cardinality(L)
  BY <1>1, Replaced
<1>6. \A d \in Copies : L' \subseteq L \cup {d} => Cardinality(L') <= Cardinality(L) + 1
  BY <1>1, Gained
<1>7. \A w \in U : U' \subseteq U \ {w} => Cardinality(U') <= Cardinality(U) - 1
  BY <1>1, Dropped
<1>8. \A w \in Workers : U' \subseteq U \cup {w} => Cardinality(U') <= Cardinality(U) + 1
  BY <1>1, Gained
<1> HIDE DEF L, U
<1>9. Cardinality(L)' = Cardinality(L') /\ Cardinality(U)' = Cardinality(U')
  OBVIOUS
<1>10. CASE Unmultiplied(j)
  BY <1>1, <1>2, <1>3, <1>4, <1>5, <1>6, <1>7, <1>9, <1>10 DEF Unmultiplied, L, U
<1>11. CASE Multiplied(j)
  BY <1>1, <1>2, <1>3, <1>4, <1>6, <1>8, <1>9, <1>11 DEF Multiplied, L, U
<1> QED
  BY <1>10, <1>11

\* Only a fault multiplies what is on its way for a job: a hand-over puts one
\* message in the place of the one that is about to be acknowledged.
LEMMA AccountedKept ==
  ASSUME TypeOK, HoldsWhatItReceived, HoldApart, HeldHasWorker, Accounted, [Next]_vars
  PROVE  Accounted'
<1> DEFINE Changes == \A j \in published : Unmultiplied(j) \/ Multiplied(j)
           Owned == \A j \in Jobs \ published :
                      /\ \A c \in Copies : message'[c].job # j
                      /\ \A w \in Workers : worker'[w].job # j
           Faulty == faults' \in {faults, faults + 1}
<1>0. /\ NoJob \notin Jobs /\ NoCopy \notin Copies /\ published \subseteq Jobs
      /\ faults \in Nat
  BY JobQueueAssumption DEF TypeOK
<1>1. ASSUME NEW j \in Jobs, Publish(j)
      PROVE  Accounted'
  <2>1. PICK c \in Copies :
          /\ message[c] = NoMessage
          /\ \A d \in Copies \ {c} : message'[d] = message[d]
          /\ message'[c].job = j
    <3>1. PICK c \in Copies :
            /\ message[c] = NoMessage
            /\ message' = [message EXCEPT ![c] =
                 [place |-> "main", job |-> j, attempt |-> 1, cause |-> "none"]]
      BY <1>1, AddedFacts DEF Publish, Free
    <3> QED
      BY <3>1 DEF TypeOK
  <2>2. /\ message[c].job = NoJob /\ \A w \in Workers : worker[w].copy # c
    BY <2>1, IdleFacts DEF HoldsWhatItReceived, Held
  <2>3. /\ worker' = worker /\ published' = published \cup {j}
        /\ j \in published => faults' = faults + 1
        /\ j \notin published => faults' = faults
    BY <1>1 DEF Publish, Fault
  <2>4. ASSUME NEW i \in published, i # j
        PROVE  Unmultiplied(i)
    <3>1. Carrying(i)' \subseteq Carrying(i) /\ Detached(i)' \subseteq Detached(i)
      BY <2>1, <2>3, <2>4 DEF Carrying, Detached, Stays
    <3> QED
      BY <3>1 DEF Unmultiplied
  <2>5. ASSUME j \in published
        PROVE  Multiplied(j)
    <3>1. Carrying(j)' \subseteq Carrying(j) \cup {c} /\ Detached(j)' \subseteq Detached(j)
      BY <2>1, <2>3 DEF Carrying, Detached, Stays
    <3> QED
      BY <2>3, <2>5, <3>1 DEF Multiplied
  <2>6. ASSUME j \notin published
        PROVE  (Cardinality(Carrying(j)) + Cardinality(Detached(j)) <= 1 + faults)'
    <3>1. Carrying(j)' = {c} /\ Detached(j)' = {}
      BY <2>1, <2>2, <2>3, <2>6 DEF Accounted, Carrying, Detached, Stays
    <3>2. Cardinality(Carrying(j)') = 1 /\ Cardinality(Detached(j)') = 0
      BY <3>1, FS_Singleton, FS_EmptySet
    <3> QED
      BY <1>0, <2>3, <2>6, <3>2
  <2>7. ASSUME NEW i \in Jobs, i \notin published'
        PROVE  /\ \A d \in Copies : message'[d].job # i
               /\ \A w \in Workers : worker'[w].job # i
    BY <2>1, <2>3, <2>7 DEF Accounted
  <2>8. faults' \in Nat /\ faults' >= faults
    BY <1>0, <2>3
  <2> SUFFICES ASSUME NEW i \in published'
               PROVE  (Cardinality(Carrying(i)) + Cardinality(Detached(i)) <= 1 + faults)'
    BY <2>7 DEF Accounted
  <2> QED
    BY <1>0, <1>1, <2>3, <2>4, <2>5, <2>6, <2>8, CountsKept DEF Accounted
<1>2. ASSUME Changes, Owned, Faulty, published' = published
      PROVE  Accounted'
  <2>1. faults' \in Nat /\ faults' >= faults
    BY <1>0, <1>2
  <2> QED
    BY <1>0, <1>2, <2>1, CountsKept DEF Accounted
<1>3. ASSUME NEW w \in Workers, NEW c \in Copies, Deliver(w, c)
      PROVE  Changes /\ Owned /\ Faulty /\ published' = published
  <2>1. /\ message[c] \in Messages /\ worker[w] = Idle
        /\ worker'[w].copy = c /\ worker'[w].job = message[c].job
        /\ worker'[w].phase = "received"
        /\ \A v \in Workers \ {w} : worker'[v] = worker[v]
        /\ message'[c].job = message[c].job
        /\ \A d \in Copies \ {c} : message'[d] = message[d]
    BY <1>3, UsedCopy DEF Deliver, TypeOK, Messages
  <2>2. ~Held(c)
    BY <1>3 DEF Deliver, Held
  <2>3. \A v \in Workers : worker[v].copy # c
    BY <2>2 DEF HoldsWhatItReceived
  <2>4. ASSUME NEW j \in published
        PROVE  Unmultiplied(j)
    <3>1. Carrying(j)' \subseteq Carrying(j)
      <4>1. \A d \in Copies : message'[d].job = message[d].job
        BY <2>1
      <4>2. \A d \in Copies, v \in Workers :
              worker[v].copy = d => worker'[v] = worker[v]
        BY <2>1, IdleFacts
      <4> QED
        BY <4>1, <4>2 DEF Carrying, Stays
    <3>2. Detached(j)' \subseteq Detached(j)
      BY <1>0, <2>1 DEF Detached
    <3> QED
      BY <3>1, <3>2 DEF Unmultiplied
  <2>5. Owned
    BY <2>1 DEF Accounted
  <2> QED
    BY <1>3, <2>4, <2>5 DEF Deliver
<1>4. ASSUME NEW w \in Workers, Onward(w)
      PROVE  Changes /\ Owned /\ Faulty /\ published' = published
  <2>1. ASSUME NEW j \in published
        PROVE  Unmultiplied(j)
    <3>1. \A v \in Workers : worker[v].phase = "acking" => worker'[v].phase = "acking"
      BY <1>4 DEF Onward
    <3>2. Carrying(j)' \subseteq Carrying(j)
      BY <1>4, <3>1 DEF Onward, Carrying, Stays
    <3>3. Detached(j)' \subseteq Detached(j)
      BY <1>4, <3>1 DEF Onward, Detached
    <3> QED
      BY <3>2, <3>3 DEF Unmultiplied
  <2>2. Owned
    BY <1>4 DEF Accounted, Onward
  <2> QED
    BY <1>4, <2>1, <2>2 DEF Onward
<1>5. ASSUME NEW w \in Workers, HandOver(w)
      PROVE  Changes /\ Owned /\ Faulty /\ published' = published
  <2>1. PICK c \in Copies : Gains(w, c, message)
    BY <1>5, HandOverFacts
  <2>2. /\ \A v \in Workers : /\ worker'[v].copy = worker[v].copy
                              /\ worker'[v].job = worker[v].job
        /\ worker'[w].phase = "acking" /\ worker[w].phase # "acking"
        /\ \A v \in Workers \ {w} : worker'[v] = worker[v]
    BY <1>5, AdvanceFacts DEF HandOver, Phases
  <2>3. /\ message[c] = NoMessage
        /\ message'[c].job = worker[w].job
        /\ \A d \in Copies \ {c} : message'[d] = message[d]
    BY <2>1 DEF Gains, TypeOK, HandedOver
  <2>4. ASSUME NEW j \in published, worker[w].job # j
        PROVE  Unmultiplied(j)
    <3>1. Carrying(j)' \subseteq Carrying(j)
      BY <2>2, <2>3, <2>4 DEF Carrying, Stays
    <3>2. Detached(j)' \subseteq Detached(j)
      BY <2>2 DEF Detached
    <3> QED
      BY <3>1, <3>2 DEF Unmultiplied
  <2>5. ASSUME NEW j \in published, worker[w].job = j, worker[w].copy \in Copies
        PROVE  Unmultiplied(j)
    <3> DEFINE k == worker[w].copy
    <3>1. k \in Carrying(j)
      BY <2>2, <2>5 DEF HoldsWhatItReceived, HoldApart, Carrying, Stays
    <3>2. Carrying(j)' \subseteq (Carrying(j) \ {k}) \cup {c}
      BY <2>2, <2>3 DEF Carrying, Stays
    <3>3. Detached(j)' \subseteq Detached(j)
      BY <2>2 DEF Detached
    <3> QED
      BY <3>1, <3>2, <3>3 DEF Unmultiplied
  <2>6. ASSUME NEW j \in published, worker[w].job = j, worker[w].copy = NoCopy
        PROVE  Unmultiplied(j)
    <3>1. w \in Detached(j)
      BY <2>2, <2>6 DEF Detached
    <3>2. Carrying(j)' \subseteq Carrying(j) \cup {c}
      BY <2>2, <2>3 DEF Carrying, Stays
    <3>3. Detached(j)' \subseteq Detached(j) \ {w}
      BY <2>2 DEF Detached
    <3> QED
      BY <3>1, <3>2, <3>3 DEF Unmultiplied
  <2>7. worker[w].copy \in Copies \/ worker[w].copy = NoCopy
    BY IdleFacts DEF TypeOK
  <2>8. Owned
    BY <2>2, <2>3 DEF Accounted
  <2> QED
    BY <1>5, <2>4, <2>5, <2>6, <2>7, <2>8 DEF HandOver
<1>6. ASSUME NEW w \in Workers, worker'[w] = Idle, worker[w].phase # "idle",
             \A v \in Workers \ {w} : worker'[v] = worker[v],
             NEW c,
             \A d \in Copies \ {c} : message'[d].job = message[d].job,
             c \in Copies =>
               message'[c].job \in {message[c].job, worker[w].job, NoJob},
             published' = published
      PROVE  /\ Owned
             /\ \A j \in published : /\ Carrying(j)' \subseteq Carrying(j) \cup {c, worker[w].copy}
                                     /\ Detached(j)' \subseteq Detached(j)
             /\ worker[w].phase # "acking" =>
                  \A j \in published : Carrying(j)' \subseteq Carrying(j) \cup {c}
  <2>1. Owned
    BY <1>0, <1>6, IdleFacts DEF Accounted
  <2>2. ASSUME NEW j \in published
        PROVE  /\ Carrying(j)' \subseteq Carrying(j) \cup {c, worker[w].copy}
               /\ Detached(j)' \subseteq Detached(j)
               /\ worker[w].phase # "acking" => Carrying(j)' \subseteq Carrying(j) \cup {c}
    <3>1. j # NoJob
      BY <1>0
    <3>2. Detached(j)' \subseteq Detached(j)
      BY <1>6, <3>1, IdleFacts DEF Detached
    <3>3. Carrying(j)' \subseteq Carrying(j) \cup {c, worker[w].copy}
      BY <1>6, <3>1 DEF Carrying, Stays
    <3>4. worker[w].phase # "acking" => Carrying(j)' \subseteq Carrying(j) \cup {c}
      BY <1>6, <3>1 DEF Carrying, Stays
    <3> QED
      BY <3>2, <3>3, <3>4
  <2> QED
    BY <2>1, <2>2
<1>7. ASSUME NEW w \in Workers, HandOverFails(w)
      PROVE  Changes /\ Owned /\ Faulty /\ published' = published
  <2>1. /\ worker'[w] = Idle /\ worker[w].phase \notin {"idle", "acking"}
        /\ \A v \in Workers \ {w} : worker'[v] = worker[v]
        /\ faults' = faults + 1 /\ published' = published
    BY <1>7 DEF HandOverFails, TypeOK, Fault
  <2>2. CASE message' = Requeued(w)
    <3> DEFINE c == worker[w].copy
    <3>1. \A d \in Copies : message'[d].job = message[d].job
      BY <2>2, RequeuedFacts
    <3>2. /\ Owned
          /\ \A j \in published : /\ Carrying(j)' \subseteq Carrying(j) \cup {c}
                                  /\ Detached(j)' \subseteq Detached(j)
      BY <1>6, <2>1, <3>1
    <3>3. ASSUME NEW j \in published
          PROVE  Unmultiplied(j) \/ Multiplied(j)
      <4>1. Carrying(j)' \subseteq Copies
        BY DEF Carrying
      <4> QED
        BY <2>1, <3>2, <4>1 DEF Unmultiplied, Multiplied
    <3> QED
      BY <2>1, <3>2, <3>3
  <2>3. ASSUME NEW c \in Copies \ {worker[w].copy}, Gains(w, c, Requeued(w))
        PROVE  Changes /\ Owned
    <3>1. \A d \in Copies \ {c} : message'[d].job = message[d].job
      BY <2>3, RequeuedFacts DEF Gains
    <3>2. message'[c].job = worker[w].job
      BY <2>3, RequeuedFacts DEF Gains, HandedOver
    <3>3. /\ Owned
          /\ \A j \in published : /\ Carrying(j)' \subseteq Carrying(j) \cup {c}
                                  /\ Detached(j)' \subseteq Detached(j)
      BY <1>6, <2>1, <3>1, <3>2
    <3> QED
      BY <2>1, <3>3 DEF Multiplied
  <2> QED
    BY <1>7, <2>1, <2>2, <2>3, HandOverFailsFacts
<1>8. ASSUME NEW w \in Workers, Ack(w)
      PROVE  Changes /\ Owned /\ Faulty /\ published' = published
  <2> DEFINE c == worker[w].copy
  <2>1. /\ worker'[w] = Idle /\ worker[w].phase # "idle"
        /\ \A v \in Workers \ {w} : worker'[v] = worker[v]
        /\ faults' = faults /\ published' = published
    BY <1>8 DEF Ack, TypeOK
  <2>2. /\ \A d \in Copies \ {c} : message'[d].job = message[d].job
        /\ c \in Copies => message'[c].job = NoJob
    BY <1>8, JobQueueAssumption, IdleFacts DEF Ack, TypeOK
  <2>3. /\ Owned
        /\ \A j \in published : /\ Carrying(j)' \subseteq Carrying(j) \cup {c}
                                /\ Detached(j)' \subseteq Detached(j)
    BY <1>6, <2>1, <2>2
  <2>4. ASSUME NEW j \in published
        PROVE  Unmultiplied(j)
    <3>1. c \notin Carrying(j)'
      BY <1>0, <2>2 DEF Carrying
    <3> QED
      BY <2>3, <3>1 DEF Unmultiplied
  <2> QED
    BY <2>1, <2>3, <2>4
<1>9. ASSUME NEW w \in Workers, ConnectionLost(w)
      PROVE  Changes /\ Owned /\ Faulty /\ published' = published
  <2> DEFINE c == worker[w].copy
  <2>1. /\ c \in Copies /\ worker[w] \in Deliveries
        /\ \A v \in Workers \ {w} : worker'[v] = worker[v]
        /\ worker'[w].copy = NoCopy
        /\ worker'[w].phase = worker[w].phase /\ worker'[w].job = worker[w].job
        /\ faults' = faults + 1 /\ published' = published
    <3>1. worker[w] \in Deliveries /\ c \in Copies
      BY <1>9, IdleFacts DEF ConnectionLost, TypeOK, Deliveries
    <3> QED
      BY <1>9, <3>1 DEF ConnectionLost, TypeOK, Deliveries, Fault
  <2>2. \A d \in Copies : message'[d].job = message[d].job
    BY <1>9, RequeuedFacts DEF ConnectionLost
  <2>3. ASSUME NEW j \in published, worker[w].phase = "acking"
        PROVE  Multiplied(j)
    <3>1. Carrying(j)' \subseteq Carrying(j) \cup {c} /\ Detached(j)' \subseteq Detached(j)
      BY <2>1, <2>2, <2>3 DEF Carrying, Detached, Stays
    <3> QED
      BY <2>1, <3>1 DEF Multiplied
  <2>4. ASSUME NEW j \in published, worker[w].phase # "acking"
        PROVE  Multiplied(j)
    <3>1. Carrying(j)' \subseteq Carrying(j) /\ Detached(j)' \subseteq Detached(j) \cup {w}
      BY <2>1, <2>2, <2>4 DEF Carrying, Detached, Stays
    <3> QED
      BY <2>1, <3>1 DEF Multiplied
  <2>5. Owned
    BY <2>1, <2>2 DEF Accounted
  <2> QED
    BY <2>1, <2>3, <2>4, <2>5
<1>10. ASSUME NEW w \in Workers, WorkerCrashes(w)
       PROVE  Changes /\ Owned /\ Faulty /\ published' = published
  <2> DEFINE c == worker[w].copy
  <2>1. /\ worker'[w] = Idle /\ worker[w].phase # "idle"
        /\ \A v \in Workers \ {w} : worker'[v] = worker[v]
        /\ faults' = faults + 1 /\ published' = published
    BY <1>10 DEF WorkerCrashes, TypeOK, Deliveries, Fault
  <2>2. \A d \in Copies : message'[d].job = message[d].job
    BY <1>10, RequeuedFacts DEF WorkerCrashes
  <2>3. /\ Owned
        /\ \A j \in published : /\ Carrying(j)' \subseteq Carrying(j) \cup {c}
                                /\ Detached(j)' \subseteq Detached(j)
    BY <1>6, <2>1, <2>2
  <2>4. ASSUME NEW j \in published
        PROVE  Unmultiplied(j) \/ Multiplied(j)
    <3>1. Carrying(j)' \subseteq Copies
      BY DEF Carrying
    <3> QED
      BY <2>1, <2>3, <3>1 DEF Unmultiplied, Multiplied
  <2> QED
    BY <2>1, <2>3, <2>4
<1>11. ASSUME NEW c \in Copies, RetryElapses(c)
       PROVE  Changes /\ Owned /\ Faulty /\ published' = published
  <2>1. /\ worker' = worker /\ faults' = faults /\ published' = published
        /\ \A d \in Copies : message'[d].job = message[d].job
    BY <1>11, UsedCopy DEF RetryElapses, TypeOK, Messages
  <2>2. ASSUME NEW j \in published
        PROVE  Unmultiplied(j)
    <3>1. Carrying(j)' \subseteq Carrying(j) /\ Detached(j)' \subseteq Detached(j)
      BY <2>1 DEF Carrying, Detached, Stays
    <3> QED
      BY <3>1 DEF Unmultiplied
  <2> QED
    BY <2>1, <2>2 DEF Accounted
<1>12. CASE UNCHANGED vars
  BY <1>12 DEF vars, Accounted, Carrying, Detached, Stays
<1> QED
  BY <1>1, <1>2, <1>3, <1>4, <1>5, <1>7, <1>8, <1>9, <1>10, <1>11, <1>12, NextCases

-----------------------------------------------------------------------------
(* Theorems.                                                               *)

LEMMA InitIInv == Init => IInv
<1> SUFFICES ASSUME Init PROVE IInv
  OBVIOUS
<1>1. /\ \A c \in Copies : message[c] = NoMessage
      /\ \A w \in Workers : worker[w] = Idle
      /\ published = {}
  BY DEF Init
<1>2. TypeOK
  BY JobQueueAssumption DEF Init, TypeOK
<1>3. HoldsWhatItReceived /\ HoldApart /\ HeldHasWorker /\ JobStays
  BY <1>1, IdleFacts DEF HoldsWhatItReceived, HoldApart, HeldHasWorker, JobStays, Held
<1>4. AttemptsCounted /\ BusyRetries
  BY <1>1, IdleFacts, JobQueueAssumption DEF AttemptsCounted, BusyRetries, BusyIsNotBuried
<1>5. Accounted
  BY <1>1, IdleFacts, JobQueueAssumption DEF Accounted
<1> QED
  BY <1>2, <1>3, <1>4, <1>5 DEF IInv

LEMMA IInvKept == IInv /\ [Next]_vars => IInv'
  BY TypeOKKept, HoldsWhatItReceivedKept, HoldApartKept, HeldHasWorkerKept,
     JobStaysKept, AttemptsCountedKept, BusyRetriesKept, AccountedKept DEF IInv

\* The invariant needs no fairness.
LEMMA IInvHolds == Safe => []IInv
  BY InitIInv, IInvKept, PTL DEF Safe

\* Type correctness of the broker and the workers.
THEOREM QueueTypeCorrect == Spec => []TypeOK
<1>1. IInv => TypeOK
  BY DEF IInv
<1> QED
  BY <1>1, IInvHolds, PTL DEF Spec

\* A published job is processed or still in the broker, whatever crashes: a
\* message is only acknowledged after its copy is confirmed.
THEOREM JobsAreNotLost == Spec => []NoJobLost
<1>1. IInv => NoJobLost
  BY DEF IInv, JobStays, NoJobLost
<1> QED
  BY <1>1, IInvHolds, PTL DEF Spec

\* A delivery belongs to one worker, which acknowledges or requeues it.
THEOREM DeliveriesAreExclusive == Spec => []HeldByOneWorker
<1>1. IInv => HeldByOneWorker
  BY DEF IInv, HeldHasWorker, HoldApart, HeldByOneWorker
<1> QED
  BY <1>1, IInvHolds, PTL DEF Spec

\* No message is sent for more than SHOPIFY_SYNC_MAX_ATTEMPTS attempts.
THEOREM RetriesAreBounded == Spec => []AttemptsBounded
<1>1. IInv => AttemptsBounded
  BY DEF IInv, AttemptsCounted, AttemptsBounded
<1> QED
  BY <1>1, IInvHolds, PTL DEF Spec

\* A job whose run is busy with another worker is never buried for that.
THEOREM BusyJobsAreRetried == Spec => []BusyIsNotBuried
<1>1. IInv => BusyIsNotBuried
  BY DEF IInv, BusyRetries
<1> QED
  BY <1>1, IInvHolds, PTL DEF Spec

\* A job is attempted by two workers at once, or sent twice, only after something
\* broke: what is on its way for it is one thing, and one more for every crash,
\* lost connection or lost confirm so far.
THEOREM OnlyFaultsDuplicate == Spec => []DuplicatesAreFaults
<1>1. IInv => DuplicatesAreFaults
  <2> SUFFICES ASSUME IInv, NEW j \in Jobs, j \notin published
               PROVE  Cardinality(Carrying(j)) + Cardinality(Detached(j)) <= 1 + faults
    BY DEF IInv, Accounted, DuplicatesAreFaults
  <2>1. Carrying(j) = {} /\ Detached(j) = {}
    BY DEF IInv, Accounted, Carrying, Detached
  <2>2. faults \in Nat
    BY JobQueueAssumption DEF IInv, TypeOK
  <2> QED
    BY <2>1, <2>2, FS_EmptySet
<1> QED
  BY <1>1, IInvHolds, PTL DEF Spec
=============================================================================
