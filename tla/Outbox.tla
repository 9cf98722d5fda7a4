------------------------------- MODULE Outbox -------------------------------
(***************************************************************************)
(* The transactional outbox: the rows of outbox_messages and the API      *)
(* instances that hand them to the broker, each from one goroutine that   *)
(* claims a batch every second (publishOutbox), publishes it message by   *)
(* message and records the result.  A claim is not a lock: after five     *)
(* minutes another instance may claim the row again while the first is    *)
(* still at work, and both may publish it.                                *)
(*                                                                         *)
(* Claiming, completing and rescheduling are one database transaction     *)
(* each, and one step each; publishing is a step of its own between them.  *)
(***************************************************************************)
EXTENDS Naturals, FiniteSets

CONSTANTS
  Jobs,        \* jobs written to the outbox
  Publishers,  \* API instances
  NoJob,       \* the job of an instance that waits for no result
  BatchLimit,  \* LIMIT of claimOutbox
  MaxFaults    \* bound: broker refusals, database errors and crashes

ASSUME OutboxAssumption ==
  /\ NoJob \notin Jobs
  /\ BatchLimit \in Nat \ {0}
  /\ MaxFaults \in Nat

VARIABLES
  row,      \* outbox_messages.status; "none" while the row does not exist
  due,      \* rows whose available_at has passed
  stale,    \* rows last updated more than five minutes ago
  broker,   \* jobs the main queue has accepted, once or more
  batch,    \* per instance: claimed messages it has not dealt with
  attempt,  \* per instance: the publication it has yet to record
  faults    \* faults so far

vars == <<row, due, stale, broker, batch, attempt, faults>>

-----------------------------------------------------------------------------
RowStatus == {"none", "pending", "publishing", "published", "failed"}
NoAttempt == [job |-> NoJob, result |-> "none"]
Attempt   == {NoAttempt} \cup [job : Jobs, result : {"accepted", "refused"}]

TypeOK ==
  /\ row \in [Jobs -> RowStatus]
  /\ due \subseteq Jobs
  /\ stale \subseteq Jobs
  /\ broker \subseteq Jobs
  /\ batch \in [Publishers -> SUBSET Jobs]
  /\ attempt \in [Publishers -> Attempt]
  /\ faults \in 0 .. MaxFaults

Init ==
  /\ row = [j \in Jobs |-> "none"]
  /\ due = {}
  /\ stale = {}
  /\ broker = {}
  /\ batch = [p \in Publishers |-> {}]
  /\ attempt = [p \in Publishers |-> NoAttempt]
  /\ faults = 0

\* A failure of the broker, the database or the process; there are finitely
\* many of them.
Fault == faults < MaxFaults /\ faults' = faults + 1

-----------------------------------------------------------------------------
\* CreateSyncRun or enqueueSyncRunTx commits the row with its run.
Enqueue(j) ==
  /\ row[j] = "none"
  /\ row' = [row EXCEPT ![j] = "pending"]
  /\ due' = due \cup {j}
  /\ UNCHANGED <<stale, broker, batch, attempt, faults>>

\* Mutant: rows left in 'publishing' by a crash are never claimed again.
ClaimableOnce(j) == row[j] \in {"pending", "failed"} /\ j \in due

\* The WHERE clause of claimOutbox.
Claimable(j) ==
  \/ row[j] \in {"pending", "failed"} /\ j \in due
  \/ row[j] = "publishing" /\ j \in stale

\* claimOutbox.  SKIP LOCKED passes over rows another transaction holds, so
\* any claimable rows may be the oldest ones left.
Claim(p) ==
  /\ batch[p] = {}
  /\ \E claimed \in SUBSET {j \in Jobs : Claimable(j)} :
       /\ claimed # {}
       /\ Cardinality(claimed) <= BatchLimit
       /\ batch' = [batch EXCEPT ![p] = claimed]
       /\ row' = [j \in Jobs |-> IF j \in claimed THEN "publishing" ELSE row[j]]
       /\ stale' = stale \ claimed
  /\ UNCHANGED <<due, broker, attempt, faults>>

\* The broker confirms the message.
PublishAccepted(p, j) ==
  /\ attempt[p] = NoAttempt
  /\ j \in batch[p]
  /\ broker' = broker \cup {j}
  /\ attempt' = [attempt EXCEPT ![p] = [job |-> j, result |-> "accepted"]]
  /\ UNCHANGED <<row, due, stale, batch, faults>>

\* Mutant: an error of Publish is taken for a success.
PublishErrorIgnored(p, j) ==
  /\ attempt[p] = NoAttempt
  /\ j \in batch[p]
  /\ Fault
  /\ attempt' = [attempt EXCEPT ![p] = [job |-> j, result |-> "accepted"]]
  /\ broker' \in {broker, broker \cup {j}}
  /\ UNCHANGED <<row, due, stale, batch>>

\* Publish returns an error: no connection, a negative confirm, a returned
\* message, or a confirm that was lost although the broker has the message.
PublishRefused(p, j) ==
  /\ attempt[p] = NoAttempt
  /\ j \in batch[p]
  /\ Fault
  /\ attempt' = [attempt EXCEPT ![p] = [job |-> j, result |-> "refused"]]
  /\ broker' \in {broker, broker \cup {j}}
  /\ UNCHANGED <<row, due, stale, batch>>

\* Mutant: the result of the last publication is not forgotten.
RecordedHalf(p) ==
  /\ batch' = [batch EXCEPT ![p] = @ \ {attempt[p].job}]
  /\ attempt' = [attempt EXCEPT ![p].job = NoJob]

\* The instance goes on with the rest of its batch.
Recorded(p) ==
  /\ batch' = [batch EXCEPT ![p] = @ \ {attempt[p].job}]
  /\ attempt' = [attempt EXCEPT ![p] = NoAttempt]

\* completeOutbox: UPDATE ... WHERE status='publishing'.
Complete(p) ==
  LET j == attempt[p].job IN
  /\ attempt[p].result = "accepted"
  /\ IF row[j] = "publishing"
       THEN /\ row' = [row EXCEPT ![j] = "published"]
            /\ stale' = stale \ {j}
       ELSE UNCHANGED <<row, stale>>
  /\ Recorded(p)
  /\ UNCHANGED <<due, broker, faults>>

\* Mutant: the UPDATE forgets the status.
RetryUnguarded(p) ==
  LET j == attempt[p].job IN
  /\ attempt[p].result = "refused"
  /\ row' = [row EXCEPT ![j] = "failed"]
  /\ due' = due \ {j}
  /\ stale' = stale \ {j}
  /\ Recorded(p)
  /\ UNCHANGED <<broker, faults>>

\* retryOutbox: UPDATE ... WHERE status='publishing'.
Retry(p) ==
  LET j == attempt[p].job IN
  /\ attempt[p].result = "refused"
  /\ IF row[j] = "publishing"
       THEN /\ row' = [row EXCEPT ![j] = "failed"]
            /\ due' = due \ {j}
            /\ stale' = stale \ {j}
       ELSE UNCHANGED <<row, due, stale>>
  /\ Recorded(p)
  /\ UNCHANGED <<broker, faults>>

\* The process dies or is shut down, or the UPDATE that records a result
\* fails: PublishOutboxBatch gives up the rest of the batch, its rows stay
\* 'publishing'.
BatchAborts(p) ==
  /\ batch[p] # {}
  /\ Fault
  /\ batch' = [batch EXCEPT ![p] = {}]
  /\ attempt' = [attempt EXCEPT ![p] = NoAttempt]
  /\ UNCHANGED <<row, due, stale, broker>>

\* outboxBackoff after a failed publication.
BackoffElapses(j) ==
  /\ row[j] = "failed"
  /\ j \notin due
  /\ due' = due \cup {j}
  /\ UNCHANGED <<row, stale, broker, batch, attempt, faults>>

\* Five minutes after the claim.
ClaimGoesStale(j) ==
  /\ row[j] = "publishing"
  /\ j \notin stale
  /\ stale' = stale \cup {j}
  /\ UNCHANGED <<row, due, broker, batch, attempt, faults>>

-----------------------------------------------------------------------------
PublisherStep(p) ==
  \/ Claim(p)
  \/ \E j \in Jobs : PublishAccepted(p, j) \/ PublishRefused(p, j)
  \/ Complete(p)
  \/ Retry(p)
  \/ BatchAborts(p)

TimePasses == \E j \in Jobs : BackoffElapses(j) \/ ClaimGoesStale(j)

Next ==
  \/ \E j \in Jobs : Enqueue(j)
  \/ \E p \in Publishers : PublisherStep(p)
  \/ TimePasses

\* publishOutbox runs until shutdown and never blocks on one message; clocks
\* advance.
Fairness ==
  /\ \A p \in Publishers :
       /\ WF_vars(Claim(p))
       /\ WF_vars(\E j \in Jobs : PublishAccepted(p, j))
       /\ WF_vars(Complete(p))
       /\ WF_vars(Retry(p))
  /\ \A j \in Jobs :
       /\ WF_vars(BackoffElapses(j))
       /\ WF_vars(ClaimGoesStale(j))

Safe == Init /\ [][Next]_vars
Spec == Safe /\ Fairness

-----------------------------------------------------------------------------
(* Properties.                                                             *)

\* A row is marked published only when the broker has the job, although the
\* instance that marks it need not be the one that claimed it last.
PublishedIsDelivered == \A j \in Jobs : row[j] = "published" => j \in broker

\* An instance that claimed a row long ago and reports late never reopens a
\* row that another instance has published since.
PublishedIsFinal ==
  [][\A j \in Jobs : row[j] = "published" => row'[j] = "published"]_vars

\* The outbox keeps its promise, crashes and broker outages included: every
\* committed job is delivered and then settled.
Promise == INSTANCE AtLeastOnce WITH
  stored    <- {j \in Jobs : row[j] # "none"},
  delivered <- broker,
  settled   <- {j \in Jobs : row[j] = "published"}

KeepsPromise == Promise!Spec
=============================================================================
