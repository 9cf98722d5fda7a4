---------------------------- MODULE Outbox_proofs ----------------------------
(* Theorems about Outbox, for any jobs, any number of API instances, any     *)
(* batch limit and any number of faults.                                     *)
EXTENDS Outbox, TLAPS

\* What an instance holds was committed, and what it believes accepted was.
HandIsSound ==
  /\ \A p \in Publishers : \A j \in batch[p] : row[j] # "none"
  /\ \A p \in Publishers : attempt[p].result = "accepted" => attempt[p].job \in broker
  /\ \A j \in broker : row[j] # "none"

OInv == TypeOK /\ HandIsSound /\ PublishedIsDelivered

-----------------------------------------------------------------------------
\* Every action keeps every variable in its type.
LEMMA OTypePreserved ==
  ASSUME TypeOK, [Next]_vars
  PROVE  TypeOK'
<1> USE OutboxAssumption DEF TypeOK, RowStatus, Attempt, NoAttempt, Fault
<1>1. ASSUME NEW j \in Jobs, Enqueue(j)
      PROVE  TypeOK'
  BY <1>1 DEF Enqueue
<1>2. ASSUME NEW p \in Publishers, Claim(p)
      PROVE  TypeOK'
  BY <1>2 DEF Claim, Claimable
<1>3. ASSUME NEW p \in Publishers, NEW j \in Jobs, PublishAccepted(p, j)
      PROVE  TypeOK'
  BY <1>3 DEF PublishAccepted
<1>4. ASSUME NEW p \in Publishers, NEW j \in Jobs, PublishRefused(p, j)
      PROVE  TypeOK'
  BY <1>4 DEF PublishRefused
<1>5. ASSUME NEW p \in Publishers, Complete(p)
      PROVE  TypeOK'
  BY <1>5 DEF Complete, Recorded
<1>6. ASSUME NEW p \in Publishers, Retry(p)
      PROVE  TypeOK'
  BY <1>6 DEF Retry, Recorded
<1>7. ASSUME NEW p \in Publishers, BatchAborts(p)
      PROVE  TypeOK'
  BY <1>7 DEF BatchAborts
<1>8. ASSUME NEW j \in Jobs, BackoffElapses(j) \/ ClaimGoesStale(j)
      PROVE  TypeOK'
  BY <1>8 DEF BackoffElapses, ClaimGoesStale
<1>9. CASE UNCHANGED vars
  BY <1>9 DEF vars
<1>10. QED
  BY <1>1, <1>2, <1>3, <1>4, <1>5, <1>6, <1>7, <1>8, <1>9
  DEF Next, PublisherStep, TimePasses

\* A row never disappears, and a published row stays published.
RowsKept ==
  \A j \in Jobs :
    /\ row[j] # "none" => row'[j] # "none"
    /\ row[j] = "published" => row'[j] = "published"

LEMMA StepKeepsRows ==
  ASSUME TypeOK, [Next]_vars
  PROVE  RowsKept
<1> USE DEF TypeOK, RowsKept
<1>1. CASE row' = row
  BY <1>1
<1>2. ASSUME NEW j \in Jobs, Enqueue(j)
      PROVE  RowsKept
  BY <1>2 DEF Enqueue
<1>3. ASSUME NEW p \in Publishers, Claim(p)
      PROVE  RowsKept
  BY <1>3 DEF Claim, Claimable
<1>4. ASSUME NEW p \in Publishers, Complete(p)
      PROVE  RowsKept
  BY <1>4 DEF Complete
<1>5. ASSUME NEW p \in Publishers, Retry(p)
      PROVE  RowsKept
  BY <1>5 DEF Retry
<1>6. QED
  BY <1>1, <1>2, <1>3, <1>4, <1>5
  DEF Next, PublisherStep, TimePasses, PublishAccepted, PublishRefused,
      BatchAborts, BackoffElapses, ClaimGoesStale, vars

LEMMA OInvPreserved ==
  ASSUME OInv, [Next]_vars
  PROVE  OInv'
<1> USE DEF OInv, HandIsSound, PublishedIsDelivered
<1>1. TypeOK'
  BY OTypePreserved
<1>2. RowsKept
  BY StepKeepsRows
<1> USE DEF TypeOK, RowsKept
<1>3. CASE UNCHANGED <<batch, attempt, broker>> /\ \A j \in Jobs : row'[j] = "published" => row[j] = "published"
  BY <1>1, <1>2, <1>3
<1>4. ASSUME NEW p \in Publishers, Claim(p)
      PROVE  OInv'
  <2>1. UNCHANGED <<attempt, broker>>
    BY <1>4 DEF Claim
  <2>2. \A q \in Publishers : \A j \in batch'[q] : row'[j] # "none"
    BY <1>2, <1>4 DEF Claim
  <2>3. \A j \in Jobs : row'[j] = "published" => row[j] = "published"
    BY <1>4 DEF Claim
  <2>4. QED
    BY <1>1, <1>2, <2>1, <2>2, <2>3
<1>5. ASSUME NEW p \in Publishers, NEW j \in Jobs,
             PublishAccepted(p, j) \/ PublishRefused(p, j)
      PROVE  OInv'
  BY <1>1, <1>5 DEF PublishAccepted, PublishRefused
<1>6. ASSUME NEW p \in Publishers, Complete(p)
      PROVE  OInv'
  <2>1. /\ \A q \in Publishers : batch'[q] \subseteq batch[q]
        /\ \A q \in Publishers : attempt'[q] \in {attempt[q], NoAttempt}
        /\ broker' = broker
    BY <1>6 DEF Complete, Recorded
  <2>2. \A j \in Jobs : row'[j] = "published" => j \in broker
    BY <1>6 DEF Complete
  <2>3. QED
    BY <1>1, <1>2, <2>1, <2>2 DEF NoAttempt
<1>7. ASSUME NEW p \in Publishers, Retry(p) \/ BatchAborts(p)
      PROVE  OInv'
  <2>1. /\ \A q \in Publishers : batch'[q] \subseteq batch[q]
        /\ \A q \in Publishers : attempt'[q] \in {attempt[q], NoAttempt}
        /\ broker' = broker
    BY <1>7 DEF Retry, BatchAborts, Recorded
  <2>2. \A j \in Jobs : row'[j] = "published" => row[j] = "published"
    BY <1>7 DEF Retry, BatchAborts
  <2>3. QED
    BY <1>1, <1>2, <2>1, <2>2 DEF NoAttempt
<1>8. ASSUME NEW j \in Jobs, Enqueue(j)
      PROVE  OInv'
  BY <1>1, <1>2, <1>8 DEF Enqueue
<1>9. QED
  BY <1>3, <1>4, <1>5, <1>6, <1>7, <1>8
  DEF Next, PublisherStep, TimePasses, BackoffElapses, ClaimGoesStale, vars

-----------------------------------------------------------------------------
(* The theorems.                                                             *)

LEMMA OInitEstablishes == Init => OInv
BY OutboxAssumption DEF Init, OInv, TypeOK, HandIsSound, PublishedIsDelivered,
   RowStatus, Attempt, NoAttempt

\* The strengthened invariant is inductive.
THEOREM OInvariance == Safe => []OInv
BY OInitEstablishes, OInvPreserved, PTL DEF Safe

\* Every variable of the outbox stays in its type.
THEOREM OutboxTypeCorrect == Safe => []TypeOK
<1>1. OInv => TypeOK
  BY DEF OInv
<1>2. QED
  BY OInvariance, <1>1, PTL

\* completeOutbox marks only rows whose job the broker has.
THEOREM PublishedWasDelivered == Safe => []PublishedIsDelivered
<1>1. OInv => PublishedIsDelivered
  BY DEF OInv
<1>2. QED
  BY OInvariance, <1>1, PTL

\* A late retryOutbox never reopens a published row.
THEOREM PublicationIsFinal == Safe => PublishedIsFinal
<1>1. OInv /\ [Next]_vars
      => [\A j \in Jobs : row[j] = "published" => row'[j] = "published"]_vars
  BY StepKeepsRows DEF OInv, RowsKept
<1>2. QED
  BY OInvariance, <1>1, PTL DEF Safe, PublishedIsFinal

\* The safety part of the refinement: the outbox stores, delivers and settles
\* jobs in no other order than AtLeastOnce allows.
THEOREM OutboxRefines == Safe => Promise!Safe
<1> USE DEF Promise!vars
<1>1. Init => Promise!Init
  BY DEF Init, Promise!Init
<1>2. OInv /\ [Next]_vars => [Promise!Next]_(Promise!vars)
  <2> SUFFICES ASSUME OInv, [Next]_vars
               PROVE  [Promise!Next]_(Promise!vars)
    OBVIOUS
  <2> USE DEF OInv, TypeOK, HandIsSound, PublishedIsDelivered
  <2>1. ASSUME NEW j \in Jobs, Enqueue(j)
        PROVE  Promise!Store(j)
    BY <2>1 DEF Enqueue, Promise!Store
  <2>2. ASSUME NEW p \in Publishers, NEW j \in Jobs,
               PublishAccepted(p, j) \/ PublishRefused(p, j)
        PROVE  Promise!Deliver(j) \/ UNCHANGED Promise!vars
    BY <2>2 DEF PublishAccepted, PublishRefused, Promise!Deliver
  <2>3. ASSUME NEW p \in Publishers, NEW j \in Jobs, j = attempt[p].job, Complete(p)
        PROVE  Promise!Settle(j) \/ UNCHANGED Promise!vars
    BY <2>3 DEF Complete, Promise!Settle
  <2>4. ASSUME NEW p \in Publishers, Claim(p)
        PROVE  UNCHANGED Promise!vars
    BY <2>4 DEF Claim, Claimable
  <2>5. ASSUME NEW p \in Publishers, Retry(p)
        PROVE  UNCHANGED Promise!vars
    BY <2>5 DEF Retry
  <2>6. CASE UNCHANGED <<row, broker>>
    BY <2>6
  <2>7. ASSUME NEW p \in Publishers, Complete(p)
        PROVE  attempt[p].job \in Jobs
    BY <2>7 DEF Complete, Attempt, NoAttempt
  <2>8. QED
    BY <2>1, <2>2, <2>3, <2>4, <2>5, <2>6, <2>7
    DEF Next, PublisherStep, TimePasses, BatchAborts, BackoffElapses,
        ClaimGoesStale, vars, Promise!Next
<1>3. QED
  BY OInvariance, <1>1, <1>2, PTL DEF Safe, Promise!Safe
=============================================================================
