---------------------------- MODULE AtLeastOnce ----------------------------
(***************************************************************************)
(* What a transactional outbox promises to the code that writes to it:    *)
(* a job whose row was committed reaches the broker, at least once, and a *)
(* job is only settled (never published again) after it did.              *)
(***************************************************************************)
CONSTANT Jobs

VARIABLES
  stored,     \* jobs whose outbox row was committed
  delivered,  \* jobs the broker has accepted
  settled     \* jobs that will not be published again

vars == <<stored, delivered, settled>>

Init == stored = {} /\ delivered = {} /\ settled = {}

Store(j) ==
  /\ j \notin stored
  /\ stored' = stored \cup {j}
  /\ UNCHANGED <<delivered, settled>>

Deliver(j) ==
  /\ j \in stored
  /\ delivered' = delivered \cup {j}
  /\ UNCHANGED <<stored, settled>>

Settle(j) ==
  /\ j \in delivered
  /\ settled' = settled \cup {j}
  /\ UNCHANGED <<stored, delivered>>

Next == \E j \in Jobs : Store(j) \/ Deliver(j) \/ Settle(j)

Safe == Init /\ [][Next]_vars
Spec == Safe /\ \A j \in Jobs : WF_vars(Deliver(j)) /\ WF_vars(Settle(j))
=============================================================================
