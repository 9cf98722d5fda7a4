-------------------------- MODULE AccessPolicy_proofs --------------------------
(* Proofs about AccessPolicy, for any number of requests, users and roles. *)
EXTENDS AccessPolicy, TLAPS

-----------------------------------------------------------------------------
(* Types.                                                                  *)

\* A step keeps the types.
LEMMA PolicyTypeIsKept == PolicyTypeOK /\ [PolicyNext]_policyVars => PolicyTypeOK'
<1> USE AccessPolicyAssumption DEF AccessPolicyAssumption
<1> SUFFICES ASSUME PolicyTypeOK, [PolicyNext]_policyVars
             PROVE  PolicyTypeOK'
  OBVIOUS
<1> USE DEF PolicyTypeOK, Goes, tables, authorizer, locals, Changes
<1>1. ASSUME NEW p \in Procs, NEW u \in Users, Admit(p, u)
      PROVE  PolicyTypeOK'
  BY <1>1 DEF Admit
<1>2. ASSUME NEW p \in Procs, NEW u \in Users, CreateUser(p, u) \/ UpdateUser(p, u)
      PROVE  PolicyTypeOK'
  BY <1>2 DEF CreateUser, UpdateUser
<1>3. ASSUME NEW p \in Procs, NEW k \in Users \cup Roles, NEW values,
             {k} \X values \subseteq Pairs, Replaces(p, k, values)
      PROVE  PolicyTypeOK'
  <2>1. RowsOf(k) \subseteq Pairs
    BY DEF RowsOf
  <2> QED BY <1>3, <2>1 DEF Replaces
<1>4. ASSUME NEW p \in Procs, SetUserRoles(p) \/ SetRolePermissions(p)
      PROVE  PolicyTypeOK'
  <2>1. CASE SetUserRoles(p)
    BY <2>1, <1>3 DEF SetUserRoles, Pairs
  <2>2. CASE SetRolePermissions(p)
    BY <2>2, <1>3 DEF SetRolePermissions, Pairs
  <2> QED BY <1>4, <2>1, <2>2
<1>5. ASSUME NEW p \in Procs, Replaced(p)
      PROVE  PolicyTypeOK'
  BY <1>5 DEF Replaced, Written, Unanswered, Forgets
<1>6. ASSUME NEW p \in Procs, NEW r \in Roles, DeleteRole(p, r)
      PROVE  PolicyTypeOK'
  <2>1. policy' \subseteq Pairs /\ roles' \subseteq Roles
    BY <1>6 DEF DeleteRole
  <2>2. pc' \in [Procs -> {"idle", "admitted", "replacing", "written",
                          "cleared", "loaded"}]
    BY <1>6 DEF DeleteRole, Written, Unanswered
  <2>3. unsettled' \in BOOLEAN
    BY <1>6 DEF DeleteRole, Written, Unanswered
  <2>4. changes' \in 0 .. MaxChanges
    BY <1>6 DEF DeleteRole
  <2> QED BY <1>6, <2>1, <2>2, <2>3, <2>4 DEF DeleteRole
<1>7. ASSUME NEW p \in Procs, Refused(p)
      PROVE  PolicyTypeOK'
  BY <1>7 DEF Refused, Forgets
<1>8. ASSUME NEW p \in Procs, SignIn(p)
      PROVE  PolicyTypeOK'
  BY <1>8 DEF SignIn, Written
<1>9. ASSUME NEW p \in Procs, NEW u \in Users, FirstSignIn(p, u)
      PROVE  PolicyTypeOK'
  <2>1. policy' \subseteq Pairs
    BY <1>9 DEF FirstSignIn, Pairs
  <2>2. unsettled' \in BOOLEAN
    BY <1>9 DEF FirstSignIn, Written, Unanswered
  <2>3. pc' \in [Procs -> {"idle", "admitted", "replacing", "written",
                          "cleared", "loaded"}]
    BY <1>9 DEF FirstSignIn, Written, Unanswered
  <2> QED BY <1>9, <2>1, <2>2, <2>3 DEF FirstSignIn
<1>10. ASSUME NEW p \in Procs, Clears(p) \/ Loads(p) \/ LoadFails(p) \/ Installs(p)
       PROVE  PolicyTypeOK'
  BY <1>10 DEF Clears, Loads, LoadFails, Installs
<1>11. CASE Restarts
  BY <1>11 DEF Restarts
<1>12. CASE UNCHANGED policyVars
  BY <1>12 DEF policyVars
<1> QED
  BY <1>1, <1>2, <1>4, <1>5, <1>6, <1>7, <1>8, <1>9, <1>10, <1>11, <1>12
     DEF PolicyNext, AdminWrites

\* Every variable keeps its type.
THEOREM PolicyTypeCorrect == PolicySpec => []PolicyTypeOK
<1> USE AccessPolicyAssumption DEF AccessPolicyAssumption
<1>1. PolicyInit => PolicyTypeOK
  <2> SUFFICES ASSUME PolicyInit PROVE PolicyTypeOK
    OBVIOUS
  <2>1. policy \subseteq Pairs
    BY DEF PolicyInit, Pairs
  <2>2. users \in [Users -> {"none", "active", "disabled"}]
    BY DEF PolicyInit
  <2>3. changes \in 0 .. MaxChanges
    BY DEF PolicyInit
  <2>6. unsettled \in BOOLEAN /\ loaded \in BOOLEAN
    BY DEF PolicyInit
  <2>4. pc \in [Procs -> {"idle"}] /\ key \in [Procs -> {NoKey}]
    BY DEF PolicyInit
  <2>5. new \in [Procs -> SUBSET Pairs] /\ old \in [Procs -> SUBSET Pairs]
        /\ snapshot \in [Procs -> SUBSET Pairs]
    BY DEF PolicyInit
  <2> QED BY <2>1, <2>2, <2>3, <2>4, <2>5, <2>6 DEF PolicyInit, PolicyTypeOK
<1> QED BY <1>1, PolicyTypeIsKept, PTL DEF PolicySpec

-----------------------------------------------------------------------------
(* The policy in force.                                                    *)

\* As long as no two reloads cross, one request at most is between its write and
\* the end of its reload; once it has dropped the policy there is none until it
\* installs what it has read, which is what the tables say.
Undisturbed ==
  ~unsettled =>
    \A p \in Procs : Reloading(p) =>
      /\ \A q \in Procs : Reloading(q) => q = p
      /\ pc[p] = "cleared" => ~loaded
      /\ pc[p] = "loaded" => snapshot[p] = policy

PInv == PolicyTypeOK /\ Undisturbed /\ PolicyInForce

\* A request that writes is the only one that reloads, or the reloads cross.
LEMMA WriteKeepsPInv ==
  ASSUME PInv, NEW p \in Procs, Written(p), ~Reloading(p), PolicyTypeOK'
  PROVE  PInv'
<1>1. \A q \in Procs : q # p => pc'[q] = pc[q]
  BY DEF PInv, PolicyTypeOK, Written, Goes
<1>2. pc'[p] = "written" /\ Reloading(p)'
  BY DEF PInv, PolicyTypeOK, Written, Goes, Reloading
<1>3. ~unsettled' => \A q \in Procs : Reloading(q)' => q = p
  BY <1>1 DEF Written, Reloading
<1> QED BY <1>2, <1>3 DEF PInv, Undisturbed, PolicyInForce

\* A step of requests that are not reloading, which leaves the policy alone.
LEMMA OutsideKeepsPInv ==
  ASSUME PInv, NEW p \in Procs, ~Reloading(p), ~Reloading(p)', PolicyTypeOK',
         \A q \in Procs : q # p => pc'[q] = pc[q] /\ snapshot'[q] = snapshot[q],
         UNCHANGED <<policy, authorizer>>, unsettled' \in {unsettled, TRUE}
  PROVE  PInv'
<1>1. \A q \in Procs : Reloading(q)' => Reloading(q) /\ pc'[q] = pc[q] /\ snapshot'[q] = snapshot[q]
  BY DEF Reloading
<1>2. \A q \in Procs : Reloading(q) => Reloading(q)'
  BY DEF Reloading
<1> QED BY <1>1, <1>2 DEF PInv, Undisturbed, PolicyInForce, authorizer

\* A commit without an answer.
LEMMA UnansweredKeepsPInv ==
  ASSUME PInv, NEW p \in Procs, Unanswered(p), PolicyTypeOK'
  PROVE  PInv'
BY DEF PInv, Unanswered, Undisturbed, PolicyInForce

\* PInv is inductive.
LEMMA PInvIsKept == PInv /\ PolicyTypeOK' /\ [PolicyNext]_policyVars => PInv'
<1> SUFFICES ASSUME PInv, PolicyTypeOK', [PolicyNext]_policyVars
             PROVE  PInv'
  OBVIOUS
<1>a. PolicyTypeOK
  BY DEF PInv
<1>1. ASSUME NEW p \in Procs, NEW u \in Users, Admit(p, u)
      PROVE  PInv'
  <2>1. ~Reloading(p) /\ ~Reloading(p)' /\ \A q \in Procs : q # p => pc'[q] = pc[q]
    BY <1>1, <1>a DEF Admit, Goes, Reloading, PolicyTypeOK
  <2> QED BY <1>1, <2>1, OutsideKeepsPInv DEF Admit, tables, locals
<1>2. ASSUME NEW p \in Procs, NEW u \in Users, CreateUser(p, u) \/ UpdateUser(p, u)
      PROVE  PInv'
  <2>1. ~Reloading(p) /\ ~Reloading(p)' /\ \A q \in Procs : q # p => pc'[q] = pc[q]
    BY <1>2, <1>a DEF CreateUser, UpdateUser, Goes, Reloading, PolicyTypeOK
  <2> QED BY <1>2, <2>1, OutsideKeepsPInv DEF CreateUser, UpdateUser, locals
<1>3. ASSUME NEW p \in Procs, NEW k, NEW values, Replaces(p, k, values)
      PROVE  PInv'
  <2>1. ~Reloading(p) /\ ~Reloading(p)' /\ \A q \in Procs : q # p => pc'[q] = pc[q]
    BY <1>3, <1>a DEF Replaces, Goes, Reloading, PolicyTypeOK
  <2> QED BY <1>3, <2>1, OutsideKeepsPInv DEF Replaces, tables
<1>4. ASSUME NEW p \in Procs, Replaced(p)
      PROVE  PInv'
  <2>1. ~Reloading(p)
    BY <1>4 DEF Replaced, Reloading
  <2> QED BY <1>4, <2>1, WriteKeepsPInv, UnansweredKeepsPInv DEF Replaced
<1>5. ASSUME NEW p \in Procs, NEW r \in Roles, DeleteRole(p, r)
      PROVE  PInv'
  <2>1. ~Reloading(p)
    BY <1>5 DEF DeleteRole, Reloading
  <2> QED BY <1>5, <2>1, WriteKeepsPInv, UnansweredKeepsPInv DEF DeleteRole
<1>6. ASSUME NEW p \in Procs, Refused(p)
      PROVE  PInv'
  <2>1. ~Reloading(p) /\ ~Reloading(p)' /\ \A q \in Procs : q # p => pc'[q] = pc[q] /\ snapshot'[q] = snapshot[q]
    BY <1>6, <1>a DEF Refused, Goes, Reloading, PolicyTypeOK, Forgets
  <2> QED BY <1>6, <2>1, OutsideKeepsPInv DEF Refused, tables
<1>7. ASSUME NEW p \in Procs, SignIn(p) \/ \E u \in Users : FirstSignIn(p, u)
      PROVE  PInv'
  <2>1. ~Reloading(p)
    BY <1>7 DEF SignIn, FirstSignIn, Reloading
  <2> QED BY <1>7, <2>1, WriteKeepsPInv, UnansweredKeepsPInv DEF SignIn, FirstSignIn
<1>8. ASSUME NEW p \in Procs, Clears(p)
      PROVE  PInv'
  <2>1. Reloading(p) /\ Reloading(p)' /\ pc'[p] = "cleared"
    BY <1>8, <1>a DEF Clears, Goes, Reloading, PolicyTypeOK
  <2>2. \A q \in Procs : Reloading(q)' => Reloading(q)
    BY <1>8, <1>a, <2>1 DEF Clears, Goes, Reloading, PolicyTypeOK
  <2>3. \A q \in Procs : q # p => pc'[q] = pc[q]
    BY <1>8, <1>a DEF Clears, Goes, PolicyTypeOK
  <2> QED BY <1>8, <2>1, <2>2, <2>3 DEF Clears, PInv, Undisturbed, PolicyInForce, tables, locals
<1>9. ASSUME NEW p \in Procs, Loads(p)
      PROVE  PInv'
  <2>1. Reloading(p) /\ Reloading(p)' /\ snapshot'[p] = policy
    BY <1>9, <1>a DEF Loads, Goes, Reloading, PolicyTypeOK
  <2>2. \A q \in Procs : Reloading(q)' => Reloading(q)
    BY <1>9, <1>a, <2>1 DEF Loads, Goes, Reloading, PolicyTypeOK
  <2> QED BY <1>9, <2>1, <2>2 DEF Loads, PInv, Undisturbed, PolicyInForce, tables, authorizer
<1>10. ASSUME NEW p \in Procs, LoadFails(p) \/ Installs(p)
       PROVE  PInv'
  <2>1. Reloading(p) /\ ~Reloading(p)'
    BY <1>10, <1>a DEF LoadFails, Installs, Goes, Reloading, PolicyTypeOK
  <2>2. \A q \in Procs : q # p => pc'[q] = pc[q]
    BY <1>10, <1>a DEF LoadFails, Installs, Goes, PolicyTypeOK
  <2>3. UNCHANGED <<policy, unsettled>>
    BY <1>10 DEF LoadFails, Installs, tables
  <2>4. ~unsettled => \A q \in Procs : ~Reloading(q)'
    BY <2>1, <2>2 DEF PInv, Undisturbed, Reloading
  <2>5. ~unsettled /\ loaded' => engine' = policy
    BY <1>10, <2>1 DEF LoadFails, Installs, PInv, Undisturbed, authorizer
  <2>6. Undisturbed' /\ PolicyInForce'
    BY <2>3, <2>4, <2>5 DEF Undisturbed, PolicyInForce
  <2> QED BY <2>6 DEF PInv
<1>11. CASE Restarts
  BY <1>11 DEF Restarts, PInv, Undisturbed, PolicyInForce, Reloading, tables
<1>12. CASE UNCHANGED policyVars
  <2>1. Undisturbed' /\ PolicyInForce'
    BY <1>12 DEF policyVars, tables, authorizer, locals, PInv, Undisturbed, PolicyInForce, Reloading
  <2> QED BY <2>1 DEF PInv
<1> QED
  BY <1>1, <1>2, <1>3, <1>4, <1>5, <1>6, <1>7, <1>8, <1>9, <1>10, <1>11, <1>12
     DEF PolicyNext, AdminWrites, SetUserRoles, SetRolePermissions

\* When nobody reloads, the policy in force is that of the tables or none, unless
\* reloads crossed or a commit went unanswered.
THEOREM PolicyIsInForce == PolicySpec => []PolicyInForce
<1>1. PolicyInit => Undisturbed /\ PolicyInForce
  BY DEF PolicyInit, Undisturbed, PolicyInForce, Reloading
<1>2. PInv => PolicyInForce
  BY DEF PInv
<1>3. PolicyTypeOK /\ Undisturbed /\ PolicyInForce => PInv
  BY DEF PInv
<1> QED BY <1>1, <1>2, <1>3, PInvIsKept, PolicyTypeCorrect, PTL DEF PolicySpec
=============================================================================
