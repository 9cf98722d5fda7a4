----------------------------- MODULE Console_proofs -----------------------------
(* Proofs about Console: it takes the steps of AccessPolicy, so that what  *)
(* was proved of the policy carries over, and what the callbacks keep.     *)
EXTENDS Console, AccessPolicy_proofs

-----------------------------------------------------------------------------
(* The requests of the console change the policy as AccessPolicy says.     *)

\* Every step is a step of AccessPolicy or leaves its variables alone.
LEMMA StepIsPolicyStep == [Next]_consoleVars => [PolicyNext]_policyVars
<1> SUFFICES ASSUME [Next]_consoleVars
             PROVE  [PolicyNext]_policyVars
  OBVIOUS
<1>1. ASSUME NEW p \in Procs, ReloadSteps(p)
      PROVE  PolicyNext
  BY <1>1 DEF ReloadSteps, PolicyNext
<1>2. ASSUME NEW p \in Procs, AdminSteps(p)
      PROVE  PolicyNext
  BY <1>2 DEF AdminSteps, PolicyNext
<1>3. ASSUME NEW p \in Procs, LoginStep(p)
      PROVE  [PolicyNext]_policyVars
  <2>1. ASSUME NEW s \in States, Consume(p, s)
        PROVE  UNCHANGED policyVars
    BY <2>1 DEF Consume
  <2>2. ASSUME NEW x \in Persons, FindIdentity(p, x)
        PROVE  [PolicyNext]_policyVars
    BY <2>2 DEF FindIdentity, PolicyNext
  <2>3. CASE BindIdentity(p)
    BY <2>3 DEF BindIdentity, PolicyNext
  <2>4. ASSUME NEW u \in Users, FirstLogin(p, u)
        PROVE  PolicyNext
    BY <2>4 DEF FirstLogin, PolicyNext
  <2>5. CASE LoginFails(p) \/ OpenSession(p)
    BY <2>5 DEF LoginFails, OpenSession
  <2> QED BY <1>3, <2>1, <2>2, <2>3, <2>4, <2>5 DEF LoginStep
<1>4. CASE \E s \in States : DingTalkLogin(s) \/ StateExpires(s)
  BY <1>4 DEF DingTalkLogin, StateExpires
<1>5. CASE DevLogin \/ SessionEnds
  BY <1>5 DEF DevLogin, SessionEnds
<1>6. CASE ProcessRestarts
  BY <1>6 DEF ProcessRestarts, PolicyNext
<1>7. CASE UNCHANGED consoleVars
  BY <1>7 DEF consoleVars
<1> QED BY <1>1, <1>2, <1>3, <1>4, <1>5, <1>6, <1>7 DEF Next, PolicyStep

\* Console implements AccessPolicy.
THEOREM ConsoleRefinesPolicy == Spec => PolicySpec
<1>1. ConsoleInit => PolicyInit
  BY DEF ConsoleInit
<1> QED BY <1>1, StepIsPolicyStep, PTL DEF Spec, PolicySpec

\* The policy in force is that of the tables or none, unless reloads crossed or a
\* commit went unanswered, also with the reloads of DingTalk logins among them.
THEOREM ConsolePolicyIsInForce == Spec => []PolicyInForce
BY ConsoleRefinesPolicy, PolicyIsInForce, PTL

-----------------------------------------------------------------------------
(* Logins.                                                                 *)

\* A callback past a step knows what the step told it, and a user who is signed
\* in has the identity of the person: an identity never changes hands.
LoginIsSound ==
  \A p \in Procs :
    /\ login[p] \in {"consumed", "unknown"} => holds[p] \in States
    /\ login[p] \in {"unknown", "reloading", "session"} => person[p] \in Persons
    /\ login[p] \in {"reloading", "session"} =>
         user[p] \in Users /\ identity[person[p]] = user[p]

\* Nobody has used a state that can still be used.
OpenIsUnused == \A s \in States : state[s] # "gone" => uses[s] = 0

CInv ==
  /\ TypeOK /\ LoginIsSound /\ OpenIsUnused
  /\ StateUsedOnce /\ SessionsMatchIdentity /\ FirstLoginsHaveIdentity

LEMMA CInvHolds == ConsoleInit => LoginIsSound /\ OpenIsUnused /\ StateUsedOnce
                                  /\ SessionsMatchIdentity /\ FirstLoginsHaveIdentity
BY DEF ConsoleInit, LoginIsSound, OpenIsUnused, StateUsedOnce,
       SessionsMatchIdentity, FirstLoginsHaveIdentity

\* The initial types.
LEMMA TypeHolds == ConsoleInit /\ PolicyTypeOK => TypeOK
BY DEF ConsoleInit, TypeOK

\* The callback takes the identity of somebody who had none.
LEMMA NewIdentityKeepsCInv ==
  ASSUME CInv, PolicyTypeOK', NEW p \in Procs, NEW u \in Users,
         login[p] = "unknown", identity[person[p]] = NoUser,
         identity' = [identity EXCEPT ![person[p]] = u],
         \/ SignedIn(p, u) /\ UNCHANGED <<holds, person>>
         \/ LoginEnds(p),
         UNCHANGED <<redisVars, uses>>,
         made' \subseteq made \cup {u}
  PROVE  CInv'
<1> USE ConsoleAssumption DEF ConsoleAssumption
<1>1. person[p] \in Persons /\ \A x \in Persons : identity[x] \in Users \cup {NoUser}
  BY DEF CInv, TypeOK, LoginIsSound
<1>2. \A x \in Persons : x # person[p] => identity'[x] = identity[x]
  BY DEF CInv, TypeOK
<1>3. identity'[person[p]] = u
  BY <1>1 DEF CInv, TypeOK
<1>4. \A x \in Persons : identity[x] # NoUser => identity'[x] = identity[x]
  BY <1>2
<1>5. TypeOK'
  <2>1. /\ login' \in [Procs -> {"none", "consumed", "unknown", "reloading", "session"}]
        /\ holds' \in [Procs -> States \cup {NoState}]
        /\ person' \in [Procs -> Persons \cup {NoPerson}]
        /\ user' \in [Procs -> Users \cup {NoUser}]
    BY DEF CInv, TypeOK, SignedIn, LoginEnds, LoginGoes
  <2>2. identity' \in [Persons -> Users \cup {NoUser}] /\ made' \subseteq Users
    BY DEF CInv, TypeOK
  <2> QED BY <2>1, <2>2 DEF CInv, TypeOK, redisVars
<1>6. LoginIsSound'
  <2> SUFFICES ASSUME NEW q \in Procs
               PROVE  LoginIsSound!(q)'
    BY DEF LoginIsSound
  <2>1. CASE q = p
    BY <1>1, <1>3, <2>1
       DEF CInv, TypeOK, LoginIsSound, SignedIn, LoginEnds, LoginGoes
  <2>2. CASE q # p
    BY <1>4, <2>2 DEF CInv, TypeOK, LoginIsSound, SignedIn, LoginEnds, LoginGoes
  <2> QED BY <2>1, <2>2
<1>7. OpenIsUnused' /\ StateUsedOnce'
  BY DEF CInv, OpenIsUnused, StateUsedOnce, redisVars
<1>8. SessionsMatchIdentity'
  <2>1. \A session \in sessions : session[1] \in Users /\ session[2] \in Persons \cup {NoPerson}
    BY DEF CInv, TypeOK
  <2> QED BY <1>4, <2>1 DEF CInv, SessionsMatchIdentity, redisVars
<1>9. FirstLoginsHaveIdentity'
  <2> SUFFICES ASSUME NEW v \in made' PROVE \E x \in Persons : identity'[x] = v
    BY DEF FirstLoginsHaveIdentity
  <2>1. CASE v = u
    BY <1>1, <1>3, <2>1
  <2>2. CASE v # u
    <3>1. v \in made /\ v \in Users
      BY <2>2 DEF CInv, TypeOK
    <3>2. PICK x \in Persons : identity[x] = v
      BY <3>1 DEF CInv, FirstLoginsHaveIdentity
    <3> QED BY <1>4, <3>1, <3>2
  <2> QED BY <2>1, <2>2
<1> QED BY <1>5, <1>6, <1>7, <1>8, <1>9 DEF CInv

\* A step that leaves Redis, the identities and the history alone, and of the
\* callbacks at most brings p's to its end or from its reload to its session.
LEMMA QuietKeepsCInv ==
  ASSUME CInv, PolicyTypeOK', NEW p \in Procs,
         UNCHANGED <<redisVars, identity, history>>,
         \/ UNCHANGED loginVars
         \/ LoginEnds(p)
         \/ login[p] = "reloading" /\ LoginGoes(p, "session") /\ UNCHANGED <<holds, person, user>>
  PROVE  CInv'
<1>1. TypeOK'
  BY DEF CInv, TypeOK, LoginEnds, LoginGoes, redisVars, history, loginVars
<1>2. LoginIsSound'
  BY DEF CInv, TypeOK, LoginIsSound, LoginEnds, LoginGoes, redisVars, loginVars
<1>3. OpenIsUnused' /\ StateUsedOnce'
  BY DEF CInv, OpenIsUnused, StateUsedOnce, redisVars, history
<1>4. SessionsMatchIdentity' /\ FirstLoginsHaveIdentity'
  BY DEF CInv, SessionsMatchIdentity, FirstLoginsHaveIdentity, redisVars, history
<1> QED BY <1>1, <1>2, <1>3, <1>4 DEF CInv

\* CInv is inductive.
LEMMA CInvIsKept == CInv /\ PolicyTypeOK' /\ [Next]_consoleVars => CInv'
<1> USE ConsoleAssumption DEF ConsoleAssumption
<1> SUFFICES ASSUME CInv, PolicyTypeOK', [Next]_consoleVars
             PROVE  CInv'
  OBVIOUS
<1>1. ASSUME NEW p \in Procs, PolicyStep(p)
      PROVE  CInv'
  <2>1. CASE ReloadSteps(p)
    BY <1>1, <2>1, QuietKeepsCInv DEF PolicyStep, ReloadSteps, loginVars
  <2>2. CASE AdminSteps(p) /\ UNCHANGED loginVars
    BY <1>1, <2>2, QuietKeepsCInv DEF PolicyStep
  <2> QED BY <1>1, <2>1, <2>2 DEF PolicyStep
<1>2. ASSUME NEW p \in Procs, NEW s \in States, Consume(p, s)
      PROVE  CInv'
  <2>1. TypeOK'
    BY <1>2 DEF Consume, CInv, TypeOK, LoginGoes
  <2>2. LoginIsSound'
    BY <1>2 DEF Consume, CInv, TypeOK, LoginIsSound, LoginGoes
  <2>3. OpenIsUnused' /\ StateUsedOnce'
    <3>1. uses[s] = 0 /\ uses'[s] = 1 /\ state'[s] = "gone"
      BY <1>2 DEF Consume, CInv, TypeOK, OpenIsUnused
    <3>2. \A t \in States : t # s => uses'[t] = uses[t] /\ state'[t] = state[t]
      BY <1>2 DEF Consume, CInv, TypeOK
    <3> QED BY <3>1, <3>2 DEF CInv, OpenIsUnused, StateUsedOnce
  <2>4. SessionsMatchIdentity' /\ FirstLoginsHaveIdentity'
    BY <1>2 DEF Consume, CInv, SessionsMatchIdentity, FirstLoginsHaveIdentity
  <2> QED BY <2>1, <2>2, <2>3, <2>4 DEF CInv
<1>3. ASSUME NEW p \in Procs, NEW x \in Persons, FindIdentity(p, x)
      PROVE  CInv'
  <2>1. TypeOK'
    BY <1>3 DEF FindIdentity, CInv, TypeOK, LoginGoes, SignedIn, redisVars, history
  <2>2. LoginIsSound'
    BY <1>3 DEF FindIdentity, CInv, TypeOK, LoginIsSound, LoginGoes, SignedIn, redisVars
  <2>3. OpenIsUnused' /\ StateUsedOnce' /\ SessionsMatchIdentity' /\ FirstLoginsHaveIdentity'
    BY <1>3 DEF FindIdentity, CInv, OpenIsUnused, StateUsedOnce, SessionsMatchIdentity,
                FirstLoginsHaveIdentity, redisVars, history
  <2> QED BY <2>1, <2>2, <2>3 DEF CInv
<1>4. ASSUME NEW p \in Procs, BindIdentity(p)
      PROVE  CInv'
  <2>1. binds[holds[p]] \in Users
    BY <1>4 DEF BindIdentity, CInv, TypeOK, LoginIsSound
  <2> QED BY <1>4, <2>1, NewIdentityKeepsCInv DEF BindIdentity, history
<1>5. ASSUME NEW p \in Procs, NEW u \in Users, FirstLogin(p, u)
      PROVE  CInv'
  BY <1>5, NewIdentityKeepsCInv DEF FirstLogin
<1>6. ASSUME NEW p \in Procs, LoginFails(p)
      PROVE  CInv'
  BY <1>6, QuietKeepsCInv DEF LoginFails
<1>7. ASSUME NEW p \in Procs, OpenSession(p)
      PROVE  CInv'
  <2>1. user[p] \in Users /\ person[p] \in Persons /\ identity[person[p]] = user[p]
    BY <1>7 DEF OpenSession, CInv, LoginIsSound
  <2>2. TypeOK'
    BY <1>7, <2>1 DEF OpenSession, CInv, TypeOK, LoginEnds, LoginGoes, history
  <2>3. LoginIsSound'
    BY <1>7 DEF OpenSession, CInv, TypeOK, LoginIsSound, LoginEnds, LoginGoes
  <2>4. SessionsMatchIdentity'
    BY <1>7, <2>1 DEF OpenSession, CInv, SessionsMatchIdentity
  <2>5. OpenIsUnused' /\ StateUsedOnce' /\ FirstLoginsHaveIdentity'
    BY <1>7 DEF OpenSession, CInv, OpenIsUnused, StateUsedOnce, FirstLoginsHaveIdentity, history
  <2> QED BY <2>2, <2>3, <2>4, <2>5 DEF CInv
<1>8. ASSUME NEW s \in States, DingTalkLogin(s) \/ StateExpires(s)
      PROVE  CInv'
  <2>1. TypeOK'
    BY <1>8 DEF DingTalkLogin, StateExpires, CInv, TypeOK, loginVars, history
  <2>2. LoginIsSound' /\ SessionsMatchIdentity' /\ FirstLoginsHaveIdentity'
    BY <1>8 DEF DingTalkLogin, StateExpires, CInv, LoginIsSound, loginVars, history,
                SessionsMatchIdentity, FirstLoginsHaveIdentity
  <2>3. OpenIsUnused' /\ StateUsedOnce'
    BY <1>8 DEF DingTalkLogin, StateExpires, CInv, TypeOK, OpenIsUnused, StateUsedOnce, history
  <2> QED BY <2>1, <2>2, <2>3 DEF CInv
<1>9. CASE DevLogin \/ SessionEnds
  <2>1. sessions' \subseteq sessions \cup {<<Founder, NoPerson>>}
    BY <1>9 DEF DevLogin, SessionEnds
  <2>2. TypeOK'
    BY <1>9, <2>1, AccessPolicyAssumption DEF AccessPolicyAssumption, DevLogin, SessionEnds, CInv,
       TypeOK, loginVars, history
  <2>3. SessionsMatchIdentity'
    BY <1>9, <2>1 DEF DevLogin, SessionEnds, CInv, SessionsMatchIdentity
  <2>4. LoginIsSound' /\ OpenIsUnused' /\ StateUsedOnce' /\ FirstLoginsHaveIdentity'
    BY <1>9 DEF DevLogin, SessionEnds, CInv, LoginIsSound, OpenIsUnused, StateUsedOnce,
                FirstLoginsHaveIdentity, loginVars, history
  <2> QED BY <2>2, <2>3, <2>4 DEF CInv
<1>10. CASE ProcessRestarts
  <2>1. TypeOK' /\ LoginIsSound'
    BY <1>10 DEF ProcessRestarts, CInv, TypeOK, LoginIsSound, redisVars, history
  <2>2. OpenIsUnused' /\ StateUsedOnce' /\ SessionsMatchIdentity' /\ FirstLoginsHaveIdentity'
    BY <1>10 DEF ProcessRestarts, CInv, OpenIsUnused, StateUsedOnce, SessionsMatchIdentity,
                 FirstLoginsHaveIdentity, redisVars, history
  <2> QED BY <2>1, <2>2 DEF CInv
<1>11. CASE UNCHANGED consoleVars
  BY <1>11 DEF consoleVars, loginVars, redisVars, history, CInv, TypeOK, LoginIsSound,
     OpenIsUnused, StateUsedOnce, SessionsMatchIdentity, FirstLoginsHaveIdentity
<1> QED
  BY <1>1, <1>2, <1>3, <1>4, <1>5, <1>6, <1>7, <1>8, <1>9, <1>10, <1>11
     DEF Next, LoginStep

\* CInv is an invariant.
LEMMA CInvIsInvariant == Spec => []CInv
<1>1. ConsoleInit /\ PolicyTypeOK => CInv
  BY CInvHolds, TypeHolds DEF CInv
<1>2. Spec => []PolicyTypeOK
  BY ConsoleRefinesPolicy, PolicyTypeCorrect, PTL
<1> QED BY <1>1, <1>2, CInvIsKept, PTL DEF Spec

\* Every variable of the console keeps its type.
THEOREM ConsoleTypeCorrect == Spec => []TypeOK
<1>1. CInv => TypeOK
  BY DEF CInv
<1> QED BY <1>1, CInvIsInvariant, PTL

\* An OAuth state lets at most one callback in, however many present it.
THEOREM StatesAreUsedOnce == Spec => []StateUsedOnce
<1>1. CInv => StateUsedOnce
  BY DEF CInv
<1> QED BY <1>1, CInvIsInvariant, PTL

\* Sessions that DingTalk opened are for the user who has the identity.
THEOREM SessionsAreOfTheIdentity == Spec => []SessionsMatchIdentity
<1>1. CInv => SessionsMatchIdentity
  BY DEF CInv
<1> QED BY <1>1, CInvIsInvariant, PTL

\* Every user whom a first login made has an identity.
THEOREM NobodyIsLeftOver == Spec => []FirstLoginsHaveIdentity
<1>1. CInv => FirstLoginsHaveIdentity
  BY DEF CInv
<1> QED BY <1>1, CInvIsInvariant, PTL
=============================================================================
