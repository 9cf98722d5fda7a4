------------------------------- MODULE Console -------------------------------
(***************************************************************************)
(* Who gets into the console: OAuth states and sessions in Redis, the      *)
(* login with DingTalk, whose callback finds or makes the user that a      *)
(* DingTalk identity stands for, and the requests of AccessPolicy, which   *)
(* need a session.                                                         *)
(*                                                                         *)
(* The callback is a chain of steps of one request: consume the state, ask *)
(* DingTalk who it was, look the identity up, bind or create, Reload, open *)
(* a session.  Between any two of them other requests run, it may fail, or *)
(* the process stops; Redis and PostgreSQL keep what was written.          *)
(*                                                                         *)
(* DingTalk is external: it says which person has signed in.               *)
(***************************************************************************)
EXTENDS AccessPolicy

CONSTANTS
  States,             \* OAuth states, each one made once from random bytes
  Persons,            \* identities at DingTalk
  NoUser,             \* nobody
  NoPerson,           \* a session of the development login
  NoState,
  DevLoginEnabled,    \* cfg.Auth.DevLoginEnabled
  IntegrationsManage  \* the permission "integrations:manage"

ASSUME ConsoleAssumption ==
  /\ NoUser \notin Users
  /\ NoPerson \notin Persons
  /\ NoState \notin States
  /\ DevLoginEnabled \in BOOLEAN

VARIABLES
  state,     \* OAuth states: not made yet, open, or gone
  binds,     \* the user an OAuth state is to bind an identity to
  identity,  \* user_identities: the user of a person
  sessions,  \* in Redis: the user, and who signed in as that user
  login,     \* per request: the step of the callback it is at
  holds,     \* per request: the OAuth state it consumed
  person,    \* per request: who signed in
  user,      \* per request: the user that is signed in
  uses,      \* history: callbacks that accepted a state
  made       \* history: users made by a first login

loginVars == <<login, holds, person, user>>
history   == <<uses, made>>
redisVars == <<state, binds, sessions>>
consoleVars == <<policyVars, redisVars, identity, loginVars, history>>

-----------------------------------------------------------------------------
TypeOK ==
  /\ PolicyTypeOK
  /\ state \in [States -> {"new", "open", "gone"}]
  /\ binds \in [States -> Users \cup {NoUser}]
  /\ identity \in [Persons -> Users \cup {NoUser}]
  /\ sessions \subseteq Users \X (Persons \cup {NoPerson})
  /\ login \in [Procs -> {"none", "consumed", "unknown", "reloading", "session"}]
  /\ holds \in [Procs -> States \cup {NoState}]
  /\ person \in [Procs -> Persons \cup {NoPerson}]
  /\ user \in [Procs -> Users \cup {NoUser}]
  /\ uses \in [States -> Nat]
  /\ made \subseteq Users

ConsoleInit ==
  /\ PolicyInit
  /\ state = [s \in States |-> "new"]
  /\ binds = [s \in States |-> NoUser]
  /\ identity = [x \in Persons |-> NoUser]
  /\ sessions = {}
  /\ login = [p \in Procs |-> "none"]
  /\ holds = [p \in Procs |-> NoState]
  /\ person = [p \in Procs |-> NoPerson]
  /\ user = [p \in Procs |-> NoUser]
  /\ uses = [s \in States |-> 0]
  /\ made = {}

-----------------------------------------------------------------------------
\* SessionAuthenticator: a session, of a user who is active.
Authenticated(u) ==
  /\ \E x \in Persons \cup {NoPerson} : <<u, x>> \in sessions
  /\ users[u] = "active"

LoginGoes(p, step) == login' = [login EXCEPT ![p] = step]

\* The callback is over.
LoginEnds(p) ==
  /\ LoginGoes(p, "none")
  /\ holds' = [holds EXCEPT ![p] = NoState]
  /\ person' = [person EXCEPT ![p] = NoPerson]
  /\ user' = [user EXCEPT ![p] = NoUser]

Free(p) == pc[p] = "idle" /\ login[p] = "none"

\* devLogin: a session for the founder, without any question.
DevLogin ==
  /\ DevLoginEnabled
  /\ sessions' = sessions \cup {<<Founder, NoPerson>>}
  /\ UNCHANGED <<policyVars, state, binds, identity, loginVars, history>>

\* logout, or twelve hours are over.
SessionEnds ==
  /\ \E session \in sessions : sessions' = sessions \ {session}
  /\ UNCHANGED <<policyVars, state, binds, identity, loginVars, history>>

\* dingTalkLogin: of somebody who is not signed in, or of an administrator who
\* wants an identity for the account.
DingTalkLogin(s) ==
  /\ state[s] = "new"
  /\ state' = [state EXCEPT ![s] = "open"]
  /\ \E u \in Users \cup {NoUser} :
       /\ u # NoUser => Authenticated(u) /\ Allowed(u, IntegrationsManage)
       /\ binds' = [binds EXCEPT ![s] = u]
  /\ UNCHANGED <<policyVars, identity, sessions, loginVars, history>>

\* Ten minutes are over.
StateExpires(s) ==
  /\ state[s] = "open"
  /\ state' = [state EXCEPT ![s] = "gone"]
  /\ UNCHANGED <<policyVars, binds, identity, sessions, loginVars, history>>

-----------------------------------------------------------------------------
(* dingTalkCallback.                                                       *)

\* Mutant: the state is read, and deleted at the end of the login.
ConsumeByReading(p, s) ==
  /\ Free(p)
  /\ state[s] = "open"
  /\ uses' = [uses EXCEPT ![s] = @ + 1]
  /\ holds' = [holds EXCEPT ![p] = s]
  /\ LoginGoes(p, "consumed")
  /\ UNCHANGED <<policyVars, redisVars, identity, person, user, made>>

\* Consume reads and deletes the state in one command, GETDEL.
Consume(p, s) ==
  /\ Free(p)
  /\ state[s] = "open"
  /\ state' = [state EXCEPT ![s] = "gone"]
  /\ uses' = [uses EXCEPT ![s] = @ + 1]
  /\ holds' = [holds EXCEPT ![p] = s]
  /\ LoginGoes(p, "consumed")
  /\ UNCHANGED <<policyVars, binds, identity, sessions, person, user, made>>

\* The user is known, the row is up to date, and the policy is reloaded.
SignedIn(p, u) ==
  /\ user' = [user EXCEPT ![p] = u]
  /\ LoginGoes(p, "reloading")

\* DingTalk names the person, and the identity is looked up.
FindIdentity(p, x) ==
  /\ login[p] = "consumed"
  /\ person' = [person EXCEPT ![p] = x]
  /\ IF identity[x] # NoUser
       THEN SignIn(p) /\ SignedIn(p, identity[x])
       ELSE LoginGoes(p, "unknown") /\ UNCHANGED <<policyVars, user>>
  /\ UNCHANGED <<redisVars, identity, holds, history>>

\* Mutant: an identity that turned up since the look-up goes to the new user.
BindIdentityAgain(p) ==
  /\ login[p] = "unknown"
  /\ LET u == binds[holds[p]] IN
       /\ u # NoUser
       /\ identity' = [identity EXCEPT ![person[p]] = u]
       /\ SignIn(p) /\ SignedIn(p, u)
  /\ UNCHANGED <<redisVars, holds, person, history>>

\* Mutant: the login of somebody who was not signed in binds as well.
BindIdentityToNobody(p) ==
  /\ login[p] = "unknown"
  /\ identity[person[p]] = NoUser
  /\ LET u == binds[holds[p]] IN
       /\ identity' = [identity EXCEPT ![person[p]] = u]
       /\ SignIn(p) /\ SignedIn(p, u)
  /\ UNCHANGED <<redisVars, holds, person, history>>

\* The user the state names gets the identity, unless somebody has it by now.  A
\* commit that is not answered ends the callback.
BindIdentity(p) ==
  /\ login[p] = "unknown"
  /\ identity[person[p]] = NoUser
  /\ LET u == binds[holds[p]] IN
       /\ u # NoUser
       /\ identity' = [identity EXCEPT ![person[p]] = u]
       /\ \/ SignIn(p) /\ SignedIn(p, u) /\ UNCHANGED <<holds, person>>
          \/ CommitsGoUnanswered /\ LoginEnds(p) /\ UNCHANGED policyVars
  /\ UNCHANGED <<redisVars, history>>

\* Mutant: the user is created in a statement of its own.
FirstLoginInTwo(p, u) ==
  /\ login[p] = "unknown"
  /\ binds[holds[p]] = NoUser
  /\ FirstSignIn(p, u) /\ pc'[p] = "written" /\ SignedIn(p, u)
  /\ identity' = IF identity[person[p]] # NoUser THEN identity
                 ELSE [identity EXCEPT ![person[p]] = u]
  /\ made' = made \cup {u}
  /\ UNCHANGED <<redisVars, holds, person, uses>>

\* A new user, member, identity and role in one transaction.
FirstLogin(p, u) ==
  /\ login[p] = "unknown"
  /\ binds[holds[p]] = NoUser
  /\ identity[person[p]] = NoUser
  /\ FirstSignIn(p, u)
  /\ IF pc'[p] = "written" THEN SignedIn(p, u) /\ UNCHANGED <<holds, person>>
                            ELSE LoginEnds(p)
  /\ identity' = [identity EXCEPT ![person[p]] = u]
  /\ made' = made \cup {u}
  /\ UNCHANGED <<redisVars, uses>>

\* Any error of DingTalk, of the tables or of Redis, another corporation, an
\* identity that is somebody's by now: the state stays consumed.
LoginFails(p) ==
  /\ login[p] \in {"consumed", "unknown", "session"}
  /\ LoginEnds(p)
  /\ UNCHANGED <<policyVars, redisVars, identity, history>>

OpenSession(p) ==
  /\ login[p] = "session"
  /\ sessions' = sessions \cup {<<user[p], person[p]>>}
  /\ LoginEnds(p)
  /\ UNCHANGED <<policyVars, state, binds, identity, history>>

-----------------------------------------------------------------------------
(* The steps of AccessPolicy, taken by a request of the console.           *)

ReloadSteps(p) ==
  \/ (Clears(p) \/ Loads(p)) /\ UNCHANGED loginVars
  \/ /\ Installs(p)
     /\ IF login[p] = "reloading" THEN LoginGoes(p, "session") ELSE UNCHANGED login
     /\ UNCHANGED <<holds, person, user>>
  \/ LoadFails(p) /\ LoginEnds(p)

AdminSteps(p) ==
  \/ \E u \in Users : login[p] = "none" /\ Authenticated(u) /\ Admit(p, u)
  \/ AdminWrites(p)

ProcessRestarts ==
  /\ Restarts
  /\ login' = [p \in Procs |-> "none"]
  /\ holds' = [p \in Procs |-> NoState]
  /\ person' = [p \in Procs |-> NoPerson]
  /\ user' = [p \in Procs |-> NoUser]
  /\ UNCHANGED <<redisVars, identity, history>>

PolicyStep(p) ==
  /\ \/ ReloadSteps(p)
     \/ AdminSteps(p) /\ UNCHANGED loginVars
  /\ UNCHANGED <<redisVars, identity, history>>

LoginStep(p) ==
  \/ \E s \in States : Consume(p, s)
  \/ \E x \in Persons : FindIdentity(p, x)
  \/ BindIdentity(p)
  \/ \E u \in Users : FirstLogin(p, u)
  \/ LoginFails(p) \/ OpenSession(p)

Next ==
  \/ \E p \in Procs : PolicyStep(p) \/ LoginStep(p)
  \/ \E s \in States : DingTalkLogin(s) \/ StateExpires(s)
  \/ DevLogin \/ SessionEnds \/ ProcessRestarts

Spec == ConsoleInit /\ [][Next]_consoleVars

-----------------------------------------------------------------------------
(* Properties.                                                             *)

\* However many callbacks present an OAuth state at once, one is accepted.
StateUsedOnce == \A s \in States : uses[s] <= 1

\* A session that DingTalk opened is for the user who has the identity of the
\* person that signed in, also when two first logins of a person, or a first
\* login and an administrator's binding, meet between look-up and insert.
SessionsMatchIdentity ==
  \A session \in sessions :
    session[2] # NoPerson => identity[session[2]] = session[1]

\* Nobody is left over: a user whom a first login made has the identity to sign
\* in again with, although only the row of the identity tells two first logins
\* of one person apart, and the user is inserted before it.
FirstLoginsHaveIdentity == \A u \in made : \E x \in Persons : identity[x] = u
=============================================================================
