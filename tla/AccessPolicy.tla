----------------------------- MODULE AccessPolicy -----------------------------
(***************************************************************************)
(* Who may do what in the console: the tables user_roles, role_permissions *)
(* and roles, and the policy that the Authorizer of an API process loaded  *)
(* from them.  A request that changes the tables writes them in one        *)
(* transaction and then calls Reload, which drops the policy in force,     *)
(* reads the tables and installs what it has read.  Nothing serialises     *)
(* these three steps with those of another request.                        *)
(*                                                                         *)
(* The two tables are one set of pairs <<user, role>> and                  *)
(* <<role, permission>>: everything the policy is computed from.  There is *)
(* one organisation, the domain of all rules, and one API process.         *)
(***************************************************************************)
EXTENDS Naturals, FiniteSets

CONSTANTS
  Procs,        \* requests the API works on
  Users,        \* rows of users, those yet to come included
  Roles,        \* rows of roles
  Permissions,  \* rows of permissions
  Wildcard,     \* the permission "*"
  RbacManage,   \* the permission "rbac:manage"
  System,       \* roles with is_system
  Founder,      \* the user of the first migrations, Owner of everything
  Owner,        \* and its role
  NoKey,        \* the key of a request that replaces nothing
  MaxChanges,   \* bound: requests that change something
  MaxValues,    \* bound: roles or permissions a request asks for
  CommitsGoUnanswered, \* whether the answer to a COMMIT may be lost
  LoadsFail     \* whether LoadRBACPolicy may fail

ASSUME AccessPolicyAssumption ==
  /\ Users \cap Roles = {}
  /\ System \subseteq Roles /\ Owner \in Roles
  /\ Founder \in Users /\ Wildcard \in Permissions
  /\ NoKey \notin Users \cup Roles
  /\ MaxChanges \in Nat
  /\ MaxValues \in Nat
  /\ CommitsGoUnanswered \in BOOLEAN /\ LoadsFail \in BOOLEAN

VARIABLES
  policy,    \* user_roles and role_permissions
  roles,     \* the roles there are
  users,     \* status per user
  engine,    \* the policy in force
  loaded,    \* there is one: engine # nil
  pc,        \* per request: the step it is at
  key,       \* per request: the user or role whose rows it replaces
  new,       \* per request: the rows it inserts
  old,       \* per request: the rows its DELETE statement saw
  snapshot,  \* per request: what its Reload has read
  changes,   \* changes so far
  unsettled  \* history: requests crossed, or a commit was not answered

tables == <<policy, roles, users>>
locals == <<key, new, old, snapshot>>
authorizer == <<engine, loaded>>
policyVars == <<tables, authorizer, pc, locals, changes, unsettled>>

-----------------------------------------------------------------------------
Pairs == (Users \X Roles) \cup (Roles \X Permissions)

PolicyTypeOK ==
  /\ policy \subseteq Pairs
  /\ roles \subseteq Roles
  /\ users \in [Users -> {"none", "active", "disabled"}]
  /\ engine \subseteq Pairs
  /\ loaded \in BOOLEAN
  /\ pc \in [Procs -> {"idle", "admitted", "replacing", "written", "cleared",
                       "loaded"}]
  /\ key \in [Procs -> Users \cup Roles \cup {NoKey}]
  /\ new \in [Procs -> SUBSET Pairs]
  /\ old \in [Procs -> SUBSET Pairs]
  /\ snapshot \in [Procs -> SUBSET Pairs]
  /\ changes \in 0 .. MaxChanges
  /\ unsettled \in BOOLEAN

\* The founder owns everything, and the process has started.
PolicyInit ==
  /\ policy = {<<Founder, Owner>>, <<Owner, Wildcard>>}
  /\ roles = Roles
  /\ users = [u \in Users |-> IF u = Founder THEN "active" ELSE "none"]
  /\ engine = policy /\ loaded = TRUE
  /\ pc = [p \in Procs |-> "idle"]
  /\ key = [p \in Procs |-> NoKey]
  /\ new = [p \in Procs |-> {}]
  /\ old = [p \in Procs |-> {}]
  /\ snapshot = [p \in Procs |-> {}]
  /\ changes = 0
  /\ unsettled = FALSE

-----------------------------------------------------------------------------
RowsOf(k) == {pair \in policy : pair[1] = k}

\* Enforce: the matcher of the Casbin model.
Allowed(u, permission) ==
  /\ loaded
  /\ \E r \in Roles : /\ <<u, r>> \in engine
                      /\ \E a \in {Wildcard, permission} : <<r, a>> \in engine

\* The user or the role whose rows are replaced must be there.
KeyExists(k) == k \in roles \cup {u \in Users : users[u] # "none"}

\* From its write to the end of its Reload.
Reloading(p) == pc[p] \in {"written", "cleared", "loaded"}

Goes(p, step) == pc' = [pc EXCEPT ![p] = step]

Forgets(p) ==
  /\ key' = [key EXCEPT ![p] = NoKey]
  /\ new' = [new EXCEPT ![p] = {}]
  /\ snapshot' = [snapshot EXCEPT ![p] = {}]

\* The write is committed, and the handler goes on to reload.
Written(p) ==
  /\ Goes(p, "written")
  /\ unsettled' = \E q \in Procs \ {p} : Reloading(q)

\* The write is committed but the handler hears of an error, as when the client
\* goes away during the COMMIT: it answers 400 and does not reload.
Unanswered(p) ==
  /\ CommitsGoUnanswered
  /\ Goes(p, "idle")
  /\ unsettled' = TRUE

Changes ==
  /\ changes < MaxChanges
  /\ changes' = changes + 1

-----------------------------------------------------------------------------
(* Requests of administrators.                                             *)

\* authenticate and requirePermission.
Admit(p, u) ==
  /\ pc[p] = "idle"
  /\ users[u] = "active"
  /\ Allowed(u, RbacManage)
  /\ Goes(p, "admitted")
  /\ UNCHANGED <<tables, authorizer, locals, changes, unsettled>>

CreateUser(p, u) ==
  /\ pc[p] = "admitted"
  /\ users[u] = "none" /\ Changes
  /\ users' = [users EXCEPT ![u] = "active"]
  /\ Goes(p, "idle")
  /\ UNCHANGED <<policy, roles, authorizer, locals, unsettled>>

\* UpdateUser: the policy says nothing about the status.
UpdateUser(p, u) ==
  /\ pc[p] = "admitted"
  /\ users[u] # "none" /\ Changes
  /\ \E status \in {"active", "disabled"} : users' = [users EXCEPT ![u] = status]
  /\ Goes(p, "idle")
  /\ UNCHANGED <<policy, roles, authorizer, locals, unsettled>>

\* The DELETE of SetUserRoles and of SetRolePermissions takes the rows that are
\* committed when it begins.
Replaces(p, k, values) ==
  /\ pc[p] = "admitted"
  /\ KeyExists(k) /\ Changes
  /\ Cardinality(values) <= MaxValues
  /\ key' = [key EXCEPT ![p] = k]
  /\ new' = [new EXCEPT ![p] = {k} \X values]
  /\ old' = [old EXCEPT ![p] = RowsOf(k)]
  /\ Goes(p, "replacing")
  /\ UNCHANGED <<tables, authorizer, snapshot, unsettled>>

SetUserRoles(p) ==
  \E u \in Users, values \in SUBSET Roles : Replaces(p, u, values)

SetRolePermissions(p) ==
  \E r \in Roles, values \in SUBSET Permissions : Replaces(p, r, values)

\* The INSERTs and the COMMIT.  A row that another request inserted meanwhile
\* is a duplicate key; one it deleted meanwhile, and perhaps inserted again, is
\* not for the others to delete any more.
Replaced(p) ==
  /\ pc[p] = "replacing"
  /\ KeyExists(key[p])
  /\ \A pair \in new[p] : pair[2] \in roles \cup Permissions
  /\ new[p] \cap (policy \ old[p]) = {}
  /\ policy' = (policy \ old[p]) \cup new[p]
  /\ old' = [q \in Procs |-> IF q = p THEN {} ELSE old[q] \ old[p]]
  /\ Written(p) \/ Unanswered(p)
  /\ Forgets(p)
  /\ UNCHANGED <<roles, users, authorizer, changes>>

\* DeleteRole: the rows of the role go with it.
DeleteRole(p, r) ==
  /\ pc[p] = "admitted"
  /\ r \in roles \ System /\ Changes
  /\ roles' = roles \ {r}
  /\ policy' = {pair \in policy : r \notin {pair[1], pair[2]}}
  /\ Written(p) \/ Unanswered(p)
  /\ UNCHANGED <<users, authorizer, locals>>

\* The request is refused or fails, and its transaction is rolled back.
Refused(p) ==
  /\ pc[p] \in {"admitted", "replacing"}
  /\ Goes(p, "idle")
  /\ old' = [old EXCEPT ![p] = {}]
  /\ Forgets(p)
  /\ UNCHANGED <<tables, authorizer, changes, unsettled>>

-----------------------------------------------------------------------------
(* A DingTalk login reloads as well, see Console.                          *)

\* UpsertDingTalkIdentity for an identity that is, or becomes, a known user's.
SignIn(p) ==
  /\ pc[p] = "idle"
  /\ Written(p)
  /\ UNCHANGED <<tables, authorizer, locals, changes>>

\* ... and for one that is new: a user with the role that is called Viewer at the
\* time.  UpdateRole renames any role, names are unique.
FirstSignIn(p, u) ==
  /\ pc[p] = "idle"
  /\ users[u] = "none"
  /\ users' = [users EXCEPT ![u] = "active"]
  /\ \E named \in {{}} \cup {{r} : r \in roles} :
       policy' = policy \cup ({u} \X named)
  /\ Written(p) \/ Unanswered(p)
  /\ UNCHANGED <<roles, authorizer, locals, changes>>

-----------------------------------------------------------------------------
(* Authorizer.Reload.                                                      *)

\* Mutant: the old policy stays in force until the new one is there.
ClearsNothing(p) ==
  /\ pc[p] = "written"
  /\ Goes(p, "cleared")
  /\ UNCHANGED <<tables, authorizer, locals, changes, unsettled>>

\* The lock is only held to drop the policy, not while the tables are read.
Clears(p) ==
  /\ pc[p] = "written"
  /\ engine' = {} /\ loaded' = FALSE
  /\ Goes(p, "cleared")
  /\ UNCHANGED <<tables, locals, changes, unsettled>>

\* LoadRBACPolicy reads everything in one statement.
Loads(p) ==
  /\ pc[p] = "cleared"
  /\ snapshot' = [snapshot EXCEPT ![p] = policy]
  /\ Goes(p, "loaded")
  /\ UNCHANGED <<tables, authorizer, key, new, old, changes, unsettled>>

\* The database failed, or the context of the request is cancelled.
LoadFails(p) ==
  /\ LoadsFail
  /\ pc[p] = "cleared"
  /\ Goes(p, "idle")
  /\ UNCHANGED <<tables, authorizer, locals, changes, unsettled>>

Installs(p) ==
  /\ pc[p] = "loaded"
  /\ engine' = snapshot[p] /\ loaded' = TRUE
  /\ Goes(p, "idle")
  /\ snapshot' = [snapshot EXCEPT ![p] = {}]
  /\ UNCHANGED <<tables, key, new, old, changes, unsettled>>

\* The process is started again; NewAuthorizer loads before it serves.
Restarts ==
  /\ engine' = policy /\ loaded' = TRUE
  /\ pc' = [p \in Procs |-> "idle"]
  /\ key' = [p \in Procs |-> NoKey]
  /\ new' = [p \in Procs |-> {}]
  /\ old' = [p \in Procs |-> {}]
  /\ snapshot' = [p \in Procs |-> {}]
  /\ unsettled' = FALSE
  /\ UNCHANGED <<tables, changes>>

-----------------------------------------------------------------------------
AdminWrites(p) ==
  \/ \E u \in Users : CreateUser(p, u) \/ UpdateUser(p, u)
  \/ SetUserRoles(p) \/ SetRolePermissions(p) \/ Replaced(p)
  \/ \E r \in Roles : DeleteRole(p, r)
  \/ Refused(p)

PolicyNext ==
  \/ \E p \in Procs :
       \/ \E u \in Users : Admit(p, u) \/ FirstSignIn(p, u)
       \/ AdminWrites(p) \/ SignIn(p)
       \/ Clears(p) \/ Loads(p) \/ LoadFails(p) \/ Installs(p)
  \/ Restarts

PolicySpec == PolicyInit /\ [][PolicyNext]_policyVars

-----------------------------------------------------------------------------
(* Properties.                                                             *)

\* When no reload is under way, the policy in force is that of the tables, or
\* there is none and every guarded request is refused (Reload fails closed): as
\* long as the reloads of requests do not cross and every commit is answered.
PolicyInForce ==
  ~unsettled /\ loaded /\ (\A p \in Procs : ~Reloading(p)) => engine = policy

\* The plan of the mirror runtime (2026-08-13-shopify-mirror-runtime.md:626)
\* says that permissions take effect at once after a Reload: when every request
\* that changed something has reloaded and was answered, no older policy is in
\* force.
ReloadTakesEffect ==
  loaded /\ (\A p \in Procs : ~Reloading(p)) => engine = policy
=============================================================================
