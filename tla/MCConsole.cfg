CONSTANTS
  Procs = {p1, p2}
  Users = {founder, u2, u3}
  Roles = {owner, editor}
  Permissions = {any}
  Wildcard = any
  RbacManage = rbac_manage
  IntegrationsManage = integrations_manage
  System = {owner}
  Founder = founder
  Owner = owner
  NoKey = NoKey
  MaxChanges = 2
  MaxValues = 1
  LoadsFail = TRUE
  CommitsGoUnanswered = TRUE
  States = {s1, s2}
  Persons = {x1}
  NoUser = NoUser
  NoPerson = NoPerson
  NoState = NoState
  DevLoginEnabled = TRUE
SPECIFICATION Spec
SYMMETRY Symmetry
CHECK_DEADLOCK FALSE
INVARIANTS
  TypeOK
  PolicyInForce
  StateUsedOnce
  SessionsMatchIdentity
  FirstLoginsHaveIdentity
