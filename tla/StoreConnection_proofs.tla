------------------------ MODULE StoreConnection_proofs ------------------------
(***************************************************************************)
(* Proofs about StoreConnection, for any number of processes, scopes,      *)
(* tokens, uninstalls and OAuth states.                                    *)
(*                                                                         *)
(* The inductive invariant says who owns which row lock, and which token a *)
(* request holds: a refresh works on the stored token because it owns both *)
(* rows, and a token that is not stored yet belongs to one request only.   *)
(* The last section shows that the whole implements AtomicConnection.      *)
(***************************************************************************)
EXTENDS StoreConnection, TLAPS

-----------------------------------------------------------------------------
(* The inductive invariant.                                                *)

\* A transaction past its first lock owns that row, one past its second owns
\* both: WithLockedConnection, UpsertShopifyAuthorization, DisconnectStore.
Locked ==
  \A p \in Procs :
    /\ pc[p] \in {"token_store", "auth_store", "refreshing", "rotated"} =>
         lock["account"] = p
    /\ pc[p] \in {"refreshing", "rotated", "disconnecting"} => lock["store"] = p

\* Shopify is asked to rotate the very token that is stored, and something stays
\* stored, the token that was spent, until the rotation is committed.
CredentialsHeld ==
  \A p \in Procs :
    /\ pc[p] = "refreshing" => token[p] \in Tokens /\ token[p] = account.cred
    /\ pc[p] = "rotated" => account.cred \in Tokens /\ tokens[account.cred] = "spent"

\* The requests that have obtained a token and not stored it yet.
Holding == {"authorizing", "auth_store", "rotated"}

\* Such a token is unspent and not in the database ...
TokensHeld ==
  \A p \in Procs : pc[p] \in Holding =>
    /\ token[p] \in Tokens
    /\ tokens[token[p]] \in {"live", "revoked"}
    /\ token[p] # account.cred

\* ... and belongs to one request only.
TokensDistinct ==
  \A p, q \in Procs :
    pc[p] \in Holding /\ pc[q] \in Holding /\ p # q => token[p] # token[q]

\* What is stored was issued, and only a linked account stores anything.
StoredIssued ==
  /\ account.cred \in Tokens => tokens[account.cred] # "unissued"
  /\ ~account.linked => account.cred = NoToken

\* What a request has found out still holds when it acts on it: the scopes a
\* callback has checked, the reason for a refresh, the store of a disconnect.
Justified ==
  \A p \in Procs :
    /\ pc[p] \in {"authorizing", "auth_store"} => Required \subseteq granted[p]
    /\ pc[p] \in {"refreshing", "rotated"} =>
         account.scopes = Required /\ account.expiry = "due"
    /\ pc[p] \in {"delivered", "disconnecting"} => store # "absent"

\* An event is only handled on behalf of a webhook, and not again.
EventsOpen ==
  \A p \in Procs :
    /\ event[p] # NoEvent => pc[p] \in {"delivered", "disconnecting"}
    /\ pc[p] = "disconnecting" => event[p] \notin recorded

IInv ==
  /\ TypeOK /\ Locked /\ CredentialsHeld
  /\ TokensHeld /\ TokensDistinct /\ StoredIssued
  /\ Justified /\ EventsOpen

\* The part of the type invariant that the proofs about tokens use.
TokenTypes ==
  /\ account \in [linked : BOOLEAN, cred : Tokens \cup {NoToken},
                  expiry : {"never", "ahead", "due"}, scopes : SUBSET Scopes]
  /\ tokens \in [Tokens -> {"unissued", "live", "spent", "lost", "revoked"}]
  /\ token \in [Procs -> Tokens \cup {NoToken}]
  /\ pc \in [Procs -> Phases]

\* The type invariant of the locks and of what a request keeps to itself.
LocalsOK ==
  /\ lock \in [Rows -> Procs \cup {Nobody}]
  /\ pc \in [Procs -> Phases]
  /\ token \in [Procs -> Tokens \cup {NoToken}]
  /\ granted \in [Procs -> SUBSET Scopes]
  /\ event \in [Procs -> Events \cup {NoEvent}]
  /\ early \subseteq Procs

\* A step of p leaves the other requests where they are, with their tokens,
\* their events and their locks.
Others(p) ==
  \A q \in Procs \ {p} :
    /\ pc'[q] = pc[q]
    /\ token'[q] = token[q] /\ granted'[q] = granted[q]
    /\ event'[q] = event[q]
    /\ \A r \in Rows : lock[r] = q => lock'[r] = q

-----------------------------------------------------------------------------
(* What Goes, Takes, Ends and LocksStore do, request by request.           *)

\* Goes moves p and nobody else.
LEMMA GoesFacts ==
  ASSUME TypeOK, NEW p \in Procs, NEW phase \in Phases, Goes(p, phase)
  PROVE  /\ pc' \in [Procs -> Phases]
         /\ pc'[p] = phase
         /\ \A q \in Procs \ {p} : pc'[q] = pc[q]
  BY DEF TypeOK, Goes

\* Takes gives p a free row.
LEMMA TakesFacts ==
  ASSUME TypeOK, NEW p \in Procs, NEW row \in Rows, Takes(p, row)
  PROVE  /\ lock' \in [Rows -> Procs \cup {Nobody}]
         /\ lock[row] = Nobody
         /\ lock'[row] = p
         /\ \A r \in Rows \ {row} : lock'[r] = lock[r]
  BY DEF TypeOK, Takes

\* Ends lets go of what p holds and of nothing else.
LEMMA EndsFacts ==
  ASSUME TypeOK, NEW p \in Procs, Ends(p)
  PROVE  /\ LocalsOK'
         /\ pc'[p] = "idle" /\ event'[p] = NoEvent
         /\ Others(p)
<1>1. /\ pc' \in [Procs -> Phases]
      /\ pc'[p] = "idle"
      /\ \A q \in Procs \ {p} : pc'[q] = pc[q]
  BY GoesFacts DEF Ends, Phases
<1>2. lock' \in [Rows -> Procs \cup {Nobody}] /\ \A q \in Procs \ {p}, r \in Rows : lock[r] = q => lock'[r] = q
  BY DEF Ends, TypeOK
<1>3. token' \in [Procs -> Tokens \cup {NoToken}] /\ \A q \in Procs \ {p} : token'[q] = token[q]
  BY DEF Ends, TypeOK
<1>4. /\ granted' \in [Procs -> SUBSET Scopes]
      /\ \A q \in Procs \ {p} : granted'[q] = granted[q]
  BY DEF Ends, TypeOK
<1>5. /\ event' \in [Procs -> Events \cup {NoEvent}] /\ early' \subseteq Procs
      /\ event'[p] = NoEvent /\ \A q \in Procs \ {p} : event'[q] = event[q]
  BY DEF Ends, TypeOK
<1> QED BY <1>1, <1>2, <1>3, <1>4, <1>5 DEF LocalsOK, Others

\* LocksStore, seen from the locks: p is done, or has the row of the store.
LEMMA LocksStoreFacts ==
  ASSUME TypeOK, NEW p \in Procs, LocksStore(p)
  PROVE  /\ LocalsOK'
         /\ Others(p)
         /\ pc'[p] = "idle" \/ (pc'[p] = "disconnecting" /\ lock'["store"] = p)
<1>1. CASE ~account.linked
  <2>1. Ends(p)
    BY <1>1 DEF LocksStore
  <2> QED
    BY <2>1, EndsFacts
<1>2. CASE account.linked
  BY <1>2, GoesFacts, TakesFacts, StoreConnectionAssumption
     DEF LocksStore, LocalsOK, Others, TypeOK, Rows, Phases, locals
<1> QED BY <1>1, <1>2

\* LocksStore, seen from the rows: only a store without an account changes.
LEMMA LocksStoreRows ==
  ASSUME NEW p \in Procs, LocksStore(p)
  PROVE  /\ account' = account
         /\ \/ /\ ~account.linked /\ store' = "disconnected" /\ overridden' = FALSE
               /\ recorded' = Recorded(p)
            \/ store' = store /\ overridden' = overridden /\ recorded' = recorded
  BY DEF LocksStore, rows

\* Only events are recorded.
LEMMA RecordedType ==
  ASSUME TypeOK, NEW p \in Procs
  PROVE  Recorded(p) \subseteq Events
  BY DEF TypeOK, Recorded

-----------------------------------------------------------------------------
(* Every step keeps every part of the invariant.                           *)

\* Every action keeps the types.
LEMMA TypeKept == TypeOK /\ [Next]_vars => TypeOK'
<1> SUFFICES ASSUME TypeOK, [Next]_vars PROVE TypeOK'
  OBVIOUS
<1> USE StoreConnectionAssumption DEF rows, shopify, locals, LocalsOK
<1> USE DEF TypeOK, Statuses, Tokens, NoToken, Events, NoEvent, Phases, Rows
<1>1. ASSUME NEW p \in Procs, CallbackBegins(p) PROVE TypeOK'
  BY <1>1, GoesFacts DEF CallbackBegins
<1>2. ASSUME NEW p \in Procs, ResolveSyncTarget(p) PROVE TypeOK'
  BY <1>2, GoesFacts DEF ResolveSyncTarget
<1>3. ASSUME NEW p \in Procs, TokenBegins(p) PROVE TypeOK'
  BY <1>3, GoesFacts DEF TokenBegins
<1>4. ASSUME NEW p \in Procs, AuthorizeAccount(p) PROVE TypeOK'
  BY <1>4, GoesFacts, TakesFacts DEF AuthorizeAccount
<1>5. ASSUME NEW p \in Procs, TokenLocksAccount(p) PROVE TypeOK'
  BY <1>5, GoesFacts, TakesFacts DEF TokenLocksAccount
<1>6. ASSUME NEW p \in Procs, RefreshBegins(p) PROVE TypeOK'
  BY <1>6, GoesFacts, TakesFacts DEF RefreshBegins
<1>7. ASSUME NEW p \in Procs, ScopesRefused(p) \/ TokenAnswered(p) \/ RefreshRefused(p) \/ DeadlockAborts(p)
      PROVE  TypeOK'
  BY <1>7, EndsFacts DEF ScopesRefused, TokenAnswered, RefreshRefused,
     DeadlockAborts, ActionRequired, Blocks, Wants
<1>8. ASSUME NEW p \in Procs, Disconnects(p) PROVE TypeOK'
  BY <1>8, EndsFacts, RecordedType DEF Disconnects
<1>9. ASSUME NEW p \in Procs, AuthorizeStore(p) PROVE TypeOK'
  <2>1. token[p] \in Tokens \cup {NoToken} /\ granted[p] \in SUBSET Scopes
    BY DEF TypeOK
  <2>2. account' \in [linked : BOOLEAN, cred : Tokens \cup {NoToken},
                     expiry : {"never", "ahead", "due"}, scopes : SUBSET Scopes]
    BY <1>9, <2>1 DEF AuthorizeStore
  <2> QED
    BY <1>9, <2>2, EndsFacts DEF AuthorizeStore
<1>10. ASSUME NEW p \in Procs, RotationCommits(p) PROVE TypeOK'
  <2>1. token[p] \in Tokens \cup {NoToken}
    BY DEF TypeOK
  <2>2. account' \in [linked : BOOLEAN, cred : Tokens \cup {NoToken},
                     expiry : {"never", "ahead", "due"}, scopes : SUBSET Scopes]
    BY <1>10, <2>1 DEF RotationCommits
  <2> QED
    BY <1>10, <2>2, EndsFacts DEF RotationCommits
<1>11. ASSUME NEW p \in Procs, DisconnectBegins(p) PROVE TypeOK'
  <2>1. LocalsOK' /\ account' = account
    BY <1>11, LocksStoreFacts, LocksStoreRows DEF DisconnectBegins
  <2>2. store' \in Statuses /\ overridden' \in BOOLEAN /\ recorded' \subseteq Events
    BY <1>11, LocksStoreRows, RecordedType DEF DisconnectBegins
  <2> QED
    BY <1>11, <2>1, <2>2 DEF DisconnectBegins
<1>12. ASSUME NEW p \in Procs, WebhookRecords(p) PROVE TypeOK'
  <2>1. LocalsOK' /\ account' = account
    BY <1>12, LocksStoreFacts, LocksStoreRows, EndsFacts DEF WebhookRecords
  <2>2. store' \in Statuses /\ overridden' \in BOOLEAN /\ recorded' \subseteq Events
    <3>1. CASE LocksStore(p)
      BY <3>1, LocksStoreRows, RecordedType
    <3>2. CASE UNCHANGED <<rows, recorded>>
      BY <3>2
    <3> QED
      BY <1>12, <3>1, <3>2 DEF WebhookRecords
  <2> QED
    BY <1>12, <2>1, <2>2 DEF WebhookRecords
<1>13. ASSUME NEW enabled \in BOOLEAN, NEW secret \in Secrets, Configure(enabled, secret)
       PROVE  TypeOK'
  BY <1>13 DEF Configure
<1>14. ASSUME NEW e \in Events, WebhookAnswered(e) PROVE TypeOK'
  BY <1>14 DEF WebhookAnswered
<1>15. CASE Install
  BY <1>15 DEF Install
<1>16. CASE StateExpires
  BY <1>16 DEF StateExpires
<1>17. CASE UpdateStore
  BY <1>17 DEF UpdateStore
<1>18. CASE Uninstall
  BY <1>18 DEF Uninstall
<1>19. CASE FallsDue
  BY <1>19 DEF FallsDue
<1>20. ASSUME NEW p \in Procs, NEW e \in Events, WebhookArrives(p, e) PROVE TypeOK'
  <2>1. pc' \in [Procs -> Phases]
    BY <1>20, GoesFacts DEF WebhookArrives
  <2>2. event' \in [Procs -> Events \cup {NoEvent}]
    BY <1>20 DEF WebhookArrives
  <2>3. pending' \subseteq Events
    BY <1>20 DEF WebhookArrives
  <2> QED
    BY <1>20, <2>1, <2>2, <2>3 DEF WebhookArrives
<1>21. ASSUME NEW p \in Procs, NEW t \in Tokens, Rotates(p, t) PROVE TypeOK'
  BY <1>21, GoesFacts DEF Rotates, NextToken
<1>22. ASSUME NEW p \in Procs, NEW t \in Tokens, NEW scopes \in SUBSET Scopes, Exchange(p, t, scopes)
       PROVE  TypeOK'
  <2>1. tokens' \in [Tokens -> {"unissued", "live", "spent", "lost", "revoked"}]
    BY <1>22 DEF Exchange
  <2>2. CASE ScopesContain(scopes)
    <3>1. token' \in [Procs -> Tokens \cup {NoToken}]
      BY <1>22, <2>2 DEF Exchange
    <3>2. granted' \in [Procs -> SUBSET Scopes]
      BY <1>22, <2>2 DEF Exchange
    <3>3. pc' \in [Procs -> Phases]
      BY <1>22, <2>2, GoesFacts DEF Exchange
    <3> QED
      BY <1>22, <2>1, <2>2, <3>1, <3>2, <3>3 DEF Exchange
  <2>3. CASE ~ScopesContain(scopes)
    <3>1. LocalsOK'
      BY <1>22, <2>3, EndsFacts DEF Exchange
    <3> QED
      BY <1>22, <2>1, <2>3, <3>1 DEF Exchange
  <2> QED
    BY <2>2, <2>3
<1>23. ASSUME NEW p \in Procs, Fails(p) PROVE TypeOK'
  BY <1>23, EndsFacts DEF Fails
<1>24. CASE UNCHANGED vars
  BY <1>24 DEF vars
<1> QED
  BY <1>1, <1>2, <1>3, <1>4, <1>5, <1>6, <1>7, <1>8, <1>9, <1>10, <1>11, <1>12,
     <1>13, <1>14, <1>15, <1>16, <1>17, <1>18, <1>19, <1>20, <1>21, <1>22, <1>23,
     <1>24 DEF Next, Request, Proceeds, ShopifyAnswers

\* A lock is only taken from nobody, and only let go by its owner.
LEMMA LockedKept == TypeOK /\ Locked /\ [Next]_vars => Locked'
<1> SUFFICES ASSUME TypeOK, Locked, [Next]_vars PROVE Locked'
  OBVIOUS
<1> USE StoreConnectionAssumption DEF Locked, Others, Rows, Phases, rows, shopify, locals
<1>1. ASSUME NEW p \in Procs, CallbackBegins(p) \/ ResolveSyncTarget(p) \/ TokenBegins(p)
      PROVE  Locked'
  BY <1>1, GoesFacts DEF CallbackBegins, ResolveSyncTarget, TokenBegins
<1>2. ASSUME NEW p \in Procs, AuthorizeAccount(p) \/ TokenLocksAccount(p) \/ RefreshBegins(p)
      PROVE  Locked'
  BY <1>2, GoesFacts, TakesFacts DEF AuthorizeAccount, TokenLocksAccount, RefreshBegins
<1>3. ASSUME NEW p \in Procs, ScopesRefused(p) \/ TokenAnswered(p) \/ RefreshRefused(p) \/ DeadlockAborts(p)
      PROVE  Locked'
  BY <1>3, EndsFacts DEF ScopesRefused, TokenAnswered, RefreshRefused,
     DeadlockAborts, ActionRequired, Blocks, Wants
<1>4. ASSUME NEW p \in Procs, AuthorizeStore(p) \/ RotationCommits(p) \/ Disconnects(p)
      PROVE  Locked'
  BY <1>4, EndsFacts DEF AuthorizeStore, RotationCommits, Disconnects
<1>5. ASSUME NEW p \in Procs, DisconnectBegins(p) \/ WebhookRecords(p) PROVE Locked'
  BY <1>5, LocksStoreFacts, LocksStoreRows, EndsFacts DEF DisconnectBegins,
     WebhookRecords
<1>6. ASSUME NEW enabled \in BOOLEAN, NEW secret \in Secrets, Configure(enabled, secret)
      PROVE  Locked'
  BY <1>6 DEF Configure
<1>7. ASSUME NEW e \in Events, WebhookAnswered(e) PROVE Locked'
  BY <1>7 DEF WebhookAnswered
<1>8. CASE Install \/ StateExpires \/ UpdateStore \/ Uninstall \/ FallsDue
  BY <1>8 DEF Install, StateExpires, UpdateStore, Uninstall, FallsDue
<1>9. ASSUME NEW p \in Procs, NEW e \in Events, WebhookArrives(p, e) PROVE Locked'
  BY <1>9, GoesFacts DEF WebhookArrives
<1>10. ASSUME NEW p \in Procs, NEW t \in Tokens, Rotates(p, t) PROVE Locked'
  BY <1>10, GoesFacts DEF Rotates, NextToken
<1>11. ASSUME NEW p \in Procs, NEW t \in Tokens, NEW scopes \in SUBSET Scopes, Exchange(p, t, scopes)
       PROVE  Locked'
  BY <1>11, GoesFacts, EndsFacts DEF Exchange, NextToken
<1>12. ASSUME NEW p \in Procs, Fails(p) PROVE Locked'
  BY <1>12, EndsFacts DEF Fails
<1>13. CASE UNCHANGED vars
  BY <1>13 DEF vars
<1> QED
  BY <1>1, <1>2, <1>3, <1>4, <1>5, <1>6, <1>7, <1>8, <1>9, <1>10, <1>11, <1>12,
     <1>13 DEF Next, Request, Proceeds, ShopifyAnswers

\* The account changes under its lock, which a refresh holds.
LEMMA CredentialsHeldKept ==
  TypeOK /\ Locked /\ CredentialsHeld /\ [Next]_vars => CredentialsHeld'
<1> SUFFICES ASSUME TypeOK, Locked, CredentialsHeld, [Next]_vars PROVE CredentialsHeld'
  OBVIOUS
<1> USE StoreConnectionAssumption DEF TypeOK, Locked, CredentialsHeld, Others, Rows, Phases, rows, shopify, locals
<1>1. ASSUME NEW p \in Procs, CallbackBegins(p) \/ ResolveSyncTarget(p) \/ TokenBegins(p)
      PROVE  CredentialsHeld'
  BY <1>1, GoesFacts DEF CallbackBegins, ResolveSyncTarget, TokenBegins
<1>2. ASSUME NEW p \in Procs, AuthorizeAccount(p) \/ TokenLocksAccount(p) \/ RefreshBegins(p)
      PROVE  CredentialsHeld'
  BY <1>2, GoesFacts, TakesFacts DEF AuthorizeAccount, TokenLocksAccount, RefreshBegins
<1>3. ASSUME NEW p \in Procs, ScopesRefused(p) \/ TokenAnswered(p) \/ RefreshRefused(p) \/ DeadlockAborts(p)
      PROVE  CredentialsHeld'
  BY <1>3, EndsFacts DEF ScopesRefused, TokenAnswered, RefreshRefused,
     DeadlockAborts, ActionRequired, Blocks, Wants
<1>4. ASSUME NEW p \in Procs, AuthorizeStore(p) \/ RotationCommits(p) \/ Disconnects(p)
      PROVE  CredentialsHeld'
  BY <1>4, EndsFacts DEF AuthorizeStore, RotationCommits, Disconnects
<1>5. ASSUME NEW p \in Procs, DisconnectBegins(p) PROVE CredentialsHeld'
  <2>1. account' = account /\ tokens' = tokens
    BY <1>5, LocksStoreRows DEF DisconnectBegins
  <2>2. Others(p) /\ pc'[p] \notin {"refreshing", "rotated"}
    BY <1>5, LocksStoreFacts DEF DisconnectBegins
  <2> QED
    BY <2>1, <2>2
<1>6. ASSUME NEW p \in Procs, WebhookRecords(p) PROVE CredentialsHeld'
  <2>1. account' = account /\ tokens' = tokens
    BY <1>6, LocksStoreRows DEF WebhookRecords
  <2>2. Others(p) /\ pc'[p] \notin {"refreshing", "rotated"}
    BY <1>6, LocksStoreFacts, EndsFacts DEF WebhookRecords
  <2> QED
    BY <2>1, <2>2
<1>7. ASSUME NEW enabled \in BOOLEAN, NEW secret \in Secrets, Configure(enabled, secret)
      PROVE  CredentialsHeld'
  BY <1>7 DEF Configure
<1>8. ASSUME NEW e \in Events, WebhookAnswered(e) PROVE CredentialsHeld'
  BY <1>8 DEF WebhookAnswered
<1>9. CASE Install \/ StateExpires \/ UpdateStore \/ Uninstall \/ FallsDue
  BY <1>9 DEF Install, StateExpires, UpdateStore, Uninstall, FallsDue
<1>10. ASSUME NEW p \in Procs, NEW e \in Events, WebhookArrives(p, e)
       PROVE  CredentialsHeld'
  BY <1>10, GoesFacts DEF WebhookArrives
<1>11. ASSUME NEW p \in Procs, NEW t \in Tokens, Rotates(p, t) PROVE CredentialsHeld'
  BY <1>11, GoesFacts DEF Rotates, NextToken
<1>12. ASSUME NEW p \in Procs, NEW t \in Tokens, NEW scopes \in SUBSET Scopes, Exchange(p, t, scopes)
       PROVE  CredentialsHeld'
  BY <1>12, GoesFacts, EndsFacts DEF Exchange, NextToken
<1>13. ASSUME NEW p \in Procs, Fails(p) PROVE CredentialsHeld'
  BY <1>13, EndsFacts DEF Fails
<1>14. CASE UNCHANGED vars
  BY <1>14 DEF vars
<1> QED
  BY <1>1, <1>2, <1>3, <1>4, <1>5, <1>6, <1>7, <1>8, <1>9, <1>10, <1>11, <1>12,
     <1>13, <1>14 DEF Next, Request, Proceeds, ShopifyAnswers

\* Only its holder stores a token, and only a stored token is spent.
LEMMA TokensHeldKept ==
  TypeOK /\ CredentialsHeld /\ TokensHeld /\ TokensDistinct /\ StoredIssued /\ [Next]_vars
    => TokensHeld'
<1> SUFFICES ASSUME TypeOK, CredentialsHeld, TokensHeld, TokensDistinct, StoredIssued, [Next]_vars
             PROVE  TokensHeld'
  OBVIOUS
<1>0. TokenTypes
  BY DEF TypeOK, TokenTypes
<1> USE DEF TokenTypes, TokensHeld, Holding, Others, Rows, Phases, rows, shopify, locals
<1>1. ASSUME NEW p \in Procs, CallbackBegins(p) \/ ResolveSyncTarget(p) \/ TokenBegins(p)
      PROVE  TokensHeld'
  BY <1>1, <1>0, GoesFacts DEF CallbackBegins, ResolveSyncTarget, TokenBegins
<1>2. ASSUME NEW p \in Procs, AuthorizeAccount(p) \/ TokenLocksAccount(p) \/ RefreshBegins(p)
      PROVE  TokensHeld'
  BY <1>2, <1>0, GoesFacts, TakesFacts DEF AuthorizeAccount, TokenLocksAccount,
     RefreshBegins
<1>3. ASSUME NEW p \in Procs, ScopesRefused(p) \/ TokenAnswered(p) \/ RefreshRefused(p) \/ DeadlockAborts(p)
      PROVE  TokensHeld'
  BY <1>3, <1>0, EndsFacts DEF ScopesRefused, TokenAnswered, RefreshRefused,
     DeadlockAborts, ActionRequired, Blocks, Wants
<1>4. ASSUME NEW p \in Procs, AuthorizeStore(p) PROVE TokensHeld'
  <2>1. account'.cred = token[p]
    BY <1>4 DEF AuthorizeStore
  <2> QED
    BY <1>4, <1>0, <2>1, EndsFacts DEF AuthorizeStore, TokensDistinct
<1>5. ASSUME NEW p \in Procs, RotationCommits(p) PROVE TokensHeld'
  <2>1. account'.cred = token[p]
    BY <1>5, <1>0 DEF RotationCommits
  <2> QED
    BY <1>5, <1>0, <2>1, EndsFacts DEF RotationCommits, TokensDistinct
<1>6. ASSUME NEW p \in Procs, Disconnects(p) PROVE TokensHeld'
  <2>1. account'.cred = NoToken /\ NoToken \notin Tokens
    BY <1>6, <1>0 DEF Disconnects, NoToken, Tokens
  <2>2. Others(p) /\ pc'[p] = "idle" /\ tokens' = tokens
    BY <1>6, EndsFacts DEF Disconnects
  <2> QED
    BY <1>0, <2>1, <2>2
<1>7. ASSUME NEW p \in Procs, DisconnectBegins(p) PROVE TokensHeld'
  <2>1. account' = account /\ tokens' = tokens
    BY <1>7, LocksStoreRows DEF DisconnectBegins
  <2>2. Others(p) /\ pc'[p] \notin Holding
    BY <1>7, LocksStoreFacts DEF DisconnectBegins
  <2> QED
    BY <1>0, <2>1, <2>2
<1>8. ASSUME NEW p \in Procs, WebhookRecords(p) PROVE TokensHeld'
  <2>1. account' = account /\ tokens' = tokens
    BY <1>8, LocksStoreRows DEF WebhookRecords
  <2>2. Others(p) /\ pc'[p] \notin Holding
    BY <1>8, LocksStoreFacts, EndsFacts DEF WebhookRecords
  <2> QED
    BY <1>0, <2>1, <2>2
<1>9. ASSUME NEW enabled \in BOOLEAN, NEW secret \in Secrets, Configure(enabled, secret)
      PROVE  TokensHeld'
  BY <1>9, <1>0 DEF Configure
<1>10. ASSUME NEW e \in Events, WebhookAnswered(e) PROVE TokensHeld'
  BY <1>10, <1>0 DEF WebhookAnswered
<1>11. CASE Install \/ StateExpires \/ UpdateStore \/ Uninstall \/ FallsDue
  BY <1>11, <1>0 DEF Install, StateExpires, UpdateStore, Uninstall, FallsDue
<1>12. ASSUME NEW p \in Procs, NEW e \in Events, WebhookArrives(p, e) PROVE TokensHeld'
  BY <1>12, <1>0, GoesFacts DEF WebhookArrives
<1>13. ASSUME NEW p \in Procs, NEW t \in Tokens, Rotates(p, t) PROVE TokensHeld'
  <2>1. token'[p] = t /\ \A q \in Procs \ {p} : token'[q] = token[q]
    BY <1>13, <1>0 DEF Rotates
  <2>2. \A u \in Tokens : u # token[p] /\ u # t => tokens'[u] = tokens[u]
    BY <1>13, <1>0 DEF Rotates
  <2>3. tokens'[t] = "live"
    BY <1>13, <1>0 DEF Rotates
  <2> QED
    BY <1>13, <1>0, <2>1, <2>2, <2>3, GoesFacts DEF Rotates, NextToken,
       CredentialsHeld, StoredIssued
<1>14. ASSUME NEW p \in Procs, NEW t \in Tokens, NEW scopes \in SUBSET Scopes, Exchange(p, t, scopes)
       PROVE  TokensHeld'
  <2>1. tokens'[t] = "live" /\ \A u \in Tokens \ {t} : tokens'[u] = tokens[u]
    BY <1>14, <1>0 DEF Exchange
  <2>2. CASE ScopesContain(scopes)
    <3>1. token'[p] = t /\ \A q \in Procs \ {p} : token'[q] = token[q]
      BY <1>14, <2>2, <1>0 DEF Exchange
    <3> QED
      BY <1>14, <1>0, <2>1, <2>2, <3>1, GoesFacts DEF Exchange, NextToken, StoredIssued
  <2>3. CASE ~ScopesContain(scopes)
    BY <1>14, <1>0, <2>1, <2>3, EndsFacts DEF Exchange, NextToken
  <2> QED
    BY <2>2, <2>3
<1>15. ASSUME NEW p \in Procs, Fails(p) PROVE TokensHeld'
  <2>1. \A u \in Tokens : u # account.cred => tokens'[u] = tokens[u]
    BY <1>15, <1>0 DEF Fails
  <2> QED
    BY <1>15, <1>0, <2>1, EndsFacts DEF Fails
<1>16. CASE UNCHANGED vars
  BY <1>16, <1>0 DEF vars
<1> QED
  BY <1>1, <1>0, <1>2, <1>3, <1>4, <1>5, <1>6, <1>7, <1>8, <1>9, <1>10, <1>11,
     <1>12, <1>13, <1>14, <1>15, <1>16 DEF Next, Request, Proceeds, ShopifyAnswers

\* Shopify issues a token once, to one request.
LEMMA TokensDistinctKept ==
  TypeOK /\ TokensHeld /\ TokensDistinct /\ [Next]_vars => TokensDistinct'
<1> SUFFICES ASSUME TypeOK, TokensHeld, TokensDistinct, [Next]_vars
             PROVE  TokensDistinct'
  OBVIOUS
<1>0. token \in [Procs -> Tokens \cup {NoToken}]
  BY DEF TypeOK
<1> USE DEF TokensDistinct, Holding, Others, Rows, Phases, rows, shopify, locals
<1>1. ASSUME NEW p \in Procs, CallbackBegins(p) \/ ResolveSyncTarget(p) \/ TokenBegins(p)
      PROVE  TokensDistinct'
  BY <1>1, <1>0, GoesFacts DEF CallbackBegins, ResolveSyncTarget, TokenBegins
<1>2. ASSUME NEW p \in Procs, AuthorizeAccount(p) \/ TokenLocksAccount(p) \/ RefreshBegins(p)
      PROVE  TokensDistinct'
  BY <1>2, <1>0, GoesFacts, TakesFacts DEF AuthorizeAccount, TokenLocksAccount,
     RefreshBegins
<1>3. ASSUME NEW p \in Procs, ScopesRefused(p) \/ TokenAnswered(p) \/ RefreshRefused(p) \/ DeadlockAborts(p)
      PROVE  TokensDistinct'
  BY <1>3, <1>0, EndsFacts DEF ScopesRefused, TokenAnswered, RefreshRefused,
     DeadlockAborts, ActionRequired, Blocks, Wants
<1>4. ASSUME NEW p \in Procs, AuthorizeStore(p) \/ RotationCommits(p) \/ Disconnects(p)
      PROVE  TokensDistinct'
  BY <1>4, <1>0, EndsFacts DEF AuthorizeStore, RotationCommits, Disconnects
<1>5. ASSUME NEW p \in Procs, DisconnectBegins(p) \/ WebhookRecords(p)
      PROVE  TokensDistinct'
  BY <1>5, <1>0, LocksStoreFacts, LocksStoreRows, EndsFacts DEF DisconnectBegins,
     WebhookRecords
<1>6. ASSUME NEW enabled \in BOOLEAN, NEW secret \in Secrets, Configure(enabled, secret)
      PROVE  TokensDistinct'
  BY <1>6, <1>0 DEF Configure
<1>7. ASSUME NEW e \in Events, WebhookAnswered(e) PROVE TokensDistinct'
  BY <1>7, <1>0 DEF WebhookAnswered
<1>8. CASE Install \/ StateExpires \/ UpdateStore \/ Uninstall \/ FallsDue
  BY <1>8, <1>0 DEF Install, StateExpires, UpdateStore, Uninstall, FallsDue
<1>9. ASSUME NEW p \in Procs, NEW e \in Events, WebhookArrives(p, e)
      PROVE  TokensDistinct'
  BY <1>9, <1>0, GoesFacts DEF WebhookArrives
<1>10. ASSUME NEW p \in Procs, NEW t \in Tokens, Rotates(p, t) PROVE TokensDistinct'
  <2>1. token'[p] = t /\ \A q \in Procs \ {p} : token'[q] = token[q]
    BY <1>10, <1>0 DEF Rotates
  <2> QED
    BY <1>10, <2>1, GoesFacts DEF Rotates, NextToken, TokensHeld
<1>11. ASSUME NEW p \in Procs, NEW t \in Tokens, NEW scopes \in SUBSET Scopes, Exchange(p, t, scopes)
       PROVE  TokensDistinct'
  <2>1. CASE ScopesContain(scopes)
    <3>1. token'[p] = t /\ \A q \in Procs \ {p} : token'[q] = token[q]
      BY <1>11, <2>1, <1>0 DEF Exchange
    <3> QED
      BY <1>11, <2>1, <3>1, GoesFacts DEF Exchange, NextToken, TokensHeld
  <2>2. CASE ~ScopesContain(scopes)
    BY <1>11, <2>2, EndsFacts DEF Exchange
  <2> QED
    BY <2>1, <2>2
<1>12. ASSUME NEW p \in Procs, Fails(p) PROVE TokensDistinct'
  BY <1>12, <1>0, EndsFacts DEF Fails
<1>13. CASE UNCHANGED vars
  BY <1>13, <1>0 DEF vars
<1> QED
  BY <1>1, <1>0, <1>2, <1>3, <1>4, <1>5, <1>6, <1>7, <1>8, <1>9, <1>10, <1>11,
     <1>12, <1>13 DEF Next, Request, Proceeds, ShopifyAnswers

\* What is stored was held by a request before.
LEMMA StoredIssuedKept ==
  TypeOK /\ CredentialsHeld /\ TokensHeld /\ StoredIssued /\ [Next]_vars => StoredIssued'
<1> SUFFICES ASSUME TypeOK, CredentialsHeld, TokensHeld, StoredIssued, [Next]_vars PROVE StoredIssued'
  OBVIOUS
<1>0. TokenTypes
  BY DEF TypeOK, TokenTypes
<1> USE DEF TokenTypes, StoredIssued, TokensHeld, Holding, rows, shopify, locals, NoToken, Tokens
<1>1. ASSUME NEW p \in Procs, CallbackBegins(p) \/ ResolveSyncTarget(p) \/ TokenBegins(p)
      PROVE  StoredIssued'
  BY <1>1, <1>0, GoesFacts DEF CallbackBegins, ResolveSyncTarget, TokenBegins
<1>2. ASSUME NEW p \in Procs, AuthorizeAccount(p) \/ TokenLocksAccount(p) \/ RefreshBegins(p)
      PROVE  StoredIssued'
  BY <1>2, <1>0, GoesFacts, TakesFacts DEF AuthorizeAccount, TokenLocksAccount,
     RefreshBegins
<1>3. ASSUME NEW p \in Procs, ScopesRefused(p) \/ TokenAnswered(p) \/ RefreshRefused(p) \/ DeadlockAborts(p)
      PROVE  StoredIssued'
  BY <1>3, <1>0, EndsFacts DEF ScopesRefused, TokenAnswered, RefreshRefused,
     DeadlockAborts, ActionRequired, Blocks, Wants
<1>4. ASSUME NEW p \in Procs, AuthorizeStore(p) PROVE StoredIssued'
  BY <1>4, <1>0, EndsFacts DEF AuthorizeStore
<1>5. ASSUME NEW p \in Procs, RotationCommits(p) PROVE StoredIssued'
  <2>1. account'.cred = token[p] /\ account'.linked = account.linked
    BY <1>5, <1>0 DEF RotationCommits
  <2>2. account.linked
    BY <1>5, <1>0 DEF RotationCommits, CredentialsHeld
  <2> QED
    BY <1>5, <1>0, <2>1, <2>2 DEF RotationCommits
<1>6. ASSUME NEW p \in Procs, Disconnects(p) PROVE StoredIssued'
  BY <1>6, <1>0, EndsFacts DEF Disconnects
<1>7. ASSUME NEW p \in Procs, DisconnectBegins(p) \/ WebhookRecords(p)
      PROVE  StoredIssued'
  BY <1>7, <1>0, LocksStoreFacts, LocksStoreRows, EndsFacts DEF DisconnectBegins,
     WebhookRecords
<1>8. ASSUME NEW enabled \in BOOLEAN, NEW secret \in Secrets, Configure(enabled, secret)
      PROVE  StoredIssued'
  BY <1>8, <1>0 DEF Configure
<1>9. ASSUME NEW e \in Events, WebhookAnswered(e) PROVE StoredIssued'
  BY <1>9, <1>0 DEF WebhookAnswered
<1>10. CASE Install \/ StateExpires \/ UpdateStore
  BY <1>10, <1>0 DEF Install, StateExpires, UpdateStore
<1>11. CASE Uninstall
  BY <1>11, <1>0 DEF Uninstall
<1>12. CASE FallsDue
  BY <1>12, <1>0 DEF FallsDue
<1>13. ASSUME NEW p \in Procs, NEW e \in Events, WebhookArrives(p, e)
       PROVE  StoredIssued'
  BY <1>13, <1>0, GoesFacts DEF WebhookArrives
<1>14. ASSUME NEW p \in Procs, NEW t \in Tokens, Rotates(p, t) PROVE StoredIssued'
  BY <1>14, <1>0, GoesFacts DEF Rotates, NextToken
<1>15. ASSUME NEW p \in Procs, NEW t \in Tokens, NEW scopes \in SUBSET Scopes, Exchange(p, t, scopes)
       PROVE  StoredIssued'
  BY <1>15, <1>0, GoesFacts, EndsFacts DEF Exchange, NextToken
<1>16. ASSUME NEW p \in Procs, Fails(p) PROVE StoredIssued'
  BY <1>16, <1>0, EndsFacts DEF Fails
<1>17. CASE UNCHANGED vars
  BY <1>17, <1>0 DEF vars
<1> QED
  BY <1>1, <1>0, <1>2, <1>3, <1>4, <1>5, <1>6, <1>7, <1>8, <1>9, <1>10, <1>11,
     <1>12, <1>13, <1>14, <1>15, <1>16, <1>17 DEF Next, Request, Proceeds,
     ShopifyAnswers

-----------------------------------------------------------------------------
(* Every step keeps the properties, given the invariant.                   *)

\* What justifies a step cannot change between the look and the step.
LEMMA JustifiedKept == TypeOK /\ Locked /\ Justified /\ [Next]_vars => Justified'
<1> SUFFICES ASSUME TypeOK, Locked, Justified, [Next]_vars PROVE Justified'
  OBVIOUS
<1> USE StoreConnectionAssumption DEF Locked, Justified, Others, Rows, Phases, rows, shopify, locals
<1>0. /\ TypeOK /\ pc \in [Procs -> Phases] /\ granted \in [Procs -> SUBSET Scopes]
      /\ account \in [linked : BOOLEAN, cred : Tokens \cup {NoToken},
                      expiry : {"never", "ahead", "due"}, scopes : SUBSET Scopes]
  BY DEF TypeOK
<1>1. ASSUME NEW p \in Procs, CallbackBegins(p) \/ ResolveSyncTarget(p) \/ TokenBegins(p)
      PROVE  Justified'
  BY <1>1, GoesFacts DEF CallbackBegins, ResolveSyncTarget, TokenBegins
<1>2. ASSUME NEW p \in Procs, AuthorizeAccount(p) \/ TokenLocksAccount(p) \/ RefreshBegins(p)
      PROVE  Justified'
  BY <1>0, <1>2, GoesFacts, TakesFacts DEF AuthorizeAccount, TokenLocksAccount, RefreshBegins,
     ExactScopeSet, Fresh
<1>3. ASSUME NEW p \in Procs, ScopesRefused(p) \/ TokenAnswered(p) \/ RefreshRefused(p) \/ DeadlockAborts(p)
      PROVE  Justified'
  BY <1>3, EndsFacts DEF ScopesRefused, TokenAnswered, RefreshRefused,
     DeadlockAborts, ActionRequired, Blocks, Wants
<1>4. ASSUME NEW p \in Procs, AuthorizeStore(p) \/ RotationCommits(p) \/ Disconnects(p)
      PROVE  Justified'
  BY <1>4, EndsFacts DEF AuthorizeStore, RotationCommits, Disconnects
<1>5. ASSUME NEW p \in Procs, DisconnectBegins(p)
      PROVE  Justified'
  BY <1>5, LocksStoreFacts, LocksStoreRows DEF DisconnectBegins
<1>6. ASSUME NEW p \in Procs, WebhookRecords(p)
      PROVE  Justified'
  BY <1>6, LocksStoreFacts, LocksStoreRows, EndsFacts DEF WebhookRecords
<1>7. ASSUME NEW enabled \in BOOLEAN, NEW secret \in Secrets, Configure(enabled, secret)
      PROVE  Justified'
  BY <1>7 DEF Configure
<1>8. ASSUME NEW e \in Events, WebhookAnswered(e) PROVE Justified'
  BY <1>8 DEF WebhookAnswered
<1>9. CASE Install \/ StateExpires \/ UpdateStore \/ Uninstall \/ FallsDue
  BY <1>0, <1>9 DEF Install, StateExpires, UpdateStore, Uninstall, FallsDue
<1>10. ASSUME NEW p \in Procs, NEW e \in Events, WebhookArrives(p, e) PROVE Justified'
  BY <1>10, GoesFacts DEF WebhookArrives
<1>11. ASSUME NEW p \in Procs, NEW t \in Tokens, Rotates(p, t) PROVE Justified'
  BY <1>11, GoesFacts DEF Rotates, NextToken
<1>12. ASSUME NEW p \in Procs, NEW t \in Tokens, NEW scopes \in SUBSET Scopes, Exchange(p, t, scopes)
       PROVE  Justified'
  <2>1. CASE ScopesContain(scopes)
    BY <1>0, <1>12, <2>1, GoesFacts DEF Exchange, ScopesContain
  <2>2. CASE ~ScopesContain(scopes)
    BY <1>12, <2>2, EndsFacts DEF Exchange
  <2> QED
    BY <2>1, <2>2
<1>13. ASSUME NEW p \in Procs, Fails(p) PROVE Justified'
  BY <1>13, EndsFacts DEF Fails
<1>14. CASE UNCHANGED vars
  BY <1>14 DEF vars
<1> QED
  BY <1>1, <1>2, <1>3, <1>4, <1>5, <1>6, <1>7, <1>8, <1>9, <1>10, <1>11, <1>12,
     <1>13, <1>14 DEF Next, Request, Proceeds, ShopifyAnswers

\* The event of a disconnect is only recorded by that disconnect.
LEMMA EventsOpenKept == TypeOK /\ Locked /\ EventsOpen /\ [Next]_vars => EventsOpen'
<1> SUFFICES ASSUME TypeOK, Locked, EventsOpen, [Next]_vars PROVE EventsOpen'
  OBVIOUS
<1> USE StoreConnectionAssumption DEF Locked, EventsOpen, Others, Rows, Phases, rows, shopify, locals
<1>0. /\ TypeOK /\ pc \in [Procs -> Phases] /\ recorded \subseteq Events
      /\ NoEvent \notin Events /\ event \in [Procs -> Events \cup {NoEvent}]
  BY DEF TypeOK, Events, NoEvent
<1>1. ASSUME NEW p \in Procs, CallbackBegins(p) \/ ResolveSyncTarget(p) \/ TokenBegins(p)
      PROVE  EventsOpen'
  BY <1>1, GoesFacts DEF CallbackBegins, ResolveSyncTarget, TokenBegins
<1>2. ASSUME NEW p \in Procs, AuthorizeAccount(p) \/ TokenLocksAccount(p) \/ RefreshBegins(p)
      PROVE  EventsOpen'
  BY <1>2, GoesFacts, TakesFacts DEF AuthorizeAccount, TokenLocksAccount, RefreshBegins
<1>3. ASSUME NEW p \in Procs, ScopesRefused(p) \/ TokenAnswered(p) \/ RefreshRefused(p) \/ DeadlockAborts(p)
      PROVE  EventsOpen'
  BY <1>3, EndsFacts DEF ScopesRefused, TokenAnswered, RefreshRefused,
     DeadlockAborts, ActionRequired, Blocks, Wants
<1>4. ASSUME NEW p \in Procs, AuthorizeStore(p) \/ RotationCommits(p)
      PROVE  EventsOpen'
  BY <1>4, EndsFacts DEF AuthorizeStore, RotationCommits
<1>5. ASSUME NEW p \in Procs, Disconnects(p)
      PROVE  EventsOpen'
  <2>1. \A q \in Procs \ {p} : pc[q] # "disconnecting"
    BY <1>5 DEF Disconnects
  <2> QED
    BY <1>5, <2>1, EndsFacts DEF Disconnects
<1>6. ASSUME NEW p \in Procs, event[p] \notin recorded, LocksStore(p)
      PROVE  EventsOpen'
  <2>1. CASE account.linked
    BY <1>0, <1>6, <2>1 DEF LocksStore, Takes, Goes
  <2>2. CASE ~account.linked
    <3>1. \A q \in Procs : pc[q] # "disconnecting"
      BY <1>6, <2>2 DEF LocksStore
    <3> QED
      BY <1>6, <2>2, <3>1, EndsFacts DEF LocksStore
  <2> QED
    BY <2>1, <2>2
<1>7. ASSUME NEW p \in Procs, DisconnectBegins(p)
      PROVE  EventsOpen'
  <2>1. event[p] \notin recorded
    BY <1>0, <1>7 DEF DisconnectBegins
  <2> QED
    BY <1>6, <1>7, <2>1 DEF DisconnectBegins
<1>8. ASSUME NEW p \in Procs, WebhookRecords(p)
      PROVE  EventsOpen'
  <2>1. CASE event[p] \in recorded
    BY <1>8, <2>1, EndsFacts DEF WebhookRecords
  <2> QED
    BY <1>6, <1>8, <2>1 DEF WebhookRecords
<1>9. ASSUME NEW enabled \in BOOLEAN, NEW secret \in Secrets, Configure(enabled, secret)
      PROVE  EventsOpen'
  BY <1>9 DEF Configure
<1>10. ASSUME NEW e \in Events, WebhookAnswered(e) PROVE EventsOpen'
  BY <1>10 DEF WebhookAnswered
<1>11. CASE Install \/ StateExpires \/ UpdateStore \/ Uninstall \/ FallsDue
  BY <1>11 DEF Install, StateExpires, UpdateStore, Uninstall, FallsDue
<1>12. ASSUME NEW p \in Procs, NEW e \in Events, WebhookArrives(p, e) PROVE EventsOpen'
  BY <1>0, <1>12, GoesFacts DEF WebhookArrives
<1>13. ASSUME NEW p \in Procs, NEW t \in Tokens, Rotates(p, t) PROVE EventsOpen'
  BY <1>13, GoesFacts DEF Rotates, NextToken
<1>14. ASSUME NEW p \in Procs, NEW t \in Tokens, NEW scopes \in SUBSET Scopes, Exchange(p, t, scopes)
       PROVE  EventsOpen'
  <2>1. CASE ScopesContain(scopes)
    BY <1>0, <1>14, <2>1, GoesFacts DEF Exchange
  <2>2. CASE ~ScopesContain(scopes)
    BY <1>14, <2>2, EndsFacts DEF Exchange
  <2> QED
    BY <2>1, <2>2
<1>15. ASSUME NEW p \in Procs, Fails(p) PROVE EventsOpen'
  BY <1>15, EndsFacts DEF Fails
<1>16. CASE UNCHANGED vars
  BY <1>16 DEF vars
<1> QED
  BY <1>1, <1>2, <1>3, <1>4, <1>5, <1>7, <1>8, <1>9, <1>10, <1>11, <1>12,
     <1>13, <1>14, <1>15, <1>16 DEF Next, Request, Proceeds, ShopifyAnswers

\* A rotation spends the stored token and replaces it, or loses it.
LEMMA SpentIsNotStoredKept ==
  TypeOK /\ CredentialsHeld /\ TokensHeld /\ StoredIssued /\ SpentIsNotStored /\ [Next]_vars => SpentIsNotStored'
<1> SUFFICES ASSUME TypeOK, CredentialsHeld, TokensHeld, StoredIssued, SpentIsNotStored, [Next]_vars
             PROVE  SpentIsNotStored'
  OBVIOUS
<1>0. TokenTypes
  BY DEF TypeOK, TokenTypes
<1> USE DEF TokenTypes, SpentIsNotStored, Others, Rows, Phases, rows, shopify, locals
<1>1. ASSUME NEW p \in Procs, CallbackBegins(p) \/ ResolveSyncTarget(p) \/ TokenBegins(p)
      PROVE  SpentIsNotStored'
  BY <1>1, <1>0, GoesFacts DEF CallbackBegins, ResolveSyncTarget, TokenBegins
<1>2. ASSUME NEW p \in Procs, AuthorizeAccount(p) \/ TokenLocksAccount(p) \/ RefreshBegins(p)
      PROVE  SpentIsNotStored'
  BY <1>2, <1>0, GoesFacts, TakesFacts DEF AuthorizeAccount, TokenLocksAccount,
     RefreshBegins
<1>3. ASSUME NEW p \in Procs, ScopesRefused(p) \/ TokenAnswered(p) \/ RefreshRefused(p) \/ DeadlockAborts(p)
      PROVE  SpentIsNotStored'
  BY <1>3, <1>0, EndsFacts DEF ScopesRefused, TokenAnswered, RefreshRefused,
     DeadlockAborts, ActionRequired, Blocks, Wants
<1>4. ASSUME NEW p \in Procs, AuthorizeStore(p) PROVE SpentIsNotStored'
  <2>1. account'.cred = token[p] /\ tokens' = tokens
    BY <1>4, <1>0 DEF AuthorizeStore
  <2> QED
    BY <1>4, <2>1 DEF AuthorizeStore, TokensHeld, Holding
<1>5. ASSUME NEW p \in Procs, RotationCommits(p) PROVE SpentIsNotStored'
  <2>1. account'.cred = token[p] /\ tokens' = tokens
    BY <1>5, <1>0 DEF RotationCommits
  <2> QED
    BY <1>5, <2>1 DEF RotationCommits, TokensHeld, Holding
<1>6. ASSUME NEW p \in Procs, Disconnects(p) PROVE SpentIsNotStored'
  <2>1. account'.cred = NoToken /\ NoToken \notin Tokens
    BY <1>6, <1>0 DEF Disconnects, NoToken, Tokens
  <2> QED
    BY <2>1
<1>7. ASSUME NEW p \in Procs, DisconnectBegins(p) PROVE SpentIsNotStored'
  <2>1. account' = account /\ tokens' = tokens
    BY <1>7, LocksStoreRows DEF DisconnectBegins
  <2>2. Others(p) /\ pc[p] # "rotated"
    BY <1>7, LocksStoreFacts DEF DisconnectBegins
  <2> QED
    BY <1>0, <2>1, <2>2
<1>8. ASSUME NEW p \in Procs, WebhookRecords(p) PROVE SpentIsNotStored'
  <2>1. account' = account /\ tokens' = tokens
    BY <1>8, LocksStoreRows DEF WebhookRecords
  <2>2. Others(p) /\ pc[p] # "rotated"
    BY <1>8, LocksStoreFacts, EndsFacts DEF WebhookRecords
  <2> QED
    BY <1>0, <2>1, <2>2
<1>9. ASSUME NEW enabled \in BOOLEAN, NEW secret \in Secrets, Configure(enabled, secret)
      PROVE  SpentIsNotStored'
  BY <1>9, <1>0 DEF Configure
<1>10. ASSUME NEW e \in Events, WebhookAnswered(e) PROVE SpentIsNotStored'
  BY <1>10, <1>0 DEF WebhookAnswered
<1>11. CASE Install \/ StateExpires \/ UpdateStore \/ Uninstall \/ FallsDue
  BY <1>11, <1>0 DEF Install, StateExpires, UpdateStore, Uninstall, FallsDue
<1>12. ASSUME NEW p \in Procs, NEW e \in Events, WebhookArrives(p, e)
       PROVE  SpentIsNotStored'
  BY <1>12, <1>0, GoesFacts DEF WebhookArrives
<1>13. ASSUME NEW p \in Procs, NEW t \in Tokens, Rotates(p, t) PROVE SpentIsNotStored'
  BY <1>13, <1>0, GoesFacts DEF Rotates, NextToken
<1>14. ASSUME NEW p \in Procs, NEW t \in Tokens, NEW scopes \in SUBSET Scopes, Exchange(p, t, scopes)
       PROVE  SpentIsNotStored'
  BY <1>14, <1>0, GoesFacts, EndsFacts DEF Exchange, NextToken
<1>15. ASSUME NEW p \in Procs, Fails(p) PROVE SpentIsNotStored'
  BY <1>15, <1>0, EndsFacts DEF Fails
<1>16. CASE UNCHANGED vars
  BY <1>16, <1>0 DEF vars
<1> QED
  BY <1>1, <1>0, <1>2, <1>3, <1>4, <1>5, <1>6, <1>7, <1>8, <1>9, <1>10, <1>11,
     <1>12, <1>13, <1>14, <1>15, <1>16 DEF Next, Request, Proceeds, ShopifyAnswers

\* Status and credentials change in the same commits.
LEMMA StatusTellsCredentialsKept ==
  TypeOK /\ CredentialsHeld /\ TokensHeld /\ StoredIssued /\ StatusTellsCredentials /\ [Next]_vars => StatusTellsCredentials'
<1> SUFFICES ASSUME TypeOK, CredentialsHeld, TokensHeld, StoredIssued, StatusTellsCredentials, [Next]_vars
             PROVE  StatusTellsCredentials'
  OBVIOUS
<1>0. TokenTypes
  BY DEF TypeOK, TokenTypes
<1> USE DEF TokenTypes, StatusTellsCredentials, Others, Rows, Phases, rows, shopify, locals
<1>1. ASSUME NEW p \in Procs, CallbackBegins(p) \/ ResolveSyncTarget(p) \/ TokenBegins(p)
      PROVE  StatusTellsCredentials'
  BY <1>1, <1>0, GoesFacts DEF CallbackBegins, ResolveSyncTarget, TokenBegins
<1>2. ASSUME NEW p \in Procs, AuthorizeAccount(p) \/ TokenLocksAccount(p) \/ RefreshBegins(p)
      PROVE  StatusTellsCredentials'
  BY <1>2, <1>0, GoesFacts, TakesFacts DEF AuthorizeAccount, TokenLocksAccount,
     RefreshBegins
<1>3. ASSUME NEW p \in Procs, ScopesRefused(p) \/ TokenAnswered(p) \/ RefreshRefused(p) \/ DeadlockAborts(p)
      PROVE  StatusTellsCredentials'
  BY <1>3, <1>0, EndsFacts DEF ScopesRefused, TokenAnswered, RefreshRefused,
     DeadlockAborts, ActionRequired, Blocks, Wants
<1>4. ASSUME NEW p \in Procs, Disconnects(p) PROVE StatusTellsCredentials'
  BY <1>4, <1>0, EndsFacts DEF Disconnects
<1>5. ASSUME NEW p \in Procs, AuthorizeStore(p) PROVE StatusTellsCredentials'
  <2>1. account'.cred = token[p] /\ store' = "connected"
    BY <1>5, <1>0 DEF AuthorizeStore
  <2>2. token[p] \in Tokens /\ NoToken \notin Tokens
    BY <1>5 DEF AuthorizeStore, TokensHeld, Holding, NoToken, Tokens
  <2> QED
    BY <2>1, <2>2
<1>6. ASSUME NEW p \in Procs, RotationCommits(p) PROVE StatusTellsCredentials'
  <2>1. account'.cred = token[p] /\ store' = "connected"
    BY <1>6, <1>0 DEF RotationCommits
  <2>2. token[p] \in Tokens /\ NoToken \notin Tokens
    BY <1>6 DEF RotationCommits, TokensHeld, Holding, NoToken, Tokens
  <2> QED
    BY <2>1, <2>2
<1>7. ASSUME NEW p \in Procs, DisconnectBegins(p) PROVE StatusTellsCredentials'
  <2>1. CASE ~account.linked /\ store' = "disconnected" /\ account' = account
    BY <2>1 DEF StoredIssued
  <2>2. CASE UNCHANGED <<store, account, overridden>>
    BY <2>2
  <2> QED
    BY <1>7, <2>1, <2>2, LocksStoreRows DEF DisconnectBegins
<1>8. ASSUME NEW p \in Procs, WebhookRecords(p) PROVE StatusTellsCredentials'
  <2>1. CASE ~account.linked /\ store' = "disconnected" /\ account' = account
    BY <2>1 DEF StoredIssued
  <2>2. CASE UNCHANGED <<store, account, overridden>>
    BY <2>2
  <2> QED
    BY <1>8, <2>1, <2>2, LocksStoreRows DEF WebhookRecords
<1>9. ASSUME NEW enabled \in BOOLEAN, NEW secret \in Secrets, Configure(enabled, secret)
      PROVE  StatusTellsCredentials'
  BY <1>9, <1>0 DEF Configure
<1>10. ASSUME NEW e \in Events, WebhookAnswered(e) PROVE StatusTellsCredentials'
  BY <1>10, <1>0 DEF WebhookAnswered
<1>11. CASE Install \/ StateExpires \/ UpdateStore \/ Uninstall \/ FallsDue
  BY <1>11, <1>0 DEF Install, StateExpires, UpdateStore, Uninstall, FallsDue
<1>12. ASSUME NEW p \in Procs, NEW e \in Events, WebhookArrives(p, e)
       PROVE  StatusTellsCredentials'
  BY <1>12, <1>0, GoesFacts DEF WebhookArrives
<1>13. ASSUME NEW p \in Procs, NEW t \in Tokens, Rotates(p, t)
       PROVE  StatusTellsCredentials'
  BY <1>13, <1>0, GoesFacts DEF Rotates, NextToken
<1>14. ASSUME NEW p \in Procs, NEW t \in Tokens, NEW scopes \in SUBSET Scopes, Exchange(p, t, scopes)
       PROVE  StatusTellsCredentials'
  BY <1>14, <1>0, GoesFacts, EndsFacts DEF Exchange, NextToken
<1>15. ASSUME NEW p \in Procs, Fails(p) PROVE StatusTellsCredentials'
  BY <1>15, <1>0, EndsFacts DEF Fails
<1>16. CASE UNCHANGED vars
  BY <1>16, <1>0 DEF vars
<1> QED
  BY <1>1, <1>0, <1>2, <1>3, <1>4, <1>5, <1>6, <1>7, <1>8, <1>9, <1>10, <1>11,
     <1>12, <1>13, <1>14, <1>15, <1>16 DEF Next, Request, Proceeds, ShopifyAnswers

\* A token that Shopify refused once is never live again.
LEMMA ActionRequiredHasReasonKept ==
  TypeOK /\ CredentialsHeld /\ TokensHeld /\ StoredIssued /\ ActionRequiredHasReason /\ [Next]_vars => ActionRequiredHasReason'
<1> SUFFICES ASSUME TypeOK, CredentialsHeld, TokensHeld, StoredIssued, ActionRequiredHasReason, [Next]_vars
             PROVE  ActionRequiredHasReason'
  OBVIOUS
<1>0. TokenTypes
  BY DEF TypeOK, TokenTypes
<1> USE DEF TokenTypes, ActionRequiredHasReason, Others, Rows, Phases, rows, shopify, locals
<1>1. ASSUME NEW p \in Procs, CallbackBegins(p) \/ ResolveSyncTarget(p) \/ TokenBegins(p)
      PROVE  ActionRequiredHasReason'
  BY <1>1, <1>0, GoesFacts DEF CallbackBegins, ResolveSyncTarget, TokenBegins
<1>2. ASSUME NEW p \in Procs, AuthorizeAccount(p) \/ TokenLocksAccount(p) \/ RefreshBegins(p)
      PROVE  ActionRequiredHasReason'
  BY <1>2, <1>0, GoesFacts, TakesFacts DEF AuthorizeAccount, TokenLocksAccount,
     RefreshBegins
<1>3. ASSUME NEW p \in Procs, TokenAnswered(p) \/ DeadlockAborts(p)
      PROVE  ActionRequiredHasReason'
  BY <1>3, <1>0, EndsFacts DEF TokenAnswered, DeadlockAborts, Blocks, Wants
<1>4. ASSUME NEW p \in Procs, ScopesRefused(p) PROVE ActionRequiredHasReason'
  BY <1>4, <1>0 DEF ScopesRefused, ActionRequired, ExactScopeSet
<1>5. ASSUME NEW p \in Procs, RefreshRefused(p) PROVE ActionRequiredHasReason'
  <2>1. account' = account /\ tokens' = tokens
    BY <1>5 DEF RefreshRefused, ActionRequired
  <2>2. account.cred = token[p] /\ token[p] \in Tokens /\ NoToken \notin Tokens
    BY <1>5 DEF RefreshRefused, CredentialsHeld, NoToken, Tokens
  <2> QED
    BY <1>5, <2>1, <2>2 DEF RefreshRefused
<1>6. ASSUME NEW p \in Procs, AuthorizeStore(p) \/ RotationCommits(p) \/ Disconnects(p)
      PROVE  ActionRequiredHasReason'
  BY <1>6, <1>0, EndsFacts DEF AuthorizeStore, RotationCommits, Disconnects
<1>7. ASSUME NEW p \in Procs, DisconnectBegins(p) \/ WebhookRecords(p)
      PROVE  ActionRequiredHasReason'
  BY <1>7, <1>0, LocksStoreFacts, LocksStoreRows, EndsFacts DEF DisconnectBegins,
     WebhookRecords
<1>8. ASSUME NEW enabled \in BOOLEAN, NEW secret \in Secrets, Configure(enabled, secret)
      PROVE  ActionRequiredHasReason'
  BY <1>8, <1>0 DEF Configure
<1>9. ASSUME NEW e \in Events, WebhookAnswered(e) PROVE ActionRequiredHasReason'
  BY <1>9, <1>0 DEF WebhookAnswered
<1>10. CASE Install \/ StateExpires \/ UpdateStore \/ Uninstall \/ FallsDue
  BY <1>10, <1>0 DEF Install, StateExpires, UpdateStore, Uninstall, FallsDue
<1>11. ASSUME NEW p \in Procs, NEW e \in Events, WebhookArrives(p, e)
       PROVE  ActionRequiredHasReason'
  BY <1>11, <1>0, GoesFacts DEF WebhookArrives
<1>12. ASSUME NEW p \in Procs, NEW t \in Tokens, Rotates(p, t)
       PROVE  ActionRequiredHasReason'
  <2>1. UNCHANGED <<store, account, overridden>>
    BY <1>12 DEF Rotates
  <2>2. \A u \in Tokens \ {t} : tokens'[u] = "live" => tokens[u] = "live"
    BY <1>12, <1>0 DEF Rotates
  <2>3. account.cred # t
    BY <1>12 DEF Rotates, NextToken, StoredIssued
  <2> QED
    BY <1>0, <2>1, <2>2, <2>3
<1>13. ASSUME NEW p \in Procs, NEW t \in Tokens, NEW scopes \in SUBSET Scopes, Exchange(p, t, scopes)
       PROVE  ActionRequiredHasReason'
  <2>1. UNCHANGED <<store, account, overridden>>
    BY <1>13 DEF Exchange
  <2>2. \A u \in Tokens \ {t} : tokens'[u] = tokens[u]
    BY <1>13, <1>0 DEF Exchange
  <2>3. account.cred # t
    BY <1>13 DEF Exchange, NextToken, StoredIssued
  <2> QED
    BY <1>0, <2>1, <2>2, <2>3
<1>14. ASSUME NEW p \in Procs, Fails(p) PROVE ActionRequiredHasReason'
  BY <1>14, <1>0, EndsFacts DEF Fails
<1>15. CASE UNCHANGED vars
  BY <1>15, <1>0 DEF vars
<1> QED
  BY <1>1, <1>0, <1>2, <1>3, <1>4, <1>5, <1>6, <1>7, <1>8, <1>9, <1>10, <1>11,
     <1>12, <1>13, <1>14, <1>15 DEF Next, Request, Proceeds, ShopifyAnswers

\* A stored secret is never cleared: what a configuration request has read of it
\* still holds when the request writes, so that Configure is one step.
LEMMA StoredSecretStays ==
  [Next]_vars => (config.secret => config'.secret)
<1> SUFFICES ASSUME [Next]_vars, config.secret
             PROVE  config'.secret
  OBVIOUS
<1> USE DEF rows, shopify, locals
<1>1. ASSUME NEW p \in Procs, CallbackBegins(p) \/ ResolveSyncTarget(p) \/ TokenBegins(p)
      PROVE  config'.secret
  BY <1>1, GoesFacts DEF CallbackBegins, ResolveSyncTarget, TokenBegins
<1>2. ASSUME NEW p \in Procs, AuthorizeAccount(p) \/ TokenLocksAccount(p) \/ RefreshBegins(p)
      PROVE  config'.secret
  BY <1>2, GoesFacts, TakesFacts DEF AuthorizeAccount, TokenLocksAccount, RefreshBegins
<1>3. ASSUME NEW p \in Procs, ScopesRefused(p) \/ TokenAnswered(p) \/ RefreshRefused(p) \/ DeadlockAborts(p)
      PROVE  config'.secret
  BY <1>3, EndsFacts DEF ScopesRefused, TokenAnswered, RefreshRefused,
     DeadlockAborts, ActionRequired, Blocks, Wants
<1>4. ASSUME NEW p \in Procs, AuthorizeStore(p) \/ RotationCommits(p) \/ Disconnects(p)
      PROVE  config'.secret
  BY <1>4, EndsFacts DEF AuthorizeStore, RotationCommits, Disconnects
<1>5. ASSUME NEW p \in Procs, DisconnectBegins(p) \/ WebhookRecords(p)
      PROVE  config'.secret
  BY <1>5, LocksStoreFacts, LocksStoreRows, EndsFacts DEF DisconnectBegins,
     WebhookRecords
<1>6. ASSUME NEW enabled \in BOOLEAN, NEW secret \in Secrets, Configure(enabled, secret)
      PROVE  config'.secret
  BY <1>6 DEF Configure
<1>7. ASSUME NEW e \in Events, WebhookAnswered(e) PROVE config'.secret
  BY <1>7 DEF WebhookAnswered
<1>8. CASE Install \/ StateExpires \/ UpdateStore \/ Uninstall \/ FallsDue
  BY <1>8 DEF Install, StateExpires, UpdateStore, Uninstall, FallsDue
<1>9. ASSUME NEW p \in Procs, NEW e \in Events, WebhookArrives(p, e)
      PROVE  config'.secret
  BY <1>9, GoesFacts DEF WebhookArrives
<1>10. ASSUME NEW p \in Procs, NEW t \in Tokens, Rotates(p, t) PROVE config'.secret
  BY <1>10, GoesFacts DEF Rotates, NextToken
<1>11. ASSUME NEW p \in Procs, NEW t \in Tokens, NEW scopes \in SUBSET Scopes, Exchange(p, t, scopes)
       PROVE  config'.secret
  BY <1>11, GoesFacts, EndsFacts DEF Exchange, NextToken
<1>12. ASSUME NEW p \in Procs, Fails(p) PROVE config'.secret
  BY <1>12, EndsFacts DEF Fails
<1>13. CASE UNCHANGED vars
  BY <1>13 DEF vars
<1> QED
  BY <1>1, <1>2, <1>3, <1>4, <1>5, <1>6, <1>7, <1>8, <1>9, <1>10, <1>11, <1>12,
     <1>13 DEF Next, Request, Proceeds, ShopifyAnswers

\* The store keeps being without credentials, and does not become connected.
StaysDown ==
  /\ account'.cred = NoToken
  /\ store' = "connected" => store = "connected" \/ overridden'

\* Without credentials no rotation is under way.
LEMMA ReconnectStep ==
  TypeOK /\ CredentialsHeld /\ [Next]_vars => (account.cred = NoToken =>
       \/ StaysDown
       \/ \E p \in Procs : AuthorizeStore(p))
<1> SUFFICES ASSUME TypeOK, CredentialsHeld, [Next]_vars, account.cred = NoToken, \A p \in Procs : ~AuthorizeStore(p)
             PROVE  StaysDown
  OBVIOUS
<1>0. TokenTypes
  BY DEF TypeOK, TokenTypes
<1> USE DEF StaysDown, TokenTypes, CredentialsHeld, rows, shopify, locals
<1>1. ASSUME NEW p \in Procs, CallbackBegins(p) \/ ResolveSyncTarget(p) \/ TokenBegins(p)
      PROVE  StaysDown
  BY <1>1, <1>0, GoesFacts DEF CallbackBegins, ResolveSyncTarget, TokenBegins
<1>2. ASSUME NEW p \in Procs, AuthorizeAccount(p) \/ TokenLocksAccount(p) \/ RefreshBegins(p)
      PROVE  StaysDown
  BY <1>2, <1>0, GoesFacts, TakesFacts DEF AuthorizeAccount, TokenLocksAccount,
     RefreshBegins
<1>3. ASSUME NEW p \in Procs, ScopesRefused(p) \/ TokenAnswered(p) \/ RefreshRefused(p) \/ DeadlockAborts(p)
      PROVE  StaysDown
  BY <1>3, <1>0, EndsFacts DEF ScopesRefused, TokenAnswered, RefreshRefused,
     DeadlockAborts, ActionRequired, Blocks, Wants
<1>4. ASSUME NEW p \in Procs, AuthorizeStore(p) \/ Disconnects(p) PROVE StaysDown
  BY <1>4, <1>0, EndsFacts DEF AuthorizeStore, Disconnects
<1>5. ASSUME NEW p \in Procs, RotationCommits(p) PROVE StaysDown
  BY <1>5, <1>0 DEF RotationCommits, NoToken, Tokens
<1>6. ASSUME NEW p \in Procs, DisconnectBegins(p) \/ WebhookRecords(p) PROVE StaysDown
  BY <1>6, <1>0, LocksStoreFacts, LocksStoreRows, EndsFacts DEF DisconnectBegins,
     WebhookRecords
<1>7. ASSUME NEW enabled \in BOOLEAN, NEW secret \in Secrets, Configure(enabled, secret)
      PROVE  StaysDown
  BY <1>7, <1>0 DEF Configure
<1>8. ASSUME NEW e \in Events, WebhookAnswered(e) PROVE StaysDown
  BY <1>8, <1>0 DEF WebhookAnswered
<1>9. CASE Install \/ StateExpires \/ UpdateStore \/ Uninstall \/ FallsDue
  BY <1>9, <1>0 DEF Install, StateExpires, UpdateStore, Uninstall, FallsDue
<1>10. ASSUME NEW p \in Procs, NEW e \in Events, WebhookArrives(p, e) PROVE StaysDown
  BY <1>10, <1>0, GoesFacts DEF WebhookArrives
<1>11. ASSUME NEW p \in Procs, NEW t \in Tokens, Rotates(p, t) PROVE StaysDown
  BY <1>11, <1>0, GoesFacts DEF Rotates, NextToken
<1>12. ASSUME NEW p \in Procs, NEW t \in Tokens, NEW scopes \in SUBSET Scopes, Exchange(p, t, scopes)
       PROVE  StaysDown
  BY <1>12, <1>0, GoesFacts, EndsFacts DEF Exchange, NextToken
<1>13. ASSUME NEW p \in Procs, Fails(p) PROVE StaysDown
  BY <1>13, <1>0, EndsFacts DEF Fails
<1>14. CASE UNCHANGED vars
  BY <1>14, <1>0 DEF vars
<1> QED
  BY <1>1, <1>0, <1>2, <1>3, <1>4, <1>5, <1>6, <1>7, <1>8, <1>9, <1>10, <1>11,
     <1>12, <1>13, <1>14 DEF Next, Request, Proceeds, ShopifyAnswers
-----------------------------------------------------------------------------
(* Theorems.                                                               *)

LEMMA InitIInv == Init => IInv
<1> SUFFICES ASSUME Init PROVE IInv
  OBVIOUS
<1>1. TypeOK
  <2>1. store \in Statuses /\ config \in [enabled : BOOLEAN, secret : BOOLEAN]
    BY DEF Init, Statuses
  <2>2. account \in [linked : BOOLEAN, cred : Tokens \cup {NoToken},
                    expiry : {"never", "ahead", "due"}, scopes : SUBSET Scopes]
    BY DEF Init
  <2>3. states \in 0 .. MaxStates /\ uninstalls \in 0 .. MaxUninstalls
    BY StoreConnectionAssumption DEF Init
  <2>4. /\ lock \in [Rows -> Procs \cup {Nobody}]
        /\ pc \in [Procs -> Phases]
        /\ token \in [Procs -> Tokens \cup {NoToken}]
        /\ granted \in [Procs -> SUBSET Scopes]
        /\ event \in [Procs -> Events \cup {NoEvent}]
    BY DEF Init, Phases
  <2>5. /\ tokens \in [Tokens -> {"unissued", "live", "spent", "lost", "revoked"}]
        /\ early \subseteq Procs /\ pending \subseteq Events
        /\ recorded \subseteq Events /\ overridden \in BOOLEAN
    BY DEF Init
  <2> QED
    BY <2>1, <2>2, <2>3, <2>4, <2>5 DEF TypeOK
<1>2. Locked /\ CredentialsHeld /\ TokensHeld /\ TokensDistinct
  BY DEF Init, Locked, CredentialsHeld, TokensHeld, TokensDistinct, Holding
<1>3. StoredIssued /\ Justified /\ EventsOpen
  BY DEF Init, StoredIssued, Justified, EventsOpen, Tokens, NoToken
<1> QED
  BY <1>1, <1>2, <1>3 DEF IInv

LEMMA IInvKept == IInv /\ [Next]_vars => IInv'
  BY TypeKept, LockedKept, CredentialsHeldKept, TokensHeldKept,
     TokensDistinctKept, StoredIssuedKept, JustifiedKept, EventsOpenKept DEF IInv

LEMMA IInvHolds == Spec => []IInv
  BY InitIInv, IInvKept, PTL DEF Spec

\* Type correctness of the connection of a store: its two rows, the requests
\* and what Shopify knows.
THEOREM ConnectionTypeCorrect == Spec => []TypeOK
<1>1. IInv => TypeOK
  BY DEF IInv
<1> QED
  BY <1>1, IInvHolds, PTL

\* AccessToken talks to Shopify under the locks of both rows, so that it is
\* never the victim of a deadlock while a rotation is under way.
THEOREM RotationIsExclusive == Spec => []RotationHoldsBoth
<1>1. IInv => RotationHoldsBoth
  BY DEF IInv, Locked, RotationHoldsBoth, Rows
<1> QED
  BY <1>1, IInvHolds, PTL

\* No two requests refresh with the same token: a spent one is never stored.
THEOREM SpentTokensAreReplaced == Spec => []SpentIsNotStored
<1>1. Init => SpentIsNotStored
  BY DEF Init, SpentIsNotStored
<1>2. IInv /\ SpentIsNotStored /\ [Next]_vars => SpentIsNotStored'
  BY SpentIsNotStoredKept DEF IInv
<1> QED
  BY <1>1, <1>2, IInvHolds, PTL DEF Spec

\* connected and disconnected say whether there are credentials, whatever
\* installs, rotations, disconnects and webhooks overlap.
THEOREM StatusIsTruthful == Spec => []StatusTellsCredentials
<1>1. Init => StatusTellsCredentials
  BY DEF Init, StatusTellsCredentials
<1>2. IInv /\ StatusTellsCredentials /\ [Next]_vars => StatusTellsCredentials'
  BY StatusTellsCredentialsKept DEF IInv
<1> QED
  BY <1>1, <1>2, IInvHolds, PTL DEF Spec

\* actionRequiredUpdate: the merchant is only asked to authorize again for a
\* reason that still holds.
THEOREM ActionIsRequiredForAReason == Spec => []ActionRequiredHasReason
<1>1. Init => ActionRequiredHasReason
  BY DEF Init, ActionRequiredHasReason
<1>2. IInv /\ ActionRequiredHasReason /\ [Next]_vars => ActionRequiredHasReason'
  BY ActionRequiredHasReasonKept DEF IInv
<1> QED
  BY <1>1, <1>2, IInvHolds, PTL DEF Spec

\* A disconnected store comes back through a new authorization only.
THEOREM OnlyAuthorizationReconnectsAStore == Spec => OnlyAuthorizationReconnects
<1>1. IInv /\ [Next]_vars =>
        [account.cred = NoToken =>
           \/ StaysDown
           \/ \E p \in Procs : AuthorizeStore(p)]_vars
  BY ReconnectStep DEF IInv
<1> QED
  BY <1>1, IInvHolds, PTL DEF Spec, OnlyAuthorizationReconnects, StaysDown

-----------------------------------------------------------------------------
(* The refinement of AtomicConnection.                                     *)

\* At most one rotation is under way, because it has both rows.
LEMMA OneRotation ==
  ASSUME Locked, NEW p \in Procs, pc[p] = "rotated"
  PROVE  \A q \in Procs : pc[q] = "rotated" => q = p
  BY StoreConnectionAssumption DEF Locked

\* No rotation is under way while a row is free or somebody else's.
LEMMA NoRotation ==
  ASSUME Locked, NEW row \in Rows,
         lock[row] = Nobody \/ \E p \in Procs : lock[row] = p /\ pc[p] # "rotated"
  PROVE  \A q \in Procs : pc[q] # "rotated"
  BY StoreConnectionAssumption DEF Locked, Rows

\* What is seen of the tokens while p has rotated one.
Hidden(p) ==
  [tokens EXCEPT ![token[p]] = "unissued", ![account.cred] = tokens[token[p]]]

SeenRight ==
  /\ (\A p \in Procs : pc[p] # "rotated") => TokensSeen = tokens
  /\ \A p \in Procs : pc[p] = "rotated" => TokensSeen = Hidden(p)

LEMMA SeenFacts == IInv => SeenRight
<1> SUFFICES ASSUME IInv, NEW p \in Procs, pc[p] = "rotated"
             PROVE  TokensSeen = Hidden(p)
  BY DEF TokensSeen, SeenRight
<1>1. (CHOOSE q \in Procs : pc[q] = "rotated") = p
  BY OneRotation DEF IInv
<1> QED
  BY <1>1 DEF TokensSeen, NewToken, Hidden

LEMMA SeenFactsNext == IInv' => SeenRight'
  BY SeenFacts, PTL

\* Steps that neither begin nor end a rotation, and touch no token, are not
\* seen at Shopify.
LEMMA SeenStays ==
  ASSUME IInv, IInv', UNCHANGED tokens, account'.cred = account.cred,
         \A p \in Procs : /\ pc'[p] = "rotated" <=> pc[p] = "rotated"
                          /\ pc[p] = "rotated" => token'[p] = token[p]
  PROVE  UNCHANGED TokensSeen
<1>1. ASSUME NEW p \in Procs, pc[p] = "rotated"
      PROVE  UNCHANGED TokensSeen
  <2>1. TokensSeen = Hidden(p) /\ TokensSeen' = Hidden(p)'
    BY <1>1, SeenFacts, SeenFactsNext DEF SeenRight
  <2> QED
    BY <1>1, <2>1 DEF Hidden
<1>2. CASE \A p \in Procs : pc[p] # "rotated"
  BY <1>2, SeenFacts, SeenFactsNext DEF SeenRight
<1> QED
  BY <1>1, <1>2

\* While p has rotated a token, the stored one and the new one are as they
\* were before, and the others are what they are.
LEMMA HiddenFacts ==
  ASSUME IInv, NEW p \in Procs, pc[p] = "rotated"
  PROVE  /\ token[p] \in Tokens /\ account.cred \in Tokens /\ token[p] # account.cred
         /\ tokens[token[p]] \in {"live", "revoked"}
         /\ TokensSeen \in [Tokens -> {"unissued", "live", "spent", "lost", "revoked"}]
         /\ TokensSeen[token[p]] = "unissued"
         /\ TokensSeen[account.cred] = tokens[token[p]]
         /\ \A t \in Tokens \ {token[p], account.cred} : TokensSeen[t] = tokens[t]
<1>1. /\ token[p] \in Tokens /\ account.cred \in Tokens /\ token[p] # account.cred
      /\ tokens[token[p]] \in {"live", "revoked"}
  BY DEF IInv, TokensHeld, CredentialsHeld, Holding
<1>2. tokens \in [Tokens -> {"unissued", "live", "spent", "lost", "revoked"}]
  BY DEF IInv, TypeOK
<1>3. TokensSeen = Hidden(p)
  BY SeenFacts DEF SeenRight
<1> QED
  BY <1>1, <1>2, <1>3 DEF Hidden

\* What a step changes at most, for it to be no step of AtomicConnection.
Unseen ==
  /\ UNCHANGED <<store, account, recorded, tokens>>
  /\ \A p \in Procs : /\ pc'[p] = "rotated" <=> pc[p] = "rotated"
                      /\ pc[p] = "rotated" => token'[p] = token[p]

LEMMA UnseenStutters ==
  ASSUME IInv, IInv', Unseen
  PROVE  UNCHANGED Atomic!vars
<1>1. account'.cred = account.cred /\ UNCHANGED tokens
  BY DEF Unseen
<1>2. \A p \in Procs : /\ pc'[p] = "rotated" <=> pc[p] = "rotated"
                       /\ pc[p] = "rotated" => token'[p] = token[p]
  BY DEF Unseen
<1>3. UNCHANGED TokensSeen
  BY <1>1, <1>2, SeenStays
<1> QED
  BY <1>3 DEF Unseen, Atomic!vars

\* Reading, waiting for a lock, sending a request or being aborted before
\* anything is written.
LEMMA UnseenSteps ==
  ASSUME IInv, NEW p \in Procs,
         \/ CallbackBegins(p) \/ ResolveSyncTarget(p) \/ TokenBegins(p)
         \/ AuthorizeAccount(p) \/ TokenLocksAccount(p) \/ RefreshBegins(p)
         \/ TokenAnswered(p) \/ DeadlockAborts(p)
         \/ \E e \in Events : WebhookArrives(p, e)
         \/ pc[p] # "rotated" /\ Fails(p)
         \/ account.linked /\ DisconnectBegins(p)
         \/ (account.linked \/ event[p] \in recorded) /\ WebhookRecords(p)
  PROVE  Unseen
<1> USE DEF rows, shopify, locals
<1>0. TypeOK
  BY DEF IInv
<1>1. ASSUME NEW phase \in Phases, phase # "rotated", pc[p] # "rotated", Goes(p, phase),
             UNCHANGED <<store, account, recorded, tokens>>,
             \A q \in Procs \ {p} : token'[q] = token[q]
      PROVE  Unseen
  BY <1>0, <1>1, GoesFacts DEF Unseen
<1>2. ASSUME pc[p] # "rotated", Ends(p), UNCHANGED <<store, account, recorded, tokens>>
      PROVE  Unseen
  <2>1. pc'[p] = "idle" /\ Others(p)
    BY <1>0, <1>2, EndsFacts
  <2> QED
    BY <1>2, <2>1 DEF Others, Unseen
<1>3. CASE CallbackBegins(p) \/ ResolveSyncTarget(p) \/ TokenBegins(p)
  BY <1>1, <1>3 DEF CallbackBegins, ResolveSyncTarget, TokenBegins, Phases
<1>4. CASE AuthorizeAccount(p) \/ TokenLocksAccount(p)
  BY <1>1, <1>4 DEF AuthorizeAccount, TokenLocksAccount, Phases
<1>5. CASE RefreshBegins(p)
  <2>1. \A q \in Procs \ {p} : token'[q] = token[q]
    BY <1>0, <1>5 DEF RefreshBegins, TypeOK
  <2> QED
    BY <1>1, <1>5, <2>1 DEF RefreshBegins, Phases
<1>6. CASE TokenAnswered(p)
  BY <1>2, <1>6 DEF TokenAnswered
<1>7. CASE DeadlockAborts(p)
  <2>1. pc[p] # "rotated"
    BY <1>7 DEF DeadlockAborts, Blocks, Wants
  <2> QED
    BY <1>2, <1>7, <2>1 DEF DeadlockAborts
<1>8. ASSUME NEW e \in Events, WebhookArrives(p, e) PROVE Unseen
  <2>1. CASE Goes(p, "delivered")
    BY <1>1, <1>8, <2>1 DEF WebhookArrives, Phases
  <2>2. CASE UNCHANGED pc
    BY <1>8, <2>2 DEF WebhookArrives, Unseen
  <2> QED
    BY <1>8, <2>1, <2>2 DEF WebhookArrives
<1>9. CASE pc[p] # "rotated" /\ Fails(p)
  <2>1. tokens' = tokens
    BY <1>0, <1>9 DEF Fails, TypeOK
  <2> QED
    BY <1>2, <1>9, <2>1 DEF Fails
<1>10. CASE account.linked /\ DisconnectBegins(p)
  BY <1>1, <1>10 DEF DisconnectBegins, LocksStore, Phases
<1>11. CASE (account.linked \/ event[p] \in recorded) /\ WebhookRecords(p)
  <2>1. CASE event[p] \in recorded
    BY <1>2, <1>11, <2>1 DEF WebhookRecords
  <2>2. CASE account.linked /\ event[p] \notin recorded
    BY <1>1, <1>11, <2>2 DEF WebhookRecords, LocksStore, Phases
  <2> QED
    BY <1>11, <2>1, <2>2
<1> QED
  BY <1>3, <1>4, <1>5, <1>6, <1>7, <1>8, <1>9, <1>10, <1>11

\* Configuration, OAuth states and answered events are not part of it.
LEMMA ElsewhereUnseen ==
  ASSUME \/ StateExpires \/ UNCHANGED vars
         \/ \E enabled \in BOOLEAN, secret \in Secrets : Configure(enabled, secret)
         \/ \E e \in Events : WebhookAnswered(e)
  PROVE  Unseen
  BY DEF StateExpires, Configure, WebhookAnswered, Unseen, vars, rows, shopify, locals

\* Rotating a token at Shopify is not seen either, not yet.
LEMMA RotationUnseen ==
  ASSUME IInv, IInv', NEW p \in Procs, NEW t \in Tokens, Rotates(p, t)
  PROVE  UNCHANGED Atomic!vars
<1>1. /\ TypeOK /\ pc[p] = "refreshing" /\ lock["account"] = p
      /\ token[p] = account.cred /\ account.cred \in Tokens
      /\ tokens[account.cred] = "live" /\ tokens[t] = "unissued"
  BY DEF IInv, Rotates, NextToken, Locked, CredentialsHeld
<1>2. TokensSeen = tokens
  BY <1>1, NoRotation, SeenFacts DEF IInv, SeenRight, Rows
<1>3. pc'[p] = "rotated" /\ token'[p] = t
  BY <1>1, GoesFacts DEF Rotates, TypeOK, Phases
<1>4. /\ UNCHANGED <<account, store, recorded>>
      /\ tokens' = [tokens EXCEPT ![account.cred] = "spent", ![t] = "live"]
  BY <1>1 DEF Rotates, rows
<1>5. TokensSeen' = [tokens' EXCEPT ![t] = "unissued", ![account.cred] = tokens'[t]]
  BY <1>3, <1>4, SeenFactsNext DEF SeenRight, Hidden
<1>6. TokensSeen' = tokens
  BY <1>1, <1>4, <1>5 DEF TypeOK
<1> QED
  BY <1>2, <1>4, <1>6 DEF Atomic!vars

\* Requests that hold the lock of a row keep a rotation from overlapping, and
\* when they end, there still is none.
LEMMA EndsWithoutRotation ==
  ASSUME IInv, IInv', NEW p \in Procs, Ends(p), UNCHANGED tokens,
         \A q \in Procs : pc[q] # "rotated"
  PROVE  TokensSeen = tokens /\ UNCHANGED TokensSeen
<1>1. TokensSeen = tokens
  BY SeenFacts DEF SeenRight
<1>2. \A q \in Procs : pc'[q] # "rotated"
  BY EndsFacts DEF IInv, Others
<1>3. TokensSeen' = tokens'
  BY <1>2, SeenFactsNext DEF SeenRight
<1> QED
  BY <1>1, <1>3

\* Install, UpdateStore and the passing of time are the same in both.
LEMMA OperatorIsAtomic ==
  ASSUME IInv, IInv', Install \/ UpdateStore \/ FallsDue
  PROVE  Atomic!Install \/ Atomic!UpdateStore \/ Atomic!FallsDue
<1> USE DEF rows, shopify, locals
<1>1. account'.cred = account.cred /\ UNCHANGED <<tokens, pc, token, recorded>>
  BY DEF Install, UpdateStore, FallsDue, IInv, TypeOK
<1>2. UNCHANGED TokensSeen
  BY <1>1, SeenStays
<1> QED
  BY <1>1, <1>2 DEF Install, UpdateStore, FallsDue,
     Atomic!Install, Atomic!UpdateStore, Atomic!FallsDue

\* A request that finds the scopes wrong, or whose refresh token Shopify
\* refuses, still has that reason when it writes it down.
LEMMA RefusalIsAtomic ==
  ASSUME IInv, IInv', NEW p \in Procs, ScopesRefused(p) \/ RefreshRefused(p)
  PROVE  Atomic!DemandAction
<1>1. /\ Ends(p) /\ UNCHANGED <<account, recorded, tokens>>
      /\ store' = "action_required"
  BY DEF ScopesRefused, RefreshRefused, ActionRequired, shopify
<1>2. pc[p] \in {"token_store", "refreshing"} /\ lock["account"] = p
  BY DEF ScopesRefused, RefreshRefused, IInv, Locked
<1>3. \A q \in Procs : pc[q] # "rotated"
  BY <1>2, NoRotation DEF IInv, Rows
<1>4. TokensSeen = tokens /\ UNCHANGED TokensSeen
  BY <1>1, <1>3, EndsWithoutRotation
<1>5. \/ account.scopes # Required
      \/ account.cred # NoToken /\ account.expiry = "due" /\ tokens[account.cred] # "live"
  BY DEF ScopesRefused, RefreshRefused, ExactScopeSet, IInv, CredentialsHeld,
     Justified, Tokens, NoToken
<1> QED
  BY <1>1, <1>4, <1>5 DEF Atomic!DemandAction

\* UpsertShopifyAuthorization stores a pair that nobody else has, for scopes
\* that its callback has checked.
LEMMA AuthorizationIsAtomic ==
  ASSUME IInv, IInv', NEW p \in Procs, AuthorizeStore(p)
  PROVE  \E expiry \in {"never", "ahead"} : Atomic!Authorize(token[p], granted[p], expiry)
<1>1. Ends(p) /\ UNCHANGED <<recorded, tokens>> /\ store' = "connected"
  BY DEF AuthorizeStore, shopify
<1>2. pc[p] = "auth_store" /\ lock["account"] = p
  BY DEF AuthorizeStore, IInv, Locked
<1>3. \A q \in Procs : pc[q] # "rotated"
  BY <1>2, NoRotation DEF IInv, Rows
<1>4. TokensSeen = tokens /\ UNCHANGED TokensSeen
  BY <1>1, <1>3, EndsWithoutRotation
<1>5. /\ tokens[token[p]] \in {"live", "revoked"} /\ token[p] # account.cred
      /\ Required \subseteq granted[p]
  BY <1>2 DEF IInv, TokensHeld, Holding, Justified
<1> QED
  BY <1>1, <1>4, <1>5 DEF AuthorizeStore, Atomic!Authorize

\* A rotation that ends has been the only one, whatever the outcome.
LEMMA RotationEnds ==
  ASSUME IInv, IInv', NEW p \in Procs, pc[p] = "rotated", Ends(p)
  PROVE  TokensSeen' = tokens'
<1>1. \A q \in Procs : pc'[q] # "rotated"
  BY EndsFacts, OneRotation DEF IInv, Others
<1> QED
  BY <1>1, SeenFactsNext DEF SeenRight

\* WithLockedConnection commits a rotation: Shopify's step and the database's
\* become visible as one.
LEMMA RotationIsAtomic ==
  ASSUME IInv, IInv', NEW p \in Procs, RotationCommits(p)
  PROVE  \E expiry \in {"never", "ahead"} : Atomic!Refresh(token[p], expiry)
<1>1. /\ pc[p] = "rotated" /\ Ends(p) /\ UNCHANGED <<recorded, tokens>>
      /\ store' = "connected"
  BY DEF RotationCommits, shopify
<1>2. TokensSeen' = tokens
  BY <1>1, RotationEnds
<1>3. account.scopes = Required /\ account.expiry = "due"
  BY <1>1 DEF IInv, Justified
<1>4. account.cred \in Tokens /\ account.cred # NoToken
  BY <1>1, HiddenFacts DEF Tokens, NoToken
<1>5. tokens \in [Tokens -> {"unissued", "live", "spent", "lost", "revoked"}]
  BY DEF IInv, TypeOK
<1>6. tokens[account.cred] = "spent"
  BY <1>1 DEF IInv, CredentialsHeld
<1>7. TokensSeen' = [TokensSeen EXCEPT ![account.cred] = "spent",
                                       ![token[p]] = TokensSeen[account.cred]]
  BY <1>1, <1>2, <1>5, <1>6, HiddenFacts
<1>8. Atomic!Replace(token[p], "spent")
  BY <1>1, <1>3, <1>4, <1>7, HiddenFacts DEF Atomic!Replace
<1> QED
  BY <1>1, <1>8 DEF RotationCommits, Atomic!Refresh

\* A rotation whose commit failed has lost the stored token.
LEMMA LossIsAtomic ==
  ASSUME IInv, IInv', NEW p \in Procs, pc[p] = "rotated", Fails(p)
  PROVE  Atomic!LoseRotation(token[p])
<1>1. /\ Ends(p) /\ UNCHANGED <<recorded, store, account>>
      /\ tokens' = [t \in Tokens |-> IF account.cred = t THEN "lost" ELSE tokens[t]]
  BY DEF Fails, rows
<1>2. TokensSeen' = tokens'
  BY <1>1, RotationEnds
<1>3. account.scopes = Required /\ account.expiry = "due"
  BY DEF IInv, Justified
<1>4. account.cred \in Tokens /\ account.cred # NoToken
  BY HiddenFacts DEF Tokens, NoToken
<1>5. TokensSeen' = [TokensSeen EXCEPT ![account.cred] = "lost",
                                       ![token[p]] = TokensSeen[account.cred]]
  BY <1>1, <1>2, HiddenFacts
<1>6. Atomic!Replace(token[p], "lost")
  BY <1>1, <1>3, <1>4, <1>5, HiddenFacts DEF Atomic!Replace
<1> QED
  BY <1>1, <1>6 DEF Atomic!LoseRotation

\* A pair issued to a callback is a new one, also while another is rotated in.
LEMMA IssueIsAtomic ==
  ASSUME IInv, IInv', NEW p \in Procs, NEW t \in Tokens, NEW scopes \in SUBSET Scopes,
         Exchange(p, t, scopes)
  PROVE  Atomic!Issue(t)
<1>1. /\ tokens[t] = "unissued" /\ tokens' = [tokens EXCEPT ![t] = "live"]
      /\ UNCHANGED <<store, account, recorded>>
  BY DEF Exchange, NextToken, rows
<1>2. tokens \in [Tokens -> {"unissued", "live", "spent", "lost", "revoked"}]
  BY DEF IInv, TypeOK
<1>3. /\ pc[p] # "rotated" /\ pc'[p] # "rotated"
      /\ \A q \in Procs \ {p} : pc'[q] = pc[q] /\ token'[q] = token[q]
  <2>1. CASE ScopesContain(scopes)
    BY <2>1, GoesFacts DEF Exchange, IInv, TypeOK, Phases
  <2>2. CASE ~ScopesContain(scopes)
    BY <2>2, EndsFacts DEF Exchange, IInv, Others
  <2> QED
    BY <2>1, <2>2
<1>4. TokensSeen[t] = "unissued" /\ TokensSeen' = [TokensSeen EXCEPT ![t] = "live"]
  <2>1. CASE \A q \in Procs : pc[q] # "rotated"
    BY <1>1, <1>3, <2>1, SeenFacts, SeenFactsNext DEF SeenRight
  <2>2. ASSUME NEW q \in Procs, pc[q] = "rotated"
        PROVE  TokensSeen[t] = "unissued" /\ TokensSeen' = [TokensSeen EXCEPT ![t] = "live"]
    <3>1. q # p /\ pc'[q] = "rotated" /\ token'[q] = token[q]
      BY <1>3, <2>2
    <3>2. /\ token[q] \in Tokens /\ account.cred \in Tokens
          /\ tokens[token[q]] \in {"live", "revoked"} /\ tokens[account.cred] = "spent"
      BY <2>2 DEF IInv, TokensHeld, CredentialsHeld, Holding
    <3>3. t # token[q] /\ t # account.cred
      BY <1>1, <3>2
    <3>4. /\ TokensSeen = Hidden(q)
          /\ TokensSeen' = [tokens' EXCEPT ![token[q]] = "unissued",
                                           ![account.cred] = tokens'[token[q]]]
      BY <1>1, <2>2, <3>1, SeenFacts, SeenFactsNext DEF SeenRight, Hidden
    <3> QED
      BY <1>1, <1>2, <3>2, <3>3, <3>4 DEF Hidden
  <2> QED
    BY <2>1, <2>2
<1> QED
  BY <1>1, <1>4 DEF Atomic!Issue

\* Uninstalling the app revokes the token of a rotation under way, and it is
\* as if it had revoked the one that is stored.
LEMMA UninstallIsAtomic ==
  ASSUME IInv, IInv', Uninstall
  PROVE  Atomic!Uninstall
<1>1. /\ tokens' = [t \in Tokens |-> IF tokens[t] = "live" THEN "revoked" ELSE tokens[t]]
      /\ UNCHANGED <<store, account, recorded, pc, token>>
  BY DEF Uninstall, rows, locals
<1>2. tokens \in [Tokens -> {"unissued", "live", "spent", "lost", "revoked"}]
  BY DEF IInv, TypeOK
<1>3. TokensSeen' = [t \in Tokens |->
                       IF TokensSeen[t] = "live" THEN "revoked" ELSE TokensSeen[t]]
  <2>1. CASE \A q \in Procs : pc[q] # "rotated"
    BY <1>1, <2>1, SeenFacts, SeenFactsNext DEF SeenRight
  <2>2. ASSUME NEW q \in Procs, pc[q] = "rotated"
        PROVE  TokensSeen' = [t \in Tokens |->
                 IF TokensSeen[t] = "live" THEN "revoked" ELSE TokensSeen[t]]
    <3>1. TokensSeen' = [tokens' EXCEPT ![token[q]] = "unissued",
                                        ![account.cred] = tokens'[token[q]]]
      BY <1>1, <2>2, SeenFactsNext DEF SeenRight, Hidden
    <3> QED
      BY <1>1, <1>2, <2>2, <3>1, HiddenFacts
  <2> QED
    BY <2>1, <2>2
<1> QED
  BY <1>1, <1>3 DEF Atomic!Uninstall

\* The event of a request that records it, or none.
Handled(p) == {event[p]} \ {NoEvent}

\* A disconnect writes both rows and the event while nobody rotates a token,
\* whether the store has an account or not.
LEMMA DisconnectIsAtomic ==
  ASSUME IInv, IInv', NEW p \in Procs,
         \/ Disconnects(p)
         \/ ~account.linked /\ DisconnectBegins(p)
         \/ ~account.linked /\ event[p] \notin recorded /\ WebhookRecords(p)
  PROVE  Atomic!Disconnect(Handled(p))
<1>1. /\ Ends(p) /\ UNCHANGED tokens /\ store' = "disconnected"
      /\ recorded' = recorded \cup Handled(p)
  BY DEF Disconnects, DisconnectBegins, WebhookRecords, LocksStore, Recorded, Handled, shopify
<1>2. account' = [account EXCEPT !.cred = NoToken]
  <2>1. CASE Disconnects(p)
    BY <2>1 DEF Disconnects
  <2>2. CASE ~account.linked /\ LocksStore(p)
    <3>1. account' = account /\ account.cred = NoToken
      BY <2>2 DEF LocksStore, IInv, StoredIssued
    <3>2. account \in [linked : BOOLEAN, cred : Tokens \cup {NoToken},
                       expiry : {"never", "ahead", "due"}, scopes : SUBSET Scopes]
      BY DEF IInv, TypeOK
    <3> QED
      BY <3>1, <3>2
  <2> QED
    BY <2>1, <2>2 DEF DisconnectBegins, WebhookRecords
<1>3. \A q \in Procs : pc[q] # "rotated"
  <2>1. CASE Disconnects(p)
    BY <2>1, NoRotation DEF Disconnects, IInv, Rows
  <2>2. CASE ~account.linked /\ LocksStore(p)
    BY <2>2, NoRotation DEF LocksStore, IInv, Rows
  <2> QED
    BY <2>1, <2>2 DEF DisconnectBegins, WebhookRecords
<1>4. UNCHANGED TokensSeen
  BY <1>1, <1>3, EndsWithoutRotation
<1>5. store # "absent" /\ Handled(p) \cap recorded = {}
  BY DEF Disconnects, DisconnectBegins, WebhookRecords, IInv, Justified,
     EventsOpen, Handled
<1> QED
  BY <1>1, <1>2, <1>4, <1>5 DEF Atomic!Disconnect

\* An uninstall event is handled, or an administrator's request.
LEMMA DisconnectIsNext ==
  ASSUME TypeOK, NEW p \in Procs, Atomic!Disconnect(Handled(p))
  PROVE  Atomic!Next
<1>1. CASE event[p] = NoEvent
  BY <1>1 DEF Handled, Atomic!Next
<1>2. CASE event[p] # NoEvent
  <2>1. event[p] \in Events /\ Handled(p) = {event[p]}
    BY <1>2 DEF TypeOK, Handled
  <2> QED
    BY <2>1 DEF Atomic!Next
<1> QED
  BY <1>1, <1>2

\* Every step is one of AtomicConnection, or none.
LEMMA StepIsAtomic ==
  ASSUME IInv, IInv', [Next]_vars
  PROVE  [Atomic!Next]_(Atomic!vars)
<1>1. ASSUME Unseen PROVE UNCHANGED Atomic!vars
  BY <1>1, UnseenStutters
<1>2. ASSUME NEW p \in Procs, Request(p) PROVE [Atomic!Next]_(Atomic!vars)
  <2>1. CASE DisconnectBegins(p) /\ ~account.linked
    BY <2>1, DisconnectIsAtomic, DisconnectIsNext DEF IInv
  <2> QED
    BY <1>1, <1>2, <2>1, UnseenSteps DEF Request
<1>3. ASSUME NEW p \in Procs, Proceeds(p) PROVE [Atomic!Next]_(Atomic!vars)
  <2>1. CASE \/ AuthorizeAccount(p) \/ TokenBegins(p) \/ TokenLocksAccount(p)
             \/ TokenAnswered(p) \/ RefreshBegins(p)
    BY <1>1, <2>1, UnseenSteps
  <2>2. CASE AuthorizeStore(p)
    <3>1. token[p] \in Tokens /\ granted[p] \in SUBSET Scopes
      BY <2>2 DEF AuthorizeStore, IInv, TypeOK, TokensHeld, Holding
    <3> QED
      BY <2>2, <3>1, AuthorizationIsAtomic DEF Atomic!Next
  <2>3. CASE ScopesRefused(p)
    BY <2>3, RefusalIsAtomic DEF Atomic!Next
  <2>4. CASE RotationCommits(p)
    <3>1. token[p] \in Tokens
      BY <2>4 DEF RotationCommits, IInv, TokensHeld, Holding
    <3> QED
      BY <2>4, <3>1, RotationIsAtomic DEF Atomic!Next
  <2>5. CASE WebhookRecords(p)
    BY <1>1, <2>5, UnseenSteps, DisconnectIsAtomic, DisconnectIsNext DEF IInv
  <2>6. CASE Disconnects(p)
    BY <2>6, DisconnectIsAtomic, DisconnectIsNext DEF IInv
  <2> QED
    BY <1>3, <2>1, <2>2, <2>3, <2>4, <2>5, <2>6 DEF Proceeds
<1>4. ASSUME NEW p \in Procs, Fails(p) PROVE [Atomic!Next]_(Atomic!vars)
  <2>1. CASE pc[p] = "rotated"
    <3>1. token[p] \in Tokens
      BY <2>1 DEF IInv, TokensHeld, Holding
    <3> QED
      BY <1>4, <2>1, <3>1, LossIsAtomic DEF Atomic!Next
  <2>2. CASE pc[p] # "rotated"
    BY <1>1, <1>4, <2>2, UnseenSteps
  <2> QED
    BY <2>1, <2>2
<1>5. ASSUME NEW p \in Procs, ShopifyAnswers(p) PROVE [Atomic!Next]_(Atomic!vars)
  <2>1. ASSUME NEW t \in Tokens, Rotates(p, t) PROVE [Atomic!Next]_(Atomic!vars)
    BY <2>1, RotationUnseen
  <2>2. ASSUME NEW t \in Tokens, NEW scopes \in SUBSET Scopes, Exchange(p, t, scopes)
        PROVE  [Atomic!Next]_(Atomic!vars)
    BY <2>2, IssueIsAtomic DEF Atomic!Next
  <2>3. CASE RefreshRefused(p)
    BY <2>3, RefusalIsAtomic DEF Atomic!Next
  <2> QED
    BY <1>4, <1>5, <2>1, <2>2, <2>3 DEF ShopifyAnswers
<1>6. ASSUME NEW p \in Procs, DeadlockAborts(p) PROVE [Atomic!Next]_(Atomic!vars)
  BY <1>1, <1>6, UnseenSteps
<1>7. CASE Install \/ UpdateStore \/ FallsDue
  BY <1>7, OperatorIsAtomic DEF Atomic!Next
<1>8. CASE Uninstall
  BY <1>8, UninstallIsAtomic DEF Atomic!Next
<1> QED
  BY <1>1, <1>2, <1>3, <1>4, <1>5, <1>6, <1>7, <1>8, ElsewhereUnseen DEF Next

\* However the transactions of requests, jobs and webhooks overlap, and
\* wherever they fail, the store, its credentials, the tokens at Shopify and
\* the handled events change as if every request was a single step.
THEOREM ConnectionActsAtomically == Spec => ActsAtomically
<1>1. Init => Atomic!Init
  <2> SUFFICES ASSUME Init PROVE Atomic!Init
    OBVIOUS
  <2>1. TokensSeen = tokens
    BY InitIInv, SeenFacts DEF Init, SeenRight
  <2> QED
    BY <2>1 DEF Init, Atomic!Init
<1>2. IInv /\ IInv' /\ [Next]_vars => [Atomic!Next]_(Atomic!vars)
  BY StepIsAtomic
<1> QED
  BY <1>1, <1>2, IInvHolds, PTL DEF Spec, ActsAtomically, Atomic!Spec

=============================================================================
