--------------------------- MODULE StoreConnection ---------------------------
(***************************************************************************)
(* The connection of one Shopify store: its row in shopify_stores, the row *)
(* of integration_accounts that holds its credentials, the organisation's  *)
(* Shopify configuration, and the requests and jobs that work on them:     *)
(* installing the app and its OAuth callback, TokenManager.AccessToken     *)
(* with the rotation of the refresh token, the administrator's update and  *)
(* disconnect, and the app/uninstalled webhook.                            *)
(*                                                                         *)
(* A transaction that touches both rows takes their locks one after the    *)
(* other: account before store in WithLockedConnection and in              *)
(* UpsertShopifyAuthorization, store before account in a disconnect.       *)
(* PostgreSQL resolves the deadlocks this makes possible by aborting one   *)
(* transaction.  Writes become visible at the commit, the last step.       *)
(*                                                                         *)
(* Shopify is external: it issues tokens, spends a refresh token when it   *)
(* rotates it, and revokes all of them when the merchant uninstalls.       *)
(***************************************************************************)
EXTENDS Naturals, FiniteSets

CONSTANTS
  Procs,          \* requests of the API and jobs of the workers
  Nobody,         \* the owner of a free row lock
  Scopes,         \* what an authorization may grant
  Required,       \* requiredShopifyScopes, phaseOneTokenScopes
  MaxTokens,      \* bound: refresh tokens Shopify issues
  MaxUninstalls,  \* bound: times the merchant uninstalls the app
  MaxStates       \* bound: OAuth states open at a time

ASSUME StoreConnectionAssumption ==
  /\ Nobody \notin Procs
  /\ Required \subseteq Scopes
  /\ MaxTokens \in Nat
  /\ MaxUninstalls \in Nat
  /\ MaxStates \in Nat

VARIABLES
  store,      \* status of the row of shopify_stores
  account,    \* the row of integration_accounts; nothing reads its status
  config,     \* the row of integration_configs for shopify: whether it is enabled,
              \* and whether it holds a secret, a useless one included
  states,     \* OAuth states in Redis
  lock,       \* per row: the transaction that has it locked
  pc,         \* per process: the step it is at
  token,      \* per process: the token pair it sends to, or has from, Shopify
  granted,    \* per process: the scopes of that token pair
  event,      \* per process: the webhook event it handles
  early,      \* processes that read the clock before the token fell due
  tokens,     \* Shopify: the state of every refresh token
  uninstalls, \* Shopify: app/uninstalled events so far
  pending,    \* Shopify: events it still delivers
  recorded,   \* webhook_events
  overridden  \* history: the status was last set by hand

rows    == <<store, account, overridden>>
shopify == <<tokens, uninstalls, pending>>
locals  == <<token, granted, event, early>>
vars    == <<rows, shopify, locals, config, states, lock, pc, recorded>>

-----------------------------------------------------------------------------
Statuses == {"absent", "pending", "connected", "action_required", "disconnected"}
Tokens   == 1 .. MaxTokens
NoToken  == 0
Events   == 1 .. MaxUninstalls
NoEvent  == 0
Rows     == {"account", "store"}
Phases   == {"idle", "resolved", "token_account", "token_store", "refreshing",
             "rotated", "exchanging", "authorizing", "auth_store",
             "delivered", "disconnecting"}

TypeOK ==
  /\ store \in Statuses
  /\ account \in [linked : BOOLEAN, cred : Tokens \cup {NoToken},
                  expiry : {"never", "ahead", "due"}, scopes : SUBSET Scopes]
  /\ config \in [enabled : BOOLEAN, secret : BOOLEAN]
  /\ states \in 0 .. MaxStates
  /\ lock \in [Rows -> Procs \cup {Nobody}]
  /\ pc \in [Procs -> Phases]
  /\ token \in [Procs -> Tokens \cup {NoToken}]
  /\ granted \in [Procs -> SUBSET Scopes]
  /\ event \in [Procs -> Events \cup {NoEvent}]
  /\ early \subseteq Procs
  /\ tokens \in [Tokens -> {"unissued", "live", "spent", "lost", "revoked"}]
  /\ uninstalls \in 0 .. MaxUninstalls
  /\ pending \subseteq Events
  /\ recorded \subseteq Events
  /\ overridden \in BOOLEAN

Init ==
  /\ store = "absent"
  /\ account = [linked |-> FALSE, cred |-> NoToken, expiry |-> "never",
                scopes |-> {}]
  /\ config = [enabled |-> FALSE, secret |-> FALSE]
  /\ states = 0
  /\ lock = [r \in Rows |-> Nobody]
  /\ pc = [p \in Procs |-> "idle"]
  /\ token = [p \in Procs |-> NoToken]
  /\ granted = [p \in Procs |-> {}]
  /\ event = [p \in Procs |-> NoEvent]
  /\ early = {}
  /\ tokens = [t \in Tokens |-> "unissued"]
  /\ uninstalls = 0
  /\ pending = {}
  /\ recorded = {}
  /\ overridden = FALSE

-----------------------------------------------------------------------------
(* Locks and transactions.                                                 *)

Goes(p, phase) == pc' = [pc EXCEPT ![p] = phase]

Takes(p, row) ==
  /\ lock[row] = Nobody
  /\ lock' = [lock EXCEPT ![row] = p]

\* The request is over: its transaction is committed or rolled back.
Ends(p) ==
  /\ Goes(p, "idle")
  /\ lock' = [r \in Rows |-> IF lock[r] = p THEN Nobody ELSE lock[r]]
  /\ token' = [token EXCEPT ![p] = NoToken]
  /\ granted' = [granted EXCEPT ![p] = {}]
  /\ event' = [event EXCEPT ![p] = NoEvent]
  /\ early' = early \ {p}

\* The row a transaction waits for while it holds the other one.
Wants(p) ==
  CASE pc[p] \in {"token_store", "auth_store"} -> {"store"}
    [] pc[p] = "disconnecting" -> {"account"}
    [] OTHER -> {}

Blocks(q, p) == \E row \in Wants(p) : lock[row] = q

\* loadShopifyConfig.
ConfigReady == config.enabled /\ config.secret

\* scopesContain.
ScopesContain(scopes) == Required \subseteq scopes

\* exactScopeSet.
ExactScopeSet(scopes) == scopes = Required

NextToken(t) == tokens[t] = "unissued" /\ \A u \in 1 .. t - 1 : tokens[u] # "unissued"

-----------------------------------------------------------------------------
(* Configuration: integrationConfigHandlers.                               *)

\* The client secret of a request: missing, nothing but blanks, or some text.
Secrets == {"none", "blank", "text"}

\* The check trims the secret of the request, the write does not: a blank one
\* does not count when the configuration is enabled, but is stored all the same,
\* over a good one too; a refresh with it fails (Fails).  UpsertIntegrationConfig
\* keeps the stored secret when the request brings none, so that a stored secret
\* never goes away.  What the check has read of it still holds at the write,
\* which is why the two are one step here.
Configure(enabled, secret) ==
  /\ enabled => secret = "text" \/ config.secret
  /\ config' = [enabled |-> enabled, secret |-> config.secret \/ secret # "none"]
  /\ UNCHANGED <<rows, shopify, locals, states, lock, pc, recorded>>

-----------------------------------------------------------------------------
(* Installing the app.                                                     *)

\* shopifyInstall: EnsurePendingShopifyStore, then the OAuth state.
Install ==
  /\ ConfigReady
  /\ lock["store"] = Nobody
  /\ store' = IF store = "connected" THEN store ELSE "pending"
  /\ overridden' = (overridden /\ store = "connected")
  /\ states < MaxStates
  /\ states' = states + 1
  /\ UNCHANGED <<account, shopify, locals, config, lock, pc, recorded>>

StateExpires ==
  /\ states > 0
  /\ states' = states - 1
  /\ UNCHANGED <<rows, shopify, locals, config, lock, pc, recorded>>

\* Mutant: a state nobody issued is accepted.
CallbackAcceptsAnyState(p) ==
  /\ pc[p] = "idle"
  /\ states' = states - 1
  /\ Goes(p, IF ConfigReady THEN "exchanging" ELSE "idle")
  /\ UNCHANGED <<rows, shopify, locals, config, lock, recorded>>

\* shopifyCallback up to its checks: whatever their outcome, the state is gone.
CallbackBegins(p) ==
  /\ pc[p] = "idle"
  /\ states > 0
  /\ states' = states - 1
  /\ Goes(p, IF ConfigReady THEN "exchanging" ELSE "idle")
  /\ UNCHANGED <<rows, shopify, locals, config, lock, recorded>>

\* Exchange: Shopify issues a token pair for the scopes the merchant granted.
Exchange(p, t, scopes) ==
  /\ pc[p] = "exchanging"
  /\ NextToken(t)
  /\ tokens' = [tokens EXCEPT ![t] = "live"]
  /\ IF ScopesContain(scopes)
       THEN /\ Goes(p, "authorizing")
            /\ token' = [token EXCEPT ![p] = t]
            /\ granted' = [granted EXCEPT ![p] = scopes]
            /\ UNCHANGED lock /\ UNCHANGED <<event, early>>
       ELSE Ends(p)
  /\ UNCHANGED <<rows, uninstalls, pending, config, states, recorded>>

\* UpsertShopifyAuthorization: the account first ...
AuthorizeAccount(p) ==
  /\ pc[p] = "authorizing"
  /\ Takes(p, "account")
  /\ Goes(p, "auth_store")
  /\ UNCHANGED <<rows, shopify, locals, config, states, recorded>>

\* Mutant: the row of the store keeps the status it had.
AuthorizeAccountOnly(p) ==
  /\ pc[p] = "auth_store"
  /\ lock["store"] = Nobody
  /\ \E expiry \in {"never", "ahead"} :
       account' = [linked |-> TRUE, cred |-> token[p], expiry |-> expiry,
                   scopes |-> granted[p]]
  /\ store' = IF store = "absent" THEN "connected" ELSE store
  /\ overridden' = FALSE
  /\ Ends(p)
  /\ UNCHANGED <<shopify, config, states, recorded>>

\* ... then the store, and the commit.  Without expires_in it never expires.
AuthorizeStore(p) ==
  /\ pc[p] = "auth_store"
  /\ lock["store"] = Nobody
  /\ \E expiry \in {"never", "ahead"} :
       account' = [linked |-> TRUE, cred |-> token[p], expiry |-> expiry,
                   scopes |-> granted[p]]
  /\ store' = "connected"
  /\ overridden' = FALSE
  /\ Ends(p)
  /\ UNCHANGED <<shopify, config, states, recorded>>

-----------------------------------------------------------------------------
(* A job asks for an access token.                                         *)

\* Service.Sync resolves its target first.
ResolveSyncTarget(p) ==
  /\ pc[p] = "idle"
  /\ store = "connected" /\ config.enabled
  /\ Goes(p, "resolved")
  /\ UNCHANGED <<rows, shopify, locals, config, states, lock, recorded>>

\* AccessToken reads the clock, WithLockedConnection sends its statement.
TokenBegins(p) ==
  /\ pc[p] = "resolved"
  /\ Goes(p, IF config.enabled /\ account.linked
               THEN "token_account" ELSE "idle")
  /\ UNCHANGED <<rows, shopify, locals, config, states, lock, recorded>>

TokenLocksAccount(p) ==
  /\ pc[p] = "token_account"
  /\ Takes(p, "account")
  /\ Goes(p, "token_store")
  /\ UNCHANGED <<rows, shopify, locals, config, states, recorded>>

\* actionRequiredUpdate, written to both rows although the call fails.
ActionRequired ==
  /\ store' = "action_required"
  /\ overridden' = FALSE
  /\ UNCHANGED account

\* Whether the token is good for longer than the skew, by p's clock.
Fresh(p) == account.expiry # "due" \/ p \in early

\* Both rows are locked and the callback of AccessToken looks at them.
\* The scopes do not match: the store must be authorized again.
ScopesRefused(p) ==
  /\ pc[p] = "token_store"
  /\ lock["store"] = Nobody
  /\ ~ExactScopeSet(account.scopes)
  /\ ActionRequired
  /\ Ends(p)
  /\ UNCHANGED <<shopify, config, states, recorded>>

\* There are no credentials to decrypt, or the token is still good.
TokenAnswered(p) ==
  /\ pc[p] = "token_store"
  /\ lock["store"] = Nobody
  /\ ExactScopeSet(account.scopes)
  /\ account.cred = NoToken \/ Fresh(p)
  /\ Ends(p)
  /\ UNCHANGED <<rows, shopify, config, states, recorded>>

\* Mutant: no row stays locked while Shopify is asked.
RefreshBeginsUnlocked(p) ==
  /\ pc[p] = "token_store"
  /\ lock["store"] = Nobody
  /\ ExactScopeSet(account.scopes)
  /\ account.cred # NoToken /\ ~Fresh(p)
  /\ token' = [token EXCEPT ![p] = account.cred]
  /\ lock' = [lock EXCEPT !["account"] = Nobody]
  /\ Goes(p, "refreshing")
  /\ UNCHANGED <<rows, shopify, granted, event, early, config, states, recorded>>

\* The refresh token is sent to Shopify under both locks.
RefreshBegins(p) ==
  /\ pc[p] = "token_store"
  /\ Takes(p, "store")
  /\ ExactScopeSet(account.scopes)
  /\ account.cred # NoToken /\ ~Fresh(p)
  /\ token' = [token EXCEPT ![p] = account.cred]
  /\ Goes(p, "refreshing")
  /\ UNCHANGED <<rows, shopify, granted, event, early, config, states, recorded>>

\* Shopify spends the refresh token and issues the next pair.
Rotates(p, t) ==
  /\ pc[p] = "refreshing"
  /\ tokens[token[p]] = "live"
  /\ NextToken(t)
  /\ tokens' = [tokens EXCEPT ![token[p]] = "spent", ![t] = "live"]
  /\ token' = [token EXCEPT ![p] = t]
  /\ Goes(p, "rotated")
  /\ UNCHANGED <<rows, uninstalls, pending, granted, event, early, config,
                 states, lock, recorded>>

\* Shopify knows no such active refresh token.
RefreshRefused(p) ==
  /\ pc[p] = "refreshing"
  /\ tokens[token[p]] # "live"
  /\ ActionRequired
  /\ Ends(p)
  /\ UNCHANGED <<shopify, config, states, recorded>>

\* Mutant: only the access token is stored, with the old refresh token.
RotationForgotten(p) ==
  /\ pc[p] = "rotated"
  /\ account' = [account EXCEPT !.expiry = "ahead"]
  /\ store' = "connected"
  /\ overridden' = FALSE
  /\ Ends(p)
  /\ UNCHANGED <<shopify, config, states, recorded>>

\* Both tokens, the expiry and the status are written in one transaction.
RotationCommits(p) ==
  /\ pc[p] = "rotated"
  /\ \E expiry \in {"never", "ahead"} :
       account' = [account EXCEPT !.cred = token[p], !.expiry = expiry]
  /\ store' = "connected"
  /\ overridden' = FALSE
  /\ Ends(p)
  /\ UNCHANGED <<shopify, config, states, recorded>>

-----------------------------------------------------------------------------
(* Administrator and webhook.                                              *)

\* UpdateStore writes whatever status the administrator chose.
UpdateStore ==
  /\ store # "absent"
  /\ lock["store"] = Nobody
  /\ store' \in {"connected", "action_required", "disconnected"}
  /\ overridden' = TRUE
  /\ UNCHANGED <<account, shopify, locals, config, states, lock, pc, recorded>>

\* webhook_events once the event of the request, if it is one, is in it.
Recorded(p) == recorded \cup ({event[p]} \ {NoEvent})

\* A store that never had an account is disconnected at once; otherwise the
\* account is next.
LocksStore(p) ==
  IF ~account.linked
    THEN /\ lock["store"] = Nobody
         /\ store' = "disconnected" /\ overridden' = FALSE
         /\ recorded' = Recorded(p)
         /\ Ends(p)
         /\ UNCHANGED account
    ELSE /\ Takes(p, "store")
         /\ Goes(p, "disconnecting")
         /\ UNCHANGED <<rows, locals, recorded>>

\* DisconnectStore.
DisconnectBegins(p) ==
  /\ pc[p] = "idle"
  /\ store # "absent"
  /\ LocksStore(p)
  /\ UNCHANGED <<shopify, config, states>>

\* Mutant: the credentials stay.
DisconnectKeepsCredentials(p) ==
  /\ pc[p] = "disconnecting"
  /\ lock["account"] = Nobody
  /\ store' = "disconnected" /\ overridden' = FALSE
  /\ UNCHANGED account
  /\ recorded' = Recorded(p)
  /\ Ends(p)
  /\ UNCHANGED <<shopify, config, states>>

\* DisconnectStore and disconnectWebhookStore, up to the commit.
Disconnects(p) ==
  /\ pc[p] = "disconnecting"
  /\ lock["account"] = Nobody
  /\ store' = "disconnected" /\ overridden' = FALSE
  /\ account' = [account EXCEPT !.cred = NoToken]
  /\ recorded' = Recorded(p)
  /\ Ends(p)
  /\ UNCHANGED <<shopify, config, states>>

\* ResolveShopifyWebhookTarget finds a connected store only.  Shopify delivers
\* an event that was refused again and again, for longer than a request takes,
\* and then gives up.
WebhookArrives(p, e) ==
  /\ pc[p] = "idle"
  /\ e \in pending
  /\ IF store = "connected" /\ config.enabled
       THEN /\ Goes(p, "delivered")
            /\ event' = [event EXCEPT ![p] = e]
            /\ UNCHANGED pending
       ELSE /\ \A q \in Procs : pc[q] = "idle"
            /\ pending' = pending \ {e}
            /\ UNCHANGED <<pc, event>>
  /\ UNCHANGED <<rows, tokens, uninstalls, token, granted, early, config,
                 states, lock, recorded>>

\* RecordShopifyEventAndOutbox: a second delivery of an event waits for the
\* transaction of the first, and is answered as a duplicate.
WebhookRecords(p) ==
  /\ pc[p] = "delivered"
  /\ \A q \in Procs : pc[q] = "disconnecting" => event[q] # event[p]
  /\ IF event[p] \in recorded THEN Ends(p) /\ UNCHANGED <<rows, recorded>>
     ELSE LocksStore(p)
  /\ UNCHANGED <<shopify, config, states>>

\* Shopify has its answer to an event and stops delivering it.
WebhookAnswered(e) ==
  /\ e \in pending /\ e \in recorded
  /\ pending' = pending \ {e}
  /\ UNCHANGED <<rows, tokens, uninstalls, locals, config, states, lock, pc,
                 recorded>>

-----------------------------------------------------------------------------
(* Shopify, time and failures.                                             *)

\* The merchant uninstalls the app: every token is revoked.
Uninstall ==
  /\ uninstalls < MaxUninstalls
  /\ \E t \in Tokens : tokens[t] = "live"
  /\ tokens' = [t \in Tokens |-> IF tokens[t] = "live" THEN "revoked" ELSE tokens[t]]
  /\ uninstalls' = uninstalls + 1
  /\ pending' = pending \cup {uninstalls + 1}
  /\ UNCHANGED <<rows, locals, config, states, lock, pc, recorded>>

\* The stored token comes within the skew of its expiry.  Whoever waits for a
\* lock has read the clock before.
FallsDue ==
  /\ account.expiry = "ahead"
  /\ account' = [account EXCEPT !.expiry = "due"]
  /\ early' = {p \in Procs : pc[p] \in {"token_account", "token_store"}}
  /\ UNCHANGED <<store, overridden, shopify, token, granted, event, config,
                 states, lock, pc, recorded>>

\* A request fails without a trace in the database: an error of the provider
\* or of PostgreSQL, a cancelled context, a crash.  What Shopify did stays done:
\* a rotation that was not committed has used up the stored token.
Fails(p) ==
  /\ pc[p] # "idle"
  /\ tokens' = [t \in Tokens |-> IF pc[p] = "rotated" /\ account.cred = t
                                  THEN "lost" ELSE tokens[t]]
  /\ Ends(p)
  /\ UNCHANGED <<rows, uninstalls, pending, config, states, recorded>>

\* PostgreSQL aborts one of two transactions that wait for each other.
DeadlockAborts(p) ==
  /\ \E q \in Procs : Blocks(q, p) /\ Blocks(p, q)
  /\ Ends(p)
  /\ UNCHANGED <<rows, shopify, config, states, recorded>>

-----------------------------------------------------------------------------
\* The next step of a request that waits for nothing but row locks.
Proceeds(p) ==
  \/ AuthorizeAccount(p) \/ AuthorizeStore(p)
  \/ TokenBegins(p) \/ TokenLocksAccount(p)
  \/ ScopesRefused(p) \/ TokenAnswered(p) \/ RefreshBegins(p)
  \/ RotationCommits(p)
  \/ WebhookRecords(p) \/ Disconnects(p)

\* Shopify's answer, or the timeout of the HTTP client.
ShopifyAnswers(p) ==
  \/ \E t \in Tokens : Rotates(p, t) \/ \E scopes \in SUBSET Scopes : Exchange(p, t, scopes)
  \/ RefreshRefused(p)
  \/ pc[p] \in {"exchanging", "refreshing"} /\ Fails(p)

Request(p) ==
  \/ CallbackBegins(p)
  \/ ResolveSyncTarget(p)
  \/ DisconnectBegins(p)
  \/ \E e \in Events : WebhookArrives(p, e)

Next ==
  \/ \E p \in Procs :
       Request(p) \/ Proceeds(p) \/ ShopifyAnswers(p) \/ Fails(p) \/ DeadlockAborts(p)
  \/ \E enabled \in BOOLEAN, secret \in Secrets : Configure(enabled, secret)
  \/ Install \/ StateExpires \/ UpdateStore
  \/ Uninstall \/ FallsDue
  \/ \E e \in Events : WebhookAnswered(e)

Spec == Init /\ [][Next]_vars

-----------------------------------------------------------------------------
(* Properties.                                                             *)

\* A refresh token that Shopify has spent is not in the database, except while
\* the transaction that spent it is still open: nobody refreshes with the token
\* of another's rotation.  Only a rotation whose commit failed leaves its spent
\* token behind, and that token is "lost", not "spent".
SpentIsNotStored ==
  \A t \in Tokens : tokens[t] = "spent" /\ account.cred = t =>
    \E p \in Procs : pc[p] = "rotated"

\* Unless an administrator chose the status, it tells whether there are
\* credentials: a connected store has some, a disconnected one has none.
StatusTellsCredentials ==
  ~overridden =>
    /\ store = "connected" => account.cred # NoToken
    /\ store = "disconnected" => account.cred = NoToken

\* A store is only sent to authorize again when its credentials are of no use:
\* the scopes are not the required ones, or Shopify refuses the refresh token.
ActionRequiredHasReason ==
  store = "action_required" /\ ~overridden =>
    \/ account.scopes # Required
    \/ account.cred # NoToken /\ tokens[account.cred] # "live"

\* Once the credentials are gone, only a new authorization brings any, and
\* only that, or an administrator's word, makes the store connected again: a
\* rotation under way or a job that resolved the store before does not.
OnlyAuthorizationReconnects ==
  [][account.cred = NoToken =>
       \/ account'.cred = NoToken /\ (store' = "connected" => store = "connected" \/ overridden')
       \/ \E p \in Procs : AuthorizeStore(p)]_vars

\* While Shopify is asked to rotate a token, both rows belong to the request
\* that asks: it cannot become the victim of a deadlock with a disconnect or a
\* callback, which take the same locks in opposite orders, and nobody changes
\* the token under it.
RotationHoldsBoth ==
  \A p \in Procs : pc[p] \in {"refreshing", "rotated"} =>
    \A row \in Rows : lock[row] = p

\* README.md:73: the uninstall event disconnects the store and clears its
\* credentials.  Once Shopify has no event left to deliver and every token is
\* revoked, none is stored.
UninstallClears ==
  /\ uninstalls > 0 /\ pending = {}
  /\ \A t \in Tokens : tokens[t] # "live"
  /\ \A p \in Procs : pc[p] = "idle"
  => account.cred = NoToken

\* Nobody sees a rotation before it is committed: until then its new token
\* counts as not issued, and the stored one has the state of the new one.
NewToken == token[CHOOSE p \in Procs : pc[p] = "rotated"]

TokensSeen ==
  IF \A p \in Procs : pc[p] # "rotated" THEN tokens
  ELSE [tokens EXCEPT ![NewToken] = "unissued", ![account.cred] = tokens[NewToken]]

Atomic == INSTANCE AtomicConnection WITH tokens <- TokensSeen

\* Requests whose transactions overlap, wait for each other, are aborted or
\* fail halfway behave as if every one of them was a single step: in
\* particular a rotation, which talks to Shopify in the middle, cannot be
\* crossed by an authorization, a disconnect or another rotation, and an
\* uninstall event is handled at most once, together with its disconnect.
ActsAtomically == Atomic!Spec
=============================================================================
