-------------------------- MODULE AtomicConnection --------------------------
(***************************************************************************)
(* The connection of a store as its operator may think of it: every        *)
(* request is one atomic step.  There are no locks and no transactions,    *)
(* and rotating a refresh token at Shopify and storing the new pair is a   *)
(* single action.  The only trace of a failure is a rotation whose commit  *)
(* failed: the stored token is lost.                                       *)
(***************************************************************************)
CONSTANTS Tokens, NoToken, Scopes, Required, Events

VARIABLES
  store,     \* status of the store
  account,   \* credentials, their expiry and scopes
  tokens,    \* per refresh token: its state at Shopify
  recorded   \* uninstall events that have been handled

vars == <<store, account, tokens, recorded>>

Init ==
  /\ store = "absent"
  /\ account = [linked |-> FALSE, cred |-> NoToken, expiry |-> "never",
                scopes |-> {}]
  /\ tokens = [t \in Tokens |-> "unissued"]
  /\ recorded = {}

-----------------------------------------------------------------------------
Install ==
  /\ store' = IF store = "connected" THEN store ELSE "pending"
  /\ UNCHANGED <<account, tokens, recorded>>

UpdateStore ==
  /\ store # "absent"
  /\ store' \in {"connected", "action_required", "disconnected"}
  /\ UNCHANGED <<account, tokens, recorded>>

Issue(t) ==
  /\ tokens[t] = "unissued"
  /\ tokens' = [tokens EXCEPT ![t] = "live"]
  /\ UNCHANGED <<store, account, recorded>>

\* A pair that was issued and is not stored becomes the store's.
Authorize(t, scopes, expiry) ==
  /\ tokens[t] \in {"live", "revoked"} /\ t # account.cred
  /\ Required \subseteq scopes
  /\ account' = [linked |-> TRUE, cred |-> t, expiry |-> expiry, scopes |-> scopes]
  /\ store' = "connected"
  /\ UNCHANGED <<tokens, recorded>>

\* The stored token gives way to the next one, in the state it had itself.
Replace(t, left) ==
  /\ account.cred # NoToken
  /\ account.scopes = Required /\ account.expiry = "due"
  /\ tokens[account.cred] \in {"live", "revoked"}
  /\ tokens[t] = "unissued"
  /\ tokens' = [tokens EXCEPT ![account.cred] = left, ![t] = tokens[account.cred]]
  /\ UNCHANGED recorded

Refresh(t, expiry) ==
  /\ Replace(t, "spent")
  /\ account' = [account EXCEPT !.cred = t, !.expiry = expiry]
  /\ store' = "connected"

LoseRotation(t) ==
  /\ Replace(t, "lost")
  /\ UNCHANGED <<store, account>>

DemandAction ==
  /\ \/ account.scopes # Required
     \/ /\ account.cred # NoToken /\ account.expiry = "due"
        /\ tokens[account.cred] # "live"
  /\ store' = "action_required"
  /\ UNCHANGED <<account, tokens, recorded>>

\* An administrator disconnects the store, or an event that was not handled
\* before.
Disconnect(events) ==
  /\ store # "absent"
  /\ events \cap recorded = {}
  /\ store' = "disconnected"
  /\ account' = [account EXCEPT !.cred = NoToken]
  /\ recorded' = recorded \cup events
  /\ UNCHANGED tokens

Uninstall ==
  /\ tokens' = [t \in Tokens |-> IF tokens[t] = "live" THEN "revoked" ELSE tokens[t]]
  /\ UNCHANGED <<store, account, recorded>>

FallsDue ==
  /\ account.expiry = "ahead"
  /\ account' = [account EXCEPT !.expiry = "due"]
  /\ UNCHANGED <<store, tokens, recorded>>

-----------------------------------------------------------------------------
Next ==
  \/ Install \/ UpdateStore \/ DemandAction \/ Uninstall \/ FallsDue
  \/ Disconnect({})
  \/ \E e \in Events : Disconnect({e})
  \/ \E t \in Tokens :
       \/ Issue(t)
       \/ LoseRotation(t)
       \/ \E expiry \in {"never", "ahead"} :
            \/ Refresh(t, expiry)
            \/ \E scopes \in SUBSET Scopes : Authorize(t, scopes, expiry)

Spec == Init /\ [][Next]_vars
=============================================================================
