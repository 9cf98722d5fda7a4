---------------------------- MODULE FreshMirror ----------------------------
(***************************************************************************)
(* What the synchronisation of a store promises to whoever reads the       *)
(* mirror, without runs, leases, workers or transactions.  The mirror      *)
(* moves forward only, and shows no more than the shop has.  A change that *)
(* was announced stays on the list until the mirror shows it or a failed   *)
(* synchronisation gives the list up, and while it is on the list a        *)
(* synchronisation is under way or asked for.                              *)
(***************************************************************************)
EXTENDS Naturals

VARIABLES
  catalogue,  \* revision of the catalogue at Shopify
  shown,      \* revision the mirror shows
  announced,  \* announced changes that are neither shown nor given up
  asked       \* a synchronisation is under way or asked for

vars == <<catalogue, shown, announced, asked>>

Init == catalogue = 0 /\ shown = 0 /\ announced = {} /\ asked = FALSE

Change ==
  /\ catalogue' = catalogue + 1
  /\ UNCHANGED <<shown, announced, asked>>

Ask ==
  /\ asked' = TRUE
  /\ UNCHANGED <<catalogue, shown, announced>>

Announce(e) ==
  /\ e \in 1 .. catalogue
  /\ announced' = announced \cup {e}
  /\ asked' = TRUE
  /\ UNCHANGED <<catalogue, shown>>

\* A synchronisation ends.  It may only be the last one if it leaves nothing
\* on the list.
Show(n) ==
  /\ asked
  /\ n \in shown .. catalogue
  /\ shown' = n
  /\ announced' = {e \in announced : n < e}
  /\ asked' \in BOOLEAN
  /\ announced' # {} => asked'
  /\ UNCHANGED catalogue

\* A synchronisation fails; it may be tried again.
GiveUp ==
  /\ asked
  /\ announced' = {}
  /\ asked' \in BOOLEAN
  /\ UNCHANGED <<catalogue, shown>>

Next ==
  \/ Change \/ Ask \/ GiveUp
  \/ \E n \in 1 .. catalogue : Announce(n)
  \/ \E n \in 0 .. catalogue : Show(n)

Spec == Init /\ [][Next]_vars
=============================================================================
