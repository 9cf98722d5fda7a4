-------------------------- MODULE MCStoreConnection --------------------------
(* Small instances of StoreConnection.                                     *)
EXTENDS StoreConnection, TLC

Symmetry == Permutations(Procs)
=============================================================================
