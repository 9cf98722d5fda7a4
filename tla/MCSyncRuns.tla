----------------------------- MODULE MCSyncRuns -----------------------------
(* Small instances of SyncRuns.                                            *)
EXTENDS SyncRuns, TLC

Symmetry == Permutations(Runs) \cup Permutations(Workers)
=============================================================================
