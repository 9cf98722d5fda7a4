--------------------------- MODULE MCSyncPipeline ---------------------------
(* Small instances of SyncPipeline.                                        *)
EXTENDS SyncPipeline, TLC

Symmetry ==
  Permutations(Runs) \cup Permutations(Workers) \cup Permutations(Copies)
=============================================================================
