----------------------------- MODULE MCJobQueue -----------------------------
(* A small instance of JobQueue.  No symmetry: the run has a temporal      *)
(* property.                                                               *)
EXTENDS JobQueue
=============================================================================
