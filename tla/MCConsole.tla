------------------------------ MODULE MCConsole ------------------------------
(* Small instances of Console.                                             *)
EXTENDS Console, TLC

Symmetry ==
  Permutations(Procs) \cup Permutations(Users \ {Founder}) \cup
  Permutations(States)
=============================================================================
