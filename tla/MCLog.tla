------------------------------- MODULE MCLog -------------------------------
(* Instances of Log for TLC. *)
EXTENDS LogInv, TLC

\* Processes and blocks are interchangeable.
Sym == Permutations(Procs) \cup Permutations(Blocks)
============================================================================
