------------------------------- MODULE MCDisk -------------------------------
(* Instances of Disk for TLC. *)
EXTENDS DiskInv, TLC

\* Processes, buffers, the blocks that are only read and the others are
\* interchangeable.
Sym ==
  Permutations(Procs) \cup Permutations(Bufs)
    \cup Permutations(Blocks \ Written) \cup Permutations(Written)
============================================================================
