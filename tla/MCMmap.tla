------------------------------ MODULE MCMmap ------------------------------
(* Instances of Mmap for TLC: which calls the programs make. *)
EXTENDS MmapInv, FiniteSetsExt

\* kalloc() returns the lowest free page.
Lowest(S) == IF S = {} THEN {} ELSE {Min(S)}

\* The last byte of every page, and the addresses next to the mmap area.
PageEnds == {va + PGSIZE - 1 : va \in VPages} \cup {MIN_ADDR - 1, MAX_ADDR}

\* Areas placed by the kernel or at an address, that grow or that are shared.
ListFlags ==
  {{"PRIVATE", "GROWSUP"}, {"FIXED", "GROWSUP"}, {"FIXED", "SHARED"}}

\* One kind of call only.
AnywhereFlags == {{}}

\* Shared areas at an address, the first one of the mmap area included.
SharedFlags == {{"FIXED", "SHARED"}}
===========================================================================
