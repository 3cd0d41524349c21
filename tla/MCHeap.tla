------------------------------- MODULE MCHeap -------------------------------
(***************************************************************************)
(* Two processes.  Programs: one page, three, and one that is too large.   *)
(***************************************************************************)
EXTENDS Heap

CONSTANTS p1, p2

TwoProcs == {p1, p2}
SomeDeltas == {3, -4, -5}
SomeImages == {<< <<0, 3>> >>, << <<0, 2>>, <<8, 1>> >>, << <<0, 32>> >>}
SomeSizes == {-1, 1, 2, 5, 31}
=============================================================================
