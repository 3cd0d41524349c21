-------------------------------- MODULE Heap --------------------------------
(***************************************************************************)
(* Programs with a heap in the memory the kernel gives them: Umalloc over  *)
(* Vm.  malloc() goes to sbrk() for more; fork() copies the heap with the  *)
(* pages it is in, exec() starts with none.                                *)
(***************************************************************************)
EXTENDS Vm, Umalloc

CONSTANTS
  MaxOps,     \* bound: calls of malloc() and free() altogether
  Requests,   \* units that programs ask malloc() for, with the header
  Sizes       \* sizes passed to system calls

VARIABLES
  heap,  \* of every process: its heap
  ops

vars == <<vmVars, heap, ops>>

Calls(p) == At(p, "user") /\ ops < MaxOps /\ ops' = ops + 1

\* malloc() finds a block, or asks for more, which fails at KERNBASE.
Malloc(p, nunits) ==
  \E h \in {Started(heap[p])} :
    LET nu == IF nunits < MINCORE THEN MINCORE ELSE nunits
    IN  /\ Calls(p)
        /\ IF Fits(h, nunits) # {}
           THEN heap' = [heap EXCEPT ![p] = Take(h, nunits)] /\ UNCHANGED loc
           ELSE /\ heap' = [heap EXCEPT ![p] = h]
                /\ IF sz[p] + nu >= KERNBASE THEN UNCHANGED loc
                   ELSE Goto(p, [Alloc(loc[p], sz[p], sz[p] + nu, "morecore")
                                 EXCEPT !.want = nunits])
        /\ UNCHANGED <<free, mem, new, kstack, sz, calls>>

\* sbrk() has returned the old size.
MallocMore(p) ==
  LET l == loc[p]
  IN  /\ At(p, "morecore")
      /\ \E h \in {Morecore(heap[p], l.old, l.top - l.old)} :
           heap' = [heap EXCEPT ![p] = Take(h, l.want)]
      /\ Goto(p, User)
      /\ UNCHANGED <<free, mem, new, kstack, sz, calls, ops>>

FreeBlock(p) ==
  \E bp \in heap[p].live :
    /\ Calls(p)
    /\ heap' = [heap EXCEPT ![p] = Free(heap[p], bp)]
    /\ UNCHANGED <<free, mem, new, kstack, sz, loc, calls>>

\* Bound: a program with a heap does not give memory back.
SbrkCall(p, n) ==
  /\ n > 0 \/ heap[p].freep = NULL
  /\ Sbrk(p, n)
  /\ UNCHANGED <<heap, ops>>

\* The memory of the process is replaced: by a copy, by a new program, by none.
ForkCopies(p) ==
  /\ ForkEnd(p)
  /\ heap' = [heap EXCEPT ![loc[p].child] = heap[p]]
  /\ UNCHANGED ops

ExecCommits(p) ==
  /\ ExecStack(p)
  /\ heap' = IF sz' = sz /\ mem' = mem THEN heap
             ELSE [heap EXCEPT ![p] = NoHeap]
  /\ UNCHANGED ops

ExitDrops(p) ==
  Exit(p) /\ heap' = [heap EXCEPT ![p] = NoHeap] /\ UNCHANGED ops

\* The steps of the kernel that leave the heap alone.
Kernel(p) ==
  /\ \/ AllocPage(p)
     \/ Grown(p)
     \/ ForkStart(p)
     \/ CopyPage(p)
     \/ \E image \in Images : ExecStart(p, image)
     \/ ExecSegs(p)
     \/ ExecLoad(p)
     \/ Wait(p)
  /\ UNCHANGED <<heap, ops>>

Program(p) ==
  \/ \E n \in Requests : Malloc(p, n)
  \/ MallocMore(p)
  \/ FreeBlock(p)
  \/ \E n \in Deltas : SbrkCall(p, n)
  \/ ForkCopies(p)
  \/ ExecCommits(p)
  \/ ExitDrops(p)

Init == VmInit /\ heap = [p \in Procs |-> NoHeap] /\ ops = 0

\* Every process is in user space or gone, and makes no more calls.
Done ==
  /\ \A p \in Procs : loc[p].pc \in {"user", "unused"}
  /\ UNCHANGED vars

Next == Done \/ \E p \in Procs : Kernel(p) \/ Program(p)

Spec == Init /\ [][Next]_vars

-----------------------------------------------------------------------------
(***************************************************************************)
(* Properties.                                                             *)
(***************************************************************************)

\* The number of places of a directory that hold a page.
Places(d) ==
  Cardinality({x \in {"dir", "kern"} : d[x] # 0})
  + Cardinality({t \in Tabs : d.tab[t] # 0})
  + Cardinality({v \in VPages : d.pg[v] # 0})

PlacesOf(p) ==
  Places(mem[p]) + Places(new[p]) + (IF kstack[p] = 0 THEN 0 ELSE 1)

\* Every page of memory is on the free list or in one place of one process:
\* no path of sbrk(), fork(), exec() and wait(), a failing one included, loses
\* a page or gives one away twice (kalloc.c, vm.c).
PagesOwned ==
  /\ free \cup UNION {PagesOf(mem[p]) \cup PagesOf(new[p])
                        \cup ({kstack[p]} \ {0}) : p \in Procs} = 1..NPAGES
  /\ Cardinality(free) + MapThenSumSet(PlacesOf, Procs) = NPAGES

\* A process that runs has the pages below p->sz and no other, except while
\* sbrk() adds some: so copyuvm() meets no hole, where it would panic, and
\* leaves nothing out (vm.c:316).
MappedBelowSz ==
  \A p \in Procs :
    LET mapped == {v \in VPages : mem[p].pg[v] # 0}
    IN  /\ loc[p].pc \in {"user", "copy", "segs", "load", "stack", "morecore"}
            => mapped = Below(sz[p])
        /\ At(p, "alloc") => Below(sz[p]) \subseteq mapped

\* The ranges that the kernel accepts from p.
Accepted(p) ==
  {r \in (0..(Word - 1)) \X Sizes :
     \/ Fetchint(p, r[1]) /\ r[2] = IntSize
     \/ r[2] > 0 /\ Fetchstr(p, r[1], r[2] - 1)
     \/ Argptr(p, r[1], r[2])}

\* What the kernel reads or writes for a program lies in pages the program
\* has: below KERNBASE and mapped, for every address and size it accepts, sums
\* that wrap around included (fetchint(), fetchstr() and argptr() in syscall.c).
AcceptedMapped ==
  \A p \in Procs : At(p, "user") =>
    \A r \in Accepted(p) : \A a \in r[1]..(r[1] + (r[2] % Word) - 1) :
      a < KERNBASE /\ mem[p].pg[a \div PGSIZE] # 0

\* The blocks in use and the free ones divide up exactly the memory that
\* morecore() got: malloc() never hands out a unit twice, free() loses none.
\* That memory is in pages the process has, the heap of a child too (umalloc.c
\* over vm.c).
HeapTiles ==
  \A p \in Procs :
    LET h   == heap[p]
        all == DOMAIN h.hdr \ {base}
    IN  /\ UNION {Units(h, a) : a \in all} = h.got
        /\ \A a \in h.got : mem[p].pg[a \div PGSIZE] # 0
        /\ \A a, b \in all : a # b => Units(h, a) \cap Units(h, b) = {}

\* The free list is one ring through all the free blocks, in the order of
\* their addresses, and no two of them touch (umalloc.c, free()).
ListSorted ==
  \A p \in Procs :
    LET h == heap[p]
        B == Blocks(h)
    IN  h.freep # NULL =>
          /\ h.freep \in B
          /\ \A a \in B :
               LET up == {b \in B : b > a}
               IN  /\ Ptr(h, a) = IF up = {} THEN base ELSE Min(up)
                   /\ a # base => a + Size(h, a) \notin B
=============================================================================
