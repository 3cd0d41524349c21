------------------------------- MODULE Mmap -------------------------------
(***************************************************************************)
(* Anonymous memory mappings: sys_mmap, sys_munmap, the page-fault handler *)
(* and what fork, exec, exit and wait do to the mmap area of an address    *)
(* space, over the physical page allocator they share.  Each process may   *)
(* run on a CPU of its own; a step is what happens between two uses of     *)
(* kmem.lock, so the loops of mmap and fork interleave page by page.       *)
(*                                                                         *)
(* Pages below p->sz, the page directory and the kernel stack are outside  *)
(* the model: `free' is what remains for mappings, their page tables and   *)
(* the struct vm_area nodes, one page each.                                *)
(***************************************************************************)
EXTENDS Vma

CONSTANTS
  Procs,      \* slots of ptable
  InitProc,   \* initproc: it forks and waits, and maps nothing itself
  Pages,      \* physical pages
  MaxImages,  \* bound: process images fork() and exec() start in a behaviour
  NPT,        \* pages one page table maps (NPTENTRIES)
  None,       \* an absent PTE or page table
  Addrs,      \* addresses programs pass to mmap(MAP_FIXED) and munmap
  Lens,       \* lengths programs pass
  Touched,    \* addresses programs read and write
  Prots,      \* protections programs pass
  FlagSets,   \* flag combinations programs pass (MAP_ANON is implied)
  Offered(_)  \* the pages kalloc() may return when the set S is free: the
              \* order of the free list is left open

ASSUME MmapAssumption ==
  /\ InitProc \notin Procs
  /\ None \notin Pages \cup Procs \cup {NoPage}
  /\ NoPage \notin Pages
  /\ NPT \in Nat \ {0}
  /\ MaxImages \in Nat
  /\ Addrs \subseteq Nat
  /\ Lens \subseteq Nat
  /\ Touched \subseteq Nat
  /\ Prots \subseteq {"r", "rw"}
  /\ FlagSets \subseteq SUBSET FlagNames
  /\ \A S \in SUBSET Pages : Offered(S) \subseteq S
  /\ \A S \in SUBSET Pages : S # {} => Offered(S) # {}

VARIABLES
  halt,       \* "none", or why the kernel stopped
  st,         \* p->state
  parent,     \* p->parent
  killed,     \* p->killed
  list,       \* the VMA list of each slot; survives the process
  pte,        \* the present page table entries of the mmap area
  tab,        \* the page tables of the mmap area, by directory index
  free,       \* kmem.freelist
  nodes,      \* pages holding a struct vm_area; nothing ever frees them
  pc,         \* where the process is
  loc,        \* its local variables inside mmap, fork and the fault handler
  own,        \* auxiliary: the list was set up by this process's own exec()
  images      \* images started so far, for the bound MaxImages

vars ==
  <<halt, st, parent, killed, list, pte, tab, free, nodes, pc, loc, own,
    images>>

Halts == {"remap", "kalloc", "kfree", "wild", "freelist"}

TableOf(va) == va \div (NPT * PGSIZE)

NoLoc == [op |-> "none", q |-> None, k |-> 0, va |-> 0, end |-> 0,
          page |-> None, repl |-> FALSE]

Init ==
  /\ halt = "none"
  /\ st = [p \in Procs |-> "UNUSED"]
  /\ parent = [p \in Procs |-> InitProc]
  /\ killed = [p \in Procs |-> FALSE]
  /\ list = [p \in Procs |-> <<>>]
  /\ pte = [p \in Procs |-> {}]
  /\ tab = [p \in Procs |-> {}]
  /\ free = Pages
  /\ nodes = {}
  /\ pc = [p \in Procs |-> "user"]
  /\ loc = [p \in Procs |-> NoLoc]
  /\ own = [p \in Procs |-> FALSE]
  /\ images = 0

(***************************************************************************)
(* Building blocks.                                                        *)
(***************************************************************************)
At(p, l) == halt = "none" /\ st[p] = "RUN" /\ pc[p] = l

\* A process about to enter the kernel: trap() exits a killed one first.
InUser(p) == At(p, "user") /\ ~ killed[p]

\* The kernel stops: a panic, or a null or stale pointer is followed.
Stop(why) ==
  /\ halt' = why
  /\ UNCHANGED <<st, parent, killed, list, pte, tab, free, nodes, pc, loc,
                 own, images>>

Goto(p, l) == pc' = [pc EXCEPT ![p] = l]

Mapped(p) == {e.va : e \in pte[p]}

Frames(p) == {e.pa : e \in pte[p]}

TablePages(p) == {t.pa : t \in tab[p]}

HasTable(p, va) == \E t \in tab[p] : t.n = TableOf(va)

\* Mutant: freevm() forgets the page tables.
VmPagesNoTables(p) == Frames(p)

\* Everything freevm() hands to kfree() for the mmap area of p.
VmPages(p) == Frames(p) \cup TablePages(p)

\* kfree() panics on an address that is no page of RAM.
FreesBogus(p) == NoPage \in Frames(p)

\* Freeing a page twice, at once or because it is free already, makes the
\* free list cyclic: kalloc then hands one page out again and again.
FreesTwice(p) ==
  \/ VmPages(p) \cap free # {}
  \/ \E e, f \in pte[p] : e # f /\ e.pa = f.pa
  \/ Frames(p) \cap TablePages(p) # {}

FreeVm(p) ==
  /\ free' = free \cup VmPages(p)
  /\ pte' = [pte EXCEPT ![p] = {}]
  /\ tab' = [tab EXCEPT ![p] = {}]

\* exit(): children go to init; the mmap area is kept until wait().
exit(p) ==
  /\ Goto(p, "user")
  /\ loc' = [loc EXCEPT ![p] = NoLoc]
  /\ st' = [st EXCEPT ![p] = "ZOMBIE"]
  /\ parent' = [c \in Procs |-> IF parent[c] = p THEN InitProc ELSE parent[c]]
  /\ UNCHANGED halt

\* The way back to user space; a process that was killed exits.
Return(p) ==
  IF killed'[p]
  THEN exit(p)
  ELSE /\ Goto(p, "user")
       /\ loc' = [loc EXCEPT ![p] = NoLoc]
       /\ UNCHANGED <<halt, st, parent>>

(***************************************************************************)
(* sys_mmap.                                                               *)
(***************************************************************************)
Slot(l, addr, length, flags) ==
  IF "FIXED" \in flags THEN FixedSlot(l, addr, length) ELSE AnySlot(l, length)

\* The search and create_vma, whose kalloc() is not checked.  A call that
\* finds no place returns -1 and changes nothing.
SysMmap(p, addr, length, prot, flags) ==
  /\ InUser(p)
  /\ IF list[p] = <<>>
     THEN Stop("wild")
     ELSE LET k     == Slot(list[p], addr, length, flags)
              start == IF "FIXED" \in flags THEN addr
                       ELSE uint(list[p][k].end + 1)
              vma   == create_vma(list[p], k, start, length, prot, flags)
          IN  /\ k # 0
              /\ IF free = {}
                 THEN Stop("wild")
                 ELSE \E pg \in Offered(free) :
                   /\ free' = free \ {pg}
                   /\ nodes' = nodes \cup {pg}
                   /\ list' = [list EXCEPT
                                 ![p] = Linked(list[p], k, vma, length)]
                   /\ loc' = [loc EXCEPT ![p] =
                                [op |-> "mmap", q |-> p, k |-> k, va |-> start,
                                 end |-> vma.end, page |-> None,
                                 repl |-> ReplacesHead(vma, flags)]]
                   /\ Goto(p, "mmap")
                   /\ UNCHANGED <<halt, st, parent, killed, pte, tab, own,
                                  images>>

\* Position of the new node in the list.
New(p) == IF loc[p].repl THEN 1 ELSE loc[p].k + 1

\* vma->pa is set for the first page; on the unlinked node when the head was
\* replaced.
SetsPa(p) == ~ loc[p].repl /\ loc[p].va = list[p][New(p)].start

\* Mutant: the result of kalloc() is not checked.
MmapKallocUnchecked(p) ==
  /\ At(p, "mmap")
  /\ loc[p].va < loc[p].end
  /\ \E pg \in IF free = {} THEN {None} ELSE Offered(free) :
       /\ free' = free \ {pg}
       /\ list' = IF SetsPa(p)
                  THEN [list EXCEPT ![p][New(p)].pa = pg] ELSE list
       /\ loc' = [loc EXCEPT ![p].page = pg]
       /\ Goto(p, "mappages")
       /\ UNCHANGED <<halt, st, parent, killed, pte, tab, nodes, own, images>>

\* One turn of the mapping loop, up to mappages.
MmapKalloc(p) ==
  /\ At(p, "mmap")
  /\ loc[p].va < loc[p].end
  /\ IF free = {}
     THEN Stop("kalloc")
     ELSE \E pg \in Offered(free) :
       /\ free' = free \ {pg}
       /\ list' = IF SetsPa(p)
                  THEN [list EXCEPT ![p][New(p)].pa = pg] ELSE list
       /\ loc' = [loc EXCEPT ![p].page = pg]
       /\ Goto(p, "mappages")
       /\ UNCHANGED <<halt, st, parent, killed, pte, tab, nodes, own, images>>

\* The loop is over: guard pages (those of an unlinked node are lost).
MmapGuard(p) ==
  /\ At(p, "mmap")
  /\ loc[p].va >= loc[p].end
  /\ list' = IF loc[p].repl
             THEN list
             ELSE [list EXCEPT ![p] =
                     SetGuard(DropPrevGuard(@, loc[p].k), New(p))]
  /\ UNCHANGED <<killed, pte, tab, free, nodes, own, images>>
  /\ Return(p)

(***************************************************************************)
(* mappages(), as mmap, fork and the fault handler call it, with what the  *)
(* caller does next.  loc.q owns the page table, loc.page is mapped.       *)
(***************************************************************************)
\* Mutant: the PTE_P test of mappages() is dropped.
PresentUnchecked(q, va) == va >= MAX_ADDR

Present(q, va) == va >= MAX_ADDR \/ va \in Mapped(q)

\* The node of the list the caller is working on.
MapNode(p) == IF loc[p].op = "mmap" THEN New(p) ELSE loc[p].k

\* Where the caller goes on: the next turn of its loop or, for the fault
\* handler, which leaves the list as `grown', out of the trap.
AfterMap(p, grown) ==
  IF loc[p].op = "grow"
  THEN list' = [list EXCEPT ![p] = grown] /\ Return(p)
  ELSE /\ loc' = [loc EXCEPT ![p].va = @ + PGSIZE, ![p].page = None]
       /\ Goto(p, loc[p].op)
       /\ UNCHANGED <<halt, st, parent, list>>

\* mappages() panics on an entry that is present.
MapRemap(p) ==
  /\ At(p, "mappages")
  /\ Present(loc[p].q, loc[p].va)
  /\ Stop("remap")

MapOk(p) ==
  LET q == loc[p].q  va == loc[p].va
      prot == list[p][MapNode(p)].prot
  IN  /\ At(p, "mappages")
      /\ ~ Present(q, va)
      /\ \/ HasTable(q, va) /\ UNCHANGED <<tab, free>>
         \/ /\ ~ HasTable(q, va)
            /\ \E pg \in Offered(free) :
                 /\ tab' = [tab EXCEPT ![q] =
                              @ \cup {[n |-> TableOf(va), pa |-> pg]}]
                 /\ free' = free \ {pg}
      /\ pte' = [pte EXCEPT ![q] =
                   @ \cup {[va |-> va, pa |-> loc[p].page, prot |-> prot]}]
      /\ UNCHANGED <<killed, nodes, own, images>>
      /\ AfterMap(p, Grown(list[p], loc[p].k))

\* No page for the page table: the page goes back, the process is killed.
MapFail(p) ==
  LET q == loc[p].q  va == loc[p].va  pg == loc[p].page
  IN  /\ At(p, "mappages")
      /\ ~ Present(q, va)
      /\ ~ HasTable(q, va)
      /\ free = {}
      /\ IF pg = NoPage
         THEN Stop("kfree")
         ELSE /\ free' = free \cup {pg}
              /\ killed' = [killed EXCEPT ![q] = TRUE]
              /\ UNCHANGED <<pte, tab, nodes, own, images>>
              /\ AfterMap(p, list[p])

(***************************************************************************)
(* sys_munmap.  The list is walked in a copy on the stack, and vm, prev    *)
(* and curr are one object there: the unlinking at the end has no effect.  *)
(***************************************************************************)
SysMunmap(p, addr, length) ==
  /\ InUser(p)
  /\ addr % PGSIZE = 0 /\ addr >= MIN_ADDR /\ addr < MAX_ADDR
  /\ IF list[p] = <<>>
     THEN Stop("wild")
     ELSE \E k \in Visited(list[p]) :
       /\ list[p][k].start = addr /\ list[p][k].valid
       /\ \A j \in Visited(list[p]) :
            list[p][j].start = addr /\ list[p][j].valid => k <= j
       /\ loc' = [loc EXCEPT ![p] = [NoLoc EXCEPT !.op = "munmap", !.q = p,
                    !.k = k, !.va = addr, !.end = uint(addr + length)]]
       /\ Goto(p, "munmap")
       /\ UNCHANGED <<halt, st, parent, killed, list, pte, tab, free,
                      nodes, own, images>>

\* One page: the PTE is looked at only when walkpgdir() returns null.
UnmapsPage(p) == loc[p].va < MAX_ADDR /\ ~ HasTable(p, loc[p].va)

MunmapLoop(p) ==
  /\ At(p, "munmap")
  /\ loc[p].va < loc[p].end
  /\ IF UnmapsPage(p)
     THEN Stop("wild")
     ELSE /\ loc' = [loc EXCEPT ![p].va = @ + PGSIZE]
          /\ UNCHANGED <<halt, st, parent, killed, list, pte, tab, free,
                         nodes, pc, own, images>>

MunmapReturn(p) ==
  /\ At(p, "munmap")
  /\ loc[p].va >= loc[p].end
  /\ UNCHANGED <<killed, list, pte, tab, free, nodes, own, images>>
  /\ Return(p)

(***************************************************************************)
(* Page faults.                                                            *)
(***************************************************************************)
Faults(p, a, write) ==
  \A e \in pte[p] : e.va = a - (a % PGSIZE) => write /\ e.prot = "r"

\* The program touches address a, in the mmap area or outside the memory of
\* the process, and the processor traps.
Access(p, a, write) ==
  /\ InUser(p)
  /\ Faults(p, a, write)
  /\ loc' = [loc EXCEPT ![p] = [NoLoc EXCEPT !.op = "grow", !.q = p, !.va = a]]
  /\ Goto(p, "fault")
  /\ UNCHANGED <<halt, st, parent, killed, list, pte, tab, free, nodes,
                 own, images>>

\* The process is killed and, the fault being in user space, exits.
FaultKill(p) ==
  /\ killed' = [killed EXCEPT ![p] = TRUE]
  /\ UNCHANGED <<list, pte, tab, free, nodes, own, images>>
  /\ Return(p)

FaultGrow(p, k) ==
  IF free = {}
  THEN Stop("kalloc")
  ELSE \E pg \in Offered(free) :
    /\ free' = free \ {pg}
    /\ loc' = [loc EXCEPT ![p].k = k, ![p].page = pg,
                          ![p].va = list[p][k].guardstart]
    /\ Goto(p, "mappages")
    /\ UNCHANGED <<halt, st, parent, killed, list, pte, tab, nodes, own,
                   images>>

\* fault_addr is not an address mmap hands out.
OutOfRange(a) == a < MIN_ADDR \/ a >= MAX_ADDR

\* case T_PGFLT.  When no node decides, the process returns to the faulting
\* instruction, which faults again: the step changes nothing.
PageFault(p) ==
  /\ At(p, "fault")
  /\ LET a == loc[p].va
         k == FaultSlot(list[p], a)
     IN  \/ OutOfRange(a) /\ FaultKill(p)
         \/ ~ OutOfRange(a) /\ list[p] = <<>> /\ Stop("wild")
         \/ ~ OutOfRange(a) /\ list[p] # <<>> /\ k = 0 /\ UNCHANGED vars
         \/ /\ ~ OutOfRange(a) /\ list[p] # <<>> /\ k # 0
            /\ IF InGuard(list[p][k], a) THEN FaultGrow(p, k) ELSE FaultKill(p)

(***************************************************************************)
(* fork.  The child's own list is not written: it stays what the slot's    *)
(* last user left.                                                         *)
(***************************************************************************)
Fork(p, np) ==
  /\ InUser(p)
  /\ images < MaxImages
  /\ st[np] = "UNUSED"
  /\ IF list[p] = <<>>
     THEN Stop("wild")
     ELSE /\ st' = [st EXCEPT ![np] = "EMBRYO"]
          /\ parent' = [parent EXCEPT ![np] = p]
          /\ loc' = [loc EXCEPT ![p] = [NoLoc EXCEPT !.op = "fork", !.q = np,
                       !.k = 1, !.va = list[p][1].start]]
          /\ Goto(p, "fork")
          /\ own' = [own EXCEPT ![np] = FALSE]
          /\ images' = images + 1
          /\ UNCHANGED <<halt, killed, list, pte, tab, free, nodes>>

\* fork() called by a process outside the model that has no mappings.
ForkByInit(np) ==
  /\ halt = "none"
  /\ images < MaxImages
  /\ st[np] = "UNUSED"
  /\ st' = [st EXCEPT ![np] = "RUN"]
  /\ parent' = [parent EXCEPT ![np] = InitProc]
  /\ own' = [own EXCEPT ![np] = FALSE]
  /\ images' = images + 1
  /\ UNCHANGED <<halt, killed, list, pte, tab, free, nodes, pc, loc>>

Copying(p) ==
  /\ At(p, "fork")
  /\ loc[p].k \in Visited(list[p])
  /\ loc[p].va < list[p][loc[p].k].end

\* MAP_SHARED: every page of the area is mapped to the area's first frame.
ForkShared(p) ==
  /\ Copying(p)
  /\ "SHARED" \in list[p][loc[p].k].flags
  /\ loc' = [loc EXCEPT ![p].page = list[p][loc[p].k].pa]
  /\ Goto(p, "mappages")
  /\ UNCHANGED <<halt, st, parent, killed, list, pte, tab, free, nodes,
                 own, images>>

\* MAP_PRIVATE: a new frame, filled through the parent's page table.
ForkPrivate(p) ==
  /\ Copying(p)
  /\ "PRIVATE" \in list[p][loc[p].k].flags
  /\ "SHARED" \notin list[p][loc[p].k].flags
  /\ CASE free = {} -> Stop("kalloc")
       [] free # {} /\ ~ HasTable(p, loc[p].va) -> Stop("wild")
       [] OTHER ->
            \E pg \in Offered(free) :
              /\ free' = free \ {pg}
              /\ loc' = [loc EXCEPT ![p].page = pg]
              /\ Goto(p, "mappages")
              /\ UNCHANGED <<halt, st, parent, killed, list, pte, tab,
                             nodes, own, images>>

\* The next node: this one is finished, or neither shared nor private.
ForkNext(p) ==
  /\ At(p, "fork")
  /\ loc[p].k \in Visited(list[p])
  /\ \/ loc[p].va >= list[p][loc[p].k].end
     \/ list[p][loc[p].k].flags \cap {"SHARED", "PRIVATE"} = {}
  /\ loc' = [loc EXCEPT ![p].k = @ + 1,
                        ![p].va = NextStart(list[p], loc[p].k)]
  /\ UNCHANGED <<halt, st, parent, killed, list, pte, tab, free, nodes, pc,
                 own, images>>

ForkReturn(p) ==
  /\ At(p, "fork")
  /\ loc[p].k \notin Visited(list[p])
  /\ st' = [st EXCEPT ![loc[p].q] = "RUN"]
  /\ Goto(p, "user")
  /\ loc' = [loc EXCEPT ![p] = NoLoc]
  /\ UNCHANGED <<halt, parent, killed, list, pte, tab, free, nodes, own,
                 images>>

(***************************************************************************)
(* exec, exit and wait.                                                    *)
(***************************************************************************)
\* freevm() hits one of the ways kfree() can go wrong.
FreeVmStops(p) ==
  \/ FreesBogus(p) /\ Stop("kfree")
  \/ ~ FreesBogus(p) /\ FreesTwice(p) /\ Stop("freelist")

FreeVmWorks(p) == ~ FreesBogus(p) /\ ~ FreesTwice(p) /\ FreeVm(p)

\* A successful exec: a new page directory, an empty list, the old address
\* space freed.  The nodes of the old list are dropped, not freed.
Exec(p) ==
  /\ InUser(p)
  /\ images < MaxImages
  /\ \/ FreeVmStops(p)
     \/ /\ FreeVmWorks(p)
        /\ list' = [list EXCEPT ![p] = EmptyList(@)]
        /\ own' = [own EXCEPT ![p] = TRUE]
        /\ images' = images + 1
        /\ UNCHANGED <<halt, st, parent, killed, nodes, pc, loc>>

\* exit() by the program itself, or the end of a killed process at its next
\* trap.
Exit(p) ==
  /\ At(p, "user")
  /\ exit(p)
  /\ UNCHANGED <<killed, list, pte, tab, free, nodes, own, images>>

\* wait() in the parent of q, or in init, finding the zombie q.
Wait(q) ==
  /\ halt = "none"
  /\ parent[q] \in Procs => InUser(parent[q])
  /\ st[q] = "ZOMBIE"
  /\ \/ FreeVmStops(q)
     \/ /\ FreeVmWorks(q)
        /\ st' = [st EXCEPT ![q] = "UNUSED"]
        /\ parent' = [parent EXCEPT ![q] = InitProc]
        /\ killed' = [killed EXCEPT ![q] = FALSE]
        /\ UNCHANGED <<halt, list, nodes, pc, loc, own, images>>

\* panic() disables interrupts and loops for ever.
Halted == halt # "none" /\ UNCHANGED vars

\* The bound MaxImages is used up and every process is gone.
Done ==
  /\ images = MaxImages
  /\ \A p \in Procs : st[p] = "UNUSED"
  /\ UNCHANGED vars

(***************************************************************************)
(* The specification.                                                      *)
(***************************************************************************)
Mmap(p) ==
  \/ \E addr \in Addrs, len \in Lens, prot \in Prots, flags \in FlagSets :
       SysMmap(p, addr, len, prot, flags)
  \/ MmapKalloc(p) \/ MmapGuard(p)

MapPages(p) == MapRemap(p) \/ MapOk(p) \/ MapFail(p)

Munmap(p) ==
  \/ \E addr \in Addrs, len \in Lens : SysMunmap(p, addr, len)
  \/ MunmapLoop(p) \/ MunmapReturn(p)

Memory(p) ==
  \/ \E a \in Touched, w \in BOOLEAN : Access(p, a, w)
  \/ PageFault(p)

ForkSteps(p) ==
  \/ \E np \in Procs : Fork(p, np)
  \/ ForkShared(p) \/ ForkPrivate(p) \/ ForkNext(p) \/ ForkReturn(p)

ProcSteps(p) == ForkByInit(p) \/ Exec(p) \/ Exit(p) \/ Wait(p)

Next ==
  \/ \E p \in Procs : \/ Mmap(p) \/ MapPages(p) \/ Munmap(p) \/ Memory(p)
                      \/ ForkSteps(p) \/ ProcSteps(p)
  \/ Halted \/ Done

\* Code running in the kernel goes on running: nothing in these handlers
\* waits for another process.
KernelSteps(p) ==
  \/ MmapKalloc(p) \/ MmapGuard(p) \/ MapPages(p)
  \/ MunmapLoop(p) \/ MunmapReturn(p) \/ PageFault(p)
  \/ ForkShared(p) \/ ForkPrivate(p) \/ ForkNext(p) \/ ForkReturn(p)

Spec == Init /\ [][Next]_vars

FairSpec == Spec /\ \A p \in Procs : WF_vars(KernelSteps(p))

(***************************************************************************)
(* Properties.                                                             *)
(***************************************************************************)
VmaType ==
  [valid : BOOLEAN, start : Int, end : Int, pa : Pages \cup {NoPage},
   guardstart : Int, prot : Prots \cup {"none"},
   flags : FlagSets \cup {{}}, space_after : Int]

PteType ==
  [va : Int, pa : Pages \cup {NoPage}, prot : Prots \cup {"none"}]

LocType ==
  [op : {"none", "mmap", "munmap", "fork", "grow"}, q : Procs \cup {None},
   k : Int, va : Int, end : Int, page : Pages \cup {None, NoPage},
   repl : BOOLEAN]

\* Every variable holds a value of its C type.
TypeOK ==
  /\ halt \in Halts \cup {"none"}
  /\ st \in [Procs -> {"UNUSED", "EMBRYO", "RUN", "ZOMBIE"}]
  /\ parent \in [Procs -> Procs \cup {InitProc}]
  /\ killed \in [Procs -> BOOLEAN]
  /\ list \in [Procs -> Seq(VmaType)]
  /\ pte \in [Procs -> SUBSET PteType]
  /\ tab \in [Procs -> SUBSET [n : Int, pa : Pages]]
  /\ free \subseteq Pages
  /\ nodes \subseteq Pages
  /\ pc \in [Procs -> {"user", "mmap", "mappages", "munmap", "fork", "fault"}]
  /\ loc \in [Procs -> LocType]
  /\ own \in [Procs -> BOOLEAN]
  /\ images \in Nat

\* What the handler of p has in its local variables: mappages() is given a
\* page, a page table and a node of the caller's own list.
HandlerOK(p) ==
  /\ pc[p] # "mappages" => loc[p].page = None
  /\ pc[p] = "mappages" =>
       /\ loc[p].op \in {"mmap", "fork", "grow"}
       /\ loc[p].q \in Procs
       /\ loc[p].page # None
       /\ MapNode(p) \in 1..Len(list[p])
       /\ loc[p].op = "mmap" /\ ~ loc[p].repl => loc[p].k >= 1
  /\ pc[p] = "mmap" =>
       /\ loc[p].op = "mmap"
       /\ loc[p].q \in Procs
       /\ MapNode(p) \in 1..Len(list[p])
       /\ ~ loc[p].repl => loc[p].k >= 1
  /\ pc[p] = "fork" => loc[p].op = "fork" /\ loc[p].q \in Procs
  /\ pc[p] = "fault" => loc[p].op = "grow" /\ loc[p].q \in Procs

Control == \A p \in Procs : HandlerOK(p)

\* The page a handler has taken from the free list and not yet mapped.
InFlight(p) == {loc[p].page} \cap Pages

\* Everything a process or a handler working for it holds.
Held(p) == VmPages(p) \cup InFlight(p)

\* Every physical page has exactly one use: it is free, holds a struct
\* vm_area, is a page table, backs one page of one process, or is in the
\* hands of one handler.  Nothing is lost and nothing is used twice on any
\* path of kalloc/kfree through mmap, fork, growth, exec, exit and wait,
\* error paths included, as long as no program asks for MAP_SHARED.
PagePartition ==
  /\ \A pg \in Pages :
       pg \in free \cup nodes \/ \E p \in Procs : pg \in Held(p)
  /\ \A p \in Procs : Held(p) \subseteq Pages
  /\ free \cap nodes = {}
  /\ \A p \in Procs : Held(p) \cap (free \cup nodes) = {}
  /\ \A p \in Procs : Frames(p) \cap TablePages(p) = {}
  /\ \A p \in Procs : VmPages(p) \cap InFlight(p) = {}
  /\ \A p \in Procs : \A e, f \in pte[p] : e.pa = f.pa => e = f
  /\ \A p \in Procs : \A t, u \in tab[p] : t.pa = u.pa => t = u
  /\ \A p, q \in Procs : p # q => Held(p) \cap Held(q) = {}

\* The address p faulted on lies in no page that is mapped.
Unmapped(p) ==
  \A va \in Mapped(p) : ~ (va <= loc[p].va /\ loc[p].va < va + PGSIZE)

\* kfree() is never called on what is no page or on a page that is free
\* already: neither freevm() in exec and wait nor the error path of mappages()
\* does, as long as no program asks for MAP_SHARED.
KfreeSafe == halt \notin {"kfree", "freelist"}

Sharing == \E p \in Procs : \E k \in 1..Len(list[p]) : "SHARED" \in list[p][k].flags

\* As long as no list has had a MAP_SHARED area, pages are accounted for and
\* freed once.
PrivatePages == ([] ~ Sharing) => [](PagePartition /\ KfreeSafe)

Settled(p) == st[p] = "RUN" /\ pc[p] = "user" /\ ~ killed[p]

NonEmpty(vma) == vma.start <= vma.end

\* A process that set its list up itself and is between two system calls.
Describes(p) == halt = "none" /\ Settled(p) /\ own[p]

\* Between system calls the list of a process is sorted by address and its
\* areas are disjoint, although sys_mmap trusts space_after, which counts
\* requested bytes, not pages, and is not kept up to date by growth.
ListSorted ==
  \A p \in Procs : Describes(p) =>
    \A j, k \in 1..Len(list[p]) :
      j < k /\ NonEmpty(list[p][j]) /\ NonEmpty(list[p][k])
      => list[p][j].end < list[p][k].start

\* The pa field of a node is the frame behind the first page of its area.
FirstFrame(t, vma) == \E e \in t : e.va = vma.start /\ e.pa = vma.pa

\* The list describes exactly the pages its process can touch: sys_mmap and
\* the fault handler record what they map, also when the head is replaced.
\* And in every node behind the head the pa field, from which fork() maps a
\* MAP_SHARED area into the child, is the frame of the first page.
ListIsMemory ==
  \A p \in Procs : Describes(p) =>
    /\ Mapped(p) = UNION {PagesOf(list[p][k]) : k \in 1..Len(list[p])}
    /\ \A k \in 2..Len(list[p]) :
         NonEmpty(list[p][k]) => FirstFrame(pte[p], list[p][k])

\* A guard page that can still be used starts right behind its area, so a
\* mapping only ever grows by the page next to it.
GuardIsNext ==
  \A p \in Procs : Describes(p) =>
    \A k \in 1..Len(list[p]) :
      /\ "GROWSUP" \in list[p][k].flags
      /\ list[p][k].guardstart \in MIN_ADDR..MAX_ADDR
      => list[p][k].guardstart = list[p][k].end + 1

\* A page fault on a page that is not mapped is dealt with when the process
\* has a list of its own: the page gets mapped or the process exits.  (A
\* write to a mapped page that is read-only is another matter: the handler
\* finds nothing to do and the instruction faults for ever.)
FaultResolves ==
  \A p \in Procs :
    (pc[p] = "fault" /\ own[p] /\ Unmapped(p)
       ~> pc[p] # "fault" \/ halt # "none")

(***************************************************************************)
(* What comments and tests say and the code does not do.                   *)
(***************************************************************************)
\* sys_mmap without MAP_FIXED never runs into a page that is mapped already:
\* "request encroaching on next VMA is covered because the starting address
\* is not arbitrary".
NeverEncroaches == halt # "remap"

\* "remove mappings from page table": the pages the loop of sys_munmap has
\* passed are not mapped any more.
MunmapUnmaps ==
  \A p \in Procs : At(p, "munmap") =>
    \A va \in Mapped(p) :
      ~ (list[p][loc[p].k].start <= va /\ va < loc[p].va)

\* "set pa of vma to first page's pa": between system calls that is so of
\* every area of the list, the one in the head included.
PaIsFirstPage ==
  \A p \in Procs : Describes(p) =>
    \A k \in 1..Len(list[p]) :
      NonEmpty(list[p][k]) => FirstFrame(pte[p], list[p][k])
===========================================================================
