------------------------------ MODULE MmapInv ------------------------------
(***************************************************************************)
(* The inductive invariant behind the properties of the VMA list: what is  *)
(* true of the list of a live process that set it up itself, between two   *)
(* system calls and at every step of the loops of sys_mmap and of the page *)
(* fault handler.                                                          *)
(***************************************************************************)
EXTENDS Mmap

Aligned(x) == x % PGSIZE = 0

\* One node: whole pages inside the mmap area, space_after no larger than the
\* area, and the guard page, if there is one, right behind the node.
NodeOK(vma) ==
  /\ Aligned(vma.start) /\ Aligned(vma.end + 1)
  /\ MIN_ADDR <= vma.start /\ vma.start <= vma.end + 1 /\ vma.end < MAX_ADDR
  /\ vma.space_after <= MAX_ADDR - MIN_ADDR
  /\ vma.guardstart \in {0, JUNK, NOGUARD, vma.end + 1}

\* The nodes do not overlap and come in the order of their addresses; only
\* the head may be empty.
InOrder(l) ==
  /\ l[1].start = MIN_ADDR
  /\ \A k \in 1..Len(l) : NodeOK(l[k])
  /\ \A k \in 2..Len(l) : NonEmpty(l[k])
  /\ \A j, k \in 1..Len(l) : j < k => l[j].end < l[k].start

\* space_after, less one, is never smaller than the gap it stands for ...
RoomAt(l, k) == l[k].space_after >= NextStart(l, k) - l[k].end

\* ... except that exec() gives the empty head one byte less than create_vma
\* would.  While that shows, the areas behind the head fill the rest.
RoomAtHead(l) ==
  \/ RoomAt(l, 1)
  \/ /\ l[1].end = MIN_ADDR - 1
     /\ l[1].space_after = NextStart(l, 1) - MIN_ADDR
     /\ \A k \in 2..Len(l) : l[k].space_after <= 1

Sane(l) ==
  /\ l # <<>>
  /\ InOrder(l)
  /\ \A k \in 2..Len(l) : RoomAt(l, k)
  /\ RoomAtHead(l)

\* A list between two system calls: the page table has a page exactly where a
\* node has one.
Tidy(l, t) ==
  /\ Sane(l)
  /\ {e.va : e \in t} = {a \in VPages : \E k \in 1..Len(l) : Covers(l[k], a)}
  /\ \A k \in 2..Len(l) : NonEmpty(l[k]) => FirstFrame(t, l[k])

\* A mapping loop at va is on its way to a page that is mapped, or out of user
\* memory: mappages() will panic.
Doomed(t, va, end) ==
  \/ va <= MAX_ADDR /\ MAX_ADDR <= end
  \/ \E e \in t : Aligned(e.va) /\ va <= e.va /\ e.va <= end

\* A list with the new node n in it, whose pages are mapped up to va; pg is the
\* page in the hands of the loop.
Partly(l, t, n, va, pg) ==
  /\ Sane(l)
  /\ n \in 1..Len(l)
  /\ NonEmpty(l[n]) /\ l[n].start <= va
  /\ {e.va : e \in t} =
       {a \in VPages : \/ l[n].start <= a /\ a < va
                      \/ \E k \in (1..Len(l)) \ {n} : Covers(l[k], a)}
  /\ \A k \in (2..Len(l)) \ {n} : NonEmpty(l[k]) => FirstFrame(t, l[k])
  /\ \/ n = 1 \/ FirstFrame(t, l[n])
     \/ va = l[n].start /\ (pg = None \/ l[n].pa = pg)

\* Inside the mapping loop of sys_mmap.
MmapLoop(p) ==
  LET va == loc[p].va  end == loc[p].end
  IN  /\ Aligned(va) /\ Aligned(end + 1) /\ va <= end + 1
      /\ pc[p] = "mappages" => va < end
      /\ \/ Doomed(pte[p], va, end)
         \/ /\ Partly(list[p], pte[p], New(p), va, loc[p].page)
            /\ end = list[p][New(p)].end

\* About to map the guard page of node loc.k.
Growing(p) ==
  /\ Tidy(list[p], pte[p])
  /\ loc[p].k \in 2..Len(list[p])
  /\ loc[p].va = list[p][loc[p].k].end + 1

InMmap(p) ==
  \/ pc[p] = "mmap"
  \/ pc[p] = "mappages" /\ loc[p].op = "mmap"

InGrow(p) == pc[p] = "mappages" /\ loc[p].op = "grow"

InFork(p) ==
  \/ pc[p] = "fork"
  \/ pc[p] = "mappages" /\ loc[p].op = "fork"

\* A process that did its own exec() and will go on running.
Live(p) == own[p] /\ st[p] = "RUN" /\ ~ killed[p]

ListOK(p) ==
  Live(p) => IF InMmap(p) THEN MmapLoop(p)
             ELSE IF InGrow(p) THEN Growing(p)
             ELSE Tidy(list[p], pte[p])

\* What holds of every slot, whoever uses it: the head never has a guard page
\* (exec() keeps its guardstart), a handler maps into its own page table or,
\* in fork(), into that of a child nobody else touches.
SlotOK(p) ==
  /\ list[p] # <<>> => list[p][1].guardstart \in {0, JUNK, NOGUARD}
  /\ InMmap(p) \/ InGrow(p) => loc[p].q = p
  /\ InGrow(p) => loc[p].k # 1
  /\ pc[p] = "fault" => loc[p].q = p /\ loc[p].va \in Nat
  /\ InFork(p) => /\ st[loc[p].q] = "EMBRYO"
                  /\ parent[loc[p].q] = p
                  /\ ~ own[loc[p].q]

ListInv == \A p \in Procs : SlotOK(p) /\ ListOK(p)
===========================================================================
