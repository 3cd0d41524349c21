------------------------------- MODULE Vma -------------------------------
(***************************************************************************)
(* The per-process list of virtual memory areas (struct vm_area in         *)
(* proc.h) as pure operators: the searches sys_mmap makes for a place, the *)
(* node create_vma builds and links, the reset exec() performs and the     *)
(* decision the page-fault handler of trap.c takes.                        *)
(*                                                                         *)
(* A list is the sequence of the nodes from p->head on; p->tail (start =   *)
(* MAX_ADDR, never written after exec) is implicit behind the last one.    *)
(* The empty sequence stands for a p->head that no exec() has initialised: *)
(* zeroed memory whose next pointer is null.                               *)
(*                                                                         *)
(* Addresses are bytes of a scaled-down address space.  MAX_ADDR is also   *)
(* KERNBASE, 2^31 in the code, so a uint is a number below 2 * MAX_ADDR.   *)
(***************************************************************************)
EXTENDS Integers, Sequences

CONSTANTS
  PGSIZE,      \* bytes in a page
  MIN_ADDR,    \* first address mmap hands out (mmap.h)
  MAX_ADDR,    \* first address above the mmap area (mmap.h), = KERNBASE
  NoPage       \* a vm_area.pa that is no page: zero, or junk left by kfree

ASSUME LayoutAssumption ==
  /\ PGSIZE \in Nat \ {0, 1}
  /\ MIN_ADDR \in Nat
  /\ MAX_ADDR \in Nat
  /\ 4 * PGSIZE < MIN_ADDR
  /\ MIN_ADDR < MAX_ADDR
  /\ MIN_ADDR % PGSIZE = 0
  /\ MAX_ADDR % PGSIZE = 0

WORD == 2 * MAX_ADDR

uint(x) == x % WORD

int(x) == IF uint(x) >= MAX_ADDR THEN uint(x) - WORD ELSE uint(x)

PGROUNDUP(x) == LET y == uint(x + PGSIZE - 1) IN y - (y % PGSIZE)

\* (uint) -1, what "no guard page" is written as
NOGUARD == WORD - 1

\* The bytes kfree() fills a page with: a small non-zero number, read back
\* from the fields create_vma does not set.
JUNK == 1

VPages == {va \in MIN_ADDR..(MAX_ADDR - 1) : va % PGSIZE = 0}

FlagNames == {"FIXED", "SHARED", "PRIVATE", "GROWSUP"}

(***************************************************************************)
(* Walking the list.                                                       *)
(***************************************************************************)
NextStart(l, k) == IF k < Len(l) THEN l[k + 1].start ELSE MAX_ADDR

\* The nodes a "while (curr->start != MAX_ADDR)" loop gets to.
Visited(l) == {k \in 1..Len(l) : \A j \in 1..k : l[j].start # MAX_ADDR}

\* The node a loop with a break stops at, 0 when it runs to the tail.
FirstOf(S) ==
  LET first == {k \in S : \A j \in S : k <= j}
  IN  IF first = {} THEN 0 ELSE CHOOSE k \in first : TRUE

Covers(vma, a) == vma.start <= a /\ a <= vma.end

\* The pages a "for (i = start; i < end; i += PGSIZE)" loop touches.
PagesOf(vma) == {va \in VPages : Covers(vma, va)}

(***************************************************************************)
(* sys_mmap, MAP_FIXED: the node behind which the new one is linked, 0     *)
(* when the call returns -1.                                               *)
(***************************************************************************)
FixedSlot(l, addr, length) ==
  LET stop == {i \in Visited(l) :
                 \/ Covers(l[i], addr)
                 \/ addr < NextStart(l, i) /\ l[i].space_after > length}
      k == FirstOf(stop)
  IN  IF \/ addr % PGSIZE # 0 \/ addr < MIN_ADDR \/ addr >= MAX_ADDR
         \/ k > 0 /\ Covers(l[k], addr)
      THEN 0
      ELSE k

\* sys_mmap without MAP_FIXED: first fit.
AnySlot(l, length) ==
  FirstOf({k \in Visited(l) : l[k].space_after > length})

\* The fields create_vma fills in; pa and guardstart keep the page's junk.
create_vma(l, k, start, length, prot, flags) ==
  LET end == uint(PGROUNDUP(start + length) - 1)
  IN  [valid |-> TRUE, start |-> start, end |-> end, pa |-> NoPage,
       guardstart |-> JUNK, prot |-> prot, flags |-> flags,
       space_after |-> int(NextStart(l, k) - end)]

\* p->head = *new_vma, taken only under MAP_FIXED: the copy replaces the
\* head and the node itself is left unlinked.
ReplacesHead(vma, flags) == "FIXED" \in flags /\ vma.start = MIN_ADDR

\* The list once the new node is linked behind node k.
Linked(l, k, vma, length) ==
  LET rest == SubSeq(l, k + 1, Len(l))
  IN  IF ReplacesHead(vma, vma.flags)
      THEN <<vma>> \o rest
      ELSE [SubSeq(l, 1, k) EXCEPT ![k].space_after = int(@ - length)]
             \o <<vma>> \o rest

(***************************************************************************)
(* The guard pages at the end of sys_mmap.  The guard that is dropped is   *)
(* the one of prev_vma, the node before the one the search stopped at, and *)
(* the test compares it with that node, not with the new one.              *)
(***************************************************************************)
DropPrevGuard(l, k) ==
  LET prev == IF k = 1 THEN 1 ELSE k - 1
  IN  IF /\ "GROWSUP" \in l[prev].flags
         /\ uint(l[prev].guardstart + PGSIZE) = l[k].start
      THEN [l EXCEPT ![prev].guardstart = NOGUARD]
      ELSE l

RoomForGuard(l, n) == uint(NextStart(l, n) - (l[n].end + 1)) >= PGSIZE

\* Mutant: the guard page is put at the last byte of the area.
SetGuardEarly(l, n) ==
  IF "GROWSUP" \in l[n].flags /\ RoomForGuard(l, n)
  THEN [l EXCEPT ![n].guardstart = l[n].end]
  ELSE l

SetGuard(l, n) ==
  IF "GROWSUP" \in l[n].flags /\ RoomForGuard(l, n)
  THEN [l EXCEPT ![n].guardstart = l[n].end + 1]
  ELSE l

(***************************************************************************)
(* The page-fault handler: the first node at which the walk of the list    *)
(* breaks out of the loop, and what it does there.                         *)
(***************************************************************************)
InGuard(vma, a) ==
  /\ "GROWSUP" \in vma.flags
  /\ vma.guardstart > 0
  /\ a >= vma.guardstart
  /\ a <= uint(vma.guardstart + PGSIZE - 1)

\* Mutant: a fault behind an area without MAP_GROWSUP is not recognised.
SegfaultsGrowing(l, k, a) ==
  "GROWSUP" \in l[k].flags /\ ~ InGuard(l[k], a) /\ a < NextStart(l, k)

Segfaults(l, k, a) ==
  /\ ~ InGuard(l[k], a)
  /\ IF "GROWSUP" \in l[k].flags
     THEN l[k].guardstart > 0 => a < NextStart(l, k)
     ELSE a > l[k].end /\ a < NextStart(l, k)

\* 0: the loop runs to the tail, nothing is mapped and nobody is killed.
FaultSlot(l, a) ==
  FirstOf({k \in Visited(l) : InGuard(l[k], a) \/ Segfaults(l, k, a)})

\* Mutant: curr->end is not moved.
GrownInPlace(l, k) == [l EXCEPT ![k].guardstart = l[k].end + PGSIZE + 1]

\* The node after its guard page has been mapped.
Grown(l, k) ==
  LET end == l[k].end + PGSIZE
  IN  [l EXCEPT ![k].end = end,
                ![k].guardstart =
                   IF uint(NextStart(l, k) - (end + 1)) < 2 * PGSIZE
                   THEN NOGUARD ELSE end + 1]

(***************************************************************************)
(* exec(): head and tail are made an empty list; flags, prot, pa and       *)
(* guardstart of the head keep what the previous image left there.         *)
(***************************************************************************)
ZeroHead ==
  [valid |-> FALSE, start |-> 0, end |-> 0, pa |-> NoPage, guardstart |-> 0,
   prot |-> "none", flags |-> {}, space_after |-> 0]

EmptyList(l) ==
  LET head == IF l = <<>> THEN ZeroHead ELSE l[1]
  IN  <<[head EXCEPT !.valid = FALSE, !.start = MIN_ADDR, !.end = MIN_ADDR - 1,
                     !.space_after = MAX_ADDR - MIN_ADDR]>>
===========================================================================
