--------------------------------- MODULE Vm ---------------------------------
(***************************************************************************)
(* The memory of a process below p->sz: allocuvm(), deallocuvm(),          *)
(* copyuvm() and freevm() of vm.c under sbrk(), fork(), exec(), exit() and *)
(* wait(), with kalloc() failing when the pages run out.                   *)
(*                                                                         *)
(* Addresses count units: a header of umalloc.c takes one, an int IntSize  *)
(* of them.  A step is one turn of a loop that calls kalloc(), with the    *)
(* page for a table where mappages() needs one, since another process may  *)
(* take pages between the turns.  setupkvm() is one step, with allocproc() *)
(* before it in fork(), and so is freeing.                                 *)
(***************************************************************************)
EXTENDS Integers, Sequences, FiniteSets, FiniteSetsExt

CONSTANTS
  Procs, First,   \* processes; the one that runs at first
  PGSIZE,         \* units of a page
  KERNBASE,       \* the user addresses are below
  Word,           \* addresses are computed modulo Word
  NPT,            \* pages a page table maps
  IntSize,        \* units of an int
  NPAGES,         \* physical pages, numbered from 1
  Deltas,         \* arguments of sbrk()
  Images,         \* programs: sequences of segments <<vaddr, memsz>>
  ArgLens,        \* units that the arguments of exec() take on the stack
  MaxCalls        \* bound: calls made altogether

ASSUME VmAssumption ==
  /\ PGSIZE \in Nat \ {0} /\ NPT \in Nat \ {0}
  /\ KERNBASE \in Nat /\ KERNBASE % PGSIZE = 0 /\ 2 * KERNBASE <= Word

VARIABLES
  free,     \* pages on kmem.freelist
  mem,      \* of every process: its page directory
  new,      \* of every process: the page directory it builds
  kstack,   \* of every process: its kernel stack
  sz,       \* of every process: p->sz
  loc,      \* of every process: the call it is in
  calls

vmVars == <<free, mem, new, kstack, sz, loc, calls>>

VPages == 0..((KERNBASE \div PGSIZE) - 1)
Tabs == {v \div NPT : v \in VPages}
PGROUNDUP(a) == ((a + PGSIZE - 1) \div PGSIZE) * PGSIZE
Below(a) == {v \in VPages : v * PGSIZE < a}

\* dir, kern: the directory and the tables of the kernel's half; tab: page
\* tables; pg: the mapped pages; guard: the pages without PTE_U.
NoDir == [dir |-> 0, kern |-> 0, tab |-> [t \in Tabs |-> 0],
          pg |-> [v \in VPages |-> 0], guard |-> {}]

PagesOf(d) ==
  ({d.dir, d.kern} \cup {d.tab[t] : t \in Tabs} \cup {d.pg[v] : v \in VPages})
  \ {0}

\* pc: the next step; a, top, old: the loop of allocuvm() and copyuvm();
\* then: where it returns to; segs: what exec() has still to load; child:
\* the process fork() makes; want: the units malloc() wants.
User == [pc |-> "user", a |-> 0, top |-> 0, old |-> 0, then |-> "none",
         segs |-> <<>>, child |-> First, want |-> 0]
Unused == [User EXCEPT !.pc = "unused"]

At(p, pc) == loc[p].pc = pc
Goto(p, l) == loc' = [loc EXCEPT ![p] = l]

(***************************************************************************)
(* Page directories.                                                       *)
(***************************************************************************)
\* setupkvm() takes two pages, or none.
Setupkvm(fr) ==
  IF Cardinality(fr) < 2 THEN [ok |-> FALSE, free |-> fr, d |-> NoDir]
  ELSE LET f == Min(fr)
           g == Min(fr \ {f})
       IN  [ok |-> TRUE, free |-> fr \ {f, g},
            d |-> [NoDir EXCEPT !.dir = f, !.kern = g]]

\* Mutant: the page is not given back when there is none for its table.
MapNewKeeps(d, fr, v) ==
  LET f == Min(fr)
      t == v \div NPT
      g == Min(fr \ {f})
  IN  IF fr = {} THEN [ok |-> FALSE, free |-> fr, d |-> d]
      ELSE IF d.tab[t] # 0
      THEN [ok |-> TRUE, free |-> fr \ {f}, d |-> [d EXCEPT !.pg[v] = f]]
      ELSE IF fr = {f} THEN [ok |-> FALSE, free |-> {}, d |-> d]
      ELSE [ok |-> TRUE, free |-> fr \ {f, g},
            d |-> [d EXCEPT !.pg[v] = f, !.tab[t] = g]]

\* A page from kalloc(), mapped at v by mappages(), which may need a page for
\* the table; without that the first one is given back.
MapNew(d, fr, v) ==
  LET f == Min(fr)
      t == v \div NPT
      g == Min(fr \ {f})
  IN  IF fr = {} THEN [ok |-> FALSE, free |-> fr, d |-> d]
      ELSE IF d.tab[t] # 0
      THEN [ok |-> TRUE, free |-> fr \ {f}, d |-> [d EXCEPT !.pg[v] = f]]
      ELSE IF fr = {f} THEN [ok |-> FALSE, free |-> fr, d |-> d]
      ELSE [ok |-> TRUE, free |-> fr \ {f, g},
            d |-> [d EXCEPT !.pg[v] = f, !.tab[t] = g]]

\* Mutant: the page that holds the new end is freed too.
DeallocuvmDown(d, oldsz, newsz) ==
  LET gone == {v \in Below(oldsz) : v >= newsz \div PGSIZE /\ d.pg[v] # 0}
  IN  [freed |-> {d.pg[v] : v \in gone},
       d |-> [d EXCEPT !.pg = [v \in VPages |-> IF v \in gone THEN 0 ELSE @[v]],
                       !.guard = @ \ gone]]

\* The pages from newsz up to oldsz are freed, their tables stay.
Deallocuvm(d, oldsz, newsz) ==
  LET gone == {v \in Below(oldsz) : v * PGSIZE >= newsz /\ d.pg[v] # 0}
  IN  [freed |-> {d.pg[v] : v \in gone},
       d |-> [d EXCEPT !.pg = [v \in VPages |-> IF v \in gone THEN 0 ELSE @[v]],
                       !.guard = @ \ gone]]

\* freevm() of the directory p builds, and back to user space.
Bad(p) ==
  /\ free' = free \cup PagesOf(new[p])
  /\ new' = [new EXCEPT ![p] = NoDir]
  /\ Goto(p, User)

(***************************************************************************)
(* allocuvm(), for sbrk() in mem[p] and for exec() in new[p].              *)
(***************************************************************************)
Building(p) == loc[p].then \in {"load", "stack"}

AllocPage(p) ==
  LET l == loc[p]
      d == IF Building(p) THEN new[p] ELSE mem[p]
      m == MapNew(d, free, l.a \div PGSIZE)
      u == Deallocuvm(m.d, l.top, l.old)
  IN  /\ At(p, "alloc") /\ l.a < l.top
      /\ IF m.ok
         THEN /\ free' = m.free
              /\ IF Building(p)
                 THEN new' = [new EXCEPT ![p] = m.d] /\ UNCHANGED mem
                 ELSE mem' = [mem EXCEPT ![p] = m.d] /\ UNCHANGED new
              /\ Goto(p, [l EXCEPT !.a = @ + PGSIZE])
         ELSE IF Building(p) THEN Bad(p) /\ UNCHANGED mem
         ELSE /\ free' = m.free \cup u.freed
              /\ mem' = [mem EXCEPT ![p] = u.d]
              /\ Goto(p, User)
              /\ UNCHANGED new
      /\ UNCHANGED <<kstack, sz, calls>>

\* allocuvm() returns the new size, which growproc() stores; malloc() goes on
\* with the new memory.
Grown(p) ==
  LET l == loc[p]
  IN  /\ At(p, "alloc") /\ l.a >= l.top
      /\ IF Building(p) THEN UNCHANGED sz ELSE sz' = [sz EXCEPT ![p] = l.top]
      /\ Goto(p, IF l.then = "user" THEN User ELSE [l EXCEPT !.pc = l.then])
      /\ UNCHANGED <<free, mem, new, kstack, calls>>

\* allocuvm(pgdir, oldsz, newsz) for p, with newsz below KERNBASE.
Alloc(l, oldsz, newsz, then) ==
  [l EXCEPT !.pc = "alloc", !.a = PGROUNDUP(oldsz), !.old = oldsz,
            !.top = IF newsz < oldsz THEN oldsz ELSE newsz, !.then = then]

(***************************************************************************)
(* sbrk().                                                                 *)
(***************************************************************************)
Grow(p, n) ==
  /\ n > 0 /\ sz[p] + n < KERNBASE
  /\ Goto(p, Alloc(loc[p], sz[p], sz[p] + n, "user"))
  /\ UNCHANGED <<free, mem, sz>>

\* sz + n is computed modulo Word.  A size of 0 is an error for growproc(),
\* which leaves p->sz.  A program that has lost its code or its stack, the page
\* after the guard page, can only fault.
Shrink(p, n) ==
  LET top == (sz[p] + n) % Word
      u   == Deallocuvm(mem[p], sz[p], top)
      cut == top = 0 \/ \E v \in mem[p].guard : u.d.pg[v + 1] = 0
  IN  /\ n < 0
      /\ IF top >= sz[p] THEN UNCHANGED <<free, mem, sz, loc>>
         ELSE /\ free' = free \cup u.freed
              /\ mem' = [mem EXCEPT ![p] = u.d]
              /\ sz' = [sz EXCEPT ![p] = IF top = 0 THEN @ ELSE top]
              /\ Goto(p, [User EXCEPT !.pc = IF cut THEN "faults" ELSE @])

Sbrk(p, n) ==
  /\ At(p, "user") /\ calls < MaxCalls
  /\ Grow(p, n) \/ Shrink(p, n)
  /\ calls' = calls + 1
  /\ UNCHANGED <<new, kstack>>

(***************************************************************************)
(* fork().                                                                 *)
(***************************************************************************)
\* allocproc() takes a kernel stack, copyuvm() starts.
ForkStart(p) ==
  \E q \in Procs :
    /\ At(p, "user") /\ calls < MaxCalls
    /\ loc[q].pc = "unused"
    /\ calls' = calls + 1
    /\ LET fr == free \ {Min(free)}
           k  == Setupkvm(fr)
       IN  IF free = {} \/ ~ k.ok THEN UNCHANGED <<free, new, kstack, loc>>
           ELSE /\ free' = k.free
                /\ kstack' = [kstack EXCEPT ![q] = Min(free)]
                /\ new' = [new EXCEPT ![p] = k.d]
                /\ loc' = [loc EXCEPT
                     ![p] = [User EXCEPT !.pc = "copy", !.child = q],
                     ![q] = [Unused EXCEPT !.pc = "embryo"]]
    /\ UNCHANGED <<mem, sz>>

\* copyuvm() frees what it has, fork() the kernel stack.
CopyFailed(p) ==
  /\ free' = free \cup PagesOf(new[p]) \cup {kstack[loc[p].child]}
  /\ new' = [new EXCEPT ![p] = NoDir]
  /\ kstack' = [kstack EXCEPT ![loc[p].child] = 0]
  /\ loc' = [loc EXCEPT ![p] = User, ![loc[p].child] = Unused]

\* One page is copied, with its flags.  The page is there (Mapped).
CopyPage(p) ==
  LET l == loc[p]
      v == l.a \div PGSIZE
      m == MapNew(new[p], free, v)
  IN  /\ At(p, "copy") /\ l.a < sz[p]
      /\ IF m.ok
         THEN /\ free' = m.free
              /\ new' = [new EXCEPT ![p] =
                   [m.d EXCEPT !.guard = @ \cup (mem[p].guard \cap {v})]]
              /\ Goto(p, [l EXCEPT !.a = @ + PGSIZE])
              /\ UNCHANGED kstack
         ELSE CopyFailed(p)
      /\ UNCHANGED <<mem, sz, calls>>

\* The child is ready.
ForkEnd(p) ==
  LET q == loc[p].child
  IN  /\ At(p, "copy") /\ loc[p].a >= sz[p]
      /\ mem' = [mem EXCEPT ![q] = new[p]]
      /\ new' = [new EXCEPT ![p] = NoDir]
      /\ sz' = [sz EXCEPT ![q] = sz[p]]
      /\ loc' = [loc EXCEPT ![p] = User, ![q] = User]
      /\ UNCHANGED <<free, kstack, calls>>

(***************************************************************************)
(* exec().                                                                 *)
(***************************************************************************)
ExecStart(p, image) ==
  LET k == Setupkvm(free)
  IN  /\ At(p, "user") /\ calls < MaxCalls
      /\ calls' = calls + 1
      /\ IF ~ k.ok THEN UNCHANGED <<free, new, loc>>
         ELSE /\ free' = k.free
              /\ new' = [new EXCEPT ![p] = k.d]
              /\ Goto(p, [User EXCEPT !.pc = "segs", !.segs = image])
      /\ UNCHANGED <<mem, kstack, sz>>

\* The next segment, or the two pages for the stack; top is the size so far.
\* A size of 0 or from KERNBASE is an error.
ExecSegs(p) ==
  LET l    == loc[p]
      last == l.segs = <<>>
      from == IF last THEN PGROUNDUP(l.top) ELSE l.top
      to   == IF last THEN from + 2 * PGSIZE
              ELSE l.segs[1][1] + l.segs[1][2]
  IN  /\ At(p, "segs")
      /\ IF to >= KERNBASE \/ (to = 0 /\ from = 0) THEN Bad(p)
         ELSE /\ Goto(p, Alloc(l, from, to, IF last THEN "stack" ELSE "load"))
              /\ UNCHANGED <<free, new>>
      /\ UNCHANGED <<mem, kstack, sz, calls>>

\* After allocuvm() the segment is loaded, which fails if its address is not
\* aligned or the file is too short.
ExecLoad(p) ==
  LET l == loc[p]
  IN  /\ At(p, "load")
      /\ \/ Bad(p)
         \/ /\ l.segs[1][1] % PGSIZE = 0
            /\ Goto(p, [l EXCEPT !.pc = "segs", !.segs = Tail(@)])
            /\ UNCHANGED <<free, new>>
      /\ UNCHANGED <<mem, kstack, sz, calls>>

\* copyout(): every page the units are on must be there for user code.
Copyout(d, va, len) ==
  \A a \in va..(va + len - 1) :
    d.pg[a \div PGSIZE] # 0 /\ (a \div PGSIZE) \notin d.guard

\* clearpteu() makes the guard page, the arguments are pushed above it if they
\* fit, and the old memory is freed.
ExecStack(p) ==
  LET l == loc[p]
      d == [new[p] EXCEPT !.guard = {(l.top \div PGSIZE) - 2}]
  IN  /\ At(p, "stack")
      /\ \E n \in ArgLens :
           IF ~ Copyout(d, l.top - n, n) THEN Bad(p) /\ UNCHANGED <<mem, sz>>
           ELSE /\ free' = free \cup PagesOf(mem[p])
                /\ mem' = [mem EXCEPT ![p] = d]
                /\ new' = [new EXCEPT ![p] = NoDir]
                /\ sz' = [sz EXCEPT ![p] = l.top]
                /\ Goto(p, User)
      /\ UNCHANGED <<kstack, calls>>

(***************************************************************************)
(* exit(), by the program or after a fault, and wait() in the parent (Proc *)
(* has who waits when).                                                    *)
(***************************************************************************)
\* The pages below p->sz go back, the page tables stay.
Exit(p) ==
  LET u == Deallocuvm(mem[p], sz[p], 0)
  IN  /\ \/ At(p, "user") /\ calls < MaxCalls
         \/ At(p, "faults")
      /\ calls' = IF At(p, "user") THEN calls + 1 ELSE calls
      /\ free' = free \cup u.freed
      /\ mem' = [mem EXCEPT ![p] = u.d]
      /\ Goto(p, [User EXCEPT !.pc = "zombie"])
      /\ UNCHANGED <<new, kstack, sz>>

\* freevm() frees what is still mapped and the page tables.
Wait(p) ==
  /\ At(p, "zombie")
  /\ free' = free \cup PagesOf(mem[p]) \cup {kstack[p]}
  /\ mem' = [mem EXCEPT ![p] = NoDir]
  /\ kstack' = [kstack EXCEPT ![p] = 0]
  /\ Goto(p, Unused)
  /\ UNCHANGED <<new, sz, calls>>

(***************************************************************************)
(* The first process: userinit() gives it one page.                        *)
(***************************************************************************)
Inituvm(d, fr) == MapNew(d, fr, 0)

VmInit ==
  LET k == Setupkvm((1..NPAGES) \ {1})
      m == Inituvm(k.d, k.free)
  IN  /\ free = m.free
      /\ mem = [p \in Procs |-> IF p = First THEN m.d ELSE NoDir]
      /\ new = [p \in Procs |-> NoDir]
      /\ kstack = [p \in Procs |-> IF p = First THEN 1 ELSE 0]
      /\ sz = [p \in Procs |-> IF p = First THEN PGSIZE ELSE 0]
      /\ loc = [p \in Procs |-> IF p = First THEN User ELSE Unused]
      /\ calls = 0

(***************************************************************************)
(* What the kernel takes from p in a system call: an int at addr, a string *)
(* at addr with its nul len units on, size units at i.                     *)
(***************************************************************************)
\* Mutant: only the first unit of the int is tested.
FetchintFirst(p, addr) == addr < sz[p]

Fetchint(p, addr) == addr < sz[p] /\ (addr + IntSize) % Word <= sz[p]

Fetchstr(p, addr, len) == addr < sz[p] /\ addr + len < sz[p]

Argptr(p, i, size) == size >= 0 /\ i < sz[p] /\ (i + size) % Word <= sz[p]
=============================================================================
